--------------------------- MODULE EventEnvelope ---------------------------
(***************************************************************************)
(* The event codec of the outbox: the columns the writer stores for a fact *)
(* an aggregate recorded, and the fact the dispatcher rebuilds from them.  *)
(* A fact is a class of event, the scope that owns it, the aggregate it is *)
(* about and a payload.                                                    *)
(***************************************************************************)

CONSTANT Nobody    \* a null owner column

\* An event class: which aggregate, and what happened to it.
Class(aggregate, change) == [aggregate |-> aggregate, change |-> change]

Classes == [aggregate : {"item", "note", "ticket", "announcement"},
            change : {"created", "renamed"}]

\* The constant type of each class, and so the type column of its events.
EventType(class) ==
    CASE class = Class("announcement", "created") -> "sample.AnnouncementCreated"
      [] class = Class("announcement", "renamed") -> "sample.AnnouncementRenamed"
      [] class = Class("ticket", "created")       -> "sample.TicketCreated"
      [] class = Class("ticket", "renamed")       -> "sample.TicketRenamed"
      [] class = Class("note", "created")         -> "sample.NoteCreated"
      [] class = Class("note", "renamed")         -> "sample.NoteRenamed"
      [] class = Class("item", "created")         -> "sample.ItemCreated"
      [] class = Class("item", "renamed")         -> "sample.ItemRenamed"

RegisteredTypes ==
    {"sample.AnnouncementCreated", "sample.AnnouncementRenamed",
     "sample.TicketCreated", "sample.TicketRenamed", "sample.NoteCreated",
     "sample.NoteRenamed", "sample.ItemCreated", "sample.ItemRenamed"}

\* Broken: two registrations copied and not adapted, so that a rename comes
\* back as an instance of the creation's class.
MiswiredRehydrator(type) ==
    CASE type = "sample.AnnouncementCreated" -> Class("announcement", "created")
      [] type = "sample.AnnouncementRenamed" -> Class("announcement", "created")
      [] type = "sample.TicketCreated"       -> Class("ticket", "created")
      [] type = "sample.TicketRenamed"       -> Class("ticket", "created")
      [] type = "sample.NoteCreated"         -> Class("note", "created")
      [] type = "sample.NoteRenamed"         -> Class("note", "renamed")
      [] type = "sample.ItemCreated"         -> Class("item", "created")
      [] type = "sample.ItemRenamed"         -> Class("item", "renamed")

\* The registry: the class whose instance is built for a registered type.
Rehydrator(type) ==
    CASE type = "sample.AnnouncementCreated" -> Class("announcement", "created")
      [] type = "sample.AnnouncementRenamed" -> Class("announcement", "renamed")
      [] type = "sample.TicketCreated"       -> Class("ticket", "created")
      [] type = "sample.TicketRenamed"       -> Class("ticket", "renamed")
      [] type = "sample.NoteCreated"         -> Class("note", "created")
      [] type = "sample.NoteRenamed"         -> Class("note", "renamed")
      [] type = "sample.ItemCreated"         -> Class("item", "created")
      [] type = "sample.ItemRenamed"         -> Class("item", "renamed")

ClubScope(club)           == [kind |-> "club", owner |-> club]
ExhibitorScope(principal) == [kind |-> "exhibitor", owner |-> principal]
PlatformScope             == [kind |-> "platform", owner |-> Nobody]

\* Broken: an exhibitor's event loses its owner.
ClubColumnOnly(scope) ==
    [club |-> IF scope.kind = "club" THEN scope.owner ELSE Nobody, principal |-> Nobody]

\* scopeToOwnerColumns, of an event's own scope.
OwnerColumns(scope) ==
    [club      |-> IF scope.kind = "club" THEN scope.owner ELSE Nobody,
     principal |-> IF scope.kind = "exhibitor" THEN scope.owner ELSE Nobody]

\* The row PgOutboxWriter inserts for a fact.
OutboxColumns(fact) ==
    [type |-> EventType(fact.class), scope |-> fact.scope.kind,
     club |-> OwnerColumns(fact.scope).club, principal |-> OwnerColumns(fact.scope).principal,
     aggregate |-> fact.aggregate, payload |-> fact.payload]

-----------------------------------------------------------------------------
\* A thrown error, where a value was expected.
Rejected(error) == [error |-> error]
Accepted(value) == "error" \notin DOMAIN value

AsEventScope(kind, club, principal) ==
    CASE kind = "club" /\ club # Nobody /\ principal = Nobody      -> ClubScope(club)
      [] kind = "exhibitor" /\ club = Nobody /\ principal # Nobody -> ExhibitorScope(principal)
      [] kind = "platform" /\ club = Nobody /\ principal = Nobody  -> PlatformScope
      [] OTHER                                                     -> Rejected("TypeError")

HasName(payload) == "name" \in DOMAIN payload

\* rehydrateDomainEvent: the owner columns are judged before the type is
\* looked up, and the payload last, by the registered rehydrator.
Rehydrate(row) ==
    LET scope == AsEventScope(row.scope, row.club, row.principal) IN
    IF ~Accepted(scope) THEN scope
    ELSE IF row.type \notin RegisteredTypes THEN Rejected("UnregisteredDomainEventType")
    ELSE IF ~HasName(row.payload) THEN Rejected("InvalidDomainEventEnvelope")
    ELSE [class |-> Rehydrator(row.type), scope |-> scope,
          aggregate |-> row.aggregate, payload |-> row.payload]
=============================================================================
