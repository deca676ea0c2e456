------------------------ MODULE EventEnvelopeProofs ------------------------
(***************************************************************************)
(* The codec of EventEnvelope, for every owner, aggregate and payload: it  *)
(* gives back what was written, and accepts nothing else.                  *)
(***************************************************************************)
EXTENDS EventEnvelope, TLAPS

\* The scopes an aggregate can give a fact: an owner is never null.
EventScopesOf(Owners) ==
    [kind : {"club", "exhibitor"}, owner : Owners \ {Nobody}] \cup {PlatformScope}

FactsOf(Owners, Aggregates, Payloads) ==
    [class : Classes, scope : EventScopesOf(Owners), aggregate : Aggregates, payload : Payloads]

\* Types and classes correspond: each class is rebuilt from its own type.
LEMMA ClassOfItsType ==
    ASSUME NEW class \in Classes
    PROVE  EventType(class) \in RegisteredTypes /\ Rehydrator(EventType(class)) = class
<1>1. /\ class.aggregate \in {"item", "note", "ticket", "announcement"}
      /\ class.change \in {"created", "renamed"}
      /\ class = Class(class.aggregate, class.change)
  BY DEF Classes, Class
<1>. QED
  BY <1>1 DEF EventType, Rehydrator, RegisteredTypes, Class

\* The owner columns of a scope are read back as that scope.
LEMMA ScopeRoundTrip ==
    ASSUME NEW Owners, NEW scope \in EventScopesOf(Owners)
    PROVE  AsEventScope(scope.kind, OwnerColumns(scope).club, OwnerColumns(scope).principal) = scope
<1>1. CASE scope.kind = "club"
  BY <1>1 DEF EventScopesOf, OwnerColumns, AsEventScope, ClubScope, ExhibitorScope, PlatformScope
<1>2. CASE scope.kind = "exhibitor"
  BY <1>2 DEF EventScopesOf, OwnerColumns, AsEventScope, ClubScope, ExhibitorScope, PlatformScope
<1>3. CASE scope = PlatformScope
  BY <1>3 DEF OwnerColumns, AsEventScope, PlatformScope
<1>. QED
  BY <1>1, <1>2, <1>3 DEF EventScopesOf

\* A scope is not an error.
LEMMA ScopesAreAccepted ==
    ASSUME NEW Owners, NEW scope \in EventScopesOf(Owners)
    PROVE  Accepted(scope)
BY DEF EventScopesOf, Accepted, PlatformScope

\* The event a consumer gets is the fact the aggregate recorded
\* (pg-outbox-writer.ts :50-88 read back by domain-event-rehydration-registry.ts
\* :206-248), whoever owns it and whatever its payload, if that has a name.
THEOREM EnvelopeRoundTrip ==
    ASSUME NEW Owners, NEW Aggregates, NEW Payloads,
           NEW fact \in FactsOf(Owners, Aggregates, Payloads),
           HasName(fact.payload)
    PROVE  Rehydrate(OutboxColumns(fact)) = fact
<1>1. /\ fact.class \in Classes
      /\ fact.scope \in EventScopesOf(Owners)
      /\ fact = [class |-> fact.class, scope |-> fact.scope,
                 aggregate |-> fact.aggregate, payload |-> fact.payload]
  BY DEF FactsOf
<1>2. AsEventScope(fact.scope.kind, OwnerColumns(fact.scope).club,
                   OwnerColumns(fact.scope).principal) = fact.scope
  BY <1>1, ScopeRoundTrip
<1>3. Accepted(fact.scope)
  BY <1>1, ScopesAreAccepted
<1>4. EventType(fact.class) \in RegisteredTypes /\ Rehydrator(EventType(fact.class)) = fact.class
  BY <1>1, ClassOfItsType
<1>. QED
  BY <1>1, <1>2, <1>3, <1>4 DEF Rehydrate, OutboxColumns

-----------------------------------------------------------------------------
LEMMA TypeOfItsClass ==
    ASSUME NEW type \in RegisteredTypes
    PROVE  Rehydrator(type) \in Classes /\ EventType(Rehydrator(type)) = type
BY DEF RegisteredTypes, Rehydrator, Classes, EventType, Class

\* Owner columns that are accepted belong to exactly the scope they are read as.
LEMMA AcceptedColumns ==
    ASSUME NEW Owners, NEW kind, NEW club \in Owners \cup {Nobody},
           NEW principal \in Owners \cup {Nobody},
           Accepted(AsEventScope(kind, club, principal))
    PROVE  LET scope == AsEventScope(kind, club, principal) IN
           /\ scope \in EventScopesOf(Owners)
           /\ scope.kind = kind
           /\ OwnerColumns(scope) = [club |-> club, principal |-> principal]
<1>1. ~Accepted(Rejected("TypeError"))
  BY DEF Accepted, Rejected
<1>2. CASE kind = "club" /\ club # Nobody /\ principal = Nobody
  BY <1>2 DEF AsEventScope, EventScopesOf, OwnerColumns, ClubScope
<1>3. CASE kind = "exhibitor" /\ club = Nobody /\ principal # Nobody
  BY <1>3 DEF AsEventScope, EventScopesOf, OwnerColumns, ExhibitorScope
<1>4. CASE kind = "platform" /\ club = Nobody /\ principal = Nobody
  BY <1>4 DEF AsEventScope, EventScopesOf, OwnerColumns, PlatformScope
<1>. QED
  BY <1>1, <1>2, <1>3, <1>4 DEF AsEventScope

\* "A corrupt row must be rejected at the boundary rather than propagated as a
\* typed event" (event-scope.ts :96-97): whatever the columns of a row hold, if
\* it is rehydrated at all it is a row the writer writes, for just that fact.
THEOREM OnlyWrittenRowsAreRead ==
    ASSUME NEW Owners, NEW Aggregates, NEW Payloads, NEW Types, NEW Kinds,
           NEW row \in [type : Types, scope : Kinds, club : Owners \cup {Nobody},
                        principal : Owners \cup {Nobody}, aggregate : Aggregates,
                        payload : Payloads],
           Accepted(Rehydrate(row))
    PROVE  /\ Rehydrate(row) \in FactsOf(Owners, Aggregates, Payloads)
           /\ OutboxColumns(Rehydrate(row)) = row
<1> DEFINE scope == AsEventScope(row.scope, row.club, row.principal)
<1>1. row.club \in Owners \cup {Nobody} /\ row.principal \in Owners \cup {Nobody}
  OBVIOUS
<1>2. Accepted(scope) /\ row.type \in RegisteredTypes /\ HasName(row.payload)
  BY DEF Rehydrate, Accepted, Rejected
<1>3. Rehydrate(row) = [class |-> Rehydrator(row.type), scope |-> scope,
                        aggregate |-> row.aggregate, payload |-> row.payload]
  BY <1>2 DEF Rehydrate
<1>4. /\ scope \in EventScopesOf(Owners) /\ scope.kind = row.scope
      /\ OwnerColumns(scope) = [club |-> row.club, principal |-> row.principal]
  BY <1>1, <1>2, AcceptedColumns
<1>5. Rehydrator(row.type) \in Classes /\ EventType(Rehydrator(row.type)) = row.type
  BY <1>2, TypeOfItsClass
<1>6. Rehydrate(row) \in FactsOf(Owners, Aggregates, Payloads)
  BY <1>3, <1>4, <1>5 DEF FactsOf
<1>7. OutboxColumns(Rehydrate(row)) = row
  <2>1. /\ Rehydrate(row).class = Rehydrator(row.type) /\ Rehydrate(row).scope = scope
        /\ Rehydrate(row).aggregate = row.aggregate /\ Rehydrate(row).payload = row.payload
    BY <1>3
  <2>. QED
    BY <2>1, <1>4, <1>5 DEF OutboxColumns
<1>. QED
  BY <1>6, <1>7
=============================================================================
