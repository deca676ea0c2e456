-------------------------- MODULE InMemoryUnitOfWork --------------------------
(***************************************************************************)
(* The in-memory unit of work (FakeSampleUnitOfWork; FakeIamUnitOfWork has *)
(* the same store without the gate).  One Map holds the committed rows.  A *)
(* run writes into it at once, and a run whose body throws puts back what  *)
(* RollbackTrackedMap remembered.  Bodies belong to the callers, so a run  *)
(* makes any sequence of port calls, catches what they reject with or not, *)
(* and resolves or throws.  Each port call runs without interruption; runs *)
(* interleave wherever a body awaits.                                      *)
(***************************************************************************)
EXTENDS Naturals, FiniteSets

CONSTANTS
    Runs,       \* the calls of run
    Ids, Names,
    Absent,     \* no such row
    Unset,      \* no entry in the Map prior
    MaxWrites   \* bound: writes in a behaviour

ASSUME WritesAssumption == MaxWrites \in Nat

VARIABLES
    committed,  \* the Map of rows, shared by all runs
    pc,         \* where each run is
    copy,       \* the entities a body has in hand, found or added
    prior,      \* RollbackTrackedMap.prior of each run
    written,    \* RollbackTrackedMap.written of each run
    pending,    \* pendingFacts of each run
    recorded,   \* recordedEvents
    writes,     \* writes so far, at most MaxWrites
    gated,      \* which of the two it is: the sample context's has a gate
    overlapped  \* whether a run ever began while another was open; history

vars == <<committed, pc, copy, prior, written, pending, recorded, writes, gated, overlapped>>

\* A stored instance.  ref is its identity (===), by the run that wrote it;
\* base, the instance its writer had loaded, and over, the one it took the
\* place of, are history (0 for none).
Instance == [ref : 1..MaxWrites, by : Runs, base : 0..MaxWrites, over : 0..MaxWrites,
             name : Names, version : Nat \ {0}]
ASSUME NoRowAssumption == Absent \notin Instance /\ Unset \notin Instance /\ Unset # Absent
Row   == Instance \cup {Absent}
Facts == [id : Ids, ref : 1..MaxWrites]

TypeOK ==
    /\ committed \in [Ids -> Row]
    /\ pc \in [Runs -> {"new", "open", "rejected", "resolved", "thrown"}]
    /\ copy \in [Runs -> [Ids -> Row]]
    /\ prior \in [Runs -> [Ids -> Row \cup {Unset}]]
    /\ written \in [Runs -> [Ids -> Row]]
    /\ pending \in [Runs -> SUBSET Facts]
    /\ recorded \subseteq Facts
    /\ writes \in 0..MaxWrites
    /\ gated \in BOOLEAN /\ overlapped \in BOOLEAN

-----------------------------------------------------------------------------
(* Definitions marked Broken are variants with a bug that belongs to the   *)
(* code at hand; a check replaces a definition by one to see that a        *)
(* property notices.                                                       *)

Running == {r \in Runs : pc[r] \in {"open", "rejected"}}
Over    == {r \in Runs : pc[r] \in {"resolved", "thrown"}}

\* Broken: no gate.
NeverClosed(r) == r \in Over \/ pc[r] = "open"

\* The body, or a ctx that escaped it, gets through to the store.
MayCall(r) == pc[r] = "open" \/ (~gated /\ r \in Over)

Ref(row) == IF row = Absent THEN 0 ELSE row.ref

\* Broken: prior is overwritten by every write of the run.
RememberAlways(r, id) == prior' = [prior EXCEPT ![r][id] = committed[id]]

Remember(r, id) ==
    IF prior[r][id] = Unset \/ committed[id] # written[r][id]
    THEN prior' = [prior EXCEPT ![r][id] = committed[id]]
    ELSE UNCHANGED prior

\* The store takes a new instance, and the run its fact.
Write(r, id, name, version, base) ==
    LET new == [ref |-> writes + 1, by |-> r, base |-> base, over |-> Ref(committed[id]),
                name |-> name, version |-> version] IN
    /\ writes < MaxWrites
    /\ writes' = writes + 1
    /\ Remember(r, id)
    /\ committed' = [committed EXCEPT ![id] = new]
    /\ written' = [written EXCEPT ![r][id] = new]
    /\ pending' = [pending EXCEPT ![r] = @ \cup {[id |-> id, ref |-> new.ref]}]
    /\ UNCHANGED <<pc, recorded, gated, overlapped>>

\* The port call rejects; an escaped one rejects to nobody.
Reject(r) ==
    /\ pc[r] = "open"
    /\ pc' = [pc EXCEPT ![r] = "rejected"]
    /\ UNCHANGED <<committed, copy, prior, written, pending, recorded, writes, gated, overlapped>>

-----------------------------------------------------------------------------
Init ==
    /\ committed = [id \in Ids |-> Absent]
    /\ pc        = [r \in Runs |-> "new"]
    /\ copy      = [r \in Runs |-> [id \in Ids |-> Absent]]
    /\ prior     = [r \in Runs |-> [id \in Ids |-> Unset]]
    /\ written   = [r \in Runs |-> [id \in Ids |-> Absent]]
    /\ pending   = [r \in Runs |-> {}]
    /\ recorded  = {}
    /\ writes    = 0
    /\ gated \in BOOLEAN
    /\ overlapped = FALSE

Start(r) ==
    /\ pc[r] = "new"
    /\ pc' = [pc EXCEPT ![r] = "open"]
    /\ overlapped' = (overlapped \/ Running # {})
    /\ UNCHANGED <<committed, copy, prior, written, pending, recorded, writes, gated>>

FindById(r, id) ==
    /\ MayCall(r)
    /\ copy' = [copy EXCEPT ![r][id] = committed[id]]
    /\ UNCHANGED <<committed, pc, prior, written, pending, recorded, writes, gated, overlapped>>

\* tryAdd of a new entity; the body keeps the entity, whose version is the
\* stored one.
Add(r, id, name) ==
    /\ MayCall(r)
    /\ IF committed[id] # Absent THEN Reject(r)
       ELSE /\ Write(r, id, name, 1, 0)
            /\ copy' = [copy EXCEPT ![r][id] = committed'[id]]

\* Broken: no look at the stored version.
UpdateUnchecked(r, id, name) ==
    /\ MayCall(r)
    /\ copy[r][id] # Absent
    /\ Write(r, id, name, copy[r][id].version + 1, copy[r][id].ref)
    /\ UNCHANGED copy

\* tryUpdate of an entity the body renamed: the version it was loaded at must
\* be the stored one.  The entity itself stays at its old version.
Update(r, id, name) ==
    LET entity == copy[r][id] IN
    /\ MayCall(r)
    /\ entity # Absent
    /\ IF committed[id] = Absent \/ committed[id].version # entity.version THEN Reject(r)
       ELSE /\ Write(r, id, name, entity.version + 1, entity.ref)
            /\ UNCHANGED copy

\* The body catches the rejection and goes on.
Catch(r) ==
    /\ pc[r] = "rejected"
    /\ pc' = [pc EXCEPT ![r] = "open"]
    /\ UNCHANGED <<committed, copy, prior, written, pending, recorded, writes, gated, overlapped>>

\* The body resolves: its facts are stamped and recorded.
Resolve(r) ==
    /\ pc[r] = "open"
    /\ pc' = [pc EXCEPT ![r] = "resolved"]
    /\ recorded' = recorded \cup pending[r]
    /\ UNCHANGED <<committed, copy, prior, written, pending, writes, gated, overlapped>>

\* Broken: an unconditional restore.
RolledBackBlindly(r) ==
    [id \in Ids |-> IF prior[r][id] = Unset THEN committed[id] ELSE prior[r][id]]

\* rollback: compare and restore, key by key.
RolledBack(r) ==
    [id \in Ids |-> IF prior[r][id] = Unset \/ committed[id] # written[r][id]
                    THEN committed[id] ELSE prior[r][id]]

\* The body throws.
Throw(r) ==
    /\ r \in Running
    /\ pc' = [pc EXCEPT ![r] = "thrown"]
    /\ committed' = RolledBack(r)
    /\ UNCHANGED <<copy, prior, written, pending, recorded, writes, gated, overlapped>>

Next == \E r \in Runs :
    \/ Start(r) \/ Catch(r) \/ Resolve(r) \/ Throw(r)
    \/ \E id \in Ids : FindById(r, id)
    \/ \E id \in Ids, name \in Names : Add(r, id, name) \/ Update(r, id, name)

Spec == Init /\ [][Next]_vars

-----------------------------------------------------------------------------
\* "A later, already-committed attempt that built on top of it is left alone"
\* (fake-sample-unit-of-work.ts :43-50): no rollback takes away a row that a
\* resolved run wrote.
RollbackSparesResolved ==
    [][\A id \in Ids : committed[id] # Absent /\ pc[committed[id].by] = "resolved"
                       /\ committed'[id] # committed[id] => writes' # writes]_vars

\* A run that throws takes all it wrote out of the Map, however often it wrote
\* a key and whoever wrote it in between (remember, :56-60, rollback, :67-73).
RollbackErasesOwnWrites ==
    [][\A r \in Runs : pc[r] # "thrown" /\ pc'[r] = "thrown"
          => \A id \in Ids : committed'[id] # Absent => committed'[id].by # r]_vars

\* Behind the gate a row of a run that has thrown is there only because another
\* one that has thrown had found it there, and put it back (rollback, :67-73):
\* one throw alone, in whatever order runs write and resolve, leaves none.
RolledBackRowsAreRestored ==
    gated => \A id \in Ids : committed[id] # Absent /\ pc[committed[id].by] = "thrown" =>
        \E r \in Runs : /\ r # committed[id].by /\ pc[r] = "thrown"
                       /\ prior[r][id] = committed[id]

\* The version check keeps overlapping runs from overwriting what they have not
\* read, unless a run that wrote the key has thrown: a version it gave back is
\* given out again, and no longer tells two instances apart (:118-135, :67-73).
LostUpdateNeedsRollback ==
    gated => \A id \in Ids : committed[id] # Absent /\ committed[id].base # committed[id].over =>
        \E r \in Runs : pc[r] = "thrown" /\ written[r][id] # Absent

\* "A rolled-back attempt writes no rows" (:223, docs/adr/0027 :73).
RolledBackWritesNoRows ==
    \A id \in Ids : committed[id] # Absent => pc[committed[id].by] # "thrown"

\* "A stale version throws ConcurrentModificationError instead of silently
\* overwriting a concurrent change" (:118-120): an update takes the place of
\* the very instance its body had loaded.
NoLostUpdate ==
    \A id \in Ids : committed[id] # Absent => committed[id].base = committed[id].over

\* Each run was awaited before the next one began, and the ports have a gate.
Serial == gated /\ ~overlapped

\* Runs awaited one after the other are all or nothing, and none overwrites
\* what it has not read, whatever a ctx that escaped one tries (run, :314-341).
SerialRunsAreAtomic == Serial => RolledBackWritesNoRows /\ NoLostUpdate

FactsOf(id) == {f \in recorded : f.id = id}

\* Between such runs the rows and the recorded events tell one story: an event
\* for every version of a row, none for a row that is not there (:314-341).
RowsMatchEvents ==
    Serial /\ Running = {} => \A id \in Ids :
        IF committed[id] = Absent THEN FactsOf(id) = {}
        ELSE Cardinality(FactsOf(id)) = committed[id].version
=============================================================================
