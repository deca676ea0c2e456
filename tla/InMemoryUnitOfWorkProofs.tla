----------------------- MODULE InMemoryUnitOfWorkProofs -----------------------
(* Theorems about InMemoryUnitOfWork for any runs, rows and number of writes. *)
EXTENDS InMemoryUnitOfWork, FiniteSetTheorems, TLAPS

USE WritesAssumption, NoRowAssumption

-----------------------------------------------------------------------------
(* A step is one of three kinds: an instance is stored, a run is rolled     *)
(* back, or the rows are left alone.                                       *)

Stores(r, id, new) ==
    /\ MayCall(r)
    /\ new \in Instance /\ new.by = r /\ new.ref = writes + 1 /\ new.over = Ref(committed[id])
    /\ writes < MaxWrites /\ writes' = writes + 1
    /\ Remember(r, id)
    /\ committed' = [committed EXCEPT ![id] = new]
    /\ written' = [written EXCEPT ![r][id] = new]
    /\ pending' = [pending EXCEPT ![r] = @ \cup {[id |-> id, ref |-> new.ref]}]
    /\ UNCHANGED <<pc, recorded, gated, overlapped>>

\* By tryAdd, or by tryUpdate of a copy at the stored version.
StoresAdded(r, id, new) ==
    /\ Stores(r, id, new)
    /\ committed[id] = Absent /\ new.version = 1 /\ new.base = 0
    /\ copy' = [copy EXCEPT ![r][id] = new]

StoresUpdated(r, id, new) ==
    /\ Stores(r, id, new)
    /\ committed[id] # Absent /\ copy[r][id] # Absent
    /\ committed[id].version = copy[r][id].version
    /\ new.version = copy[r][id].version + 1 /\ new.base = copy[r][id].ref
    /\ UNCHANGED copy

LeavesRows == UNCHANGED <<committed, prior, written, pending, writes, gated>>

LEMMA StepsOfTheStore ==
  ASSUME TypeOK, Next
  PROVE  \/ \E r \in Runs, id \in Ids, new \in Instance :
               StoresAdded(r, id, new) \/ StoresUpdated(r, id, new)
         \/ \E r \in Runs : Throw(r)
         \/ LeavesRows /\ \E r \in Runs : Start(r) \/ Catch(r) \/ Resolve(r) \/ Reject(r)
                                            \/ \E id \in Ids : FindById(r, id)
<1> PICK r \in Runs :
       \/ Start(r) \/ Catch(r) \/ Resolve(r) \/ Throw(r)
       \/ \E id \in Ids : FindById(r, id)
       \/ \E id \in Ids, name \in Names : Add(r, id, name) \/ Update(r, id, name)
  BY DEF Next
<1>1. CASE Start(r) \/ Catch(r) \/ Resolve(r) \/ \E id \in Ids : FindById(r, id)
  BY <1>1 DEF Start, Catch, Resolve, FindById, LeavesRows
<1>2. CASE Throw(r)
  BY <1>2
<1>3. ASSUME Reject(r) PROVE LeavesRows
  BY <1>3 DEF Reject, LeavesRows
<1>4. ASSUME NEW id \in Ids, NEW name \in Names, Add(r, id, name), ~Reject(r)
      PROVE  \E new \in Instance : StoresAdded(r, id, new)
  <2> DEFINE new == [ref |-> writes + 1, by |-> r, base |-> 0, over |-> Ref(committed[id]),
                     name |-> name, version |-> 1]
  <2>1. committed[id] = Absent /\ Write(r, id, name, 1, 0) /\ copy' = [copy EXCEPT ![r][id] = committed'[id]]
          /\ MayCall(r)
    BY <1>4 DEF Add
  <2>2. writes \in Nat /\ writes + 1 \in 1..MaxWrites /\ Ref(committed[id]) \in 0..MaxWrites
    BY <2>1 DEF TypeOK, Write, Ref
  <2>3. new \in Instance
    BY <2>2 DEF Instance
  <2>4. committed' = [committed EXCEPT ![id] = new] /\ committed'[id] = new
    BY <2>1 DEF Write, TypeOK
  <2>5. Stores(r, id, new)
    BY <2>1, <2>3, <2>4 DEF Write, Stores
  <2> QED
    BY <2>1, <2>3, <2>4, <2>5 DEF StoresAdded
<1>5. ASSUME NEW id \in Ids, NEW name \in Names, Update(r, id, name), ~Reject(r)
      PROVE  \E new \in Instance : StoresUpdated(r, id, new)
  <2> DEFINE entity == copy[r][id]
             new == [ref |-> writes + 1, by |-> r, base |-> entity.ref, over |-> Ref(committed[id]),
                     name |-> name, version |-> entity.version + 1]
  <2>1. /\ MayCall(r) /\ entity # Absent /\ committed[id] # Absent
        /\ committed[id].version = entity.version
        /\ Write(r, id, name, entity.version + 1, entity.ref) /\ UNCHANGED copy
    BY <1>5 DEF Update
  <2>2. entity \in Instance
    BY <2>1 DEF TypeOK, Row
  <2>3. entity.ref \in 0..MaxWrites /\ entity.version + 1 \in Nat \ {0}
    BY <2>2 DEF Instance
  <2>4. writes \in Nat /\ writes + 1 \in 1..MaxWrites /\ Ref(committed[id]) \in 0..MaxWrites
    BY <2>1 DEF TypeOK, Write, Ref, Row, Instance
  <2>5. new \in Instance
    BY <2>3, <2>4 DEF Instance
  <2>6. Stores(r, id, new)
    BY <2>1, <2>5 DEF Write, Stores
  <2> QED
    BY <2>1, <2>5, <2>6 DEF StoresUpdated
<1> QED
  BY <1>1, <1>2, <1>3, <1>4, <1>5

LEMMA NextTypeOK == TypeOK /\ [Next]_vars => TypeOK'
<1> SUFFICES ASSUME TypeOK, [Next]_vars PROVE TypeOK'
  OBVIOUS
<1>1. CASE UNCHANGED vars
  BY <1>1 DEF vars, TypeOK
<1>2. ASSUME NEW r \in Runs, NEW id \in Ids, NEW new \in Instance,
             StoresAdded(r, id, new) \/ StoresUpdated(r, id, new)
      PROVE  TypeOK'
  <2>0. Stores(r, id, new) /\ new \in Row
    BY <1>2 DEF StoresAdded, StoresUpdated, Row
  <2>1. committed' \in [Ids -> Row] /\ written' \in [Runs -> [Ids -> Row]]
    BY <2>0 DEF TypeOK, Stores
  <2>2. copy' \in [Runs -> [Ids -> Row]]
    <3>1. copy \in [Runs -> [Ids -> Row]] /\ (copy' = copy \/ copy' = [copy EXCEPT ![r][id] = new])
      BY <1>2 DEF TypeOK, StoresAdded, StoresUpdated
    <3> QED
      BY ONLY <2>0, <3>1, r \in Runs, id \in Ids
  <2>3. prior' \in [Runs -> [Ids -> Row \cup {Unset}]]
    <3>1. /\ prior \in [Runs -> [Ids -> Row \cup {Unset}]] /\ committed[id] \in Row \cup {Unset}
          /\ prior' = prior \/ prior' = [prior EXCEPT ![r][id] = committed[id]]
      BY <2>0 DEF TypeOK, Stores, Remember
    <3> QED
      BY ONLY <3>1, r \in Runs, id \in Ids
  <2>4. pending' \in [Runs -> SUBSET Facts] /\ writes' \in 0..MaxWrites
    BY <2>0 DEF TypeOK, Stores, Facts, Instance
  <2> QED
    BY <2>0, <2>1, <2>2, <2>3, <2>4 DEF TypeOK, Stores
<1>3. ASSUME NEW r \in Runs, Throw(r) PROVE TypeOK'
  BY <1>3 DEF TypeOK, Throw, RolledBack
<1>4. ASSUME LeavesRows, NEW r \in Runs, Start(r) \/ Catch(r) \/ Resolve(r) \/ Reject(r)
                                            \/ \E id \in Ids : FindById(r, id)
      PROVE  TypeOK'
  <2>1. copy' \in [Runs -> [Ids -> Row]]
    <3>1. /\ copy \in [Runs -> [Ids -> Row]]
          /\ copy' = copy \/ \E id \in Ids : copy' = [copy EXCEPT ![r][id] = committed[id]] /\ committed[id] \in Row
      BY <1>4 DEF TypeOK, Start, Catch, Resolve, Reject, FindById
    <3> QED
      BY ONLY <3>1, r \in Runs
  <2>2. pc' \in [Runs -> {"new", "open", "rejected", "resolved", "thrown"}]
    BY <1>4 DEF TypeOK, Start, Catch, Resolve, Reject, FindById
  <2>3. recorded' \subseteq Facts
    BY <1>4 DEF TypeOK, Start, Catch, Resolve, Reject, FindById
  <2>4. overlapped' \in BOOLEAN
    BY <1>4 DEF TypeOK, Start, Catch, Resolve, Reject, FindById
  <2> QED
    BY <1>4, <2>1, <2>2, <2>3, <2>4 DEF TypeOK, LeavesRows
<1> QED
  BY <1>1, <1>2, <1>3, <1>4, StepsOfTheStore

LEMMA InitTypeOK == Init => TypeOK
<1> SUFFICES ASSUME Init PROVE TypeOK
  OBVIOUS
<1>1. committed \in [Ids -> Row]
  BY DEF Init, Row
<1>2. copy \in [Runs -> [Ids -> Row]] /\ written \in [Runs -> [Ids -> Row]]
  BY DEF Init, Row
<1>3. prior \in [Runs -> [Ids -> Row \cup {Unset}]]
  BY DEF Init
<1>4. pending \in [Runs -> SUBSET Facts] /\ recorded \subseteq Facts
  BY DEF Init
<1>5. gated \in BOOLEAN /\ overlapped \in BOOLEAN
  BY Zenon DEF Init
<1>6. pc \in [Runs -> {"new", "open", "rejected", "resolved", "thrown"}]
  BY DEF Init
<1>7. writes \in 0..MaxWrites
  BY DEF Init
<1> QED
  BY <1>1, <1>2, <1>3, <1>4, <1>5, <1>6, <1>7 DEF TypeOK

\* Rows, copies, undo records and facts stay well-formed.
THEOREM StoreIsTyped == Spec => []TypeOK
BY InitTypeOK, NextTypeOK, PTL DEF Spec

-----------------------------------------------------------------------------
(* What a rollback may take for its own: written holds the run's own last   *)
(* write, and no other.                                                     *)
UndoRecord ==
    \A r \in Runs, id \in Ids :
        /\ written[r][id] # Absent => written[r][id].by = r
        /\ prior[r][id] = Unset <=> written[r][id] = Absent

LEMMA NextUndoRecord == TypeOK /\ UndoRecord /\ [Next]_vars => UndoRecord'
<1> SUFFICES ASSUME TypeOK, UndoRecord, [Next]_vars PROVE UndoRecord'
  OBVIOUS
<1>1. CASE UNCHANGED <<prior, written>>
  BY <1>1 DEF UndoRecord
<1>2. ASSUME NEW r \in Runs, NEW id \in Ids, NEW new \in Instance, Stores(r, id, new) PROVE UndoRecord'
  <2> SUFFICES ASSUME NEW q \in Runs, NEW j \in Ids
               PROVE  /\ written'[q][j] # Absent => written'[q][j].by = q
                      /\ prior'[q][j] = Unset <=> written'[q][j] = Absent
    BY DEF UndoRecord
  <2>1. CASE q = r /\ j = id
    BY <1>2, <2>1 DEF Stores, Remember, TypeOK, Row, UndoRecord
  <2>2. CASE ~(q = r /\ j = id)
    <3>1. written'[q][j] = written[q][j] /\ prior'[q][j] = prior[q][j]
      BY <1>2, <2>2 DEF Stores, Remember, TypeOK
    <3> QED
      BY <3>1 DEF UndoRecord
  <2> QED
    BY <2>1, <2>2
<1>3. CASE UNCHANGED vars
  BY <1>1, <1>3 DEF vars
<1> QED
  BY <1>1, <1>2, <1>3, StepsOfTheStore DEF StoresAdded, StoresUpdated, Throw, LeavesRows

LEMMA InitUndoRecord == Init => UndoRecord
BY DEF Init, UndoRecord

\* A rollback never takes away a row that a resolved run wrote, however the runs
\* interleave and whatever escapes them.
THEOREM ResolvedRowsSurvive == Spec => RollbackSparesResolved
<1> DEFINE Spared == \A id \in Ids : committed[id] # Absent /\ pc[committed[id].by] = "resolved"
                                      /\ committed'[id] # committed[id] => writes' # writes
<1>1. TypeOK /\ UndoRecord /\ [Next]_vars => [Spared]_vars
  <2> SUFFICES ASSUME TypeOK, UndoRecord, Next,
                      NEW id \in Ids, committed[id] # Absent, pc[committed[id].by] = "resolved",
                      committed'[id] # committed[id]
               PROVE  writes' # writes
    OBVIOUS
  <2>1. ASSUME NEW r \in Runs, NEW j \in Ids, NEW new \in Instance, Stores(r, j, new)
        PROVE  writes' # writes
    BY <2>1 DEF Stores, TypeOK
  <2>2. ASSUME NEW r \in Runs, Throw(r) PROVE FALSE
    <3>1. committed[id] = written[r][id]
      BY <2>2 DEF Throw, RolledBack
    <3>2. committed[id].by = r
      BY <3>1 DEF UndoRecord
    <3> QED
      BY <2>2, <3>2 DEF Throw, Running
  <2> QED
    BY <2>1, <2>2, StepsOfTheStore DEF StoresAdded, StoresUpdated, LeavesRows
<1> QED
  BY <1>1, InitTypeOK, NextTypeOK, InitUndoRecord, NextUndoRecord, PTL DEF Spec, RollbackSparesResolved

-----------------------------------------------------------------------------
(* What could still become the row of an id without run r rolling back: the *)
(* row itself, and with a run's last write what that run would put back.    *)
Live(r) == pc[r] \in {"new", "open", "rejected"}

Restorable(S, r, id) ==
    /\ committed[id] \in S
    /\ \A q \in Runs \ {r} : written[q][id] # Absent /\ written[q][id] \in S => prior[q][id] \in S

\* Among all that, only the last write of a live run is its own.
OwnWriteIsLast ==
    \A r \in Runs, id \in Ids : Live(r) =>
        /\ \E S \in SUBSET Row :
              /\ Restorable(S, r, id)
              /\ \A row \in S : row # Absent /\ row.by = r => row = written[r][id]
        /\ prior[r][id] \in Instance => prior[r][id].by # r

LEMMA CommittedOwnIsLast ==
  ASSUME OwnWriteIsLast, NEW r \in Runs, NEW id \in Ids, Live(r),
         committed[id] # Absent, committed[id].by = r
  PROVE  committed[id] = written[r][id]
BY DEF OwnWriteIsLast, Restorable

LEMMA InitOwnWriteIsLast == Init => OwnWriteIsLast
<1> SUFFICES ASSUME Init, NEW r \in Runs, NEW id \in Ids
             PROVE  /\ \E S \in SUBSET Row :
                          /\ Restorable(S, r, id)
                          /\ \A row \in S : row # Absent /\ row.by = r => row = written[r][id]
                    /\ prior[r][id] \in Instance => prior[r][id].by # r
  BY DEF OwnWriteIsLast
<1>1. {Absent} \in SUBSET Row /\ Restorable({Absent}, r, id)
  BY DEF Init, Restorable, Row
<1>2. prior[r][id] \notin Instance
  BY DEF Init
<1> QED
  BY <1>1, <1>2

LEMMA NextOwnWriteIsLast ==
  TypeOK /\ UndoRecord /\ OwnWriteIsLast /\ [Next]_vars => OwnWriteIsLast'
<1> SUFFICES ASSUME TypeOK, UndoRecord, OwnWriteIsLast, [Next]_vars,
                    NEW r \in Runs, NEW id \in Ids, Live(r)'
             PROVE  /\ \E S \in SUBSET Row :
                          /\ Restorable(S, r, id)'
                          /\ \A row \in S : row # Absent /\ row.by = r => row = written'[r][id]
                    /\ prior'[r][id] \in Instance => prior'[r][id].by # r
  BY DEF OwnWriteIsLast, Row, Instance
<1> DEFINE Own(S, w) == \A row \in S : row # Absent /\ row.by = r => row = w
<1>0. Live(r)
  BY DEF Live, Next, vars, Start, Catch, Resolve, Throw, FindById, Add, Update, Write, Reject, TypeOK, Running, Over, MayCall
<1>1. PICK S \in SUBSET Row : Restorable(S, r, id) /\ Own(S, written[r][id])
  BY <1>0 DEF OwnWriteIsLast
<1>2. prior[r][id] \in Instance => prior[r][id].by # r
  BY <1>0 DEF OwnWriteIsLast
<1>3. CASE UNCHANGED <<committed, prior, written>>
  BY <1>1, <1>2, <1>3 DEF Restorable
<1>4. ASSUME NEW q \in Runs, Throw(q)
      PROVE  Restorable(S, r, id)' /\ UNCHANGED <<prior, written>>
  <2>1. q # r
    BY <1>4 DEF Throw, Live, TypeOK
  <2>2. UNCHANGED <<prior, written>>
    BY <1>4 DEF Throw
  <2>3. committed'[id] \in S
    <3>1. CASE prior[q][id] = Unset \/ committed[id] # written[q][id]
      BY <1>1, <1>4, <3>1 DEF Throw, RolledBack, Restorable
    <3>2. CASE ~(prior[q][id] = Unset \/ committed[id] # written[q][id])
      <4>1. committed'[id] = prior[q][id] /\ written[q][id] # Absent /\ written[q][id] \in S
        BY <1>1, <1>4, <3>2 DEF Throw, RolledBack, Restorable, UndoRecord
      <4> QED
        BY <1>1, <2>1, <4>1 DEF Restorable
    <3> QED
      BY <3>1, <3>2
  <2> QED
    BY <1>1, <2>2, <2>3 DEF Restorable
<1>5. ASSUME NEW q \in Runs, NEW j \in Ids, NEW new \in Instance, Stores(q, j, new)
      PROVE  /\ \E T \in SUBSET Row : Restorable(T, r, id)' /\ Own(T, written'[r][id])
             /\ prior'[r][id] \in Instance => prior'[r][id].by # r
  <2>1. /\ committed' = [committed EXCEPT ![j] = new] /\ written' = [written EXCEPT ![q][j] = new]
        /\ new.by = q /\ new # Absent /\ new \in Row
        /\ \/ prior' = [prior EXCEPT ![q][j] = committed[j]] /\ (prior[q][j] = Unset \/ committed[j] # written[q][j])
           \/ prior' = prior /\ prior[q][j] # Unset /\ committed[j] = written[q][j]
    BY <1>5 DEF Stores, Remember, Row
  <2>2. /\ committed \in [Ids -> Row] /\ written \in [Runs -> [Ids -> Row]]
        /\ prior \in [Runs -> [Ids -> Row \cup {Unset}]]
    BY DEF TypeOK
  <2>3. CASE j # id
    <3>1. /\ committed'[id] = committed[id]
          /\ \A p \in Runs : written'[p][id] = written[p][id] /\ prior'[p][id] = prior[p][id]
      BY <2>1, <2>2, <2>3
    <3> QED
      BY <1>1, <1>2, <3>1 DEF Restorable
  <2>4. CASE j = id /\ q # r
    <3>1. /\ committed'[id] = new /\ written'[q][id] = new /\ written'[r][id] = written[r][id]
          /\ prior'[r][id] = prior[r][id]
          /\ \A p \in Runs \ {q} : written'[p][id] = written[p][id] /\ prior'[p][id] = prior[p][id]
      BY <2>1, <2>2, <2>4
    \* q would put back what it found, or what it would have put back before.
    <3>2. prior'[q][id] \in S
      <4>1. committed[id] \in S
        BY <1>1 DEF Restorable
      <4>2. CASE prior'[q][id] = committed[id]
        BY <4>1, <4>2
      <4>3. CASE prior' = prior /\ prior[q][id] # Unset /\ committed[id] = written[q][id]
        <5>1. written[q][id] # Absent /\ written[q][id] \in S
          BY <4>1, <4>3 DEF UndoRecord
        <5> QED
          BY <1>1, <2>4, <4>3, <5>1 DEF Restorable
      <4> QED
        BY <2>1, <2>2, <2>4, <4>2, <4>3
    <3>3. \A p \in Runs : p # q /\ written[p][id] # Absent => written[p][id] # new
      BY <2>1 DEF UndoRecord
    <3>4. Restorable(S \cup {new}, r, id)'
      <4>1. ASSUME NEW p \in Runs \ {r}, written'[p][id] # Absent, written'[p][id] \in S \cup {new}
            PROVE  prior'[p][id] \in S \cup {new}
        <5>1. CASE p = q
          BY <3>2, <5>1
        <5>2. CASE p # q
          BY <1>1, <3>1, <3>3, <4>1, <5>2 DEF Restorable
        <5> QED
          BY <5>1, <5>2
      <4> QED
        BY <3>1, <4>1 DEF Restorable
    <3>5. Own(S \cup {new}, written'[r][id])
      BY <1>1, <2>1, <2>4, <3>1
    <3> QED
      BY <1>2, <2>1, <3>1, <3>4, <3>5
  <2>5. CASE j = id /\ q = r
    <3>1. /\ committed'[id] = new /\ written'[r][id] = new
          /\ \A p \in Runs \ {r} : written'[p][id] = written[p][id]
      BY <2>1, <2>2, <2>5
    <3>2. Restorable({new}, r, id)' /\ Own({new}, written'[r][id])
      BY <2>1, <2>5, <3>1 DEF Restorable, UndoRecord
    <3>3. ASSUME prior'[r][id] \in Instance PROVE prior'[r][id].by # r
      <4>1. CASE prior' = prior
        BY <1>2, <3>3, <4>1
      <4>2. CASE prior'[r][id] = committed[id] /\ (prior[r][id] = Unset \/ committed[id] # written[r][id])
        <5>1. committed[id] # Absent
          BY <3>3, <4>2
        <5>2. committed[id].by = r => committed[id] = written[r][id]
          BY <1>0, <5>1, CommittedOwnIsLast
        <5> QED
          BY <4>2, <5>1, <5>2 DEF UndoRecord
      <4> QED
        BY <2>1, <2>2, <2>5, <4>1, <4>2
    <3> QED
      BY <2>1, <3>2, <3>3
  <2> QED
    BY <2>3, <2>4, <2>5
<1>6. CASE UNCHANGED vars
  BY <1>3, <1>6 DEF vars
<1> QED
  BY <1>1, <1>2, <1>3, <1>4, <1>5, <1>6, StepsOfTheStore DEF StoresAdded, StoresUpdated, LeavesRows

\* A run that throws takes all its writes out of the Map, however the writes and
\* rollbacks of any number of runs have interleaved before.
THEOREM OwnWritesAreErased == Spec => RollbackErasesOwnWrites
<1> DEFINE Erased == \A r \in Runs : pc[r] # "thrown" /\ pc'[r] = "thrown"
                        => \A id \in Ids : committed'[id] # Absent => committed'[id].by # r
<1>1. TypeOK /\ UndoRecord /\ OwnWriteIsLast /\ [Next]_vars => [Erased]_vars
  <2> SUFFICES ASSUME TypeOK, UndoRecord, OwnWriteIsLast, Next,
                      NEW r \in Runs, pc[r] # "thrown", pc'[r] = "thrown",
                      NEW id \in Ids, committed'[id] # Absent
               PROVE  committed'[id].by # r
    OBVIOUS
  <2>1. Throw(r)
    BY DEF Next, Start, Catch, Resolve, Throw, FindById, Add, Update, Write, Reject, TypeOK
  <2>2. Live(r)
    BY <2>1 DEF Throw, Running, Live
  <2>3. CASE prior[r][id] = Unset \/ committed[id] # written[r][id]
    <3>1. committed'[id] = committed[id]
      BY <2>1, <2>3 DEF Throw, RolledBack
    <3> QED
      BY <2>2, <2>3, <3>1, CommittedOwnIsLast DEF UndoRecord
  <2>4. CASE ~(prior[r][id] = Unset \/ committed[id] # written[r][id])
    <3>1. committed'[id] = prior[r][id] /\ prior[r][id] \in Instance
      BY <2>1, <2>4 DEF Throw, RolledBack, TypeOK, Row
    <3> QED
      BY <2>2, <3>1 DEF OwnWriteIsLast
  <2> QED
    BY <2>3, <2>4
<1> QED
  BY <1>1, InitTypeOK, NextTypeOK, InitUndoRecord, NextUndoRecord, InitOwnWriteIsLast, NextOwnWriteIsLast,
     PTL DEF Spec, RollbackErasesOwnWrites

\* Behind the gate a row of a run that has thrown is there only because another
\* run that has thrown had found it there, for any number of overlapping runs.
THEOREM RestoredByAThrow == Spec => []RolledBackRowsAreRestored
<1>1. Init => RolledBackRowsAreRestored
  BY DEF Init, RolledBackRowsAreRestored
<1>2. TypeOK /\ UndoRecord /\ OwnWriteIsLast /\ RolledBackRowsAreRestored /\ [Next]_vars
      => RolledBackRowsAreRestored'
  <2> SUFFICES ASSUME TypeOK, UndoRecord, OwnWriteIsLast, RolledBackRowsAreRestored, [Next]_vars,
                      gated', NEW id \in Ids, committed'[id] # Absent,
                      pc'[committed'[id].by] = "thrown"
               PROVE  \E r \in Runs : /\ r # committed'[id].by /\ pc'[r] = "thrown"
                                      /\ prior'[r][id] = committed'[id]
    BY DEF RolledBackRowsAreRestored
  <2>1. ASSUME NEW q \in Runs, NEW j \in Ids, NEW new \in Instance, Stores(q, j, new)
        PROVE  \E r \in Runs : /\ r # committed'[id].by /\ pc'[r] = "thrown"
                               /\ prior'[r][id] = committed'[id]
    <3>1. pc[q] = "open" /\ pc' = pc /\ gated /\ new.by = q
      BY <2>1 DEF Stores, MayCall
    <3>2. j # id /\ committed'[id] = committed[id]
      BY <2>1, <3>1 DEF Stores, TypeOK
    <3>3. PICK r \in Runs : /\ r # committed[id].by /\ pc[r] = "thrown"
                            /\ prior[r][id] = committed[id]
      BY <3>1, <3>2 DEF RolledBackRowsAreRestored
    <3>4. prior'[r][id] = prior[r][id]
      BY <2>1, <3>1, <3>3 DEF Stores, Remember, TypeOK
    <3> QED
      BY <3>1, <3>2, <3>3, <3>4
  <2>2. ASSUME NEW q \in Runs, Throw(q)
        PROVE  \E r \in Runs : /\ r # committed'[id].by /\ pc'[r] = "thrown"
                               /\ prior'[r][id] = committed'[id]
    <3>1. /\ Live(q) /\ pc'[q] = "thrown" /\ prior' = prior /\ gated
          /\ \A r \in Runs \ {q} : pc'[r] = pc[r]
      BY <2>2 DEF Throw, Running, Live, TypeOK
    <3>2. CASE prior[q][id] = Unset \/ committed[id] # written[q][id]
      <4>1. committed'[id] = committed[id]
        BY <2>2, <3>2 DEF Throw, RolledBack
      <4>2. committed[id].by # q
        BY <3>1, <3>2, <4>1, CommittedOwnIsLast DEF UndoRecord
      <4>3. committed[id].by \in Runs
        BY <4>1 DEF TypeOK, Row, Instance
      <4>4. PICK r \in Runs : /\ r # committed[id].by /\ pc[r] = "thrown"
                              /\ prior[r][id] = committed[id]
        BY <3>1, <4>1, <4>2, <4>3 DEF RolledBackRowsAreRestored
      <4>5. pc'[r] = "thrown"
        BY <3>1, <4>4
      <4> QED
        BY <3>1, <4>1, <4>4, <4>5
    <3>3. CASE ~(prior[q][id] = Unset \/ committed[id] # written[q][id])
      <4>1. committed'[id] = prior[q][id] /\ prior[q][id] \in Instance
        BY <2>2, <3>3 DEF Throw, RolledBack, TypeOK, Row
      <4>2. prior[q][id].by # q
        BY <3>1, <4>1 DEF OwnWriteIsLast
      <4> QED
        BY <3>1, <4>1, <4>2
    <3> QED
      BY <3>2, <3>3
  <2>3. ASSUME LeavesRows,
               NEW q \in Runs, Start(q) \/ Catch(q) \/ Resolve(q) \/ Reject(q)
                               \/ \E j \in Ids : FindById(q, j)
        PROVE  \E r \in Runs : /\ r # committed'[id].by /\ pc'[r] = "thrown"
                               /\ prior'[r][id] = committed'[id]
    <3>1. \A r \in Runs : pc'[r] = "thrown" <=> pc[r] = "thrown"
      BY <2>3 DEF Start, Catch, Resolve, Reject, FindById, TypeOK
    <3>2. committed' = committed /\ prior' = prior /\ gated
      BY <2>3 DEF LeavesRows
    <3>3. committed[id].by \in Runs
      BY <3>2 DEF TypeOK, Row, Instance
    <3> QED
      BY <3>1, <3>2, <3>3 DEF RolledBackRowsAreRestored
  <2>4. CASE UNCHANGED vars
    BY <2>4 DEF vars, RolledBackRowsAreRestored
  <2> QED
    BY <2>1, <2>2, <2>3, <2>4, StepsOfTheStore DEF StoresAdded, StoresUpdated
<1> QED
  BY <1>1, <1>2, InitTypeOK, NextTypeOK, InitUndoRecord, NextUndoRecord, InitOwnWriteIsLast,
     NextOwnWriteIsLast, PTL DEF Spec

-----------------------------------------------------------------------------
(* While no run that wrote a key has thrown, a version tells the instances  *)
(* of the key apart, and what a body has in hand is the stored row or an    *)
(* older one.                                                               *)
NeverUndone(id) == \A r \in Runs : pc[r] = "thrown" => written[r][id] = Absent

VersionsTellApart(id) ==
    /\ committed[id] # Absent => committed[id].base = committed[id].over
    /\ \A r \in Runs : copy[r][id] # Absent =>
          /\ committed[id] # Absent
          /\ copy[r][id] = committed[id] \/ copy[r][id].version < committed[id].version

VersionsInv == gated => \A id \in Ids : NeverUndone(id) => VersionsTellApart(id)

LEMMA CopyReplaced ==
  ASSUME copy \in [Runs -> [Ids -> Row]], NEW q \in Runs, NEW j \in Ids, NEW row,
         copy' = [copy EXCEPT ![q][j] = row]
  PROVE  \A r \in Runs, id \in Ids : copy'[r][id] = IF r = q /\ id = j THEN row ELSE copy[r][id]
OBVIOUS

LEMMA NextVersionsInv == TypeOK /\ UndoRecord /\ VersionsInv /\ [Next]_vars => VersionsInv'
<1> SUFFICES ASSUME TypeOK, UndoRecord, VersionsInv, [Next]_vars, gated',
                    NEW id \in Ids, NeverUndone(id)'
             PROVE  VersionsTellApart(id)'
  BY DEF VersionsInv
<1>0. copy \in [Runs -> [Ids -> Row]] /\ committed \in [Ids -> Row]
  BY DEF TypeOK
<1>1. ASSUME NEW q \in Runs, NEW j \in Ids, NEW new \in Instance,
             StoresAdded(q, j, new) \/ StoresUpdated(q, j, new)
      PROVE  VersionsTellApart(id)'
  <2>1. Stores(q, j, new)
    BY <1>1 DEF StoresAdded, StoresUpdated
  <2>2. gated /\ pc[q] = "open" /\ pc' = pc
    BY <2>1 DEF Stores, MayCall
  <2>3. NeverUndone(id)
    BY <2>1, <2>2 DEF NeverUndone, Stores, TypeOK
  <2>4. VersionsTellApart(id)
    BY <2>2, <2>3 DEF VersionsInv
  <2>5. CASE j # id
    <3>1. committed'[id] = committed[id]
      BY <1>0, <2>1, <2>5 DEF Stores
    <3>2. copy' = copy \/ copy' = [copy EXCEPT ![q][j] = new]
      BY <1>1 DEF StoresAdded, StoresUpdated
    <3>3. \A r \in Runs : copy'[r][id] = copy[r][id]
      BY <1>0, <2>5, <3>2, CopyReplaced
    <3> QED
      BY <2>4, <3>1, <3>3 DEF VersionsTellApart
  <2>6. CASE j = id /\ StoresAdded(q, j, new)
    <3>1. committed'[id] = new /\ new # Absent /\ new.base = new.over
      BY <2>1, <2>6 DEF Stores, StoresAdded, TypeOK, Ref
    <3>2. copy' = [copy EXCEPT ![q][id] = new] /\ committed[id] = Absent
      BY <2>6 DEF StoresAdded
    <3>3. \A r \in Runs : copy[r][id] = Absent
      BY <2>4, <3>2 DEF VersionsTellApart
    <3>4. \A r \in Runs : copy'[r][id] # Absent => copy'[r][id] = new
      BY <1>0, <3>2, <3>3, CopyReplaced
    <3> QED
      BY <3>1, <3>4 DEF VersionsTellApart
  <2>7. CASE j = id /\ StoresUpdated(q, j, new)
    <3>1. copy[q][id] = committed[id] /\ committed[id] \in Instance
      BY <2>4, <2>7 DEF StoresUpdated, VersionsTellApart, TypeOK, Row, Instance
    <3>2. /\ committed'[id] = new /\ new # Absent /\ new.base = new.over
          /\ new.version = committed[id].version + 1 /\ copy' = copy
      BY <2>1, <2>7, <3>1 DEF Stores, StoresUpdated, TypeOK, Ref
    <3>3. \A r \in Runs : copy[r][id] # Absent => copy[r][id].version < new.version
      <4> SUFFICES ASSUME NEW r \in Runs, copy[r][id] # Absent
                   PROVE  copy[r][id].version < new.version
        OBVIOUS
      <4>1. copy[r][id].version \in Nat /\ committed[id].version \in Nat
        BY <1>0, <3>1 DEF Row, Instance
      <4>2. copy[r][id] = committed[id] \/ copy[r][id].version < committed[id].version
        BY <2>4 DEF VersionsTellApart
      <4> QED
        BY <3>2, <4>1, <4>2
    <3> QED
      BY <3>2, <3>3 DEF VersionsTellApart
  <2> QED
    BY <1>1, <2>5, <2>6, <2>7
<1>2. ASSUME NEW q \in Runs, Throw(q) PROVE VersionsTellApart(id)'
  <2>1. written[q][id] = Absent /\ gated
    BY <1>2 DEF Throw, NeverUndone, Running, TypeOK
  <2>2. committed'[id] = committed[id]
    BY <1>2, <2>1 DEF Throw, RolledBack, UndoRecord
  <2>3. NeverUndone(id)
    BY <1>2 DEF Throw, NeverUndone, Running, TypeOK
  <2> QED
    BY <1>2, <2>1, <2>2, <2>3 DEF Throw, VersionsInv, VersionsTellApart
<1>3. ASSUME LeavesRows,
             NEW q \in Runs, Start(q) \/ Catch(q) \/ Resolve(q) \/ Reject(q)
                             \/ \E j \in Ids : FindById(q, j)
      PROVE  VersionsTellApart(id)'
  <2>1. \A r \in Runs : pc'[r] = "thrown" <=> pc[r] = "thrown"
    BY <1>3 DEF Start, Catch, Resolve, Reject, FindById, TypeOK
  <2>2. VersionsTellApart(id)
    BY <1>3, <2>1 DEF LeavesRows, NeverUndone, VersionsInv
  <2>3. \A r \in Runs : copy'[r][id] = copy[r][id] \/ copy'[r][id] = committed[id]
    <3>1. copy' = copy \/ \E j \in Ids : copy' = [copy EXCEPT ![q][j] = committed[j]]
      BY <1>3 DEF Start, Catch, Resolve, Reject, FindById
    <3> QED
      BY <1>0, <3>1, CopyReplaced
  <2> QED
    BY <1>3, <2>2, <2>3 DEF LeavesRows, VersionsTellApart
<1>4. CASE UNCHANGED vars
  BY <1>4 DEF vars, NeverUndone, VersionsInv, VersionsTellApart
<1> QED
  BY <1>1, <1>2, <1>3, <1>4, StepsOfTheStore

\* Overlapping runs overwrite only what they have read, until a run that wrote
\* the key throws: its rollback is what lets the version check be deceived.
THEOREM LostUpdatesNeedRollbacks == Spec => []LostUpdateNeedsRollback
<1>1. Init => VersionsInv
  BY DEF Init, VersionsInv, VersionsTellApart
<1>2. VersionsInv => LostUpdateNeedsRollback
  BY DEF VersionsInv, NeverUndone, VersionsTellApart, LostUpdateNeedsRollback
<1> QED
  BY <1>1, <1>2, InitTypeOK, NextTypeOK, InitUndoRecord, NextUndoRecord, NextVersionsInv,
     PTL DEF Spec

-----------------------------------------------------------------------------
(* Runs that are awaited one by one.  What a run would put back is what it  *)
(* found: rows of resolved runs, with one recorded event for each version.  *)
\* The row of id if r rolled back now.
UndoTo(r, id) == IF prior[r][id] = Unset THEN committed[id] ELSE prior[r][id]

\* No row of a run that has not resolved, or that overwrote what it had not read.
Kept(row) == row = Absent \/ (row.base = row.over /\ pc[row.by] = "resolved")

Version(row) == IF row = Absent THEN 0 ELSE row.version

\* The facts of id once r has resolved.
FactsWith(r, id) == {f \in recorded \cup pending[r] : f.id = id}

\* Whether runs overlap or not: facts name writes that were made.
Bookkeeping ==
    /\ IsFiniteSet(recorded) /\ \A f \in recorded : f.ref <= writes
    /\ \A r \in Runs :
          /\ IsFiniteSet(pending[r]) /\ \A f \in pending[r] : f.ref <= writes
          /\ pc[r] = "new" => /\ pending[r] = {}
                              /\ \A id \in Ids : prior[r][id] = Unset /\ copy[r][id] = Absent

RunsAlone == \A q, r \in Running : q = r

\* What the run at work would put back is kept, and what it read is current or older.
RunsAreUndoable ==
    \A r \in Running, id \in Ids :
        /\ Kept(UndoTo(r, id))
        /\ prior[r][id] = Unset \/ committed[id] = written[r][id]
        /\ copy[r][id] # Absent => /\ committed[id] # Absent
                                   /\ copy[r][id] = committed[id] \/ copy[r][id].version < committed[id].version

RowsAreSound ==
    \A id \in Ids : committed[id] # Absent =>
        /\ committed[id].base = committed[id].over
        /\ pc[committed[id].by] = "resolved" \/ committed[id].by \in Running

\* One fact per version, with the pending ones of the run at work or without them.
EventsAreCounted ==
    \A id \in Ids :
        /\ Running = {} => Cardinality(FactsOf(id)) = Version(committed[id])
        /\ \A r \in Running : /\ Cardinality(FactsWith(r, id)) = Version(committed[id])
                              /\ Cardinality(FactsOf(id)) = Version(UndoTo(r, id))

SerialInv == Serial => RunsAlone /\ RunsAreUndoable /\ RowsAreSound /\ EventsAreCounted

LEMMA InitBookkeeping == Init => Bookkeeping
BY FS_EmptySet DEF Init, Bookkeeping

LEMMA NextBookkeeping == TypeOK /\ Bookkeeping /\ [Next]_vars => Bookkeeping'
<1> SUFFICES ASSUME TypeOK, Bookkeeping, [Next]_vars PROVE Bookkeeping'
  OBVIOUS
<1>0. writes \in Nat /\ pending \in [Runs -> SUBSET Facts] /\ recorded \subseteq Facts
  BY DEF TypeOK
<1>1. CASE UNCHANGED vars
  BY <1>1 DEF vars, Bookkeeping
<1>2. ASSUME NEW r \in Runs, NEW id \in Ids, NEW new \in Instance,
             StoresAdded(r, id, new) \/ StoresUpdated(r, id, new)
      PROVE  Bookkeeping'
  <2> DEFINE fact == [id |-> id, ref |-> new.ref]
  <2>1. /\ pending' = [pending EXCEPT ![r] = @ \cup {fact}] /\ fact.ref = writes + 1
        /\ writes' = writes + 1 /\ UNCHANGED <<pc, recorded>> /\ pc[r] # "new"
        /\ \A q \in Runs, j \in Ids : q # r => prior'[q][j] = prior[q][j] /\ copy'[q][j] = copy[q][j]
    BY <1>2 DEF StoresAdded, StoresUpdated, Stores, MayCall, Over, Remember, TypeOK
  <2>2. IsFiniteSet(pending[r] \cup {fact})
    BY FS_AddElement DEF Bookkeeping
  <2>3. \A f \in recorded : f.ref \in Nat
    BY <1>0 DEF Facts
  <2>4. \A q \in Runs : \A f \in pending[q] : f.ref \in Nat
    BY <1>0 DEF Facts
  <2>5. \A f \in recorded' : f.ref <= writes'
    BY <1>0, <2>1, <2>3 DEF Bookkeeping
  <2>6. ASSUME NEW q \in Runs
        PROVE  /\ IsFiniteSet(pending'[q]) /\ \A f \in pending'[q] : f.ref <= writes'
               /\ pc'[q] = "new" => /\ pending'[q] = {}
                                    /\ \A j \in Ids : prior'[q][j] = Unset /\ copy'[q][j] = Absent
    <3>1. CASE q = r
      <4>1. pending'[q] = pending[r] \cup {fact}
        BY <1>0, <2>1, <3>1
      <4>2. \A f \in pending[r] \cup {fact} : f.ref <= writes'
        BY <1>0, <2>1, <2>4 DEF Bookkeeping
      <4> QED
        BY <2>1, <2>2, <3>1, <4>1, <4>2
    <3>2. CASE q # r
      BY <1>0, <2>1, <2>4, <3>2 DEF Bookkeeping
    <3> QED
      BY <3>1, <3>2
  <2> QED
    BY <2>1, <2>5, <2>6 DEF Bookkeeping
<1>3. ASSUME NEW r \in Runs, Throw(r) PROVE Bookkeeping'
  BY <1>3 DEF Throw, Bookkeeping, TypeOK
<1>4. ASSUME LeavesRows, NEW r \in Runs, Start(r) \/ Catch(r) \/ Reject(r)
                                            \/ \E id \in Ids : FindById(r, id)
      PROVE  Bookkeeping'
  <2>1. UNCHANGED <<pending, writes, prior, recorded>>
    BY <1>4 DEF LeavesRows, Start, Catch, Reject, FindById
  <2>2. \A q \in Runs : pc'[q] = "new" => pc[q] = "new" /\ copy'[q] = copy[q]
    BY <1>4 DEF Start, Catch, Reject, FindById, MayCall, Over, TypeOK
  <2> QED
    BY <2>1, <2>2 DEF Bookkeeping
<1>5. ASSUME NEW r \in Runs, Resolve(r) PROVE Bookkeeping'
  <2>1. IsFiniteSet(recorded \cup pending[r])
    BY FS_Union DEF Bookkeeping
  <2> QED
    BY <1>5, <2>1 DEF Resolve, Bookkeeping, TypeOK
<1> QED
  BY <1>1, <1>2, <1>3, <1>4, <1>5, StepsOfTheStore

LEMMA FactsAreFinite ==
  ASSUME Bookkeeping, NEW r \in Runs, NEW id \in Ids
  PROVE  IsFiniteSet(FactsOf(id)) /\ IsFiniteSet(FactsWith(r, id))
<1>1. IsFiniteSet(recorded) /\ IsFiniteSet(recorded \cup pending[r])
  BY FS_Union DEF Bookkeeping
<1> QED
  BY <1>1, FS_Subset DEF FactsOf, FactsWith

LEMMA InitSerialInv == Init => SerialInv
<1> SUFFICES ASSUME Init PROVE SerialInv
  OBVIOUS
<1>1. Running = {} /\ recorded = {} /\ \A id \in Ids : committed[id] = Absent
  BY DEF Init, Running
<1>2. RunsAlone /\ RunsAreUndoable /\ RowsAreSound
  BY <1>1 DEF RunsAlone, RunsAreUndoable, RowsAreSound
<1>3. \A id \in Ids : FactsOf(id) = {}
  BY <1>1 DEF FactsOf
<1>4. EventsAreCounted
  BY <1>1, <1>3, FS_EmptySet DEF EventsAreCounted, Version
<1> QED
  BY <1>2, <1>4 DEF SerialInv

\* A write of the one run that is open.
LEMMA StoreKeepsSerial ==
  ASSUME TypeOK, UndoRecord, Bookkeeping, Serial, SerialInv,
         NEW r \in Runs, NEW id \in Ids, NEW new \in Instance,
         StoresAdded(r, id, new) \/ StoresUpdated(r, id, new)
  PROVE  SerialInv'
<1> DEFINE fact == [id |-> id, ref |-> new.ref]
<1>0. Stores(r, id, new) /\ new # Absent
  BY DEF StoresAdded, StoresUpdated
<1>1. /\ pc[r] = "open" /\ r \in Running /\ Running = {r} /\ UNCHANGED <<pc, recorded>>
      /\ Running' = {r}
  BY <1>0 DEF Stores, MayCall, Serial, Running, SerialInv, RunsAlone
<1>2. RunsAreUndoable /\ RowsAreSound /\ EventsAreCounted
  BY DEF SerialInv
<1>3. /\ committed' = [committed EXCEPT ![id] = new] /\ written' = [written EXCEPT ![r][id] = new]
      /\ new.by = r /\ new.ref = writes + 1 /\ pending' = [pending EXCEPT ![r] = @ \cup {fact}]
      /\ writes \in Nat
      /\ committed \in [Ids -> Row] /\ written \in [Runs -> [Ids -> Row]] /\ copy \in [Runs -> [Ids -> Row]]
      /\ prior \in [Runs -> [Ids -> Row \cup {Unset}]] /\ pending \in [Runs -> SUBSET Facts]
      /\ recorded \subseteq Facts
  BY <1>0 DEF Stores, TypeOK
\* The new row follows the one it was made from.
<1>4. new.version = Version(committed[id]) + 1 /\ new.base = new.over
  <2>1. CASE StoresAdded(r, id, new)
    BY <2>1 DEF StoresAdded, Stores, Version, Ref
  <2>2. CASE StoresUpdated(r, id, new)
    <3>1. /\ committed[id] # Absent /\ copy[r][id] # Absent
          /\ committed[id].version = copy[r][id].version
          /\ new.version = copy[r][id].version + 1 /\ new.base = copy[r][id].ref
          /\ new.over = committed[id].ref
      BY <2>2 DEF StoresUpdated, Stores, Ref
    <3>2. committed[id].version \in Nat
      BY <1>3, <3>1 DEF Row, Instance
    <3>3. copy[r][id] = committed[id]
      BY <1>1, <1>2, <3>1, <3>2 DEF RunsAreUndoable
    <3> QED
      BY <3>1, <3>3 DEF Version
  <2> QED
    BY <2>1, <2>2
<1>5. Version(committed[id]) \in Nat
  BY <1>3 DEF Version, Row, Instance
\* It leaves what a rollback would put back.
<1>6. \A j \in Ids : UndoTo(r, j)' = UndoTo(r, j) /\ (prior'[r][j] = Unset \/ committed'[j] = written'[r][j])
  <2> TAKE j \in Ids
  <2>1. /\ \/ prior' = [prior EXCEPT ![r][id] = committed[id]] /\ (prior[r][id] = Unset \/ committed[id] # written[r][id])
           \/ prior' = prior /\ prior[r][id] # Unset /\ committed[id] = written[r][id]
    BY <1>0 DEF Stores, Remember
  <2>2. prior[r][id] = Unset \/ committed[id] = written[r][id]
    BY <1>1, <1>2 DEF RunsAreUndoable
  <2>3. committed[id] # Unset
    BY <1>3 DEF Row
  <2>4. CASE j = id
    <3>1. UndoTo(r, j)' = UndoTo(r, j)
      <4>1. CASE prior[r][id] = Unset
        <5>1. prior'[r][id] = committed[id]
          BY <1>3, <2>1, <4>1
        <5> QED
          BY <2>3, <2>4, <4>1, <5>1 DEF UndoTo
      <4>2. CASE prior[r][id] # Unset
        <5>1. prior' = prior
          BY <2>1, <2>2, <4>2
        <5> QED
          BY <2>4, <4>2, <5>1 DEF UndoTo
      <4> QED
        BY <4>1, <4>2
    <3> QED
      BY <1>3, <2>4, <3>1
  <2>5. CASE j # id
    <3>1. /\ prior'[r][j] = prior[r][j] /\ committed'[j] = committed[j]
          /\ written'[r][j] = written[r][j]
      BY <1>3, <2>1, <2>5
    <3> QED
      BY <1>1, <1>2, <3>1 DEF UndoTo, RunsAreUndoable
  <2> QED
    BY <2>4, <2>5
<1>7. RunsAreUndoable'
  <2> SUFFICES ASSUME NEW j \in Ids
               PROVE  /\ Kept(UndoTo(r, j))'
                      /\ prior'[r][j] = Unset \/ committed'[j] = written'[r][j]
                      /\ copy'[r][j] # Absent =>
                            /\ committed'[j] # Absent
                            /\ copy'[r][j] = committed'[j] \/ copy'[r][j].version < committed'[j].version
    BY <1>1 DEF RunsAreUndoable
  <2>1. Kept(UndoTo(r, j))'
    <3>1. Kept(UndoTo(r, j))
      BY <1>1, <1>2 DEF RunsAreUndoable
    <3> QED
      BY <1>1, <1>6, <3>1 DEF Kept
  <2>2. ASSUME copy'[r][j] # Absent
        PROVE  /\ committed'[j] # Absent
               /\ copy'[r][j] = committed'[j] \/ copy'[r][j].version < committed'[j].version
    <3>1. CASE j # id
      <4>1. committed'[j] = committed[j] /\ copy'[r][j] = copy[r][j]
        BY <1>3, <3>1 DEF StoresAdded, StoresUpdated
      <4> QED
        BY <1>1, <1>2, <2>2, <4>1 DEF RunsAreUndoable
    <3>2. CASE j = id /\ StoresAdded(r, id, new)
      BY <1>0, <1>3, <3>2 DEF StoresAdded
    <3>3. CASE j = id /\ StoresUpdated(r, id, new)
      <4>1. copy' = copy /\ new.version = copy[r][id].version + 1 /\ copy[r][id].version \in Nat
        BY <1>3, <3>3 DEF StoresUpdated, Row, Instance
      <4> QED
        BY <1>0, <1>3, <3>3, <4>1
    <3> QED
      BY <3>1, <3>2, <3>3
  <2> QED
    BY <1>6, <2>1, <2>2
<1>8. RowsAreSound'
  <2> SUFFICES ASSUME NEW j \in Ids, committed'[j] # Absent
               PROVE  /\ committed'[j].base = committed'[j].over
                      /\ pc'[committed'[j].by] = "resolved" \/ committed'[j].by \in Running'
    BY DEF RowsAreSound
  <2> QED
    BY <1>1, <1>2, <1>3, <1>4 DEF RowsAreSound
\* Its fact is a new one.
<1>9. EventsAreCounted'
  <2> SUFFICES ASSUME NEW j \in Ids
               PROVE  /\ Cardinality(FactsWith(r, j)') = Version(committed[j])'
                      /\ Cardinality(FactsOf(j)') = Version(UndoTo(r, j))'
    BY <1>1 DEF EventsAreCounted
  <2>1. Cardinality(FactsWith(r, j)) = Version(committed[j]) /\ Cardinality(FactsOf(j)) = Version(UndoTo(r, j))
    BY <1>1, <1>2 DEF EventsAreCounted
  <2>2. Cardinality(FactsOf(j)') = Version(UndoTo(r, j))'
    <3>1. FactsOf(j)' = FactsOf(j)
      BY <1>1 DEF FactsOf
    <3> QED
      BY <1>6, <2>1, <3>1 DEF Version
  <2>3. recorded' \cup pending'[r] = (recorded \cup pending[r]) \cup {fact}
    BY <1>1, <1>3
  <2>4. CASE j # id
    <3>1. FactsWith(r, j)' = FactsWith(r, j)
      BY <2>3, <2>4 DEF FactsWith
    <3> QED
      BY <1>3, <2>1, <2>2, <2>4, <3>1 DEF Version
  <2>5. CASE j = id
    <3>1. fact \notin FactsWith(r, id)
      <4>1. \A f \in recorded \cup pending[r] : f.ref <= writes
        BY DEF Bookkeeping
      <4> QED
        BY <1>3, <4>1 DEF FactsWith
    <3>2. FactsWith(r, id)' = FactsWith(r, id) \cup {fact}
      BY <2>3 DEF FactsWith
    <3>3. Cardinality(FactsWith(r, id)') = Cardinality(FactsWith(r, id)) + 1
      BY <3>1, <3>2, FactsAreFinite, FS_AddElement
    <3>4. Version(committed[id])' = new.version
      BY <1>0, <1>3 DEF Version
    <3> QED
      BY <1>4, <2>1, <2>2, <2>5, <3>3, <3>4
  <2> QED
    BY <2>4, <2>5
<1>10. RunsAlone'
  BY <1>1 DEF RunsAlone
<1> QED
  BY <1>7, <1>8, <1>9, <1>10 DEF SerialInv

\* A rollback of the one run that is open puts back what it found.
LEMMA ThrowKeepsSerial ==
  ASSUME TypeOK, UndoRecord, Bookkeeping, Serial, SerialInv, NEW r \in Runs, Throw(r)
  PROVE  SerialInv'
<1>1. /\ r \in Running /\ Running = {r} /\ Running' = {} /\ pc' = [pc EXCEPT ![r] = "thrown"]
      /\ UNCHANGED <<recorded, prior>>
  BY DEF Throw, Running, SerialInv, RunsAlone, TypeOK
<1>2. \A id \in Ids : committed'[id] = UndoTo(r, id)
  BY <1>1 DEF Throw, RolledBack, UndoTo, SerialInv, RunsAreUndoable
<1>3. \A id \in Ids : Kept(UndoTo(r, id)) /\ Cardinality(FactsOf(id)) = Version(UndoTo(r, id))
  BY <1>1 DEF SerialInv, RunsAreUndoable, EventsAreCounted
<1>4. RowsAreSound'
  <2> SUFFICES ASSUME NEW id \in Ids, committed'[id] # Absent
               PROVE  committed'[id].base = committed'[id].over /\ pc'[committed'[id].by] = "resolved"
    BY DEF RowsAreSound
  <2>1. committed'[id].base = committed'[id].over /\ pc[committed'[id].by] = "resolved"
    BY <1>2, <1>3 DEF Kept
  <2>2. pc[r] # "resolved"
    BY DEF Throw, Running
  <2> QED
    BY <1>1, <2>1, <2>2 DEF TypeOK
<1>5. EventsAreCounted'
  <2> SUFFICES ASSUME NEW id \in Ids PROVE Cardinality(FactsOf(id)') = Version(committed'[id])
    BY <1>1 DEF EventsAreCounted, Version
  <2>1. FactsOf(id)' = FactsOf(id)
    BY <1>1 DEF FactsOf
  <2> QED
    BY <1>2, <1>3, <2>1
<1> QED
  BY <1>1, <1>4, <1>5 DEF SerialInv, RunsAlone, RunsAreUndoable

LEMMA NextSerialInv ==
  TypeOK /\ UndoRecord /\ Bookkeeping /\ SerialInv /\ [Next]_vars => SerialInv'
<1> SUFFICES ASSUME TypeOK, UndoRecord, Bookkeeping, SerialInv, [Next]_vars, Serial'
             PROVE  SerialInv'
  BY DEF SerialInv
<1>0. Serial
  <2>1. gated' /\ ~overlapped'
    BY DEF Serial
  <2>2. gated' = gated
    BY DEF Next, vars, Start, Catch, Resolve, Throw, FindById, Add, Update, Write, Reject
  <2>3. overlapped' = overlapped \/ \E r \in Runs : Start(r)
    BY DEF Next, vars, Catch, Resolve, Throw, FindById, Add, Update, Write, Reject
  <2>4. overlapped => overlapped'
    BY Zenon, <2>3 DEF Start
  <2> QED
    BY Zenon, <2>1, <2>2, <2>4 DEF Serial
<1>1. RunsAlone /\ RunsAreUndoable /\ RowsAreSound /\ EventsAreCounted
  BY <1>0 DEF SerialInv
<1>2. CASE UNCHANGED vars
  <2>1. UNCHANGED <<committed, pc, copy, prior, written, pending, recorded>> /\ Running' = Running
    BY <1>2 DEF vars, Running
  <2>2. RunsAlone' /\ RowsAreSound'
    BY <1>1, <2>1 DEF RunsAlone, RowsAreSound
  <2>3. RunsAreUndoable'
    BY <1>1, <2>1 DEF RunsAreUndoable, Kept, UndoTo
  <2>4. EventsAreCounted'
    BY <1>1, <2>1 DEF EventsAreCounted, FactsOf, FactsWith, UndoTo, Version
  <2> QED
    BY <2>2, <2>3, <2>4 DEF SerialInv
<1>3. ASSUME NEW r \in Runs, NEW id \in Ids, NEW new \in Instance,
             StoresAdded(r, id, new) \/ StoresUpdated(r, id, new)
      PROVE  SerialInv'
  BY <1>0, <1>3, StoreKeepsSerial
<1>4. ASSUME NEW r \in Runs, Throw(r) PROVE SerialInv'
  BY <1>0, <1>4, ThrowKeepsSerial
<1>5. ASSUME LeavesRows, NEW r \in Runs, Catch(r) \/ Reject(r) PROVE SerialInv'
  <2>1. Running' = Running /\ UNCHANGED <<committed, prior, written, pending, recorded, copy>>
    BY <1>5 DEF Catch, Reject, LeavesRows, Running, TypeOK
  <2>2. \A q \in Runs : pc[q] = "resolved" => pc'[q] = "resolved"
    BY <1>5 DEF Catch, Reject, TypeOK
  <2>3. \A row \in Row : Kept(row) => Kept(row)'
    BY <2>2 DEF Kept, Row, Instance
  <2>4. RunsAreUndoable'
    <3>1. \A q \in Running, id \in Ids : UndoTo(q, id)' = UndoTo(q, id) /\ UndoTo(q, id) \in Row
      BY <2>1 DEF UndoTo, TypeOK, Running
    <3>2. \A q \in Running, id \in Ids : Kept(UndoTo(q, id))'
      <4> TAKE q \in Running, id \in Ids
      <4>1. Kept(UndoTo(q, id)) /\ UndoTo(q, id)' = UndoTo(q, id) /\ UndoTo(q, id) \in Row
        BY <1>1, <3>1 DEF RunsAreUndoable
      <4> QED
        BY <2>3, <4>1 DEF Kept
    <3> QED
      BY <1>1, <2>1, <3>2 DEF RunsAreUndoable
  <2>5. RowsAreSound'
    BY <1>1, <2>1, <2>2 DEF RowsAreSound, TypeOK, Row, Instance
  <2>6. EventsAreCounted'
    BY <1>1, <2>1 DEF EventsAreCounted, FactsOf, FactsWith, UndoTo, Version
  <2> QED
    BY <1>1, <2>1, <2>4, <2>5, <2>6 DEF SerialInv, RunsAlone
<1>6. ASSUME LeavesRows, NEW r \in Runs, NEW id \in Ids, FindById(r, id) PROVE SerialInv'
  <2>1. Running' = Running /\ UNCHANGED <<committed, prior, written, pending, recorded, pc>>
    BY <1>6 DEF FindById, LeavesRows, Running
  <2>2. RunsAreUndoable'
    <3> SUFFICES ASSUME NEW q \in Running, NEW j \in Ids
                 PROVE  /\ Kept(UndoTo(q, j))'
                        /\ prior'[q][j] = Unset \/ committed'[j] = written'[q][j]
                        /\ copy'[q][j] # Absent =>
                              /\ committed'[j] # Absent
                              /\ copy'[q][j] = committed'[j] \/ copy'[q][j].version < committed'[j].version
      BY <2>1 DEF RunsAreUndoable
    <3>1. copy'[q][j] = copy[q][j] \/ copy'[q][j] = committed[j]
      BY <1>6 DEF FindById, Running, TypeOK
    <3>2. Kept(UndoTo(q, j))'
      BY <1>1, <2>1 DEF RunsAreUndoable, Kept, UndoTo
    <3> QED
      BY <1>1, <2>1, <3>1, <3>2 DEF RunsAreUndoable
  <2>3. RowsAreSound' /\ RunsAlone'
    BY <1>1, <2>1 DEF RowsAreSound, RunsAlone
  <2>4. EventsAreCounted'
    BY <1>1, <2>1 DEF EventsAreCounted, FactsOf, FactsWith, UndoTo, Version
  <2> QED
    BY <2>2, <2>3, <2>4 DEF SerialInv
<1>7. ASSUME LeavesRows, NEW r \in Runs, Start(r) PROVE SerialInv'
  <2>1. /\ Running = {} /\ Running' = {r} /\ pc' = [pc EXCEPT ![r] = "open"] /\ pc[r] = "new"
        /\ UNCHANGED <<committed, prior, written, pending, recorded, copy>>
    BY <1>7 DEF Start, LeavesRows, Serial, Running, TypeOK
  <2>2. \A id \in Ids : prior[r][id] = Unset /\ copy[r][id] = Absent /\ pending[r] = {}
    BY <2>1 DEF Bookkeeping
  <2>3. \A id \in Ids : committed[id] # Absent =>
            committed[id].base = committed[id].over /\ pc'[committed[id].by] = "resolved"
    <3>1. \A q : pc[q] = "resolved" => pc'[q] = "resolved"
      BY <2>1 DEF TypeOK
    <3> QED
      BY <1>1, <2>1, <3>1 DEF RowsAreSound
  <2>4. RunsAreUndoable' /\ RowsAreSound'
    BY <2>1, <2>2, <2>3 DEF RunsAreUndoable, RowsAreSound, Kept, UndoTo
  <2>5. EventsAreCounted'
    <3> SUFFICES ASSUME NEW id \in Ids
                 PROVE  /\ Cardinality(FactsWith(r, id)') = Version(committed[id])'
                        /\ Cardinality(FactsOf(id)') = Version(UndoTo(r, id))'
      BY <2>1 DEF EventsAreCounted
    <3>1. FactsWith(r, id)' = FactsOf(id) /\ FactsOf(id)' = FactsOf(id)
      BY <2>1, <2>2 DEF FactsWith, FactsOf
    <3>2. Cardinality(FactsOf(id)) = Version(committed[id])
      BY <1>1, <2>1 DEF EventsAreCounted
    <3>3. UndoTo(r, id)' = committed[id]
      BY <2>1, <2>2 DEF UndoTo
    <3> QED
      BY <2>1, <3>1, <3>2, <3>3 DEF Version
  <2> QED
    BY <2>1, <2>4, <2>5 DEF SerialInv, RunsAlone
<1>8. ASSUME LeavesRows, NEW r \in Runs, Resolve(r) PROVE SerialInv'
  <2>1. /\ Running = {r} /\ Running' = {} /\ pc' = [pc EXCEPT ![r] = "resolved"]
        /\ recorded' = recorded \cup pending[r] /\ UNCHANGED <<committed, prior, written, pending>>
    BY <1>1, <1>8 DEF Resolve, Running, RunsAlone, TypeOK
  <2>2. RowsAreSound'
    <3>1. \A id \in Ids : committed[id] # Absent => committed[id].by \in Runs
      BY DEF TypeOK, Row, Instance
    <3> QED
      BY <1>1, <2>1, <3>1 DEF RowsAreSound, TypeOK
  <2>3. EventsAreCounted'
    <3> SUFFICES ASSUME NEW id \in Ids PROVE Cardinality(FactsOf(id)') = Version(committed[id])'
      BY <2>1 DEF EventsAreCounted
    <3>1. FactsOf(id)' = FactsWith(r, id)
      BY <2>1 DEF FactsOf, FactsWith
    <3>2. Cardinality(FactsWith(r, id)) = Version(committed[id])
      BY <1>1, <2>1 DEF EventsAreCounted
    <3> QED
      BY <2>1, <3>1, <3>2 DEF Version
  <2> QED
    BY <2>1, <2>2, <2>3 DEF SerialInv, RunsAlone, RunsAreUndoable
<1> QED
  BY <1>2, <1>3, <1>4, <1>5, <1>6, <1>7, <1>8, StepsOfTheStore

LEMMA SerialInvariant == Spec => [](TypeOK /\ Bookkeeping /\ SerialInv)
BY InitTypeOK, NextTypeOK, InitUndoRecord, NextUndoRecord, InitBookkeeping, NextBookkeeping,
   InitSerialInv, NextSerialInv, PTL DEF Spec

\* Runs awaited one after the other are all or nothing, and none overwrites what
\* it has not read, however many there are and whatever they write.
THEOREM AwaitedRunsAreAtomic == Spec => []SerialRunsAreAtomic
<1>1. TypeOK /\ SerialInv => SerialRunsAreAtomic
  <2> SUFFICES ASSUME TypeOK, SerialInv, Serial, NEW id \in Ids, committed[id] # Absent
               PROVE  pc[committed[id].by] # "thrown" /\ committed[id].base = committed[id].over
    BY DEF SerialRunsAreAtomic, RolledBackWritesNoRows, NoLostUpdate
  <2> QED
    BY DEF SerialInv, RowsAreSound, Running
<1> QED
  BY <1>1, SerialInvariant, PTL

\* Between such runs every row has one recorded event for each of its versions,
\* and a row that is not there has none.
THEOREM RowsAndEventsAgree == Spec => []RowsMatchEvents
<1>1. TypeOK /\ Bookkeeping /\ SerialInv => RowsMatchEvents
  <2> SUFFICES ASSUME TypeOK, Bookkeeping, SerialInv, Serial, Running = {}, NEW id \in Ids
               PROVE  IF committed[id] = Absent THEN FactsOf(id) = {}
                      ELSE Cardinality(FactsOf(id)) = committed[id].version
    BY DEF RowsMatchEvents
  <2>1. Cardinality(FactsOf(id)) = Version(committed[id])
    BY DEF SerialInv, EventsAreCounted
  <2>2. IsFiniteSet(FactsOf(id))
    BY FS_Subset DEF Bookkeeping, FactsOf
  <2> QED
    BY <2>1, <2>2, FS_EmptySet DEF Version
<1> QED
  BY <1>1, SerialInvariant, PTL
=============================================================================
