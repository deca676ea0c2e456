----------------------- MODULE OutboxDispatcherProofs -----------------------
(***************************************************************************)
(* Theorems about OutboxDispatcher for every set of rows, every finite set *)
(* of dispatchers and every maxAttempts, batch size and number of faults.  *)
(***************************************************************************)
EXTENDS OutboxDispatcher, FiniteSetTheorems, TLAPS

InFlight(r) == {d \in Dispatchers : row[d] = r}

Working == {"handling", "mark", "record", "recordCommit"}

\* A dispatcher has a row exactly between selecting it and the end of that poll
\* step, and only ever selects a committed row.
RowMatchesPc ==
    \A d \in Dispatchers :
        /\ row[d] # NoRow <=> pc[d] \in Working
        /\ row[d] # NoRow => row[d] \in committed

MarkWasDelivered == \A d \in Dispatchers : pc[d] = "mark" => deliveries[row[d]] > 0

DispatchSafe ==
    /\ TypeOK
    /\ RowMatchesPc
    /\ LockExclusive
    /\ LiveDispatchIsPending
    /\ MarkWasDelivered
    /\ DispatchedWasDelivered

\* Each failure of r that may still be counted is one dispatcher in flight: it
\* selected r when attempts[r] was below MaxAttempts.
Charged ==
    \A r \in Rows : attempts[r] + Cardinality(InFlight(r))
                        <= MaxAttempts - 1 + Cardinality(Dispatchers)

USE RowsAssumption, DispatchersAssumption, AttemptsAssumption, BatchAssumption,
    TimeoutAssumption, UnregisteredAssumption, FaultsAssumption

LEMMA InitDispatchSafe == Init => DispatchSafe
<1> SUFFICES ASSUME Init PROVE DispatchSafe
  OBVIOUS
<1>1. TypeOK
  BY FS_EmptySet DEF Init, TypeOK, Locations, Reports, NoReport, NoRow, Unknown
<1>2. RowMatchesPc /\ LockExclusive /\ LiveDispatchIsPending /\ MarkWasDelivered
        /\ DispatchedWasDelivered
  BY DEF Init, RowMatchesPc, LockExclusive, LiveDispatchIsPending, MarkWasDelivered,
         DispatchedWasDelivered, HoldsLock, Working, NoRow
<1> QED
  BY <1>1, <1>2 DEF DispatchSafe

\* The part of TypeOK that is about a dispatcher and not about the table.
LocalTypeOK ==
    /\ pc \in [Dispatchers -> Locations]
    /\ row \in [Dispatchers -> Rows \cup {NoRow}]
    /\ conn \in [Dispatchers -> BOOLEAN]
    /\ signalled \in [Dispatchers -> BOOLEAN]
    /\ batch \in [Dispatchers -> Nat]
    /\ report \in [Dispatchers -> Reports]

LEMMA EndPollType ==
  ASSUME TypeOK, NEW d \in Dispatchers, NEW r \in Reports, EndPoll(d, r)
  PROVE  LocalTypeOK'
BY DEF TypeOK, LocalTypeOK, EndPoll, Locations, NoRow

LEMMA BumpType ==
  ASSUME NEW f \in [Rows -> Nat], NEW r \in Rows
  PROVE  [f EXCEPT ![r] = @ + 1] \in [Rows -> Nat]
OBVIOUS

LEMMA DispatchFailedType ==
  ASSUME TypeOK, NEW d \in Dispatchers, row[d] \in Rows, DispatchFailed(d)
  PROVE  /\ pc' \in [Dispatchers -> Locations]
         /\ signalled' \in [Dispatchers -> BOOLEAN]
         /\ failures' \in [Rows -> Nat]
         /\ UNCHANGED <<committed, attempts, row, batch, report, deliveries>>
<1>1. failures' \in [Rows -> Nat]
  BY BumpType DEF DispatchFailed, TypeOK
<1>2. pc' \in [Dispatchers -> Locations] /\ signalled' \in [Dispatchers -> BOOLEAN]
  BY DEF DispatchFailed, TypeOK, Locations
<1> QED
  BY <1>1, <1>2 DEF DispatchFailed

LEMMA NextTypeOK == TypeOK /\ RowMatchesPc /\ [Next]_vars => TypeOK'
<1> SUFFICES ASSUME TypeOK, RowMatchesPc, [Next]_vars PROVE TypeOK'
  OBVIOUS
<1> USE DEF table, history
<1>1. CASE UNCHANGED vars
  BY <1>1 DEF vars, TypeOK
<1>2. ASSUME NEW r \in Rows, Publish(r) PROVE TypeOK'
  BY <1>2, FS_AddElement DEF Publish, TypeOK
<1>3. ASSUME NEW d \in Dispatchers, Step(d) PROVE TypeOK'
  <2> USE DEF Goto
  <2>0. pc[d] \in Working => row[d] \in Rows /\ row[d] \in committed
    BY DEF RowMatchesPc, TypeOK
  <2>0a. NoReport \in Reports
    BY DEF NoReport, Reports, Unknown
  <2>1. CASE StartPoll(d)
    BY <2>1, <2>0a DEF StartPoll, TypeOK, Locations
  <2>2. CASE SelectNothing(d)
    BY <2>2 DEF SelectNothing, TypeOK, Locations
  <2>3. ASSUME NEW r \in Rows, SelectRow(d, r) PROVE TypeOK'
    BY <2>3 DEF SelectRow, TypeOK, Locations
  <2>4. CASE PollFails(d)
    <3>1. [NoReport EXCEPT !.kind = "fault"] \in Reports
      BY DEF NoReport, Reports, Unknown
    <3>2. LocalTypeOK'
      BY <2>4, <3>1, EndPollType DEF PollFails
    <3> QED
      BY <2>4, <3>2 DEF PollFails, Fault, LocalTypeOK, TypeOK
  <2>5. CASE TimeoutFires(d)
    BY <2>5 DEF TimeoutFires, TypeOK
  <2>6. CASE HandlerResolves(d)
    <3>1. deliveries' \in [Rows -> Nat]
      BY <2>0, <2>6, BumpType DEF HandlerResolves, Working, TypeOK
    <3>2. pc' \in [Dispatchers -> Locations] /\ signalled' \in [Dispatchers -> BOOLEAN]
      BY <2>6 DEF HandlerResolves, TypeOK, Locations
    <3>3. UNCHANGED <<table, row, conn, batch, report, failures, faults>>
      BY <2>6 DEF HandlerResolves
    <3> QED
      BY <3>1, <3>2, <3>3 DEF TypeOK
  <2>7. CASE HandlerRejects(d)
    <3>1. UNCHANGED <<dispatched, conn, faults>> /\ DispatchFailed(d) /\ row[d] \in Rows
      BY <2>7, <2>0 DEF HandlerRejects, Working
    <3> QED
      BY <3>1, DispatchFailedType DEF TypeOK
  <2>8. CASE MarkDispatched(d)
    <3>1. dispatched' \subseteq committed
      BY <2>8, <2>0 DEF MarkDispatched, Working, TypeOK
    <3>2. /\ pc' \in [Dispatchers -> Locations]
          /\ row' \in [Dispatchers -> Rows \cup {NoRow}]
          /\ batch' \in [Dispatchers -> Nat]
      BY <2>8 DEF MarkDispatched, TypeOK, Locations
    <3>3. UNCHANGED <<committed, attempts, conn, signalled, report, history, faults>>
      BY <2>8 DEF MarkDispatched
    <3> QED
      BY <3>1, <3>2, <3>3 DEF TypeOK
  <2>9. CASE MarkFails(d)
    <3>1. UNCHANGED <<dispatched, conn>> /\ DispatchFailed(d) /\ row[d] \in Rows
      BY <2>9, <2>0 DEF MarkFails, Working
    <3>2. faults' \in 0..MaxFaults
      BY <2>9 DEF MarkFails, Fault, TypeOK
    <3> QED
      BY <3>1, <3>2, DispatchFailedType DEF TypeOK
  <2>10. CASE CommitAnswerLost(d)
    <3>1. DispatchFailed(d) /\ row[d] \in Rows /\ dispatched' \subseteq committed
      BY <2>10, <2>0 DEF CommitAnswerLost, Working, TypeOK
    <3>2. faults' \in 0..MaxFaults /\ conn' \in [Dispatchers -> BOOLEAN]
      BY <2>10 DEF CommitAnswerLost, Fault, TypeOK
    <3> QED
      BY <3>1, <3>2, DispatchFailedType DEF TypeOK
  <2>11. CASE RecordUpdate(d)
    BY <2>11 DEF RecordUpdate, TypeOK, Locations
  <2>12. CASE RecordCommit(d) \/ RecordAnswerLost(d) \/ RecordFails(d)
    <3>1. row[d] \in Rows
      BY <2>0, <2>12 DEF RecordCommit, RecordAnswerLost, RecordFails, Working
    <3>2. attempts' \in [Rows -> Nat]
      BY <2>12, <3>1, BumpType DEF RecordCommit, RecordAnswerLost, RecordFails, TypeOK
    <3>3. \E n \in Nat : ThrowDispatchFailed(d, n)
      <4>1. CASE RecordCommit(d)
        <5>1. attempts \in [Rows -> Nat]
          BY DEF TypeOK
        <5> HIDE DEF TypeOK
        <5>2. attempts[row[d]] + 1 \in Nat
          BY ONLY <3>1, <5>1
        <5> QED
          BY <4>1, <5>2 DEF RecordCommit
      <4>2. CASE RecordAnswerLost(d) \/ RecordFails(d)
        BY <4>2 DEF RecordAnswerLost, RecordFails, Unknown
      <4> QED
        BY <4>1, <4>2, <2>12
    <3>4. LocalTypeOK'
      BY <3>1, <3>3, EndPollType DEF ThrowDispatchFailed, Reports
    <3>5. faults' \in 0..MaxFaults
      BY <2>12 DEF RecordCommit, RecordAnswerLost, RecordFails, Fault, TypeOK
    <3>6. UNCHANGED <<committed, dispatched, history>>
      BY <2>12 DEF RecordCommit, RecordAnswerLost, RecordFails
    <3> QED
      BY <3>2, <3>4, <3>5, <3>6 DEF LocalTypeOK, TypeOK
  <2>13. CASE Count(d)
    <3>1. Cardinality(Quarantined) \in Nat
      BY FS_Subset, FS_CardinalityType DEF Quarantined, TypeOK
    <3>2. [NoReport EXCEPT !.kind = "ok", !.quarantined = Cardinality(Quarantined)] \in Reports
      BY <3>1 DEF NoReport, Reports, Unknown
    <3>3. LocalTypeOK'
      BY <2>13, <3>2, EndPollType DEF Count
    <3> QED
      BY <2>13, <3>3 DEF Count, LocalTypeOK, TypeOK
  <2>14. CASE ConnectionLost(d)
    BY <2>14 DEF ConnectionLost, Fault, TypeOK
  <2>15. CASE Crash(d)
    <3>1. LocalTypeOK'
      BY <2>15, <2>0a, EndPollType DEF Crash
    <3> QED
      BY <2>15, <3>1 DEF Crash, Fault, LocalTypeOK, TypeOK
  <2> QED
    BY <1>3, <2>1, <2>2, <2>3, <2>4, <2>5, <2>6, <2>7, <2>8, <2>9, <2>10, <2>11,
       <2>12, <2>13, <2>14, <2>15 DEF Step
<1> QED
  BY <1>1, <1>2, <1>3 DEF Next

LEMMA NextDispatchSafe == DispatchSafe /\ [Next]_vars => DispatchSafe'
<1> SUFFICES ASSUME DispatchSafe, [Next]_vars PROVE DispatchSafe'
  OBVIOUS
<1> DEFINE Locals == RowMatchesPc' /\ LockExclusive' /\ LiveDispatchIsPending'
                     /\ MarkWasDelivered' /\ DispatchedWasDelivered'
<1>0. TypeOK /\ TypeOK'
  BY NextTypeOK DEF DispatchSafe
<1> USE DEF table, history, Goto, Working, NoRow, RowMatchesPc, LockExclusive,
            LiveDispatchIsPending, MarkWasDelivered, DispatchedWasDelivered, HoldsLock
<1>1. CASE UNCHANGED vars
  <2>1. RowMatchesPc'
    BY <1>1 DEF vars, DispatchSafe
  <2>2. LockExclusive'
    BY <1>1 DEF vars, DispatchSafe
  <2>3. LiveDispatchIsPending'
    BY <1>1 DEF vars, DispatchSafe
  <2>4. MarkWasDelivered'
    BY <1>1 DEF vars, DispatchSafe
  <2>5. DispatchedWasDelivered'
    BY <1>1 DEF vars, DispatchSafe
  <2> QED
    BY <1>0, <2>1, <2>2, <2>3, <2>4, <2>5 DEF DispatchSafe
<1>2. ASSUME NEW r \in Rows, Publish(r) PROVE Locals
  BY <1>0, <1>2 DEF Publish, DispatchSafe
<1>3. ASSUME NEW d \in Dispatchers, Step(d) PROVE Locals
  <2> USE <1>0 DEF DispatchSafe, TypeOK
  <2>1. CASE StartPoll(d)
    BY <2>1 DEF StartPoll
  <2>2. CASE SelectNothing(d)
    BY <2>2 DEF SelectNothing
  <2>3. ASSUME NEW r \in Rows, SelectRow(d, r) PROVE Locals
    BY <2>3 DEF SelectRow, IsNextRow, Eligible, Locked
  <2>4. CASE PollFails(d)
    BY <2>4 DEF PollFails, EndPoll
  <2>5. CASE TimeoutFires(d)
    BY <2>5 DEF TimeoutFires
  <2>6. CASE HandlerResolves(d)
    <3>1. RowMatchesPc'
      BY <2>6 DEF HandlerResolves
    <3>2. LockExclusive'
      BY <2>6 DEF HandlerResolves
    <3>3. LiveDispatchIsPending'
      BY <2>6 DEF HandlerResolves
    <3>4. ASSUME NEW e \in Dispatchers, pc'[e] = "mark" PROVE deliveries'[row'[e]] > 0
      <4>1. row' = row /\ row[d] \in Rows /\ row[e] \in Rows
        BY <2>6, <3>4 DEF HandlerResolves
      <4>2. deliveries' = [deliveries EXCEPT ![row[d]] = @ + 1] /\ deliveries \in [Rows -> Nat]
        BY <2>6 DEF HandlerResolves
      <4>3. CASE row[e] = row[d]
        BY ONLY <4>1, <4>2, <4>3
      <4>4. CASE row[e] # row[d]
        <5>1. e # d /\ pc[e] = "mark"
          BY <2>6, <3>4, <4>4 DEF HandlerResolves
        <5>2. deliveries[row[e]] > 0
          BY <5>1
        <5> QED
          BY ONLY <4>1, <4>2, <4>4, <5>2
      <4> QED
        BY <4>3, <4>4
    <3>5. DispatchedWasDelivered'
      BY <2>6 DEF HandlerResolves
    <3> QED
      BY <3>1, <3>2, <3>3, <3>4, <3>5
  <2>7. CASE HandlerRejects(d)
    BY <2>7 DEF HandlerRejects, DispatchFailed
  <2>8. CASE MarkDispatched(d)
    <3>1. RowMatchesPc'
      BY <2>8 DEF MarkDispatched
    <3>2. LockExclusive'
      BY <2>8 DEF MarkDispatched
    <3>3. ASSUME NEW e \in Dispatchers, row'[e] # NoRow, conn'[e], pc'[e] \in {"handling", "mark"}
          PROVE  row'[e] \in committed' \ dispatched'
      <4>1. e # d
        BY <2>8, <3>3 DEF MarkDispatched
      <4>2. row'[e] = row[e] /\ conn[e] /\ pc[e] \in {"handling", "mark"}
        BY <2>8, <3>3, <4>1 DEF MarkDispatched
      <4>3. row[e] \in committed \ dispatched /\ HoldsLock(e, row[e])
        BY <3>3, <4>2
      <4>4. HoldsLock(d, row[d]) /\ row[d] \in Rows /\ row[e] \in Rows
        BY <2>8, <3>3, <4>2 DEF MarkDispatched
      <4>5. row[e] # row[d]
        BY <4>1, <4>3, <4>4
      <4> QED
        BY <2>8, <4>2, <4>3, <4>5 DEF MarkDispatched
    <3>4. MarkWasDelivered'
      BY <2>8 DEF MarkDispatched
    <3>5. DispatchedWasDelivered'
      BY <2>8 DEF MarkDispatched
    <3> QED
      BY <3>1, <3>2, <3>3, <3>4, <3>5
  <2>9. CASE MarkFails(d)
    BY <2>9 DEF MarkFails, DispatchFailed
  <2>10. CASE CommitAnswerLost(d)
    <3>1. RowMatchesPc'
      BY <2>10 DEF CommitAnswerLost, DispatchFailed
    <3>2. LockExclusive'
      BY <2>10 DEF CommitAnswerLost, DispatchFailed
    <3>3. ASSUME NEW e \in Dispatchers, row'[e] # NoRow, conn'[e], pc'[e] \in {"handling", "mark"}
          PROVE  row'[e] \in committed' \ dispatched'
      <4>1. e # d
        BY <2>10, <3>3 DEF CommitAnswerLost, DispatchFailed
      <4>2. row'[e] = row[e] /\ conn[e] /\ pc[e] \in {"handling", "mark"}
        BY <2>10, <3>3, <4>1 DEF CommitAnswerLost, DispatchFailed
      <4>3. row[e] \in committed \ dispatched /\ HoldsLock(e, row[e])
        BY <3>3, <4>2
      <4>4. HoldsLock(d, row[d]) /\ row[d] \in Rows /\ row[e] \in Rows
        BY <2>10, <3>3, <4>2 DEF CommitAnswerLost, DispatchFailed
      <4>5. row[e] # row[d]
        BY <4>1, <4>3, <4>4
      <4> QED
        BY <2>10, <4>2, <4>3, <4>5 DEF CommitAnswerLost, DispatchFailed
    <3>4. MarkWasDelivered'
      BY <2>10 DEF CommitAnswerLost, DispatchFailed
    <3>5. DispatchedWasDelivered'
      BY <2>10 DEF CommitAnswerLost, DispatchFailed
    <3> QED
      BY <3>1, <3>2, <3>3, <3>4, <3>5
  <2>11. CASE RecordUpdate(d)
    BY <2>11 DEF RecordUpdate, Locked
  <2>12. CASE RecordCommit(d)
    BY <2>12 DEF RecordCommit, ThrowDispatchFailed, EndPoll
  <2>13. CASE RecordFails(d) \/ RecordAnswerLost(d)
    BY <2>13 DEF RecordFails, RecordAnswerLost, ThrowDispatchFailed, EndPoll
  <2>14. CASE Count(d) \/ Crash(d)
    <3>1. RowMatchesPc'
      BY <2>14 DEF Count, Crash, EndPoll
    <3>2. LockExclusive'
      BY <2>14 DEF Count, Crash, EndPoll
    <3>3. LiveDispatchIsPending'
      BY <2>14 DEF Count, Crash, EndPoll
    <3>4. MarkWasDelivered'
      BY <2>14 DEF Count, Crash, EndPoll
    <3>5. DispatchedWasDelivered'
      BY <2>14 DEF Count, Crash, EndPoll
    <3> QED
      BY <3>1, <3>2, <3>3, <3>4, <3>5
  <2>15. CASE ConnectionLost(d)
    BY <2>15 DEF ConnectionLost
  <2> QED
    BY <1>3, <2>1, <2>2, <2>3, <2>4, <2>5, <2>6, <2>7, <2>8, <2>9, <2>10, <2>11,
       <2>12, <2>13, <2>14, <2>15 DEF Step
<1> QED
  BY <1>0, <1>1, <1>2, <1>3 DEF Next, DispatchSafe

LEMMA InFlightFinite ==
  \A r : IsFiniteSet(InFlight(r)) /\ Cardinality(InFlight(r)) \in Nat
           /\ Cardinality(InFlight(r)) <= Cardinality(Dispatchers)
BY FS_Subset, FS_CardinalityType DEF InFlight

LEMMA InitCharged == Init => Charged
<1> SUFFICES ASSUME Init, NEW r \in Rows
             PROVE  attempts[r] + Cardinality(InFlight(r)) <= MaxAttempts - 1 + Cardinality(Dispatchers)
  BY DEF Charged
<1>1. attempts[r] = 0
  BY DEF Init
<1>2. Cardinality(Dispatchers) \in Nat
  BY FS_CardinalityType
<1> QED
  BY ONLY <1>1, <1>2, InFlightFinite, AttemptsAssumption

LEMMA NextCharged == DispatchSafe /\ Charged /\ [Next]_vars => Charged'
<1> SUFFICES ASSUME DispatchSafe, Charged, [Next]_vars, NEW r \in Rows
             PROVE  attempts'[r] + Cardinality(InFlight(r)') <= MaxAttempts - 1 + Cardinality(Dispatchers)
  BY DEF Charged
<1> USE DEF table, history, Goto
<1>1. /\ Cardinality(Dispatchers) \in Nat
      /\ attempts[r] \in Nat
      /\ attempts[r] + Cardinality(InFlight(r)) <= MaxAttempts - 1 + Cardinality(Dispatchers)
  BY FS_CardinalityType DEF DispatchSafe, TypeOK, Charged
<1>2. IsFiniteSet(InFlight(r)') /\ Cardinality(InFlight(r)') \in Nat
        /\ Cardinality(InFlight(r)') <= Cardinality(Dispatchers)
  BY FS_Subset, FS_CardinalityType DEF InFlight
\* Most steps count no failure and put nobody else in flight.
<1>3. ASSUME attempts' = attempts, InFlight(r)' \subseteq InFlight(r)
      PROVE  attempts'[r] + Cardinality(InFlight(r)') <= MaxAttempts - 1 + Cardinality(Dispatchers)
  <2>1. Cardinality(InFlight(r)') <= Cardinality(InFlight(r))
    BY <1>3, InFlightFinite, FS_Subset
  <2> QED
    BY ONLY <1>1, <1>2, <1>3, <2>1, InFlightFinite, AttemptsAssumption
\* A dispatcher that counts its failure of q is no longer in flight for q.
<1>4. ASSUME NEW d \in Dispatchers, RecordCommit(d) \/ RecordAnswerLost(d)
      PROVE  attempts'[r] + Cardinality(InFlight(r)') <= MaxAttempts - 1 + Cardinality(Dispatchers)
  <2>1. /\ row' = [row EXCEPT ![d] = NoRow]
        /\ attempts' = [attempts EXCEPT ![row[d]] = @ + 1]
    BY <1>4 DEF RecordCommit, RecordAnswerLost, ThrowDispatchFailed, EndPoll
  <2>2. row \in [Dispatchers -> Rows \cup {NoRow}] /\ attempts \in [Rows -> Nat]
    BY DEF DispatchSafe, TypeOK
  <2>3. CASE row[d] = r
    <3>1. d \in InFlight(r) /\ InFlight(r)' = InFlight(r) \ {d}
      BY <2>1, <2>2, <2>3 DEF InFlight, NoRow
    <3>2. Cardinality(InFlight(r)') = Cardinality(InFlight(r)) - 1
      BY <3>1, InFlightFinite, FS_RemoveElement
    <3>3. attempts'[r] = attempts[r] + 1
      BY ONLY <2>1, <2>2, <2>3, r \in Rows
    <3> QED
      BY ONLY <1>1, <3>2, <3>3, InFlightFinite, AttemptsAssumption
  <2>4. CASE row[d] # r
    <3>1. InFlight(r)' = InFlight(r)
      BY <2>1, <2>2, <2>4 DEF InFlight, NoRow
    <3>2. attempts'[r] = attempts[r]
      BY ONLY <2>1, <2>2, <2>4, r \in Rows
    <3> QED
      BY ONLY <1>1, <3>1, <3>2
  <2> QED
    BY <2>3, <2>4
\* A row is selected only while attempts is below MaxAttempts.
<1>5. ASSUME NEW d \in Dispatchers, NEW q \in Rows, SelectRow(d, q)
      PROVE  attempts'[r] + Cardinality(InFlight(r)') <= MaxAttempts - 1 + Cardinality(Dispatchers)
  <2>1. row' = [row EXCEPT ![d] = q] /\ attempts' = attempts /\ attempts[q] < MaxAttempts
    BY <1>5 DEF SelectRow, IsNextRow, Eligible
  <2>2. CASE q = r
    BY ONLY <1>1, <1>2, <2>1, <2>2, AttemptsAssumption
  <2>3. CASE q # r
    <3>1. InFlight(r)' \subseteq InFlight(r)
      BY <2>1, <2>3 DEF InFlight, DispatchSafe, TypeOK
    <3> QED
      BY <2>1, <3>1, <1>3
  <2> QED
    BY <2>2, <2>3
<1>6. CASE UNCHANGED vars
  BY <1>3, <1>6 DEF vars, InFlight
<1>7. ASSUME NEW q \in Rows, Publish(q)
      PROVE  attempts' = attempts /\ InFlight(r)' \subseteq InFlight(r)
  BY <1>7 DEF Publish, InFlight
<1>8. ASSUME NEW d \in Dispatchers, Step(d),
             ~(RecordCommit(d) \/ RecordAnswerLost(d)), ~(\E q \in Rows : SelectRow(d, q))
      PROVE  attempts' = attempts /\ InFlight(r)' \subseteq InFlight(r)
  <2>1. attempts' = attempts /\ (row' = row \/ row' = [row EXCEPT ![d] = NoRow])
    BY <1>8 DEF Step, StartPoll, SelectNothing, PollFails, TimeoutFires, HandlerResolves,
       HandlerRejects, MarkDispatched, MarkFails, CommitAnswerLost, RecordUpdate, RecordFails,
       Count, ConnectionLost, Crash, DispatchFailed, ThrowDispatchFailed, EndPoll
  <2>2. row \in [Dispatchers -> Rows \cup {NoRow}]
    BY DEF DispatchSafe, TypeOK
  <2> QED
    BY <2>1, <2>2 DEF InFlight, NoRow
<1> QED
  BY <1>3, <1>4, <1>5, <1>6, <1>7, <1>8 DEF Next

-----------------------------------------------------------------------------
\* The rows, locks and acknowledgements stay consistent whatever dispatchers do.
THEOREM DispatchIsSafe == Spec => []DispatchSafe
<1>1. Init => DispatchSafe
  BY InitDispatchSafe
<1>2. DispatchSafe /\ [Next]_vars => DispatchSafe'
  BY NextDispatchSafe
<1> QED
  BY <1>1, <1>2, PTL DEF Spec

\* No two transactions ever hold the lock of one outbox row, for any number of
\* dispatchers.
THEOREM LockIsExclusive == Spec => []LockExclusive
<1>1. DispatchSafe => LockExclusive
  BY DEF DispatchSafe
<1> QED
  BY <1>1, DispatchIsSafe, PTL

\* A dispatch on a live connection works on a row that is still pending.
THEOREM LiveDispatchesArePending == Spec => []LiveDispatchIsPending
<1>1. DispatchSafe => LiveDispatchIsPending
  BY DEF DispatchSafe
<1> QED
  BY <1>1, DispatchIsSafe, PTL

\* attempts never exceeds maxAttempts - 1 plus the number of dispatchers: the
\* stale window between ROLLBACK and the recording costs at most one extra
\* delivery per further dispatcher.
THEOREM AttemptsAreBounded == Spec => []AttemptsBounded
<1>1. DispatchSafe /\ Charged => AttemptsBounded
  <2> SUFFICES ASSUME DispatchSafe, Charged, NEW r \in Rows
               PROVE  attempts[r] <= MaxAttempts - 1 + Cardinality(Dispatchers)
    BY DEF AttemptsBounded
  <2>1. attempts[r] \in Nat /\ Cardinality(Dispatchers) \in Nat
    BY FS_CardinalityType DEF DispatchSafe, TypeOK
  <2>2. attempts[r] + Cardinality(InFlight(r)) <= MaxAttempts - 1 + Cardinality(Dispatchers)
    BY DEF Charged
  <2> QED
    BY ONLY <2>1, <2>2, InFlightFinite, AttemptsAssumption
<1>2. Init => Charged
  BY InitCharged
<1>3. DispatchSafe /\ Charged /\ [Next]_vars => Charged'
  BY NextCharged
<1> QED
  BY <1>1, <1>2, <1>3, DispatchIsSafe, PTL DEF Spec

\* The dispatchers and the table implement AtLeastOnce.
THEOREM DeliveryRefinement == Spec => DeliversAtLeastOnce
<1> USE DEF table, history, Goto
<1>1. Init => Delivery!Init
  BY DEF Init, Delivery!Init
<1>2. DispatchSafe /\ DispatchSafe' /\ [Next]_vars => [Delivery!Next]_(Delivery!vars)
  <2> SUFFICES ASSUME DispatchSafe, DispatchSafe', [Next]_vars
               PROVE  [Delivery!Next]_(Delivery!vars)
    OBVIOUS
  <2> DEFINE delivered == {r \in Rows : deliveries[r] > 0}
  <2>1. CASE committed' = committed /\ dispatched' = dispatched /\ deliveries' = deliveries
    BY <2>1 DEF Delivery!vars
  <2>2. ASSUME NEW r \in Rows, Publish(r) PROVE Delivery!Publish(r)
    BY <2>2 DEF Publish, Delivery!Publish
  <2>3. ASSUME NEW d \in Dispatchers, HandlerResolves(d) PROVE Delivery!Deliver(row[d]) /\ row[d] \in Rows
    <3>1. row[d] \in Rows /\ row[d] \in committed
      BY <2>3 DEF HandlerResolves, DispatchSafe, TypeOK, RowMatchesPc, Working, NoRow
    <3>2. deliveries' = [deliveries EXCEPT ![row[d]] = @ + 1] /\ UNCHANGED <<committed, dispatched>>
      BY <2>3 DEF HandlerResolves
    <3>3. deliveries \in [Rows -> Nat]
      BY DEF DispatchSafe, TypeOK
    <3>4. delivered' = delivered \cup {row[d]}
      BY ONLY <3>1, <3>2, <3>3
    <3> QED
      BY <3>1, <3>2, <3>4 DEF Delivery!Deliver
  <2>4. ASSUME NEW d \in Dispatchers, MarkDispatched(d) \/ CommitAnswerLost(d)
        PROVE  Delivery!Acknowledge(row[d]) /\ row[d] \in Rows
    <3>1. pc[d] = "mark" /\ conn[d] /\ dispatched' = dispatched \cup {row[d]}
            /\ UNCHANGED <<committed, deliveries>>
      BY <2>4 DEF MarkDispatched, CommitAnswerLost, DispatchFailed
    <3>2. row[d] # NoRow /\ row[d] \in Rows
      BY <3>1 DEF DispatchSafe, TypeOK, RowMatchesPc, Working, NoRow
    <3>3. row[d] \notin dispatched
      BY <3>1, <3>2 DEF DispatchSafe, LiveDispatchIsPending
    <3>4. row[d] \in delivered
      BY <3>1, <3>2 DEF DispatchSafe, MarkWasDelivered
    <3> QED
      BY <3>1, <3>2, <3>3, <3>4 DEF Delivery!Acknowledge
  <2>5. ASSUME NEW d \in Dispatchers, Step(d),
               ~HandlerResolves(d), ~MarkDispatched(d), ~CommitAnswerLost(d)
        PROVE  committed' = committed /\ dispatched' = dispatched /\ deliveries' = deliveries
    BY <2>5 DEF Step, StartPoll, SelectNothing, SelectRow, PollFails, TimeoutFires,
       HandlerRejects, MarkFails, RecordUpdate, RecordCommit, RecordFails, RecordAnswerLost,
       Count, ConnectionLost, Crash, DispatchFailed
  <2>6. CASE UNCHANGED vars
    BY <2>1, <2>6 DEF vars
  <2>7. CASE \E r \in Rows : Publish(r)
    BY <2>2, <2>7 DEF Delivery!Next
  <2>8. CASE \E d \in Dispatchers : Step(d)
    <3> PICK d \in Dispatchers : Step(d)
      BY <2>8
    <3>1. CASE HandlerResolves(d)
      <4>1. Delivery!Deliver(row[d]) /\ row[d] \in Rows
        BY <2>3, <3>1
      <4>2. Delivery!Next
        BY ONLY <4>1 DEF Delivery!Next, Delivery!Deliver
      <4> QED
        BY <4>2
    <3>2. CASE MarkDispatched(d) \/ CommitAnswerLost(d)
      BY <2>4, <3>2 DEF Delivery!Next
    <3>3. CASE ~HandlerResolves(d) /\ ~MarkDispatched(d) /\ ~CommitAnswerLost(d)
      BY <2>1, <2>5, <3>3
    <3> QED
      BY <3>1, <3>2, <3>3
  <2> QED
    BY <2>6, <2>7, <2>8 DEF Next
<1> QED
  BY <1>1, <1>2, DispatchIsSafe, PTL DEF Spec, DeliversAtLeastOnce, Delivery!Spec
-----------------------------------------------------------------------------
(* A failure of r that is yet to be counted belongs to a dispatcher that is *)
(* recording it.                                                           *)
Recording(r) == {d \in Dispatchers : row[d] = r /\ pc[d] \in {"record", "recordCommit"}}

FailuresCoverAttempts == \A r \in Rows : attempts[r] + Cardinality(Recording(r)) <= failures[r]

LEMMA RecordingFinite == \A r : IsFiniteSet(Recording(r)) /\ Cardinality(Recording(r)) \in Nat
BY FS_Subset, FS_CardinalityType DEF Recording

LEMMA NextFailuresCover ==
  DispatchSafe /\ FailuresCoverAttempts /\ [Next]_vars => FailuresCoverAttempts'
<1> SUFFICES ASSUME DispatchSafe, FailuresCoverAttempts, [Next]_vars, NEW r \in Rows
             PROVE  attempts'[r] + Cardinality(Recording(r)') <= failures'[r]
  BY DEF FailuresCoverAttempts
<1> DEFINE Goal == attempts'[r] + Cardinality(Recording(r)') <= failures'[r]
<1> USE DEF table, history, Goto
<1>1. /\ attempts[r] \in Nat /\ failures[r] \in Nat
      /\ attempts[r] + Cardinality(Recording(r)) <= failures[r]
  BY DEF DispatchSafe, TypeOK, FailuresCoverAttempts
<1>2. IsFiniteSet(Recording(r)') /\ Cardinality(Recording(r)') \in Nat
  BY FS_Subset, FS_CardinalityType DEF Recording
<1>3. /\ row \in [Dispatchers -> Rows \cup {NoRow}] /\ pc \in [Dispatchers -> Locations]
      /\ attempts \in [Rows -> Nat] /\ failures \in [Rows -> Nat]
  BY DEF DispatchSafe, TypeOK
\* Most steps fail no dispatch and count none.
<1>4. ASSUME attempts' = attempts, failures' = failures, Recording(r)' \subseteq Recording(r)
      PROVE  Goal
  <2>1. Cardinality(Recording(r)') <= Cardinality(Recording(r))
    BY <1>4, RecordingFinite, FS_Subset
  <2> QED
    BY ONLY <1>1, <1>2, <1>4, <2>1, RecordingFinite
\* A failed dispatch puts its dispatcher among those that record.
<1>5. ASSUME NEW d \in Dispatchers, DispatchFailed(d), pc[d] \in {"handling", "mark"}, row[d] \in Rows
      PROVE  Goal
  <2>1. /\ pc' = [pc EXCEPT ![d] = "record"] /\ row' = row /\ attempts' = attempts
        /\ failures' = [failures EXCEPT ![row[d]] = @ + 1]
    BY <1>5 DEF DispatchFailed
  <2>2. CASE row[d] = r
    <3>1. Recording(r)' = Recording(r) \cup {d} /\ d \notin Recording(r)
      BY <1>3, <1>5, <2>1, <2>2 DEF Recording
    <3>2. Cardinality(Recording(r)') = Cardinality(Recording(r)) + 1
      BY <3>1, RecordingFinite, FS_AddElement
    <3>3. failures'[r] = failures[r] + 1 /\ attempts'[r] = attempts[r]
      BY ONLY <1>3, <2>1, <2>2, r \in Rows
    <3> QED
      BY ONLY <1>1, <3>2, <3>3, RecordingFinite
  <2>3. CASE row[d] # r
    <3>1. Recording(r)' = Recording(r)
      BY <1>3, <2>1, <2>3 DEF Recording
    <3>2. failures'[r] = failures[r] /\ attempts'[r] = attempts[r]
      BY ONLY <1>3, <2>1, <2>3, r \in Rows
    <3> QED
      BY ONLY <1>1, <3>1, <3>2
  <2> QED
    BY <2>2, <2>3
\* A counted failure takes its dispatcher out again.
<1>6. ASSUME NEW d \in Dispatchers, RecordCommit(d) \/ RecordAnswerLost(d)
      PROVE  Goal
  <2>1. /\ row' = [row EXCEPT ![d] = NoRow] /\ pc' = [pc EXCEPT ![d] = "idle"]
        /\ attempts' = [attempts EXCEPT ![row[d]] = @ + 1] /\ failures' = failures
        /\ pc[d] = "recordCommit"
    BY <1>6 DEF RecordCommit, RecordAnswerLost, ThrowDispatchFailed, EndPoll
  <2>2. CASE row[d] = r
    <3>1. d \in Recording(r) /\ Recording(r)' = Recording(r) \ {d}
      BY <1>3, <2>1, <2>2 DEF Recording
    <3>2. Cardinality(Recording(r)') = Cardinality(Recording(r)) - 1
      BY <3>1, RecordingFinite, FS_RemoveElement
    <3>3. attempts'[r] = attempts[r] + 1 /\ failures'[r] = failures[r]
      BY ONLY <1>3, <2>1, <2>2, r \in Rows
    <3> QED
      BY ONLY <1>1, <3>2, <3>3, RecordingFinite
  <2>3. CASE row[d] # r
    <3>1. Recording(r)' = Recording(r)
      BY <1>3, <2>1, <2>3 DEF Recording
    <3>2. attempts'[r] = attempts[r] /\ failures'[r] = failures[r]
      BY ONLY <1>3, <2>1, <2>3, r \in Rows
    <3> QED
      BY ONLY <1>1, <3>1, <3>2
  <2> QED
    BY <2>2, <2>3
<1>7. CASE UNCHANGED vars \/ \E q \in Rows : Publish(q)
  BY <1>4, <1>7 DEF vars, Publish, Recording
<1>8. ASSUME NEW d \in Dispatchers, Step(d) PROVE Goal
  <2>0. pc[d] \in Working => row[d] \in Rows
    BY <1>3 DEF DispatchSafe, RowMatchesPc, NoRow
  <2>1. CASE RecordCommit(d) \/ RecordAnswerLost(d)
    BY <1>6, <2>1
  <2>2. CASE HandlerRejects(d) \/ MarkFails(d) \/ CommitAnswerLost(d)
    BY <1>5, <2>0, <2>2 DEF HandlerRejects, MarkFails, CommitAnswerLost, Working
  <2>3. CASE StartPoll(d) \/ SelectNothing(d) \/ TimeoutFires(d) \/ HandlerResolves(d) \/ ConnectionLost(d)
               \/ RecordUpdate(d)
    BY <1>3, <1>4, <2>3 DEF StartPoll, SelectNothing, TimeoutFires, HandlerResolves, ConnectionLost,
       RecordUpdate, Recording
  <2>4. CASE PollFails(d) \/ RecordFails(d) \/ Count(d) \/ Crash(d)
    BY <1>3, <1>4, <2>4 DEF PollFails, RecordFails, Count, Crash, ThrowDispatchFailed, EndPoll, Recording, NoRow
  <2>5. CASE MarkDispatched(d)
    BY <1>3, <1>4, <2>5 DEF MarkDispatched, Recording
  <2>6. CASE \E q \in Rows : SelectRow(d, q)
    BY <1>3, <1>4, <2>6 DEF SelectRow, Recording
  <2> QED
    BY <1>8, <2>1, <2>2, <2>3, <2>4, <2>5, <2>6 DEF Step
<1> QED
  BY <1>7, <1>8 DEF Next

\* No failure is ever counted twice, by its own dispatcher or by another one, so a
\* quarantined row really failed maxAttempts times.
THEOREM NoAttemptWithoutFailure == Spec => []NoSpuriousQuarantine
<1>1. Init => FailuresCoverAttempts
  <2> SUFFICES ASSUME Init, NEW r \in Rows
               PROVE  attempts[r] + Cardinality(Recording(r)) <= failures[r]
    BY DEF FailuresCoverAttempts
  <2>1. Recording(r) = {} /\ attempts[r] = 0 /\ failures[r] = 0
    BY DEF Init, Recording
  <2> QED
    BY <2>1, FS_EmptySet
<1>2. DispatchSafe /\ FailuresCoverAttempts => NoSpuriousQuarantine
  <2> SUFFICES ASSUME DispatchSafe, FailuresCoverAttempts, NEW r \in Rows
               PROVE  attempts[r] <= failures[r]
    BY DEF NoSpuriousQuarantine
  <2>1. /\ attempts[r] \in Nat /\ failures[r] \in Nat
        /\ attempts[r] + Cardinality(Recording(r)) <= failures[r]
    BY DEF DispatchSafe, TypeOK, FailuresCoverAttempts
  <2> QED
    BY ONLY <2>1, RecordingFinite
<1> QED
  BY <1>1, <1>2, NextFailuresCover, DispatchIsSafe, PTL DEF Spec

-----------------------------------------------------------------------------
\* The lock keeps attempts of a row below the limit while it is dispatched, for
\* a failure of it can be counted only under the same lock.
LiveBelowLimit ==
    \A d \in Dispatchers : row[d] # NoRow /\ conn[d] /\ pc[d] \in {"handling", "mark"}
        => attempts[row[d]] < MaxAttempts

LEMMA NextLiveBelowLimit ==
  DispatchSafe /\ LiveBelowLimit /\ [Next]_vars => LiveBelowLimit'
<1> SUFFICES ASSUME DispatchSafe, LiveBelowLimit, [Next]_vars,
                    NEW e \in Dispatchers, row'[e] # NoRow, conn'[e], pc'[e] \in {"handling", "mark"}
             PROVE  attempts'[row'[e]] < MaxAttempts
  BY DEF LiveBelowLimit
<1> USE DEF table, history, Goto
<1>1. /\ row \in [Dispatchers -> Rows \cup {NoRow}] /\ pc \in [Dispatchers -> Locations]
      /\ attempts \in [Rows -> Nat] /\ conn \in [Dispatchers -> BOOLEAN]
  BY DEF DispatchSafe, TypeOK
<1>2. ASSUME row'[e] = row[e], pc[e] \in {"handling", "mark"}, conn[e], attempts' = attempts
      PROVE  attempts'[row'[e]] < MaxAttempts
  BY <1>2 DEF LiveBelowLimit
<1>3. CASE UNCHANGED vars \/ \E q \in Rows : Publish(q)
  BY <1>2, <1>3 DEF vars, Publish
<1>4. ASSUME NEW d \in Dispatchers, Step(d) PROVE attempts'[row'[e]] < MaxAttempts
  <2>1. CASE RecordCommit(d) \/ RecordAnswerLost(d)
    <3>1. /\ row' = [row EXCEPT ![d] = NoRow] /\ pc' = [pc EXCEPT ![d] = "idle"]
          /\ conn' = [conn EXCEPT ![d] = TRUE]
          /\ attempts' = [attempts EXCEPT ![row[d]] = @ + 1]
          /\ pc[d] = "recordCommit" /\ conn[d]
      BY <2>1 DEF RecordCommit, RecordAnswerLost, ThrowDispatchFailed, EndPoll
    <3>2. e # d /\ row'[e] = row[e] /\ conn[e] /\ pc[e] \in {"handling", "mark"} /\ row[e] # NoRow
      BY <1>1, <3>1
    <3>3. HoldsLock(e, row[e]) /\ HoldsLock(d, row[d]) /\ row[e] \in Rows
      BY <1>1, <3>1, <3>2 DEF HoldsLock
    <3>4. row[d] # row[e]
      BY <3>2, <3>3 DEF DispatchSafe, LockExclusive
    <3>5. attempts[row[e]] < MaxAttempts
      BY <3>2 DEF LiveBelowLimit
    <3> QED
      BY ONLY <1>1, <3>1, <3>2, <3>3, <3>4, <3>5
  <2>2. CASE StartPoll(d) \/ SelectNothing(d) \/ TimeoutFires(d) \/ HandlerResolves(d) \/ ConnectionLost(d)
               \/ RecordUpdate(d)
    BY <1>1, <1>2, <2>2 DEF StartPoll, SelectNothing, TimeoutFires, HandlerResolves, ConnectionLost, RecordUpdate
  <2>3. CASE HandlerRejects(d) \/ MarkFails(d) \/ CommitAnswerLost(d)
    BY <1>1, <1>2, <2>3 DEF HandlerRejects, MarkFails, CommitAnswerLost, DispatchFailed
  <2>4. CASE PollFails(d) \/ RecordFails(d) \/ Count(d) \/ Crash(d)
    BY <1>1, <1>2, <2>4 DEF PollFails, RecordFails, Count, Crash, ThrowDispatchFailed, EndPoll
  <2>5. CASE MarkDispatched(d)
    BY <1>1, <1>2, <2>5 DEF MarkDispatched
  <2>6. ASSUME NEW q \in Rows, SelectRow(d, q) PROVE attempts'[row'[e]] < MaxAttempts
    BY <1>1, <1>2, <2>6 DEF SelectRow, IsNextRow, Eligible
  <2> QED
    BY <1>4, <2>1, <2>2, <2>3, <2>4, <2>5, <2>6 DEF Step
<1> QED
  BY <1>3, <1>4 DEF Next

\* No step of any dispatcher takes a row out of quarantine.
THEOREM QuarantineNeverEnds == Spec => QuarantineIsFinal
<1>1. Init => LiveBelowLimit
  BY DEF Init, LiveBelowLimit
<1>2. DispatchSafe /\ LiveBelowLimit /\ [Next]_vars => [Quarantined \subseteq Quarantined']_vars
  <2> SUFFICES ASSUME DispatchSafe, LiveBelowLimit, [Next]_vars, NEW r \in Quarantined
               PROVE  r \in Quarantined'
    OBVIOUS
  <2> USE DEF table, history, Goto
  <2>1. /\ row \in [Dispatchers -> Rows \cup {NoRow}] /\ pc \in [Dispatchers -> Locations]
        /\ attempts \in [Rows -> Nat] /\ conn \in [Dispatchers -> BOOLEAN]
        /\ r \in committed /\ r \in Rows /\ r \notin dispatched /\ attempts[r] >= MaxAttempts
    BY DEF DispatchSafe, TypeOK, Quarantined
  <2>2. ASSUME r \in committed', r \notin dispatched', attempts'[r] >= MaxAttempts
        PROVE  r \in Quarantined'
    BY <2>2 DEF Quarantined
  <2>3. CASE UNCHANGED vars \/ \E q \in Rows : Publish(q)
    BY <2>1, <2>2, <2>3 DEF vars, Publish
  <2>4. ASSUME NEW d \in Dispatchers, Step(d) PROVE r \in Quarantined'
    <3>0. pc[d] \in Working => row[d] \in Rows
      BY <2>1 DEF DispatchSafe, RowMatchesPc, NoRow
    <3>1. CASE MarkDispatched(d) \/ CommitAnswerLost(d)
      <4>1. /\ pc[d] = "mark" /\ conn[d] /\ dispatched' = dispatched \cup {row[d]}
            /\ committed' = committed /\ attempts' = attempts
        BY <3>1 DEF MarkDispatched, CommitAnswerLost, DispatchFailed
      <4>2. row[d] \in Rows /\ row[d] # NoRow
        BY <3>0, <4>1 DEF Working, NoRow
      <4>3. attempts[row[d]] < MaxAttempts /\ attempts[row[d]] \in Nat
        BY <2>1, <4>1, <4>2 DEF LiveBelowLimit
      <4>4. r # row[d]
        BY ONLY <2>1, <4>3, AttemptsAssumption
      <4> QED
        BY <2>1, <2>2, <4>1, <4>4
    <3>2. CASE RecordCommit(d) \/ RecordAnswerLost(d)
      <4>1. /\ pc[d] = "recordCommit" /\ committed' = committed /\ dispatched' = dispatched
            /\ attempts' = [attempts EXCEPT ![row[d]] = @ + 1]
        BY <3>2 DEF RecordCommit, RecordAnswerLost
      <4>2. row[d] \in Rows
        BY <3>0, <4>1 DEF Working
      <4>3. attempts'[r] >= MaxAttempts
        BY ONLY <2>1, <4>1, <4>2, AttemptsAssumption
      <4> QED
        BY <2>1, <2>2, <4>1, <4>3
    <3>3. CASE ~(MarkDispatched(d) \/ CommitAnswerLost(d) \/ RecordCommit(d) \/ RecordAnswerLost(d))
      <4>1. committed' = committed /\ dispatched' = dispatched /\ attempts' = attempts
        BY <2>4, <3>3 DEF Step, StartPoll, SelectNothing, SelectRow, PollFails, TimeoutFires,
           HandlerResolves, HandlerRejects, MarkFails, RecordUpdate, RecordFails,
           Count, ConnectionLost, Crash, DispatchFailed
      <4> QED
        BY <2>1, <2>2, <4>1
    <3> QED
      BY <3>1, <3>2, <3>3
  <2> QED
    BY <2>3, <2>4 DEF Next
<1> QED
  BY <1>1, <1>2, NextLiveBelowLimit, DispatchIsSafe, PTL DEF Spec, QuarantineIsFinal

-----------------------------------------------------------------------------
(* A second delivery is owed to a fault: each fault makes at most one ghost, *)
(* a handler whose row is no longer locked, or loses one acknowledgement.   *)
Ghosts(r) == {d \in Dispatchers : row[d] = r /\ pc[d] = "handling" /\ ~conn[d]}

\* The delivery that needs no fault is acknowledged, or about to be.
Acknowledging(r) == r \in dispatched \/ \E d \in Dispatchers : row[d] = r /\ conn[d] /\ pc[d] = "mark"
Credit(r) == IF Acknowledging(r) THEN 1 ELSE 0

DeliveriesPaid ==
    /\ \A d \in Dispatchers : row[d] = NoRow => conn[d]
    /\ \A r \in Rows : deliveries[r] + Cardinality(Ghosts(r)) <= faults + Credit(r)

LEMMA GhostsFinite == \A r : IsFiniteSet(Ghosts(r)) /\ Cardinality(Ghosts(r)) \in Nat
BY FS_Subset, FS_CardinalityType DEF Ghosts

LEMMA CreditType == \A r : Credit(r) \in 0..1
BY DEF Credit

LEMMA NextDeliveriesPaid ==
  DispatchSafe /\ DeliveriesPaid /\ [Next]_vars => DeliveriesPaid'
<1> SUFFICES ASSUME DispatchSafe, DeliveriesPaid, [Next]_vars PROVE DeliveriesPaid'
  OBVIOUS
<1> USE DEF table, history, Goto
<1>1. /\ row \in [Dispatchers -> Rows \cup {NoRow}] /\ pc \in [Dispatchers -> Locations]
      /\ conn \in [Dispatchers -> BOOLEAN] /\ faults \in Nat /\ deliveries \in [Rows -> Nat]
  BY DEF DispatchSafe, TypeOK
<1>2. \A d \in Dispatchers : row'[d] = NoRow => conn'[d]
  <2>1. CASE UNCHANGED vars \/ \E q \in Rows : Publish(q)
    BY <2>1 DEF vars, Publish, DeliveriesPaid
  <2>2. ASSUME NEW d \in Dispatchers, Step(d) PROVE \A e \in Dispatchers : row'[e] = NoRow => conn'[e]
    <3>1. pc[d] \in Working <=> row[d] # NoRow
      BY DEF DispatchSafe, RowMatchesPc
    <3>2. CASE MarkDispatched(d) \/ ConnectionLost(d) \/ CommitAnswerLost(d)
      BY <1>1, <3>1, <3>2 DEF MarkDispatched, ConnectionLost, CommitAnswerLost, DispatchFailed,
         DeliveriesPaid, Working
    <3>3. CASE PollFails(d) \/ RecordFails(d) \/ Count(d) \/ Crash(d) \/ RecordCommit(d) \/ RecordAnswerLost(d)
      BY <1>1, <3>3 DEF PollFails, RecordFails, Count, Crash, RecordCommit, RecordAnswerLost,
         ThrowDispatchFailed, EndPoll, DeliveriesPaid
    <3>4. CASE HandlerRejects(d) \/ MarkFails(d)
      BY <3>4 DEF HandlerRejects, MarkFails, DispatchFailed, DeliveriesPaid
    <3>5. CASE StartPoll(d) \/ SelectNothing(d) \/ TimeoutFires(d) \/ HandlerResolves(d) \/ RecordUpdate(d)
      BY <3>5 DEF StartPoll, SelectNothing, TimeoutFires, HandlerResolves, RecordUpdate, DeliveriesPaid
    <3>6. ASSUME NEW q \in Rows, SelectRow(d, q) PROVE \A e \in Dispatchers : row'[e] = NoRow => conn'[e]
      BY <1>1, <3>6 DEF SelectRow, DeliveriesPaid, NoRow
    <3> QED
      BY <2>2, <3>2, <3>3, <3>4, <3>5, <3>6 DEF Step
  <2> QED
    BY <2>1, <2>2 DEF Next
<1>3. SUFFICES ASSUME NEW r \in Rows
               PROVE  deliveries'[r] + Cardinality(Ghosts(r)') <= faults' + Credit(r)'
  BY <1>2 DEF DeliveriesPaid
<1> DEFINE Goal == deliveries'[r] + Cardinality(Ghosts(r)') <= faults' + Credit(r)'
<1>4. /\ deliveries[r] \in Nat /\ Cardinality(Ghosts(r)) \in Nat /\ Credit(r) \in 0..1
      /\ deliveries[r] + Cardinality(Ghosts(r)) <= faults + Credit(r)
  BY <1>1, GhostsFinite, CreditType DEF DeliveriesPaid
<1>5. IsFiniteSet(Ghosts(r)') /\ Cardinality(Ghosts(r)') \in Nat /\ Credit(r)' \in 0..1
  BY FS_Subset, FS_CardinalityType DEF Ghosts, Credit
\* Most steps deliver nothing, make no ghost and keep what is acknowledged.
<1>6. ASSUME deliveries'[r] = deliveries[r], Ghosts(r)' \subseteq Ghosts(r), faults' = faults,
             Acknowledging(r) => Acknowledging(r)'
      PROVE  Goal
  <2>1. Cardinality(Ghosts(r)') <= Cardinality(Ghosts(r))
    BY <1>6, GhostsFinite, FS_Subset
  <2>2. Credit(r) <= Credit(r)'
    BY <1>6 DEF Credit
  <2> QED
    BY ONLY <1>1, <1>4, <1>5, <1>6, <2>1, <2>2
\* A fault pays for the acknowledgement it loses,
<1>7. ASSUME deliveries'[r] = deliveries[r], Ghosts(r)' \subseteq Ghosts(r), faults' = faults + 1
      PROVE  Goal
  <2>1. Cardinality(Ghosts(r)') <= Cardinality(Ghosts(r))
    BY <1>7, GhostsFinite, FS_Subset
  <2> QED
    BY ONLY <1>1, <1>4, <1>5, <1>7, <2>1
\* or for the ghost it makes.
<1>8. ASSUME NEW d \in Dispatchers, ConnectionLost(d) PROVE Goal
  <2>1. /\ row' = row /\ pc' = pc /\ deliveries' = deliveries /\ dispatched' = dispatched
        /\ conn' = [conn EXCEPT ![d] = FALSE] /\ faults' = faults + 1 /\ conn[d]
    BY <1>8 DEF ConnectionLost, Fault
  <2>2. CASE row[d] = r /\ pc[d] = "handling"
    <3>1. Ghosts(r)' = Ghosts(r) \cup {d} /\ d \notin Ghosts(r)
      BY <1>1, <2>1, <2>2 DEF Ghosts
    <3>2. Cardinality(Ghosts(r)') = Cardinality(Ghosts(r)) + 1
      BY <3>1, GhostsFinite, FS_AddElement
    <3>3. Acknowledging(r) => Acknowledging(r)'
      <4> SUFFICES ASSUME NEW e \in Dispatchers, row[e] = r, conn[e], pc[e] = "mark"
                   PROVE  row'[e] = r /\ conn'[e] /\ pc'[e] = "mark"
        BY <2>1 DEF Acknowledging
      <4> QED
        BY <1>1, <2>1, <2>2
    <3>4. Credit(r) <= Credit(r)'
      BY <3>3 DEF Credit
    <3> QED
      BY ONLY <1>1, <1>4, <1>5, <2>1, <3>2, <3>4
  <2>3. CASE ~(row[d] = r /\ pc[d] = "handling")
    <3>1. Ghosts(r)' \subseteq Ghosts(r)
      BY <1>1, <2>1, <2>3 DEF Ghosts
    <3> QED
      BY <1>7, <2>1, <3>1
  <2> QED
    BY <2>2, <2>3
\* A delivery by a ghost was paid for before; any other one is the first
\* delivery that is acknowledged or about to be.
<1>9. ASSUME NEW d \in Dispatchers, HandlerResolves(d) PROVE Goal
  <2>1. /\ pc[d] = "handling" /\ pc' = [pc EXCEPT ![d] = "mark"] /\ row' = row /\ conn' = conn
        /\ deliveries' = [deliveries EXCEPT ![row[d]] = @ + 1]
        /\ dispatched' = dispatched /\ faults' = faults
    BY <1>9 DEF HandlerResolves
  <2>2. row[d] \in Rows /\ row[d] # NoRow
    BY <1>1, <2>1 DEF DispatchSafe, RowMatchesPc, Working, NoRow
  <2>3. CASE row[d] # r
    <3>1. deliveries'[r] = deliveries[r]
      BY ONLY <1>1, <2>1, <2>2, <2>3, r \in Rows
    <3>2. Ghosts(r)' \subseteq Ghosts(r) /\ (Acknowledging(r) => Acknowledging(r)')
      BY <1>1, <2>1, <2>3 DEF Ghosts, Acknowledging
    <3> QED
      BY <1>6, <2>1, <3>1, <3>2
  <2>4. CASE row[d] = r
    <3>1. deliveries'[r] = deliveries[r] + 1
      BY ONLY <1>1, <2>1, <2>2, <2>4, r \in Rows
    <3>2. CASE conn[d]
      <4>1. r \notin dispatched
        BY <2>1, <2>2, <2>4, <3>2 DEF DispatchSafe, LiveDispatchIsPending
      <4>2. ASSUME NEW e \in Dispatchers, row[e] = r, conn[e], pc[e] = "mark" PROVE FALSE
        <5>1. HoldsLock(e, r) /\ HoldsLock(d, r)
          BY <2>1, <2>4, <3>2, <4>2 DEF HoldsLock
        <5> QED
          BY <2>1, <4>2, <5>1 DEF DispatchSafe, LockExclusive
      <4>3. Credit(r) = 0
        BY <4>1, <4>2 DEF Credit, Acknowledging
      <4>4. row'[d] = r /\ conn'[d] /\ pc'[d] = "mark"
        BY <1>1, <2>1, <2>4, <3>2
      <4>5. Credit(r)' = 1
        BY <4>4 DEF Credit, Acknowledging
      <4>6. Ghosts(r)' \subseteq Ghosts(r)
        BY <1>1, <2>1, <2>4 DEF Ghosts
      <4>7. Cardinality(Ghosts(r)') <= Cardinality(Ghosts(r))
        BY <4>6, GhostsFinite, FS_Subset
      <4> QED
        BY ONLY <1>1, <1>4, <1>5, <2>1, <3>1, <4>3, <4>5, <4>7
    <3>3. CASE ~conn[d]
      <4>1. d \in Ghosts(r) /\ Ghosts(r)' = Ghosts(r) \ {d}
        BY <1>1, <2>1, <2>4, <3>3 DEF Ghosts
      <4>2. Cardinality(Ghosts(r)') = Cardinality(Ghosts(r)) - 1
        BY <4>1, GhostsFinite, FS_RemoveElement
      <4>3. Acknowledging(r) => Acknowledging(r)'
        BY <1>1, <2>1, <3>3 DEF Acknowledging
      <4>4. Credit(r) <= Credit(r)'
        BY <4>3 DEF Credit
      <4> QED
        BY ONLY <1>1, <1>4, <1>5, <2>1, <3>1, <4>2, <4>4
    <3> QED
      BY <3>2, <3>3
  <2> QED
    BY <2>3, <2>4
<1>10. CASE UNCHANGED vars \/ \E q \in Rows : Publish(q)
  <2>1. row' = row /\ pc' = pc /\ conn' = conn /\ deliveries' = deliveries /\ faults' = faults
          /\ dispatched' = dispatched
    BY <1>10 DEF vars, Publish
  <2> QED
    BY <1>6, <2>1 DEF Ghosts, Acknowledging
<1>11. ASSUME NEW d \in Dispatchers, Step(d) PROVE Goal
  <2>1. CASE HandlerResolves(d) \/ ConnectionLost(d)
    BY <1>8, <1>9, <2>1
  <2>2. CASE CommitAnswerLost(d) \/ PollFails(d) \/ Crash(d)
               \/ ((MarkFails(d) \/ RecordFails(d)) /\ conn[d]) \/ RecordAnswerLost(d)
    <3>1. deliveries' = deliveries /\ faults' = faults + 1
      BY <2>2 DEF CommitAnswerLost, PollFails, Crash, MarkFails, RecordFails, RecordAnswerLost, Fault, DispatchFailed
    <3>2. Ghosts(r)' \subseteq Ghosts(r)
      BY <1>1, <2>2 DEF CommitAnswerLost, PollFails, Crash, MarkFails, RecordFails, RecordAnswerLost,
         DispatchFailed, ThrowDispatchFailed, EndPoll, Ghosts, NoRow
    <3> QED
      BY <1>7, <3>1, <3>2
  <2>3. CASE (MarkFails(d) \/ RecordFails(d)) /\ ~conn[d]
    <3>1. deliveries' = deliveries /\ faults' = faults /\ dispatched' = dispatched
      BY <2>3 DEF MarkFails, RecordFails, DispatchFailed
    <3>2. Ghosts(r)' \subseteq Ghosts(r)
      BY <1>1, <2>3 DEF MarkFails, RecordFails, DispatchFailed, ThrowDispatchFailed, EndPoll, Ghosts, NoRow
    <3>3. Acknowledging(r) => Acknowledging(r)'
      BY <1>1, <2>3, <3>1 DEF MarkFails, RecordFails, DispatchFailed, ThrowDispatchFailed, EndPoll, Acknowledging
    <3> QED
      BY <1>6, <3>1, <3>2, <3>3
  <2>4. CASE MarkDispatched(d)
    <3>1. deliveries' = deliveries /\ faults' = faults
      BY <2>4 DEF MarkDispatched
    <3>2. Ghosts(r)' \subseteq Ghosts(r)
      BY <1>1, <2>4 DEF MarkDispatched, Ghosts, NoRow
    <3>3. Acknowledging(r) => Acknowledging(r)'
      BY <1>1, <2>4 DEF MarkDispatched, Acknowledging
    <3> QED
      BY <1>6, <3>1, <3>2, <3>3
  <2>5. CASE StartPoll(d) \/ SelectNothing(d) \/ TimeoutFires(d) \/ RecordUpdate(d) \/ HandlerRejects(d)
    <3>1. deliveries' = deliveries /\ faults' = faults /\ dispatched' = dispatched
      BY <2>5 DEF StartPoll, SelectNothing, TimeoutFires, RecordUpdate, HandlerRejects, DispatchFailed
    <3>2. Ghosts(r)' \subseteq Ghosts(r) /\ (Acknowledging(r) => Acknowledging(r)')
      BY <1>1, <2>5, <3>1 DEF StartPoll, SelectNothing, TimeoutFires, RecordUpdate, HandlerRejects,
         DispatchFailed, Ghosts, Acknowledging
    <3> QED
      BY <1>6, <3>1, <3>2
  <2>6. CASE Count(d) \/ RecordCommit(d)
    <3>1. deliveries' = deliveries /\ faults' = faults /\ dispatched' = dispatched
      BY <2>6 DEF Count, RecordCommit
    <3>2. Ghosts(r)' \subseteq Ghosts(r) /\ (Acknowledging(r) => Acknowledging(r)')
      BY <1>1, <2>6, <3>1 DEF Count, RecordCommit, ThrowDispatchFailed, EndPoll, Ghosts, Acknowledging, NoRow
    <3> QED
      BY <1>6, <3>1, <3>2
  <2>7. ASSUME NEW q \in Rows, SelectRow(d, q) PROVE Goal
    <3>1. /\ deliveries' = deliveries /\ faults' = faults /\ dispatched' = dispatched /\ conn' = conn
          /\ pc[d] = "polling" /\ row' = [row EXCEPT ![d] = q] /\ pc' = [pc EXCEPT ![d] = "handling"]
      BY <2>7 DEF SelectRow
    <3>2. conn[d]
      BY <3>1 DEF DispatchSafe, RowMatchesPc, Working, DeliveriesPaid
    <3>3. Ghosts(r)' \subseteq Ghosts(r) /\ (Acknowledging(r) => Acknowledging(r)')
      BY <1>1, <3>1, <3>2 DEF Ghosts, Acknowledging
    <3> QED
      BY <1>6, <3>1, <3>3
  <2> QED
    BY <1>11, <2>1, <2>2, <2>3, <2>4, <2>5, <2>6, <2>7 DEF Step
<1> QED
  BY <1>10, <1>11 DEF Next

\* Every delivery of an event beyond its first needs a fault of its own, for any
\* number of dispatchers and of faults.
THEOREM ExtraDeliveriesNeedFaults == Spec => []RedeliveryNeedsFault
<1>1. Init => DeliveriesPaid
  <2> SUFFICES ASSUME Init PROVE DeliveriesPaid
    OBVIOUS
  <2>1. \A d \in Dispatchers : conn[d]
    BY DEF Init
  <2>2. ASSUME NEW r \in Rows PROVE deliveries[r] + Cardinality(Ghosts(r)) <= faults + Credit(r)
    <3>1. Ghosts(r) = {} /\ deliveries[r] = 0 /\ faults = 0
      BY DEF Init, Ghosts
    <3> QED
      BY <3>1, FS_EmptySet, CreditType
  <2> QED
    BY <2>1, <2>2 DEF DeliveriesPaid
<1>2. DispatchSafe /\ DeliveriesPaid => RedeliveryNeedsFault
  <2> SUFFICES ASSUME DispatchSafe, DeliveriesPaid, NEW r \in Rows
               PROVE  deliveries[r] <= 1 + faults
    BY DEF RedeliveryNeedsFault
  <2>1. /\ deliveries[r] \in Nat /\ faults \in Nat
        /\ deliveries[r] + Cardinality(Ghosts(r)) <= faults + Credit(r)
    BY DEF DispatchSafe, TypeOK, DeliveriesPaid
  <2> QED
    BY ONLY <2>1, GhostsFinite, CreditType
<1> QED
  BY <1>1, <1>2, NextDeliveriesPaid, DispatchIsSafe, PTL DEF Spec

-----------------------------------------------------------------------------
(* With a single dispatcher a dispatch sees every earlier row of its        *)
(* aggregate settled, for nothing is locked while it selects.               *)
OneDispatcher == \A d, e \in Dispatchers : d = e

Settled(q) == deliveries[q] > 0 \/ attempts[q] >= MaxAttempts

AggregateInOrder ==
    /\ \A q, r \in Rows : EarlierOfAggregate(q, r) /\ r \in committed => q \in committed
    /\ \A q \in Rows, d \in Dispatchers : row[d] \in Rows /\ EarlierOfAggregate(q, row[d]) => Settled(q)
    /\ PerAggregateOrder

LEMMA CountsNeverFall ==
  ASSUME DispatchSafe, [Next]_vars, NEW q \in Rows
  PROVE  /\ deliveries'[q] >= deliveries[q]
         /\ attempts'[q] >= attempts[q]
         /\ deliveries[q] \in Nat /\ attempts[q] \in Nat
<1> USE DEF table, history
<1>1. attempts \in [Rows -> Nat] /\ deliveries \in [Rows -> Nat]
  BY DEF DispatchSafe, TypeOK
<1>2. CASE UNCHANGED vars \/ \E r \in Rows : Publish(r)
  BY <1>1, <1>2 DEF vars, Publish
<1>3. ASSUME NEW d \in Dispatchers, Step(d)
      PROVE  deliveries'[q] >= deliveries[q] /\ attempts'[q] >= attempts[q]
  <2>1. \/ deliveries' = deliveries
        \/ deliveries' = [deliveries EXCEPT ![row[d]] = @ + 1]
    BY <1>3 DEF Step, StartPoll, SelectNothing, SelectRow, PollFails, TimeoutFires, HandlerResolves,
       HandlerRejects, MarkDispatched, MarkFails, CommitAnswerLost, RecordUpdate, RecordCommit,
       RecordFails, RecordAnswerLost, Count, ConnectionLost, Crash, DispatchFailed
  <2>2. \/ attempts' = attempts
        \/ attempts' = [attempts EXCEPT ![row[d]] = @ + 1]
    BY <1>3 DEF Step, StartPoll, SelectNothing, SelectRow, PollFails, TimeoutFires, HandlerResolves,
       HandlerRejects, MarkDispatched, MarkFails, CommitAnswerLost, RecordUpdate, RecordCommit,
       RecordFails, RecordAnswerLost, Count, ConnectionLost, Crash, DispatchFailed
  <2>3. deliveries'[q] >= deliveries[q]
    BY ONLY <1>1, <2>1, q \in Rows
  <2>4. attempts'[q] >= attempts[q]
    BY ONLY <1>1, <2>2, q \in Rows
  <2> QED
    BY <2>3, <2>4
<1> QED
  BY <1>1, <1>2, <1>3 DEF Next

LEMMA SettledStays ==
  ASSUME DispatchSafe, [Next]_vars, NEW q \in Rows, Settled(q)
  PROVE  Settled(q)'
<1>1. /\ deliveries'[q] >= deliveries[q] /\ attempts'[q] >= attempts[q]
      /\ deliveries[q] \in Nat /\ attempts[q] \in Nat
  BY CountsNeverFall
<1>2. deliveries'[q] \in Nat /\ attempts'[q] \in Nat
  BY NextDispatchSafe DEF DispatchSafe, TypeOK
<1> QED
  BY <1>1, <1>2, AttemptsAssumption DEF Settled

LEMMA NextAggregateInOrder ==
  ASSUME OneDispatcher, DispatchSafe, AggregateInOrder, [Next]_vars
  PROVE  AggregateInOrder'
<1> USE DEF table, history, Goto
<1>1. /\ row \in [Dispatchers -> Rows \cup {NoRow}] /\ attempts \in [Rows -> Nat]
      /\ deliveries \in [Rows -> Nat]
  BY DEF DispatchSafe, TypeOK
<1>2. ASSUME NEW q \in Rows, NEW r \in Rows, EarlierOfAggregate(q, r), r \in committed'
      PROVE  q \in committed'
  <2>1. committed' = committed \/ \E p \in Rows : Publish(p)
    BY DEF Next, vars, Step, StartPoll, SelectNothing, SelectRow, PollFails, TimeoutFires,
       HandlerResolves, HandlerRejects, MarkDispatched, MarkFails, CommitAnswerLost, RecordUpdate,
       RecordCommit, RecordFails, RecordAnswerLost, Count, ConnectionLost, Crash, DispatchFailed
  <2> QED
    BY <1>2, <2>1 DEF Publish, AggregateInOrder
\* A row that is selected has every earlier row of its aggregate settled.
<1>3. ASSUME NEW q \in Rows, NEW d \in Dispatchers, row'[d] \in Rows, EarlierOfAggregate(q, row'[d])
      PROVE  Settled(q)'
  <2>1. CASE row'[d] = row[d]
    BY <1>3, <2>1, SettledStays DEF AggregateInOrder
  <2>2. CASE row'[d] # row[d]
    <3>1. SelectRow(d, row'[d])
      <4>1. PICK e \in Dispatchers : Step(e)
        BY <2>2 DEF Next, vars, Publish
      <4>2. e = d
        BY DEF OneDispatcher
      <4>3. row' = row \/ row' = [row EXCEPT ![d] = NoRow] \/ \E p \in Rows : SelectRow(d, p)
        BY <4>1, <4>2 DEF Step, StartPoll, SelectNothing, PollFails, TimeoutFires, HandlerResolves,
           HandlerRejects, MarkDispatched, MarkFails, CommitAnswerLost, RecordUpdate, RecordCommit,
           RecordFails, RecordAnswerLost, Count, ConnectionLost, Crash, DispatchFailed,
           ThrowDispatchFailed, EndPoll
      <4>4. PICK p \in Rows : SelectRow(d, p)
        BY <1>1, <1>3, <2>2, <4>3 DEF NoRow
      <4> QED
        BY <1>1, <4>4 DEF SelectRow
    <3>2. ~Locked(q)
      BY <3>1 DEF SelectRow, Locked, HoldsLock, OneDispatcher
    <3>3. q < row'[d] /\ q \in Nat /\ row'[d] \in Nat
      BY <1>3, RowsAssumption DEF EarlierOfAggregate
    <3>4. ~Eligible(q)
      <4>1. Eligible(q) => row'[d] <= q
        BY <3>1, <3>2 DEF SelectRow, IsNextRow
      <4> QED
        BY ONLY <3>3, <4>1
    <3>5. q \in committed
      BY <1>3, <3>1 DEF SelectRow, IsNextRow, Eligible, AggregateInOrder
    <3>6. q \in dispatched \/ attempts[q] >= MaxAttempts
      BY <1>1, <3>4, <3>5, AttemptsAssumption DEF Eligible
    <3>7. Settled(q)
      BY <3>6 DEF DispatchSafe, DispatchedWasDelivered, Settled
    <3> QED
      BY <3>7, SettledStays
  <2> QED
    BY <2>1, <2>2
<1>4. ASSUME NEW q \in Rows, NEW r \in Rows, EarlierOfAggregate(q, r), deliveries'[r] > 0
      PROVE  Settled(q)'
  <2>1. CASE deliveries[r] > 0
    BY <1>4, <2>1, SettledStays DEF AggregateInOrder, PerAggregateOrder, Settled
  <2>2. CASE ~(deliveries[r] > 0)
    <3>1. PICK d \in Dispatchers : HandlerResolves(d)
      <4>1. deliveries' # deliveries
        BY <1>4, <2>2
      <4> QED
        BY <4>1 DEF Next, vars, Publish, Step, StartPoll, SelectNothing, SelectRow, PollFails,
           TimeoutFires, HandlerRejects, MarkDispatched, MarkFails, CommitAnswerLost, RecordUpdate,
           RecordCommit, RecordFails, RecordAnswerLost, Count, ConnectionLost, Crash, DispatchFailed
    <3>2. deliveries' = [deliveries EXCEPT ![row[d]] = @ + 1]
      BY <3>1 DEF HandlerResolves
    <3>3. row[d] = r
      BY ONLY <1>1, <1>4, <2>2, <3>2, r \in Rows
    <3> QED
      BY <1>4, <3>3, SettledStays DEF AggregateInOrder
  <2> QED
    BY <2>1, <2>2
<1> QED
  BY <1>2, <1>3, <1>4 DEF AggregateInOrder, PerAggregateOrder, Settled, EarlierOfAggregate

\* One dispatcher delivers the events of an aggregate in order, quarantined ones
\* aside, whatever fails and however often it is restarted.
THEOREM OneDispatcherKeepsOrder == ASSUME OneDispatcher PROVE Spec => []PerAggregateOrder
<1>1. Init => AggregateInOrder
  BY DEF Init, AggregateInOrder, PerAggregateOrder, NoRow
<1>2. DispatchSafe /\ AggregateInOrder /\ [Next]_vars => AggregateInOrder'
  BY NextAggregateInOrder
<1>3. AggregateInOrder => PerAggregateOrder
  BY DEF AggregateInOrder
<1> QED
  BY <1>1, <1>2, <1>3, DispatchIsSafe, PTL DEF Spec

-----------------------------------------------------------------------------
(* With a single dispatcher no one dispatches a row between its ROLLBACK    *)
(* and the recording of its failure.                                        *)
ReportedRowIsQuarantined(d) ==
    LET seq == report[d].seq IN
    report[d].kind = "failed" /\ report[d].attempts >= MaxAttempts
        => seq \in Rows /\ attempts[seq] >= MaxAttempts /\ seq \notin dispatched

FailuresArePending ==
    \A d \in Dispatchers :
        /\ row[d] # NoRow /\ conn[d] => row[d] \notin dispatched
        /\ ReportedRowIsQuarantined(d)

LEMMA NextFailuresArePending ==
  ASSUME OneDispatcher, DispatchSafe, LiveBelowLimit, FailuresArePending, [Next]_vars
  PROVE  FailuresArePending'
<1> SUFFICES ASSUME NEW d \in Dispatchers
             PROVE  /\ row'[d] # NoRow /\ conn'[d] => row'[d] \notin dispatched'
                    /\ ReportedRowIsQuarantined(d)'
  BY DEF FailuresArePending
<1> USE DEF table, history, Goto
<1>1. /\ row \in [Dispatchers -> Rows \cup {NoRow}] /\ pc \in [Dispatchers -> Locations]
      /\ attempts \in [Rows -> Nat] /\ conn \in [Dispatchers -> BOOLEAN]
      /\ report \in [Dispatchers -> Reports]
  BY DEF DispatchSafe, TypeOK
<1>2. /\ row[d] # NoRow /\ conn[d] => row[d] \notin dispatched
      /\ ReportedRowIsQuarantined(d)
  BY DEF FailuresArePending
<1>3. \A q \in Rows : attempts[q] >= MaxAttempts => attempts'[q] >= MaxAttempts
  <2> TAKE q \in Rows
  <2>1. attempts'[q] >= attempts[q] /\ attempts[q] \in Nat
    BY CountsNeverFall
  <2>2. attempts'[q] \in Nat
    BY NextDispatchSafe DEF DispatchSafe, TypeOK
  <2> QED
    BY ONLY <2>1, <2>2, AttemptsAssumption
\* A report stays true while nothing new is dispatched.
<1>4. ASSUME report' = report, dispatched' = dispatched PROVE ReportedRowIsQuarantined(d)'
  BY <1>2, <1>3, <1>4 DEF ReportedRowIsQuarantined
<1>5. CASE UNCHANGED vars \/ \E q \in Rows : Publish(q)
  BY <1>2, <1>4, <1>5 DEF vars, Publish
<1>6. CASE Step(d)
  <2>0. row[d] # NoRow => row[d] \in Rows
    BY <1>1
  <2>0a. pc[d] \in Working <=> row[d] # NoRow
    BY DEF DispatchSafe, RowMatchesPc
  <2>1. CASE MarkDispatched(d) \/ CommitAnswerLost(d)
    <3>1. /\ pc[d] = "mark" /\ conn[d] /\ dispatched' = dispatched \cup {row[d]}
          /\ report' = report
      BY <2>1 DEF MarkDispatched, CommitAnswerLost, DispatchFailed
    <3>2. row[d] # NoRow /\ row[d] \in Rows
      BY <2>0, <2>0a, <3>1 DEF Working
    <3>3. attempts[row[d]] < MaxAttempts /\ attempts[row[d]] \in Nat
      BY <1>1, <3>1, <3>2 DEF LiveBelowLimit
    <3>4. ReportedRowIsQuarantined(d)'
      <4> SUFFICES ASSUME report[d].kind = "failed", report[d].attempts >= MaxAttempts
                   PROVE  /\ report[d].seq \in Rows /\ attempts'[report[d].seq] >= MaxAttempts
                          /\ report[d].seq \notin dispatched'
        BY <3>1 DEF ReportedRowIsQuarantined
      <4>1. report[d].seq \in Rows /\ attempts[report[d].seq] >= MaxAttempts /\ report[d].seq \notin dispatched
        BY <1>2 DEF ReportedRowIsQuarantined
      <4>2. report[d].seq # row[d]
        BY ONLY <3>3, <4>1, AttemptsAssumption
      <4> QED
        BY <1>3, <3>1, <4>1, <4>2
    <3>5. row'[d] = NoRow \/ ~conn'[d]
      BY <1>1, <2>1 DEF MarkDispatched, CommitAnswerLost
    <3> QED
      BY <3>4, <3>5
  <2>2. CASE RecordCommit(d)
    <3>1. /\ pc[d] = "recordCommit" /\ conn[d] /\ dispatched' = dispatched
          /\ attempts' = [attempts EXCEPT ![row[d]] = @ + 1]
          /\ report'[d] = [kind |-> "failed", seq |-> row[d], attempts |-> attempts[row[d]] + 1, quarantined |-> 0]
          /\ row'[d] = NoRow
      BY <1>1, <2>2 DEF RecordCommit, ThrowDispatchFailed, EndPoll
    <3>2. row[d] \in Rows /\ row[d] \notin dispatched
      BY <1>2, <2>0, <2>0a, <3>1 DEF Working
    <3>3. attempts'[row[d]] = attempts[row[d]] + 1
      BY ONLY <1>1, <3>1, <3>2
    <3> QED
      BY <3>1, <3>2, <3>3 DEF ReportedRowIsQuarantined
  <2>3. CASE RecordFails(d) \/ RecordAnswerLost(d)
    <3>1. report'[d].attempts = 0 /\ row'[d] = NoRow
      BY <1>1, <2>3 DEF RecordFails, RecordAnswerLost, ThrowDispatchFailed, EndPoll, Unknown
    <3> QED
      BY <3>1, AttemptsAssumption DEF ReportedRowIsQuarantined
  <2>4. CASE StartPoll(d) \/ PollFails(d) \/ Count(d) \/ Crash(d)
    <3>1. report'[d].kind # "failed" /\ dispatched' = dispatched
      <4>1. PICK r : report'[d] = r /\ r.kind # "failed"
        <5>1. /\ NoReport.kind # "failed"
              /\ [NoReport EXCEPT !.kind = "fault"].kind # "failed"
              /\ [NoReport EXCEPT !.kind = "ok", !.quarantined = Cardinality(Quarantined)].kind # "failed"
          BY DEF NoReport
        <5>2. CASE StartPoll(d) \/ Crash(d)
          BY <1>1, <5>1, <5>2 DEF StartPoll, Crash, EndPoll
        <5>3. CASE PollFails(d)
          <6> DEFINE r == [NoReport EXCEPT !.kind = "fault"]
          <6>1. report' = [report EXCEPT ![d] = r] /\ r.kind # "failed"
            BY <5>1, <5>3 DEF PollFails, EndPoll
          <6> HIDE DEF r
          <6> QED
            BY <1>1, <6>1
        <5>4. CASE Count(d)
          <6> DEFINE r == [NoReport EXCEPT !.kind = "ok", !.quarantined = Cardinality(Quarantined)]
          <6>1. report' = [report EXCEPT ![d] = r] /\ r.kind # "failed"
            BY <5>1, <5>4 DEF Count, EndPoll
          <6> HIDE DEF r
          <6> QED
            BY <1>1, <6>1
        <5> QED
          BY <2>4, <5>2, <5>3, <5>4
      <4>2. dispatched' = dispatched
        BY <2>4 DEF StartPoll, PollFails, Count, Crash
      <4> QED
        BY <4>1, <4>2
    <3>2. row'[d] = NoRow \/ (row'[d] = row[d] /\ conn'[d] = conn[d])
      BY <1>1, <2>4 DEF StartPoll, PollFails, Count, Crash, EndPoll
    <3> QED
      BY <1>2, <3>1, <3>2 DEF ReportedRowIsQuarantined
  <2>5. CASE SelectNothing(d) \/ TimeoutFires(d) \/ HandlerResolves(d) \/ HandlerRejects(d) \/ MarkFails(d)
               \/ RecordUpdate(d) \/ ConnectionLost(d)
    <3>1. report' = report /\ dispatched' = dispatched /\ row' = row /\ (conn'[d] => conn[d])
      BY <1>1, <2>5 DEF SelectNothing, TimeoutFires, HandlerResolves, HandlerRejects, MarkFails,
         RecordUpdate, ConnectionLost, DispatchFailed
    <3> QED
      BY <1>2, <1>4, <3>1
  <2>6. ASSUME NEW q \in Rows, SelectRow(d, q)
        PROVE  /\ row'[d] # NoRow /\ conn'[d] => row'[d] \notin dispatched'
               /\ ReportedRowIsQuarantined(d)'
    BY <1>1, <1>4, <2>6 DEF SelectRow, IsNextRow, Eligible
  <2> QED
    BY <1>6, <2>1, <2>2, <2>3, <2>4, <2>5, <2>6 DEF Step
<1> QED
  BY <1>5, <1>6 DEF Next, OneDispatcher

\* One dispatcher never reports as a poison pill a row that was dispatched.
THEOREM OneDispatcherReportsTrue == ASSUME OneDispatcher PROVE Spec => []QuarantineReportIsTrue
<1>1. Init => FailuresArePending
  BY DEF Init, FailuresArePending, ReportedRowIsQuarantined, NoReport
<1>2. Init => LiveBelowLimit
  BY DEF Init, LiveBelowLimit
<1>3. DispatchSafe /\ LiveBelowLimit /\ FailuresArePending /\ [Next]_vars => FailuresArePending'
  BY NextFailuresArePending
<1>4. FailuresArePending => QuarantineReportIsTrue
  BY DEF FailuresArePending, ReportedRowIsQuarantined, QuarantineReportIsTrue
<1> QED
  BY <1>1, <1>2, <1>3, <1>4, NextLiveBelowLimit, DispatchIsSafe, PTL DEF Spec
=============================================================================
