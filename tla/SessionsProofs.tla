--------------------------- MODULE SessionsProofs ---------------------------
(***************************************************************************)
(* Proofs about Sessions, for any threads, uuids, number of rows and bound *)
(* on the clock.                                                           *)
(***************************************************************************)
EXTENDS Sessions, TLAPS

\* Where a thread is when it holds the mutex.
Locked == {"look", "lookLast", "setId", "setTime"}

\* Where it has a row to write to.
AtRow == {"setId", "setTime", "clear", "purgeClear"}

TypeOK ==
    /\ id \in [Rows -> Uuids \cup {Null}]
    /\ time \in [Rows -> Nat \cup {Null}]
    /\ m_mutexTable \in Threads \cup {Nobody}
    /\ now \in Nat
    /\ pc \in [Threads -> Locked \cup {"out", "find", "clear", "purge", "purgeClear"}]
    /\ uRow \in [Threads -> Int]
    /\ uuid \in [Threads -> Uuids \cup {Null}]
    /\ uTime \in [Threads -> Nat]
    /\ \A t \in Threads : pc[t] \in AtRow => uRow[t] \in Rows

\* The mutex is with the one thread that adds or updates.
LockIsHeld == \A t \in Threads : pc[t] \in Locked => m_mutexTable = t

\* The row an Add has claimed stays free until it writes the time.
ClaimIsFree == \A t \in Threads : pc[t] = "setId" => time[uRow[t]] = Null

SessionInv ==
    /\ TypeOK
    /\ LockIsHeld
    /\ ClaimIsFree
    /\ OnlyAddsAreHalf

LEMMA RowsAndTimes == Rows \subseteq Int /\ Null \notin Nat /\ Null \notin Uuids
  BY NullIsNoUuid, MaxCountPositive DEF Rows

LEMMA SessionInvInit == Initialize => SessionInv
  BY NobodyIsNoThread, RowsAndTimes
  DEF Initialize, SessionInv, TypeOK, LockIsHeld, ClaimIsFree,
      OnlyAddsAreHalf, Locked, AtRow

\* A step of a thread that leaves the table alone, and the row and the uuid
\* of every thread that writes to one, keeps the invariant.
LEMMA QuietStep ==
    ASSUME SessionInv, TypeOK', LockIsHeld', UNCHANGED table,
           \A t \in Threads : pc'[t] \in AtRow =>
               pc[t] = pc'[t] /\ uRow[t] = uRow'[t] /\ uuid[t] = uuid'[t],
           \A t \in Threads : pc[t] = "setTime" => pc'[t] = "setTime"
    PROVE  SessionInv'
<1>1. ClaimIsFree'
  BY DEF SessionInv, ClaimIsFree, AtRow, table
<1>2. OnlyAddsAreHalf'
  BY DEF SessionInv, OnlyAddsAreHalf, AtRow, table
<1> QED  BY <1>1, <1>2 DEF SessionInv

\* Add writes to its row alone, as it holds the mutex.
LEMMA AddInv ==
    ASSUME SessionInv, NEW t \in Threads, AddClaim(t) \/ AddSetId(t) \/ SetTime(t)
    PROVE  SessionInv'
<1> USE NobodyIsNoThread, RowsAndTimes
<1>0. TypeOK /\ LockIsHeld
  BY DEF SessionInv
<1>1. CASE AddClaim(t)
  <2>1. TypeOK' /\ LockIsHeld'
    BY <1>0, <1>1 DEF AddClaim, Goto, table, TypeOK, LockIsHeld, Locked, AtRow
  <2>2. ClaimIsFree'
    BY <1>0, <1>1 DEF AddClaim, Goto, table, SessionInv, TypeOK, ClaimIsFree
  <2>3. OnlyAddsAreHalf'
    BY <1>0, <1>1
    DEF AddClaim, Goto, table, SessionInv, TypeOK, OnlyAddsAreHalf
  <2> QED  BY <2>1, <2>2, <2>3 DEF SessionInv
<1>2. CASE AddSetId(t)
  <2>1. TypeOK' /\ LockIsHeld'
    BY <1>0, <1>2 DEF AddSetId, Goto, locals, TypeOK, LockIsHeld, Locked, AtRow
  <2>2. ClaimIsFree'
    BY <1>0, <1>2
    DEF AddSetId, Goto, locals, SessionInv, TypeOK, ClaimIsFree
  <2>3. ASSUME NEW r \in Rows, id'[r] # Null, time'[r] = Null
        PROVE  \E u \in Threads : pc'[u] = "setTime" /\ uRow'[u] = r /\ uuid'[u] = id'[r]
    <3>1. /\ pc' = [pc EXCEPT ![t] = "setTime"] /\ pc[t] = "setId"
          /\ id' = [id EXCEPT ![uRow[t]] = uuid[t]]
          /\ UNCHANGED <<time, uRow, uuid>>
      BY <1>2 DEF AddSetId, Goto, locals
    <3>2. CASE r = uRow[t]
      BY <1>0, <3>1, <3>2 DEF TypeOK
    <3>3. CASE r # uRow[t]
      <4>1. id'[r] = id[r]
        BY <1>0, <3>1, <3>3 DEF TypeOK
      <4>2. PICK u \in Threads : pc[u] = "setTime" /\ uRow[u] = r /\ uuid[u] = id[r]
        BY <2>3, <3>1, <4>1 DEF SessionInv, OnlyAddsAreHalf
      <4> QED  BY <1>0, <3>1, <4>1, <4>2 DEF TypeOK
    <3> QED  BY <3>2, <3>3
  <2>4. OnlyAddsAreHalf'
    BY <2>3 DEF OnlyAddsAreHalf
  <2> QED  BY <2>1, <2>2, <2>4 DEF SessionInv
<1>3. CASE SetTime(t)
  <2>1. \A u \in Threads \ {t} : pc'[u] = pc[u] /\ pc[u] \notin Locked
    BY <1>0, <1>3 DEF SetTime, Leave, Goto, TypeOK, LockIsHeld, Locked
  <2>2. TypeOK' /\ LockIsHeld'
    BY <1>0, <1>3
    DEF SetTime, Leave, Goto, Reach, TypeOK, LockIsHeld, Locked, AtRow
  <2>3. ClaimIsFree'
    BY <1>0, <1>3, <2>1
    DEF SetTime, Leave, Goto, TypeOK, ClaimIsFree, Locked
  <2>4. OnlyAddsAreHalf'
    BY <1>0, <1>3, <2>1
    DEF SetTime, Leave, Goto, Reach, SessionInv, TypeOK, OnlyAddsAreHalf, AtRow
  <2> QED  BY <2>2, <2>3, <2>4 DEF SessionInv
<1> QED  BY <1>1, <1>2, <1>3

\* Clearing a row, or losing the clear, keeps all that is said of the table.
LEMMA ClearRowInv ==
    ASSUME SessionInv, NEW r \in Rows, ClearRow(r), TypeOK', LockIsHeld',
           \A t \in Threads : pc'[t] \in {"setId", "setTime"} =>
               pc[t] = pc'[t] /\ uRow[t] = uRow'[t] /\ uuid[t] = uuid'[t],
           \A t \in Threads : pc[t] = "setTime" => pc'[t] = "setTime"
    PROVE  SessionInv'
<1>1. \A q \in Rows : \/ id'[q] = id[q] /\ time'[q] = time[q]
                      \/ id'[q] = Null /\ time'[q] = Null
  BY DEF ClearRow, table, SessionInv, TypeOK
<1>2. \A t \in Threads : pc'[t] = "setId" => uRow'[t] \in Rows
  BY DEF TypeOK, AtRow
<1>3. ClaimIsFree'
  BY <1>1, <1>2 DEF SessionInv, ClaimIsFree
<1>4. OnlyAddsAreHalf'
  BY <1>1 DEF SessionInv, OnlyAddsAreHalf
<1> QED  BY <1>3, <1>4 DEF SessionInv

LEMMA SessionInvNext == SessionInv /\ [Next]_vars => SessionInv'
<1> SUFFICES ASSUME SessionInv, [Next]_vars PROVE SessionInv'
  OBVIOUS
<1> USE RowsAndTimes, NobodyIsNoThread DEF AtRow
<1>0. TypeOK /\ LockIsHeld
  BY DEF SessionInv
<1>1. CASE Tick
  <2>1. TypeOK' /\ LockIsHeld'
    BY <1>0, <1>1 DEF Tick, table, locals, TypeOK, LockIsHeld
  <2> QED  BY <1>1, <2>1, QuietStep DEF Tick, locals
<1>2. ASSUME NEW t \in Threads, NEW u \in Uuids, DeleteCall(t, u) PROVE SessionInv'
  <2>1. TypeOK' /\ LockIsHeld'
    BY <1>0, <1>2 DEF DeleteCall, Goto, table, TypeOK, LockIsHeld, Locked
  <2> QED  BY <1>0, <1>2, <2>1, QuietStep DEF DeleteCall, Goto, TypeOK
<1>3. ASSUME NEW t \in Threads, NEW u \in Uuids, NEW last \in BOOLEAN, AddLock(t, u, last)
      PROVE  SessionInv'
  <2>1. TypeOK' /\ LockIsHeld'
    BY <1>0, <1>3, MaxCountPositive
    DEF AddLock, Lock, Goto, Reach, table, TypeOK, LockIsHeld, Locked
  <2> QED  BY <1>0, <1>3, <2>1, QuietStep DEF AddLock, Goto, Reach, TypeOK
<1>4. ASSUME NEW t \in Threads, AddNext(t) PROVE SessionInv'
  <2>1. TypeOK' /\ LockIsHeld'
    BY <1>0, <1>4 DEF AddNext, Reach, table, TypeOK, LockIsHeld
  <2> QED  BY <1>0, <1>4, <2>1, QuietStep DEF AddNext, Reach, TypeOK
<1>5. ASSUME NEW t \in Threads, AddRefuse(t) PROVE SessionInv'
  <2>1. TypeOK' /\ LockIsHeld'
    BY <1>0, <1>5 DEF AddRefuse, Leave, Goto, Reach, table, TypeOK, LockIsHeld, Locked
  <2> QED  BY <1>0, <1>5, <2>1, QuietStep DEF AddRefuse, Leave, Goto, Reach, TypeOK
<1>6. ASSUME NEW t \in Threads, AddClaim(t) \/ AddSetId(t) \/ SetTime(t) PROVE SessionInv'
  BY <1>6, AddInv
<1>7. ASSUME NEW t \in Threads, FindNext(t) PROVE SessionInv'
  <2>1. TypeOK' /\ LockIsHeld'
    BY <1>0, <1>7 DEF FindNext, Reach, table, TypeOK, LockIsHeld
  <2> QED  BY <1>0, <1>7, <2>1, QuietStep DEF FindNext, Reach, TypeOK
<1>8. ASSUME NEW t \in Threads, FindAbsent(t) PROVE SessionInv'
  <2>1. TypeOK' /\ LockIsHeld'
    BY <1>0, <1>8 DEF FindAbsent, Leave, Goto, Reach, table, TypeOK, LockIsHeld, Locked
  <2> QED  BY <1>0, <1>8, <2>1, QuietStep DEF FindAbsent, Leave, Goto, Reach, TypeOK
<1>9. ASSUME NEW t \in Threads, FindHit(t) PROVE SessionInv'
  <2>1. TypeOK' /\ LockIsHeld'
    BY <1>0, <1>9 DEF FindHit, Goto, table, locals, TypeOK, LockIsHeld, Locked
  <2>2. ClaimIsFree' /\ OnlyAddsAreHalf'
    BY <1>0, <1>9
    DEF FindHit, Goto, table, locals, SessionInv, TypeOK, ClaimIsFree,
        OnlyAddsAreHalf
  <2> QED  BY <2>1, <2>2 DEF SessionInv
<1>10. ASSUME NEW t \in Threads, DeleteClear(t) PROVE SessionInv'
  <2>1. TypeOK' /\ LockIsHeld'
    BY <1>0, <1>10
    DEF DeleteClear, ClearRow, Leave, Goto, Reach, table, TypeOK, LockIsHeld, Locked
  <2>2. ClearRow(uRow[t]) /\ uRow[t] \in Rows
    BY <1>0, <1>10 DEF DeleteClear, TypeOK
  <2> QED
    BY <1>0, <1>10, <2>1, <2>2, ClearRowInv DEF DeleteClear, Leave, Goto, Reach, TypeOK
<1>11. ASSUME NEW t \in Threads, NEW r \in Rows, DeleteAt(t, r) PROVE SessionInv'
  <2>1. TypeOK' /\ LockIsHeld'
    BY <1>0, <1>11 DEF DeleteAt, ClearRow, table, locals, TypeOK, LockIsHeld
  <2> QED  BY <1>11, <2>1, ClearRowInv DEF DeleteAt, locals
<1>12. ASSUME NEW t \in Threads, NEW r \in Rows, UpdateLock(t, r) PROVE SessionInv'
  <2>1. TypeOK' /\ LockIsHeld'
    BY <1>0, <1>12
    DEF UpdateLock, Lock, Goto, Reach, table, TypeOK, LockIsHeld, Locked
  <2>2. ClaimIsFree' /\ OnlyAddsAreHalf'
    BY <1>0, <1>12
    DEF UpdateLock, Goto, Reach, table, SessionInv, TypeOK, ClaimIsFree,
        OnlyAddsAreHalf
  <2> QED  BY <2>1, <2>2 DEF SessionInv
<1>13. ASSUME NEW t \in Threads, NEW limit \in 0..MaxTime, PurgeCall(t, limit)
       PROVE  SessionInv'
  <2>1. TypeOK' /\ LockIsHeld'
    BY <1>0, <1>13, MaxTimePositive
    DEF PurgeCall, Goto, table, TypeOK, LockIsHeld, Locked
  <2> QED  BY <1>0, <1>13, <2>1, QuietStep DEF PurgeCall, Goto, TypeOK
<1>14. ASSUME NEW t \in Threads, PurgeNext(t) PROVE SessionInv'
  <2>1. TypeOK' /\ LockIsHeld'
    BY <1>0, <1>14 DEF PurgeNext, Reach, table, TypeOK, LockIsHeld
  <2> QED  BY <1>0, <1>14, <2>1, QuietStep DEF PurgeNext, Reach, TypeOK
<1>15. ASSUME NEW t \in Threads, PurgeHit(t) PROVE SessionInv'
  <2>1. TypeOK' /\ LockIsHeld'
    BY <1>0, <1>15 DEF PurgeHit, Goto, table, locals, TypeOK, LockIsHeld, Locked
  <2>2. ClaimIsFree' /\ OnlyAddsAreHalf'
    BY <1>0, <1>15
    DEF PurgeHit, Expired, Goto, table, locals, SessionInv, TypeOK, ClaimIsFree,
        OnlyAddsAreHalf
  <2> QED  BY <2>1, <2>2 DEF SessionInv
<1>16. ASSUME NEW t \in Threads, PurgeClear(t) PROVE SessionInv'
  <2>1. TypeOK' /\ LockIsHeld'
    BY <1>0, <1>16
    DEF PurgeClear, ClearRow, Goto, Reach, table, TypeOK, LockIsHeld, Locked
  <2>2. ClearRow(uRow[t]) /\ uRow[t] \in Rows
    BY <1>0, <1>16 DEF PurgeClear, TypeOK
  <2> QED
    BY <1>0, <1>16, <2>1, <2>2, ClearRowInv DEF PurgeClear, Goto, Reach, TypeOK
<1>17. ASSUME NEW t \in Threads, PurgeEnd(t) PROVE SessionInv'
  <2>1. TypeOK' /\ LockIsHeld'
    BY <1>0, <1>17 DEF PurgeEnd, Leave, Goto, Reach, table, TypeOK, LockIsHeld, Locked
  <2> QED  BY <1>0, <1>17, <2>1, QuietStep DEF PurgeEnd, Leave, Goto, Reach, TypeOK
<1>18. CASE UNCHANGED vars
  <2>1. TypeOK' /\ LockIsHeld'
    BY <1>0, <1>18 DEF vars, table, locals, TypeOK, LockIsHeld
  <2> QED  BY <1>18, <2>1, QuietStep DEF vars, locals
<1> QED
  BY <1>1, <1>2, <1>3, <1>4, <1>5, <1>6, <1>7, <1>8, <1>9, <1>10, <1>11, <1>12, <1>13,
     <1>14, <1>15, <1>16, <1>17, <1>18 DEF Next

-----------------------------------------------------------------------------

\* The inductive invariant holds throughout.
THEOREM SessionInvariant == Spec => []SessionInv
  BY SessionInvInit, SessionInvNext, PTL DEF Spec

\* A row that answers to a uuid and counts as free is one that an Add of that
\* uuid is in the middle of writing (CSessions::Add, Delete and Purge).
THEOREM HalfRowsAreAdds == Spec => []OnlyAddsAreHalf
<1>1. SessionInv => OnlyAddsAreHalf
  BY DEF SessionInv
<1> QED  BY <1>1, SessionInvariant, PTL

\* A row in use is never given to a second session: only Add writes a uuid,
\* to a row that is free since it was claimed (CSessions::Add).
THEOREM UsedRowsAreKept == Spec => NoOverwrite
<1>1. ASSUME SessionInv, [Next]_vars,
             NEW r \in Rows, id[r] # Null, time[r] # Null
      PROVE  id'[r] \in {id[r], Null}
  <2>1. TypeOK
    BY <1>1 DEF SessionInv
  <2>2. CASE \E t \in Threads : AddSetId(t)
    <3>1. PICK t \in Threads : AddSetId(t)
      BY <2>2
    <3>2. uRow[t] # r
      BY <1>1, <3>1 DEF AddSetId, SessionInv, ClaimIsFree
    <3> QED  BY <2>1, <3>1, <3>2 DEF AddSetId, TypeOK
  <2>3. CASE \E q \in Rows : ClearRow(q)
    BY <2>1, <2>3 DEF ClearRow, table, TypeOK
  <2>4. CASE UNCHANGED id
    BY <2>4
  <2>5. \/ \E t \in Threads : AddSetId(t)
        \/ \E q \in Rows : ClearRow(q)
        \/ UNCHANGED id
    <3>1. ASSUME NEW t \in Threads, DeleteClear(t) \/ PurgeClear(t)
          PROVE  \E q \in Rows : ClearRow(q)
      BY <2>1, <3>1 DEF DeleteClear, PurgeClear, TypeOK, AtRow
    <3>2. ASSUME NEW t \in Threads, NEW q \in Rows, DeleteAt(t, q)
          PROVE  ClearRow(q)
      BY <3>2 DEF DeleteAt
    <3> QED
      BY <1>1, <3>1, <3>2
      DEF Next, vars, table, Tick, DeleteCall, AddLock, AddNext, AddRefuse, AddClaim,
          SetTime, FindNext, FindAbsent, FindHit, UpdateLock, PurgeCall, PurgeNext,
          PurgeHit, PurgeEnd
  <2> QED  BY <2>2, <2>3, <2>4, <2>5
<1>2. SessionInv /\ [Next]_vars =>
        [\A r \in Rows : id[r] # Null /\ time[r] # Null => id'[r] \in {id[r], Null}]_vars
  BY <1>1
<1> QED  BY <1>2, SessionInvariant, PTL DEF Spec, NoOverwrite
=============================================================================
