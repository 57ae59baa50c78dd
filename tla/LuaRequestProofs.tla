-------------------------- MODULE LuaRequestProofs --------------------------
(***************************************************************************)
(* Proofs about LuaStatePool and about LuaRequest, which composes it with  *)
(* the executions that use it, for any threads, names and number of ids.   *)
(* The first part is about the pool on its own (Spec).  The second is      *)
(* about requests (ServeSpec), for any finite set of workers, number of    *)
(* core states and number of scripts: every step of a worker is a step of  *)
(* the pool or leaves the pool alone, so that the pool's invariant is at   *)
(* hand and says who may touch the globals of a state.                     *)
(***************************************************************************)
EXTENDS LuaRequest, SequenceTheorems, FiniteSetTheorems, TLAPS

-----------------------------------------------------------------------------
(* The pool.                                                               *)


\* What Erase's vector::erase leaves: the elements before position k stay in
\* place and those after it move down by one.
LEMMA RemoveAtElements ==
    ASSUME NEW S, NEW s \in Seq(S), NEW k \in 1..Len(s)
    PROVE  /\ RemoveAt(s, k) \in Seq(S)
           /\ Len(RemoveAt(s, k)) = Len(s) - 1
           /\ \A j \in 1..(Len(s) - 1) :
                 RemoveAt(s, k)[j] = IF j < k THEN s[j] ELSE s[j + 1]
<1> DEFINE l == SubSeq(s, 1, k - 1)
           r == SubSeq(s, k + 1, Len(s))
<1>0. Len(s) \in Nat
  BY LenProperties
<1>1. /\ l \in Seq(S)
      /\ Len(l) = k - 1
      /\ \A j \in 1..(k - 1) : l[j] = s[j]
  BY <1>0, SubSeqProperties
<1>2. /\ r \in Seq(S)
      /\ Len(r) = Len(s) - k
      /\ \A j \in 1..(Len(s) - k) : r[j] = s[k + j]
  BY <1>0, SubSeqProperties
<1> HIDE DEF l, r
<1>3. /\ l \o r \in Seq(S)
      /\ Len(l \o r) = Len(l) + Len(r)
      /\ \A j \in 1..(Len(l) + Len(r)) :
            (l \o r)[j] = IF j <= Len(l) THEN l[j] ELSE r[j - Len(l)]
  BY <1>1, <1>2, ConcatProperties
<1>4. RemoveAt(s, k) = l \o r
  BY DEF RemoveAt, l, r
<1>5. ASSUME NEW j \in 1..(Len(s) - 1)
      PROVE  (l \o r)[j] = IF j < k THEN s[j] ELSE s[j + 1]
  <2>1. CASE j < k
    BY <2>1, <1>0, <1>1, <1>2, <1>3
  <2>2. CASE ~(j < k)
    <3>1. j - (k - 1) \in 1..(Len(s) - k) /\ k + (j - (k - 1)) = j + 1
      BY <2>2, <1>0
    <3>2. (l \o r)[j] = r[j - (k - 1)]
      BY <2>2, <1>0, <1>1, <1>2, <1>3
    <3> QED  BY <3>1, <3>2, <1>2, <2>2
  <2> QED  BY <2>1, <2>2
<1> QED  BY <1>0, <1>1, <1>2, <1>3, <1>4, <1>5

-----------------------------------------------------------------------------
(* What the actions that touch the vector do to Owned and to its order.    *)

\* The vector is a sequence of ids.
LEMMA VectorElements ==
    ASSUME TypeOK
    PROVE  /\ Len(m_vectorStates) \in Nat
           /\ DOMAIN m_vectorStates = 1..Len(m_vectorStates)
           /\ \A k \in DOMAIN m_vectorStates : m_vectorStates[k] \in StateIds
           /\ Owned \subseteq StateIds
BY LenProperties DEF TypeOK, Owned

\* Add puts a fresh id behind all others.
LEMMA AddVector ==
    ASSUME TypeOK, IdsAscend, NEW t, NEW n, Add(t, n)
    PROVE  /\ m_vectorStates' \in Seq(StateIds)
           /\ Owned' = Owned \cup {m_uNextStateId}
           /\ m_uNextStateId \notin Owned
           /\ IdsAscend'
<1> DEFINE v == m_vectorStates
           x == m_uNextStateId
<1>1. /\ Len(v) \in Nat
      /\ DOMAIN v = 1..Len(v)
      /\ \A k \in DOMAIN v : v[k] \in StateIds
  BY VectorElements
<1>2. v \in Seq(StateIds) /\ x \in StateIds /\ x \in Nat /\ MaxId \in Nat
  BY MaxIdNat DEF TypeOK, Add, StateIds
<1>3. v' = Append(v, x) /\ x' = x + 1
  BY DEF Add
<1>4. /\ v' \in Seq(StateIds)
      /\ Len(v') = Len(v) + 1
      /\ \A k \in 1..Len(v) : v'[k] = v[k]
      /\ v'[Len(v) + 1] = x
  BY <1>2, <1>3, AppendProperties
<1>5. DOMAIN v' = 1..(Len(v) + 1)
  BY <1>4, LenProperties
<1>6. \A k \in DOMAIN v : v[k] < x
  BY DEF IdsAscend
<1>7. x \notin Owned
  BY <1>1, <1>2, <1>6 DEF Owned, StateIds
<1>8. Owned' = Owned \cup {x}
  <2>1. 1..(Len(v) + 1) = 1..Len(v) \cup {Len(v) + 1}
    BY <1>1
  <2> QED  BY <1>1, <1>4, <1>5, <2>1 DEF Owned
<1>9. IdsAscend'
  <2>1. ASSUME NEW j \in 1..(Len(v) + 1), NEW k \in 1..(Len(v) + 1), j < k
        PROVE  v'[j] < v'[k]
    <3>1. j \in 1..Len(v) /\ (k \in 1..Len(v) \/ k = Len(v) + 1)
      BY <1>1, <2>1
    <3> QED  BY <3>1, <1>1, <1>4, <1>6, <2>1 DEF IdsAscend
  <2>2. ASSUME NEW k \in 1..(Len(v) + 1)
        PROVE  v'[k] < x'
    <3>1. CASE k = Len(v) + 1
      BY <3>1, <1>2, <1>3, <1>4
    <3>2. CASE k \in 1..Len(v)
      <4>1. v[k] < x /\ v[k] \in Nat
        BY <1>1, <1>6, <3>2 DEF StateIds
      <4> QED  BY <4>1, <1>2, <1>3, <1>4, <3>2
    <3> QED  BY <3>1, <3>2, <1>1
  <2> QED  BY <1>5, <2>1, <2>2 DEF IdsAscend
<1> QED  BY <1>4, <1>7, <1>8, <1>9

\* Erase takes out exactly the record with the given id.
LEMMA EraseVector ==
    ASSUME TypeOK, IdsAscend, NEW t, EraseRemove(t)
    PROVE  /\ m_vectorStates' \in Seq(StateIds)
           /\ Owned' = Owned \ {uId[t]}
           /\ uId[t] \in Owned
           /\ IdsAscend'
<1> DEFINE v == m_vectorStates
<1>1. /\ Len(v) \in Nat
      /\ DOMAIN v = 1..Len(v)
      /\ \A k \in DOMAIN v : v[k] \in StateIds
      /\ v \in Seq(StateIds)
  BY VectorElements DEF TypeOK
<1>2. PICK k \in DOMAIN v : v[k] = uId[t] /\ v' = RemoveAt(v, k)
  BY DEF EraseRemove
<1>3. /\ v' \in Seq(StateIds)
      /\ Len(v') = Len(v) - 1
      /\ \A j \in 1..(Len(v) - 1) : v'[j] = IF j < k THEN v[j] ELSE v[j + 1]
  BY <1>1, <1>2, RemoveAtElements
<1>4. DOMAIN v' = 1..(Len(v) - 1)
  BY <1>3, LenProperties
<1>5. k \in Nat /\ k >= 1 /\ k <= Len(v)
  BY <1>1
<1>6. \A i, j \in DOMAIN v : i < j => v[i] < v[j]
  BY DEF IdsAscend
<1>7. \A j \in DOMAIN v : j # k => v[j] # v[k]
  <2>1. \A j \in DOMAIN v : v[j] \in Nat /\ j \in Nat
    BY <1>1 DEF StateIds
  <2> QED  BY <2>1, <1>5, <1>6
<1>8. Owned' = Owned \ {uId[t]}
  <2>1. ASSUME NEW j \in DOMAIN v'
        PROVE  v'[j] \in Owned \ {uId[t]}
    <3>1. CASE j < k
      <4>1. j \in DOMAIN v /\ j # k /\ v'[j] = v[j]
        BY <3>1, <1>1, <1>3, <1>4, <1>5
      <4> QED  BY <4>1, <1>2, <1>7 DEF Owned
    <3>2. CASE ~(j < k)
      <4>1. j + 1 \in DOMAIN v /\ j + 1 # k /\ v'[j] = v[j + 1]
        BY <3>2, <1>1, <1>3, <1>4, <1>5
      <4> QED  BY <4>1, <1>2, <1>7 DEF Owned
    <3> QED  BY <3>1, <3>2
  <2>2. ASSUME NEW j \in DOMAIN v, v[j] # uId[t]
        PROVE  \E i \in DOMAIN v' : v'[i] = v[j]
    <3>1. j # k /\ j \in Nat /\ j >= 1 /\ j <= Len(v)
      BY <2>2, <1>1, <1>2
    <3>2. CASE j < k
      <4>1. j \in DOMAIN v' /\ v'[j] = v[j]
        BY <3>1, <3>2, <1>1, <1>3, <1>4, <1>5
      <4> QED  BY <4>1
    <3>3. CASE j > k
      <4>1. j - 1 \in 1..(Len(v) - 1) /\ ~(j - 1 < k) /\ (j - 1) + 1 = j
        BY <3>1, <3>3, <1>1, <1>5
      <4>2. v'[j - 1] = v[j]
        BY <4>1, <1>3
      <4> QED  BY <4>1, <4>2, <1>4
    <3> QED  BY <3>1, <3>2, <3>3, <1>5
  <2> QED  BY <2>1, <2>2 DEF Owned
<1>9. IdsAscend'
  <2>1. ASSUME NEW i \in DOMAIN v', NEW j \in DOMAIN v', i < j
        PROVE  v'[i] < v'[j]
    <3> DEFINE old(x) == IF x < k THEN x ELSE x + 1
    <3>1. /\ old(i) \in DOMAIN v /\ v'[i] = v[old(i)]
          /\ old(j) \in DOMAIN v /\ v'[j] = v[old(j)]
          /\ old(i) < old(j)
      BY <2>1, <1>1, <1>3, <1>4, <1>5
    <3> QED  BY <3>1, <1>6
  <2>2. ASSUME NEW j \in DOMAIN v'
        PROVE  v'[j] < m_uNextStateId
    <3> DEFINE o == IF j < k THEN j ELSE j + 1
    <3>1. o \in DOMAIN v /\ v'[j] = v[o]
      BY <1>1, <1>3, <1>4, <1>5
    <3> QED  BY <3>1 DEF IdsAscend
  <2>3. m_uNextStateId' = m_uNextStateId
    BY DEF EraseRemove
  <2> QED  BY <2>1, <2>2, <2>3 DEF IdsAscend
<1>10. uId[t] \in Owned
  BY <1>2 DEF Owned
<1> QED  BY <1>3, <1>8, <1>9, <1>10

-----------------------------------------------------------------------------
(* PoolInv is inductive.                                                   *)

LEMMA PoolInvInit == Init => PoolInv
<1> SUFFICES ASSUME Init PROVE PoolInv
  OBVIOUS
<1>1. m_vectorStates = <<>> /\ m_vectorStates \in Seq(StateIds) /\ DOMAIN m_vectorStates = {}
  <2>1. <<>> \in Seq(StateIds) /\ Len(<<>>) = 0
    BY EmptySeq
  <2> QED  BY <2>1, LenProperties DEF Init
<1>2. TypeOK
  BY <1>1, MaxIdNat DEF Init, TypeOK
<1>3. IdsAscend
  BY <1>1 DEF IdsAscend
<1> QED  BY <1>2, <1>3 DEF Init, PoolInv, ExclusiveBorrow, BorrowIsLive, FlagIffBorrowed

\* Steps that only move threads through Acquire and Erase.
LEMMA WaitingStep ==
    ASSUME PoolInv, UNCHANGED <<poolVars, m_pstateTarget>>, TypeOK',
           \A t \in Threads : pc'[t] \in {"scan", "wait"} => m_pstateTarget[t] = 0
    PROVE  PoolInv'
<1>1. ExclusiveBorrow' /\ BorrowIsLive' /\ FlagIffBorrowed' /\ IdsAscend'
  BY DEF PoolInv, poolVars, ExclusiveBorrow, BorrowIsLive, FlagIffBorrowed, IdsAscend, Owned
<1> QED  BY <1>1 DEF PoolInv

LEMMA AddInv ==
    ASSUME PoolInv, NEW t \in Threads, NEW n \in Names, Add(t, n)
    PROVE  PoolInv'
<1>1. TypeOK /\ IdsAscend
  BY DEF PoolInv
<1>2. /\ m_vectorStates' \in Seq(StateIds)
      /\ Owned' = Owned \cup {m_uNextStateId}
      /\ IdsAscend'
  BY <1>1, AddVector
<1>3. TypeOK'
  <2>1. m_uNextStateId' \in 1..(MaxId + 1)
    BY <1>1, MaxIdNat DEF TypeOK, Add, StateIds
  <2> QED  BY <1>1, <1>2, <2>1 DEF TypeOK, Add, callVars
<1>4. ExclusiveBorrow' /\ BorrowIsLive' /\ FlagIffBorrowed'
  BY <1>2 DEF PoolInv, Add, ExclusiveBorrow, BorrowIsLive, FlagIffBorrowed
<1> QED  BY <1>2, <1>3, <1>4 DEF PoolInv, Add, callVars

LEMMA AcquireTakeInv ==
    ASSUME PoolInv, NEW t \in Threads, AcquireTake(t)
    PROVE  PoolInv'
<1>1. PICK k \in IdleAt(stringName[t]) :
         /\ m_bInUse' = m_bInUse \cup {m_vectorStates[k]}
         /\ m_pstateTarget' = [m_pstateTarget EXCEPT ![t] = m_vectorStates[k]]
  BY DEF AcquireTake
<1> DEFINE i == m_vectorStates[k]
<1>2. TypeOK
  BY DEF PoolInv
<1>3. i \in StateIds /\ i # 0 /\ i \in Owned /\ i \notin m_bInUse
  BY <1>1, <1>2, VectorElements DEF IdleAt, Owned, StateIds
<1> HIDE DEF i
<1>4. /\ m_bInUse' = m_bInUse \cup {i}
      /\ m_pstateTarget' = [m_pstateTarget EXCEPT ![t] = i]
  BY <1>1 DEF i
<1>5. m_pstateTarget \in [Threads -> StateIds \cup {0}]
  BY <1>2 DEF TypeOK
<1>6. m_pstateTarget[t] = 0
  BY DEF PoolInv, AcquireTake
<1>7. \A u \in Threads : m_pstateTarget[u] # i
  BY <1>3 DEF PoolInv, FlagIffBorrowed
<1>8. TypeOK'
  BY <1>2, <1>3, <1>4 DEF TypeOK, AcquireTake
<1>9. ExclusiveBorrow'
  BY <1>4, <1>5, <1>7 DEF PoolInv, ExclusiveBorrow
<1>10. Owned' = Owned
  BY DEF AcquireTake, Owned
<1>11. BorrowIsLive'
  BY <1>3, <1>4, <1>5, <1>10 DEF PoolInv, BorrowIsLive
<1>12. FlagIffBorrowed'
  BY <1>3, <1>4, <1>5, <1>6 DEF PoolInv, FlagIffBorrowed
<1>13. IdsAscend'
  BY DEF PoolInv, AcquireTake, IdsAscend
<1>14. \A u \in Threads : pc'[u] \in {"scan", "wait"} => m_pstateTarget'[u] = 0
  BY <1>2, <1>4 DEF PoolInv, AcquireTake, TypeOK
<1> QED  BY <1>8, <1>9, <1>11, <1>12, <1>13, <1>14 DEF PoolInv

LEMMA ReleaseInv ==
    ASSUME PoolInv, NEW t \in Threads, Release(t)
    PROVE  PoolInv'
<1>1. TypeOK /\ m_pstateTarget \in [Threads -> StateIds \cup {0}]
  BY DEF PoolInv, TypeOK
<1>2. /\ m_pstateTarget[t] # 0
      /\ m_bInUse' = m_bInUse \ {m_pstateTarget[t]}
      /\ m_pstateTarget' = [m_pstateTarget EXCEPT ![t] = 0]
      /\ UNCHANGED <<m_vectorStates, m_uNextStateId, pc>>
  BY DEF Release, callVars
<1>3. TypeOK'
  BY <1>1, <1>2 DEF TypeOK, Release, callVars
<1>4. ExclusiveBorrow'
  BY <1>1, <1>2 DEF PoolInv, ExclusiveBorrow
<1>5. BorrowIsLive'
  BY <1>1, <1>2 DEF PoolInv, BorrowIsLive, Owned
<1>6. FlagIffBorrowed'
  <2>1. \A u \in Threads : u # t => m_pstateTarget[u] # m_pstateTarget[t]
    BY <1>2 DEF PoolInv, ExclusiveBorrow
  <2> QED  BY <1>1, <1>2, <2>1 DEF PoolInv, FlagIffBorrowed
<1>7. IdsAscend'
  BY <1>2 DEF PoolInv, IdsAscend
<1>8. \A u \in Threads : pc'[u] \in {"scan", "wait"} => m_pstateTarget'[u] = 0
  BY <1>1, <1>2 DEF PoolInv
<1> QED  BY <1>3, <1>4, <1>5, <1>6, <1>7, <1>8 DEF PoolInv

LEMMA EraseRemoveInv ==
    ASSUME PoolInv, NEW t \in Threads, EraseRemove(t)
    PROVE  PoolInv'
<1>1. TypeOK /\ IdsAscend
  BY DEF PoolInv
<1>2. /\ m_vectorStates' \in Seq(StateIds)
      /\ Owned' = Owned \ {uId[t]}
      /\ uId[t] \in Owned
      /\ IdsAscend'
  BY <1>1, EraseVector
<1>3. uId[t] \notin m_bInUse /\ UNCHANGED <<m_bInUse, m_pstateTarget>>
  BY DEF EraseRemove
<1>4. TypeOK'
  BY <1>1, <1>2 DEF TypeOK, EraseRemove
<1>5. BorrowIsLive'
  <2>1. \A u \in Threads : m_pstateTarget[u] # 0 => m_pstateTarget[u] # uId[t]
    BY <1>3 DEF PoolInv, FlagIffBorrowed
  <2> QED  BY <1>2, <1>3, <2>1 DEF PoolInv, BorrowIsLive
<1>6. ExclusiveBorrow' /\ FlagIffBorrowed'
  BY <1>3 DEF PoolInv, ExclusiveBorrow, FlagIffBorrowed
<1>7. \A u \in Threads : pc'[u] \in {"scan", "wait"} => m_pstateTarget'[u] = 0
  BY <1>1 DEF PoolInv, EraseRemove, TypeOK
<1> QED  BY <1>2, <1>4, <1>5, <1>6, <1>7 DEF PoolInv

LEMMA PoolInvNext == PoolInv /\ [Next]_vars => PoolInv'
<1> SUFFICES ASSUME PoolInv, [Next]_vars PROVE PoolInv'
  OBVIOUS
<1> USE DEF callVars
<1>0. TypeOK
  BY DEF PoolInv
<1>1. ASSUME NEW t \in Threads, NEW n \in Names, Add(t, n) PROVE PoolInv'
  BY <1>1, AddInv
<1>2. ASSUME NEW t \in Threads, NEW n \in Names, AcquireCall(t, n) PROVE PoolInv'
  <2>1. TypeOK'
    BY <1>0, <1>2 DEF TypeOK, AcquireCall, poolVars
  <2>2. \A u \in Threads : pc'[u] \in {"scan", "wait"} => m_pstateTarget[u] = 0
    BY <1>0, <1>2 DEF PoolInv, TypeOK, AcquireCall
  <2> QED  BY <1>2, <2>1, <2>2, WaitingStep DEF AcquireCall
<1>3. ASSUME NEW t \in Threads, NEW i \in StateIds, EraseCall(t, i) PROVE PoolInv'
  <2>1. TypeOK'
    BY <1>0, <1>3 DEF TypeOK, EraseCall, poolVars
  <2>2. \A u \in Threads : pc'[u] \in {"scan", "wait"} => m_pstateTarget[u] = 0
    BY <1>0, <1>3 DEF PoolInv, TypeOK, EraseCall
  <2> QED  BY <1>3, <2>1, <2>2, WaitingStep DEF EraseCall
<1>4. ASSUME NEW t \in Threads, AcquireStep(t) PROVE PoolInv'
  <2>1. CASE AcquireTake(t)
    BY <2>1, AcquireTakeInv
  <2>2. CASE AcquireMiss(t)
    <3>1. TypeOK'
      BY <1>0, <2>2 DEF TypeOK, AcquireMiss, poolVars
    <3>2. \A u \in Threads : pc'[u] \in {"scan", "wait"} => m_pstateTarget[u] = 0
      BY <1>0, <2>2 DEF PoolInv, TypeOK, AcquireMiss
    <3> QED  BY <2>2, <3>1, <3>2, WaitingStep DEF AcquireMiss
  <2>3. CASE AcquireRetry(t)
    <3>1. TypeOK'
      BY <1>0, <2>3 DEF TypeOK, AcquireRetry, poolVars
    <3>2. \A u \in Threads : pc'[u] \in {"scan", "wait"} => m_pstateTarget[u] = 0
      BY <1>0, <2>3 DEF PoolInv, TypeOK, AcquireRetry
    <3> QED  BY <2>3, <3>1, <3>2, WaitingStep DEF AcquireRetry
  <2>4. CASE AcquireSleep(t)
    <3>1. TypeOK'
      BY <1>0, <2>4 DEF TypeOK, AcquireSleep, poolVars
    <3> QED  BY <2>4, <3>1, WaitingStep DEF PoolInv, AcquireSleep
  <2> QED  BY <1>4, <2>1, <2>2, <2>3, <2>4 DEF AcquireStep
<1>5. ASSUME NEW t \in Threads, EraseStep(t) PROVE PoolInv'
  <2>1. CASE EraseAbsent(t)
    <3>1. TypeOK'
      BY <1>0, <2>1 DEF TypeOK, EraseAbsent, poolVars
    <3>2. \A u \in Threads : pc'[u] \in {"scan", "wait"} => m_pstateTarget[u] = 0
      BY <1>0, <2>1 DEF PoolInv, TypeOK, EraseAbsent
    <3> QED  BY <2>1, <3>1, <3>2, WaitingStep DEF EraseAbsent
  <2>2. CASE EraseRemove(t)
    BY <2>2, EraseRemoveInv
  <2>3. CASE EraseSleep(t)
    <3>1. TypeOK'
      BY <1>0, <2>3 DEF TypeOK, EraseSleep, poolVars
    <3>2. \A u \in Threads : pc'[u] \in {"scan", "wait"} => m_pstateTarget[u] = 0
      BY <1>0, <2>3 DEF PoolInv, TypeOK, EraseSleep
    <3> QED  BY <2>3, <3>1, <3>2, WaitingStep DEF EraseSleep
  <2>4. CASE EraseRetry(t)
    <3>1. TypeOK'
      BY <1>0, <2>4 DEF TypeOK, EraseRetry, poolVars
    <3>2. \A u \in Threads : pc'[u] \in {"scan", "wait"} => m_pstateTarget[u] = 0
      BY <1>0, <2>4 DEF PoolInv, TypeOK, EraseRetry
    <3> QED  BY <2>4, <3>1, <3>2, WaitingStep DEF EraseRetry
  <2>5. CASE EraseSleepAgain(t)
    <3>1. TypeOK'
      BY <1>0, <2>5 DEF TypeOK, EraseSleepAgain, poolVars
    <3> QED  BY <2>5, <3>1, WaitingStep DEF PoolInv, EraseSleepAgain
  <2> QED  BY <1>5, <2>1, <2>2, <2>3, <2>4, <2>5 DEF EraseStep
<1>6. ASSUME NEW t \in Threads, Release(t) PROVE PoolInv'
  BY <1>6, ReleaseInv
<1>7. ASSUME NEW t \in Threads, SpuriousWake(t) PROVE PoolInv'
  <2>1. TypeOK'
    BY <1>0, <1>7 DEF TypeOK, SpuriousWake, poolVars
  <2> QED  BY <1>7, <2>1, WaitingStep DEF PoolInv, SpuriousWake
<1>8. CASE UNCHANGED vars
  <2>1. TypeOK'
    BY <1>0, <1>8 DEF TypeOK, vars, poolVars
  <2> QED  BY <1>8, <2>1, WaitingStep DEF PoolInv, vars
<1> QED  BY <1>1, <1>2, <1>3, <1>4, <1>5, <1>6, <1>7, <1>8 DEF Next

-----------------------------------------------------------------------------

\* The inductive invariant holds throughout.
THEOREM PoolInvariant == Spec => []PoolInv
BY PoolInvInit, PoolInvNext, PTL DEF Spec

\* Type correctness.
THEOREM TypeCorrect == Spec => []TypeOK
<1>1. PoolInv => TypeOK
  BY DEF PoolInv
<1> QED  BY <1>1, PoolInvariant, PTL

\* Two threads never hold the same Lua state.
THEOREM Exclusion == Spec => []ExclusiveBorrow
<1>1. PoolInv => ExclusiveBorrow
  BY DEF PoolInv
<1> QED  BY <1>1, PoolInvariant, PTL

\* Erase never destroys a state somebody holds.
THEOREM NoDanglingBorrow == Spec => []BorrowIsLive
<1>1. PoolInv => BorrowIsLive
  BY DEF PoolInv
<1> QED  BY <1>1, PoolInvariant, PTL

\* The in-use flags are the borrow tokens: no claim is lost or left behind.
THEOREM FlagsAreTokens == Spec => []FlagIffBorrowed
<1>1. PoolInv => FlagIffBorrowed
  BY DEF PoolInv
<1> QED  BY <1>1, PoolInvariant, PTL

-----------------------------------------------------------------------------
(* The pool implements ExclusivePool.                                      *)

LEMMA RefinesInit == Init => Abstract!Init
<1> SUFFICES ASSUME Init PROVE Abstract!Init
  OBVIOUS
<1>1. DOMAIN m_vectorStates = {}
  <2>1. <<>> \in Seq(StateIds) /\ Len(<<>>) = 0
    BY EmptySeq
  <2> QED  BY <2>1, LenProperties DEF Init
<1>2. Owned = {}
  BY <1>1 DEF Owned
<1>3. Retired = {}
  BY DEF Retired, StateIds, Init
<1> QED  BY <1>2, <1>3 DEF Init, Abstract!Init

\* Every step of the pool is a step or a stutter of the abstract pool.
LEMMA RefinesNext ==
    ASSUME PoolInv, [Next]_vars
    PROVE  [Abstract!Next]_(Abstract!vars)
<1> DEFINE Held == {m_pstateTarget[u] : u \in Threads} \ {0}
<1>0. TypeOK /\ IdsAscend /\ m_bInUse = Held
  BY DEF PoolInv, FlagIffBorrowed
<1>stutter. ASSUME UNCHANGED <<poolVars, m_pstateTarget>>
            PROVE  UNCHANGED Abstract!vars
  BY <1>stutter DEF poolVars, Abstract!vars, Owned, Retired
<1>1. ASSUME NEW t \in Threads, NEW n \in Names, Add(t, n) PROVE Abstract!Next
  <2> DEFINE i == m_uNextStateId
  <2>1. Owned' = Owned \cup {i} /\ i \notin Owned /\ i' = i + 1
    BY <1>0, <1>1, AddVector DEF Add
  <2>2. i \in StateIds /\ i \in Nat
    BY <1>0, <1>1 DEF Add, StateIds
  <2>3. i \notin Retired
    BY <2>2 DEF Retired
  <2>4. Retired' = Retired
    <3>1. Retired' = {j \in StateIds : j < i + 1} \ (Owned \cup {i})
      BY <2>1 DEF Retired, StateIds
    <3>2. {j \in StateIds : j < i + 1} = {j \in StateIds : j < i} \cup {i}
      BY <2>2 DEF StateIds
    <3> HIDE DEF i
    <3>3. Retired = {j \in StateIds : j < i} \ Owned /\ i \notin {j \in StateIds : j < i}
      BY <2>2 DEF Retired, i
    <3> QED  BY <3>1, <3>2, <3>3
  <2>5. UNCHANGED m_pstateTarget
    BY <1>1 DEF Add
  <2>6. Abstract!Create(i)
    BY <2>1, <2>2, <2>3, <2>4, <2>5 DEF Abstract!Create
  <2> QED  BY <2>2, <2>6 DEF Abstract!Next
<1>2. ASSUME NEW t \in Threads, AcquireTake(t) PROVE Abstract!Next
  <2>1. PICK k \in IdleAt(stringName[t]) :
           m_pstateTarget' = [m_pstateTarget EXCEPT ![t] = m_vectorStates[k]]
    BY <1>2 DEF AcquireTake
  <2> DEFINE i == m_vectorStates[k]
  <2>2. i \in StateIds /\ i \in Owned \ Held
    BY <1>0, <2>1, VectorElements DEF IdleAt, Owned
  <2>3. m_pstateTarget[t] = 0
    BY <1>2 DEF PoolInv, AcquireTake
  <2>4. UNCHANGED <<Owned, Retired>>
    BY <1>2 DEF AcquireTake, Owned, Retired
  <2>5. Abstract!Take(t, i)
    BY <2>1, <2>2, <2>3, <2>4 DEF Abstract!Take, Abstract!Held
  <2> QED  BY <2>2, <2>5 DEF Abstract!Next
<1>3. ASSUME NEW t \in Threads, Release(t) PROVE Abstract!Next
  <2>1. Abstract!Give(t)
    BY <1>3 DEF Release, Abstract!Give, Owned, Retired
  <2> QED  BY <2>1 DEF Abstract!Next
<1>4. ASSUME NEW t \in Threads, EraseRemove(t) PROVE Abstract!Next
  <2> DEFINE i == uId[t]
  <2>1. Owned' = Owned \ {i} /\ i \in Owned
    BY <1>0, <1>4, EraseVector
  <2>2. i \in StateIds /\ i < m_uNextStateId
    BY <1>0, <2>1, VectorElements DEF IdsAscend, Owned
  <2>3. i \notin Held /\ UNCHANGED <<m_uNextStateId, m_pstateTarget>>
    BY <1>0, <1>4 DEF EraseRemove
  <2>4. Retired' = Retired \cup {i}
    BY <2>1, <2>2, <2>3 DEF Retired
  <2>5. Abstract!Retire(i)
    BY <2>1, <2>3, <2>4 DEF Abstract!Retire, Abstract!Held
  <2> QED  BY <2>2, <2>5 DEF Abstract!Next
<1>5. ASSUME NEW t \in Threads, NEW n \in Names, AcquireCall(t, n)
      PROVE  UNCHANGED <<poolVars, m_pstateTarget>>
  BY <1>5 DEF AcquireCall
<1>6. ASSUME NEW t \in Threads, NEW i \in StateIds, EraseCall(t, i)
      PROVE  UNCHANGED <<poolVars, m_pstateTarget>>
  BY <1>6 DEF EraseCall
<1>7. ASSUME NEW t \in Threads, AcquireStep(t), ~AcquireTake(t)
      PROVE  UNCHANGED <<poolVars, m_pstateTarget>>
  BY <1>7 DEF AcquireStep, AcquireMiss, AcquireRetry, AcquireSleep
<1>8. ASSUME NEW t \in Threads, EraseStep(t), ~EraseRemove(t)
      PROVE  UNCHANGED <<poolVars, m_pstateTarget>>
  BY <1>8 DEF EraseStep, EraseAbsent, EraseSleep, EraseRetry, EraseSleepAgain
<1>9. ASSUME NEW t \in Threads, SpuriousWake(t)
      PROVE  UNCHANGED <<poolVars, m_pstateTarget>>
  BY <1>9 DEF SpuriousWake
<1>10. ASSUME UNCHANGED vars
       PROVE  UNCHANGED <<poolVars, m_pstateTarget>>
  BY <1>10 DEF vars
<1> QED
  BY <1>stutter, <1>1, <1>2, <1>3, <1>4, <1>5, <1>6, <1>7, <1>8, <1>9, <1>10 DEF Next

\* LuaStatePool is an exclusive pool: a state enters it once, is held by one
\* thread at a time and leaves only while nobody holds it.
THEOREM Refinement == Spec => ImplementsExclusivePool
<1>1. PoolInv /\ [Next]_vars => [Abstract!Next]_(Abstract!vars)
  BY RefinesNext
<1> QED
  BY RefinesInit, PoolInvariant, <1>1, PTL DEF Spec, ImplementsExclusivePool, Abstract!Spec

-----------------------------------------------------------------------------
(* Requests.                                                               *)


Serves(t) == phase[t] = "serve" /\ pc[t] = "out" /\ m_pstateTarget[t] = 0
Acquires(t) == phase[t] = "acquire" /\ pc[t] \in {"scan", "wait"}
Borrows(t) ==
    /\ phase[t] \in {"bind", "callback", "script", "failed", "return"}
    /\ pc[t] = "out"
    /\ m_pstateTarget[t] # 0

\* Where a worker is in its execution says where it is in the pool.
PhasesFit == \A t \in Threads : Serves(t) \/ Acquires(t) \/ Borrows(t)

Bindings == Threads \cup {Nobody, Gone}

RequestTypeOK ==
    /\ phase \in [Threads ->
          {"serve", "acquire", "bind", "callback", "script", "failed", "return"}]
    /\ ssr \in [Threads -> BOOLEAN]
    /\ bound \in [StateIds -> [request : Bindings, view : Bindings]]

\* Between Bind and ResetGlobals a worker's state holds its own request.
OwnRequestBound ==
    \A t \in Threads : phase[t] \in {"callback", "script"} =>
        /\ bound[m_pstateTarget[t]].request = t
        /\ ssr[t] => bound[m_pstateTarget[t]].view = t

ServeInv ==
    /\ PoolInv
    /\ RequestTypeOK
    /\ PhasesFit
    /\ OwnRequestBound

\* The first states are numbered in order.
LEMMA ServeInitPool == ServeInit => PoolInv
<1> SUFFICES ASSUME ServeInit PROVE PoolInv
  OBVIOUS
<1>1. PICK count \in CoreCounts :
        /\ m_vectorStates = [k \in 1..count |-> k]
        /\ m_stringName = [i \in StateIds |-> IF i <= count THEN Core ELSE NoName]
        /\ m_uNextStateId = count + 1
  BY DEF ServeInit
<1>2. count \in 1..MaxId /\ MaxId \in Nat
  BY CoreCountsPositive, MaxIdNat DEF StateIds
<1>3. /\ m_vectorStates \in Seq(StateIds)
      /\ DOMAIN m_vectorStates = 1..count
      /\ \A k \in 1..count : m_vectorStates[k] = k
  <2>1. m_vectorStates \in [1..count -> StateIds]
    BY <1>1, <1>2 DEF StateIds
  <2> QED  BY <1>1, <1>2, <2>1, SeqDef
<1>4. TypeOK
  BY <1>1, <1>2, <1>3, CoreIsAName DEF ServeInit, TypeOK
<1>5. IdsAscend
  BY <1>1, <1>2, <1>3 DEF IdsAscend
<1> QED
  BY <1>4, <1>5 DEF ServeInit, PoolInv, ExclusiveBorrow, BorrowIsLive, FlagIffBorrowed

\* What a worker does to the pool is what the pool's threads may do.
LEMMA ServeIsPool == [ServeNext]_serveVars => [Next]_vars
<1> SUFFICES ASSUME [ServeNext]_serveVars PROVE [Next]_vars
  OBVIOUS
<1>1. ASSUME NEW t \in Threads, NEW page, NEW n, Start(t, page, n) PROVE Next
  BY <1>1, CoreIsAName DEF Start, Next
<1>2. ASSUME NEW t \in Threads, Acquired(t) \/ Acquiring(t) PROVE Next
  BY <1>2 DEF Acquired, Acquiring, Next, AcquireStep
<1>3. ASSUME NEW t \in Threads, Bind(t) \/ Callback(t) \/ RunScript(t) \/ ResetGlobals(t)
      PROVE  UNCHANGED vars
  BY <1>3 DEF Bind, Callback, RunScript, ResetGlobals
<1>4. ASSUME NEW t \in Threads, Return(t) \/ Woken(t) PROVE Next
  BY <1>4 DEF Return, Woken, Next
<1> QED  BY <1>1, <1>2, <1>3, <1>4 DEF ServeNext, Work, serveVars

LEMMA ServeInvInit == ServeInit => ServeInv
<1> SUFFICES ASSUME ServeInit PROVE ServeInv
  OBVIOUS
<1>1. PoolInv
  BY ServeInitPool
<1>2. RequestTypeOK
  BY DEF ServeInit, RequestTypeOK, Unbound, Bindings
<1>3. PhasesFit /\ OwnRequestBound
  BY DEF ServeInit, PhasesFit, Serves, OwnRequestBound
<1> QED  BY <1>1, <1>2, <1>3 DEF ServeInv

\* The state a worker has borrowed is a record, and nobody else's.
LEMMA BorrowedState ==
    ASSUME ServeInv, NEW t \in Threads, Borrows(t)
    PROVE  /\ m_pstateTarget[t] \in Owned
           /\ m_pstateTarget[t] \in StateIds
           /\ \A u \in Threads \ {t} : m_pstateTarget[u] # m_pstateTarget[t]
  BY VectorElements DEF ServeInv, PoolInv, BorrowIsLive, ExclusiveBorrow, Borrows

LEMMA ServeInvNext == ServeInv /\ [ServeNext]_serveVars => ServeInv'
<1> SUFFICES ASSUME ServeInv, [ServeNext]_serveVars PROVE ServeInv'
  OBVIOUS
<1>0. /\ PoolInv' /\ PoolInv
      /\ TypeOK /\ RequestTypeOK
      /\ PhasesFit
  BY ServeIsPool, PoolInvNext DEF ServeInv, PoolInv
<1> USE DEF poolVars, callVars, requestVars
<1>1. ASSUME NEW t \in Threads, NEW page \in BOOLEAN, NEW n, Start(t, page, n)
      PROVE  ServeInv'
  <2>1. RequestTypeOK' /\ PhasesFit'
    BY <1>0, <1>1
    DEF Start, AcquireCall, TypeOK, RequestTypeOK, PhasesFit, Serves, Acquires, Borrows
  <2>2. OwnRequestBound'
    BY <1>0, <1>1 DEF Start, AcquireCall, RequestTypeOK, ServeInv, OwnRequestBound
  <2> QED  BY <1>0, <2>1, <2>2 DEF ServeInv
<1>2. ASSUME NEW t \in Threads, Acquired(t) PROVE ServeInv'
  <2>1. PICK k \in IdleAt(stringName[t]) :
           m_pstateTarget' = [m_pstateTarget EXCEPT ![t] = m_vectorStates[k]]
    BY <1>2 DEF Acquired, AcquireTake
  <2>2. m_vectorStates[k] \in StateIds
    BY <1>0, <2>1, VectorElements DEF IdleAt
  <2>3. RequestTypeOK' /\ PhasesFit'
    BY <1>0, <1>2, <2>1, <2>2
    DEF Acquired, AcquireTake, TypeOK, StateIds, RequestTypeOK, PhasesFit, Serves,
        Acquires, Borrows
  <2>4. OwnRequestBound'
    BY <1>0, <1>2, <2>1 DEF Acquired, TypeOK, RequestTypeOK, ServeInv, OwnRequestBound
  <2> QED  BY <1>0, <2>3, <2>4 DEF ServeInv
<1>3. ASSUME NEW t \in Threads, Acquiring(t) PROVE ServeInv'
  <2>1. RequestTypeOK' /\ PhasesFit'
    BY <1>0, <1>3
    DEF Acquiring, AcquireMiss, AcquireRetry, AcquireSleep, TypeOK, RequestTypeOK,
        PhasesFit, Serves, Acquires, Borrows
  <2>2. OwnRequestBound'
    BY <1>3
    DEF Acquiring, AcquireMiss, AcquireRetry, AcquireSleep, ServeInv, OwnRequestBound
  <2> QED  BY <1>0, <2>1, <2>2 DEF ServeInv
<1>4. ASSUME NEW t \in Threads, Bind(t) PROVE ServeInv'
  <2>1. Borrows(t)
    BY <1>0, <1>4 DEF Bind, PhasesFit, Serves, Acquires
  <2>2. RequestTypeOK' /\ PhasesFit'
    BY <1>0, <1>4, <2>1, BorrowedState
    DEF Bind, vars, RequestTypeOK, Bindings, PhasesFit, Serves, Acquires, Borrows
  <2>3. OwnRequestBound'
    BY <1>0, <1>4, <2>1, BorrowedState
    DEF Bind, vars, RequestTypeOK, ServeInv, OwnRequestBound
  <2> QED  BY <1>0, <2>2, <2>3 DEF ServeInv
<1>5. ASSUME NEW t \in Threads, Callback(t) PROVE ServeInv'
  <2>1. RequestTypeOK' /\ PhasesFit'
    BY <1>0, <1>5
    DEF Callback, vars, RequestTypeOK, PhasesFit, Serves, Acquires, Borrows
  <2>2. OwnRequestBound'
    BY <1>0, <1>5 DEF Callback, vars, RequestTypeOK, ServeInv, OwnRequestBound
  <2> QED  BY <1>0, <2>1, <2>2 DEF ServeInv
<1>6. ASSUME NEW t \in Threads, RunScript(t) PROVE ServeInv'
  BY <1>0, <1>6
  DEF RunScript, vars, RequestTypeOK, PhasesFit, Serves, Acquires, Borrows, ServeInv,
      OwnRequestBound
<1>7. ASSUME NEW t \in Threads, ResetGlobals(t) PROVE ServeInv'
  <2>1. Borrows(t)
    BY <1>0, <1>7 DEF ResetGlobals, PhasesFit, Serves, Acquires
  <2>2. RequestTypeOK' /\ PhasesFit'
    BY <1>0, <1>7, <2>1, BorrowedState
    DEF ResetGlobals, vars, RequestTypeOK, Bindings, PhasesFit, Serves, Acquires, Borrows
  <2>3. OwnRequestBound'
    BY <1>0, <1>7, <2>1, BorrowedState
    DEF ResetGlobals, vars, RequestTypeOK, ServeInv, OwnRequestBound
  <2> QED  BY <1>0, <2>2, <2>3 DEF ServeInv
<1>8. ASSUME NEW t \in Threads, Return(t) PROVE ServeInv'
  <2>1. Borrows(t)
    BY <1>0, <1>8 DEF Return, PhasesFit, Serves, Acquires
  <2>2. RequestTypeOK' /\ PhasesFit'
    BY <1>0, <1>8, <2>1, BorrowedState
    DEF Return, Release, TypeOK, RequestTypeOK, Bindings, PhasesFit, Serves, Acquires,
        Borrows
  <2>3. OwnRequestBound'
    BY <1>0, <1>8, <2>1, BorrowedState
    DEF Return, Release, TypeOK, RequestTypeOK, ServeInv, OwnRequestBound
  <2> QED  BY <1>0, <2>2, <2>3 DEF ServeInv
<1>9. ASSUME NEW t \in Threads, Woken(t) PROVE ServeInv'
  BY <1>0, <1>9
  DEF Woken, SpuriousWake, RequestTypeOK, PhasesFit, Serves, Acquires, Borrows, ServeInv,
      OwnRequestBound
<1>10. CASE UNCHANGED serveVars
  BY <1>0, <1>10
  DEF serveVars, vars, RequestTypeOK, PhasesFit, Serves, Acquires, Borrows, ServeInv,
      OwnRequestBound
<1> QED
  BY <1>1, <1>2, <1>3, <1>4, <1>5, <1>6, <1>7, <1>8, <1>9, <1>10 DEF ServeNext, Work

-----------------------------------------------------------------------------

\* The inductive invariant holds throughout.
THEOREM ServeInvariant == ServeSpec => []ServeInv
  BY ServeInvInit, ServeInvNext, PTL DEF ServeSpec

\* Every worker's step keeps what is proved of the pool: it is used by the
\* server as its own specification says (LUA_Initialize, LuaRequestExecute).
THEOREM ServeKeepsPool == ServeSpec => []PoolInv
<1>1. ServeInv => PoolInv
  BY DEF ServeInv
<1> QED  BY <1>1, ServeInvariant, PTL

\* A script runs with the objects of its own request bound, and nobody
\* rebinds or clears them meanwhile (LuaRequestExecute, LuaSSRExecute).
THEOREM OwnRequest == ServeSpec => []ScriptSeesOwnRequest
<1>1. ServeInv => ScriptSeesOwnRequest
  BY DEF ServeInv, OwnRequestBound, ScriptSeesOwnRequest
<1> QED  BY <1>1, ServeInvariant, PTL

-----------------------------------------------------------------------------
(* What a request leaves behind.  A worker's objects are bound nowhere but *)
(* in the state it has borrowed, and there from Bind to the reset, or to   *)
(* the return of a callback that failed.                                   *)

BoundIsHeld ==
    \A i \in StateIds, t \in Threads :
        /\ bound[i].request = t \/ bound[i].view = t =>
               m_pstateTarget[t] = i /\ phase[t] \in {"callback", "script", "failed"}
        /\ bound[i].view = t => ssr[t]

HeldInv == ServeInv /\ BoundIsHeld

\* A state a worker holds is in use, and one in use is held.
LEMMA InUseIsHeld ==
    ASSUME ServeInv, NEW i \in StateIds
    PROVE  i \in m_bInUse <=> \E t \in Threads : m_pstateTarget[t] = i
  BY DEF ServeInv, PoolInv, FlagIffBorrowed, StateIds

LEMMA HeldInvInit == ServeInit => HeldInv
<1> SUFFICES ASSUME ServeInit PROVE HeldInv
  OBVIOUS
<1>1. BoundIsHeld
  BY NobodyIsNoWorker DEF ServeInit, Unbound, BoundIsHeld
<1> QED  BY <1>1, ServeInvInit DEF HeldInv

LEMMA HeldInvNext == HeldInv /\ [ServeNext]_serveVars => HeldInv'
<1> SUFFICES ASSUME HeldInv, [ServeNext]_serveVars PROVE HeldInv'
  OBVIOUS
<1>0. /\ ServeInv' /\ ServeInv /\ BoundIsHeld
      /\ TypeOK /\ RequestTypeOK /\ PhasesFit
  BY ServeInvNext DEF HeldInv, ServeInv, PoolInv
<1> USE DEF poolVars, callVars, requestVars
<1>1. ASSUME NEW t \in Threads, NEW page \in BOOLEAN, NEW n, Start(t, page, n)
      PROVE  BoundIsHeld'
  BY <1>0, <1>1 DEF Start, AcquireCall, RequestTypeOK, BoundIsHeld
<1>2. ASSUME NEW t \in Threads, Acquired(t) PROVE BoundIsHeld'
  BY <1>0, <1>2 DEF Acquired, AcquireTake, TypeOK, RequestTypeOK, BoundIsHeld
<1>3. ASSUME NEW t \in Threads, Acquiring(t) PROVE BoundIsHeld'
  BY <1>0, <1>3 DEF Acquiring, AcquireMiss, AcquireRetry, AcquireSleep, BoundIsHeld
<1>4. ASSUME NEW t \in Threads, Bind(t) PROVE BoundIsHeld'
  <2> DEFINE i == m_pstateTarget[t]
  <2>1. i \in StateIds /\ \A u \in Threads \ {t} : m_pstateTarget[u] # i
    <3>1. Borrows(t)
      BY <1>0, <1>4 DEF Bind, PhasesFit, Serves, Acquires
    <3> QED  BY <1>0, <3>1, BorrowedState
  <2>2. /\ bound'[i].request = t
        /\ bound'[i].view = IF ssr[t] THEN t ELSE bound[i].view
        /\ \A j \in StateIds \ {i} : bound'[j] = bound[j]
    BY <1>0, <1>4, <2>1 DEF Bind, RequestTypeOK
  <2>3. phase' = [phase EXCEPT ![t] = "callback"]
    BY <1>4 DEF Bind
  <2>4. \A u \in Threads : bound[i].view # u
    BY <1>0, <1>4, <2>1 DEF Bind, BoundIsHeld
  <2>5. UNCHANGED <<m_pstateTarget, ssr>>
    BY <1>4 DEF Bind, vars
  <2> HIDE DEF i
  <2>6. m_pstateTarget[t] = i
    BY DEF i
  <2> QED  BY <1>0, <2>1, <2>2, <2>3, <2>4, <2>5, <2>6 DEF RequestTypeOK, BoundIsHeld
<1>5. ASSUME NEW t \in Threads, Callback(t) PROVE BoundIsHeld'
  BY <1>0, <1>5 DEF Callback, vars, RequestTypeOK, BoundIsHeld
<1>6. ASSUME NEW t \in Threads, RunScript(t) PROVE BoundIsHeld'
  BY <1>0, <1>6 DEF RunScript, vars, BoundIsHeld
<1>7. ASSUME NEW t \in Threads, ResetGlobals(t) PROVE BoundIsHeld'
  <2> DEFINE i == m_pstateTarget[t]
  <2>1. i \in StateIds /\ i \in Owned
    <3>1. Borrows(t)
      BY <1>0, <1>7 DEF ResetGlobals, PhasesFit, Serves, Acquires
    <3> QED  BY <1>0, <3>1, BorrowedState
  <2>2. /\ bound'[i].request = Nobody
        /\ bound'[i].view = IF ssr[t] THEN Nobody ELSE bound[i].view
        /\ \A j \in StateIds \ {i} : bound'[j] = bound[j]
    BY <1>0, <1>7, <2>1 DEF ResetGlobals, RequestTypeOK
  <2>3. /\ phase' = [phase EXCEPT ![t] = "return"]
        /\ UNCHANGED <<m_pstateTarget, ssr>>
    BY <1>7 DEF ResetGlobals, vars
  <2> HIDE DEF i
  <2>4. m_pstateTarget[t] = i
    BY DEF i
  <2>5. \A j \in StateIds \ {i} : bound[j].request # t /\ bound[j].view # t
    BY <1>0, <2>4 DEF BoundIsHeld
  <2>6. bound'[i].request # t /\ bound'[i].view # t
    BY <1>0, <2>1, <2>2, NobodyIsNoWorker DEF BoundIsHeld
  <2>7. ASSUME NEW j \in StateIds, NEW u \in Threads \ {t}
        PROVE  /\ bound'[j].request = u => bound[j].request = u
               /\ bound'[j].view = u => bound[j].view = u
    BY <2>2, NobodyIsNoWorker
  <2> QED
    BY <1>0, <2>2, <2>3, <2>5, <2>6, <2>7 DEF RequestTypeOK, BoundIsHeld
<1>8. ASSUME NEW t \in Threads, Return(t) PROVE BoundIsHeld'
  <2> DEFINE i == m_pstateTarget[t]
             left == [g \in {"request", "view"} |->
                         IF bound[i][g] = t THEN Gone ELSE bound[i][g]]
  <2>1. i \in StateIds
    <3>1. Borrows(t)
      BY <1>0, <1>8 DEF Return, PhasesFit, Serves, Acquires
    <3> QED  BY <1>0, <3>1, BorrowedState
  <2>2. bound' = [bound EXCEPT ![i] = left]
    BY <1>8 DEF Return
  <2>3. /\ m_pstateTarget' = [m_pstateTarget EXCEPT ![t] = 0]
        /\ phase' = [phase EXCEPT ![t] = "serve"]
        /\ ssr' = [ssr EXCEPT ![t] = FALSE]
    BY <1>8 DEF Return, Release
  <2>4. /\ left.request = IF bound[i].request = t THEN Gone ELSE bound[i].request
        /\ left.view = IF bound[i].view = t THEN Gone ELSE bound[i].view
    OBVIOUS
  <2> HIDE DEF left
  <2>5. \A j \in StateIds \ {i} : bound[j].request # t /\ bound[j].view # t
    BY <1>0 DEF BoundIsHeld
  <2> HIDE DEF i
  <2>6. ASSUME NEW j \in StateIds
        PROVE  /\ bound'[j].request # t /\ bound'[j].view # t
               /\ \A u \in Threads \ {t} :
                     /\ bound'[j].request = u => bound[j].request = u
                     /\ bound'[j].view = u => bound[j].view = u
    BY <1>0, <2>1, <2>2, <2>4, <2>5, GoneIsNoWorker DEF RequestTypeOK
  <2> QED  BY <1>0, <2>3, <2>6 DEF TypeOK, RequestTypeOK, BoundIsHeld
<1>9. ASSUME NEW t \in Threads, Woken(t) PROVE BoundIsHeld'
  BY <1>0, <1>9 DEF Woken, SpuriousWake, BoundIsHeld
<1>10. ASSUME UNCHANGED serveVars PROVE BoundIsHeld'
  <2>1. UNCHANGED <<m_pstateTarget, phase, ssr, bound>>
    BY <1>10 DEF serveVars, vars
  <2> QED  BY <1>0, <2>1 DEF BoundIsHeld
<1>11. BoundIsHeld'
  BY <1>1, <1>2, <1>3, <1>4, <1>5, <1>6, <1>7, <1>8, <1>9, <1>10 DEF ServeNext, Work
<1> QED  BY <1>0, <1>11 DEF HeldInv

\* Only Return leaves an object of a request that has ended, and only in the
\* state of the worker whose callback failed.
LEMMA SpoilStep ==
    ASSUME HeldInv, [ServeNext]_serveVars,
           NEW i \in StateIds, NEW g \in {"request", "view"},
           bound[i][g] # Gone, bound'[i][g] = Gone
    PROVE  \E t \in Threads : m_pstateTarget[t] = i /\ phase[t] = "failed"
<1>0. /\ ServeInv /\ BoundIsHeld /\ RequestTypeOK /\ PhasesFit
  BY DEF HeldInv, ServeInv
<1>1. bound' # bound
  OBVIOUS
<1>2. PICK t \in Threads : Bind(t) \/ ResetGlobals(t) \/ Return(t)
  BY <1>1
  DEF ServeNext, Work, Start, Acquired, Acquiring, Callback, RunScript, Woken,
      requestVars, serveVars
<1>3. ASSUME Bind(t) \/ ResetGlobals(t) PROVE FALSE
  <2>1. Borrows(t)
    BY <1>0, <1>3 DEF Bind, ResetGlobals, PhasesFit, Serves, Acquires
  <2>2. m_pstateTarget[t] \in StateIds
    BY <1>0, <2>1, BorrowedState
  <2>3. bound'[i][g] \in {t, Nobody, bound[i][g]}
    BY <1>0, <1>3, <2>2 DEF Bind, ResetGlobals, RequestTypeOK
  <2> QED  BY <2>3, GoneIsNoWorker
<1>4. CASE Return(t)
  <2>1. Borrows(t)
    BY <1>0, <1>4 DEF Return, PhasesFit, Serves, Acquires
  <2>2. m_pstateTarget[t] \in StateIds
    BY <1>0, <2>1, BorrowedState
  <2>3. m_pstateTarget[t] = i /\ bound[i][g] = t
    BY <1>0, <1>4, <2>2 DEF Return, RequestTypeOK
  <2>4. phase[t] \in {"callback", "script", "failed"}
    BY <1>0, <2>3 DEF BoundIsHeld
  <2> QED  BY <1>4, <2>3, <2>4 DEF Return
<1> QED  BY <1>2, <1>3, <1>4

\* A state goes back to the pool with an object of the request it served only
\* when that request's callback failed (LuaRequestExecute, LuaSSRExecute).
THEOREM FailedCallbacksSpoil == ServeSpec => OnlyFailedCallbacksSpoil
<1>1. HeldInv /\ [ServeNext]_serveVars =>
         [\A i \in StateIds : \A g \in {"request", "view"} :
             bound[i][g] # Gone /\ bound'[i][g] = Gone =>
                 \E t \in Threads : m_pstateTarget[t] = i /\ phase[t] = "failed"]_serveVars
  BY SpoilStep
<1> QED  BY HeldInvInit, HeldInvNext, <1>1, PTL DEF ServeSpec, OnlyFailedCallbacksSpoil

-----------------------------------------------------------------------------
(* With a state for every worker nobody sleeps.  A worker that looks for a *)
(* state holds none, so the others hold fewer states than there are.       *)

AllCore ==
    /\ \A i \in Owned : m_stringName[i] = Core
    /\ \A t \in Threads : pc[t] \in {"scan", "wait"} => stringName[t] = Core

SleepInv == ServeInv /\ AllCore /\ NobodySleeps

\* By the pigeonhole principle on the positions of the vector.
LEMMA SomeStateIsIdle ==
    ASSUME ServeInv, AllCore, Enough, NEW t \in Threads, m_pstateTarget[t] = 0
    PROVE  IdleAt(Core) # {}
<1> DEFINE v == m_vectorStates
           Places == 1..Len(v)
           Others == Threads \ {t}
<1>1. SUFFICES ASSUME IdleAt(Core) = {} PROVE FALSE
  OBVIOUS
<1>2. /\ TypeOK /\ IdsAscend
      /\ Len(v) \in Nat /\ DOMAIN v = Places
      /\ \A k \in Places : v[k] \in StateIds /\ v[k] \in Owned
  BY VectorElements DEF ServeInv, PoolInv, Owned
<1>3. \A k \in Places : v[k] \in m_bInUse
  BY <1>1, <1>2 DEF IdleAt, AllCore
<1>4. \A k \in Places : \E u \in Others : m_pstateTarget[u] = v[k]
  <2>1. ASSUME NEW k \in Places PROVE \E u \in Others : m_pstateTarget[u] = v[k]
    <3>1. PICK u \in Threads : m_pstateTarget[u] = v[k]
      BY <1>2, <1>3, InUseIsHeld
    <3>2. v[k] # 0
      BY <1>2 DEF StateIds
    <3> QED  BY <3>1, <3>2
  <2> QED  BY <2>1
<1> DEFINE holder == [k \in Places |-> CHOOSE u \in Others : m_pstateTarget[u] = v[k]]
<1>5. /\ holder \in [Places -> Others]
      /\ \A k \in Places : m_pstateTarget[holder[k]] = v[k]
  BY <1>4
<1>6. /\ IsFiniteSet(Places) /\ Cardinality(Places) = Len(v)
      /\ IsFiniteSet(Others) /\ Cardinality(Others) = Cardinality(Threads) - 1
      /\ Cardinality(Threads) \in Nat
  <2>1. Cardinality(Places) = Len(v) /\ IsFiniteSet(Places)
    BY <1>2, FS_Interval
  <2>2. Cardinality(Others) = Cardinality(Threads) - 1 /\ IsFiniteSet(Others)
    BY WorkersAreFinite, FS_RemoveElement
  <2> QED  BY <2>1, <2>2, WorkersAreFinite, FS_CardinalityType
<1>7. Cardinality(Others) < Cardinality(Places)
  BY <1>2, <1>6 DEF Enough
<1> HIDE DEF holder, Places, Others
<1>8. PICK j, k \in Places : j # k /\ holder[j] = holder[k]
  BY <1>5, <1>6, <1>7, FS_PigeonHole
<1>9. v[j] = v[k]
  BY <1>5, <1>8
<1>10. v[j] \in Nat /\ v[k] \in Nat /\ j \in Nat /\ k \in Nat
  BY <1>2, <1>8 DEF StateIds, Places
<1>11. v[j] < v[k] \/ v[k] < v[j]
  BY <1>2, <1>8, <1>10 DEF IdsAscend
<1> QED  BY <1>9, <1>10, <1>11

LEMMA SleepInvInit == ServeInit => SleepInv
<1> SUFFICES ASSUME ServeInit PROVE SleepInv
  OBVIOUS
<1>1. ServeInv
  BY ServeInvInit
<1>2. PICK count \in CoreCounts :
        /\ m_vectorStates = [k \in 1..count |-> k]
        /\ m_stringName = [i \in StateIds |-> IF i <= count THEN Core ELSE NoName]
  BY DEF ServeInit
<1>3. count \in StateIds /\ Owned = 1..count
  BY <1>2, CoreCountsPositive DEF Owned
<1>4. \A i \in Owned : m_stringName[i] = Core
  BY <1>2, <1>3, MaxIdNat DEF StateIds
<1>5. AllCore /\ NobodySleeps
  BY <1>4 DEF ServeInit, AllCore, NobodySleeps
<1> QED  BY <1>1, <1>5 DEF SleepInv

LEMMA SleepInvNext == SleepInv /\ [ServeNext]_serveVars => SleepInv'
<1> SUFFICES ASSUME SleepInv, [ServeNext]_serveVars PROVE SleepInv'
  OBVIOUS
<1>0. /\ ServeInv' /\ ServeInv /\ AllCore /\ NobodySleeps
      /\ TypeOK /\ PhasesFit
      /\ \A t \in Threads : pc[t] = "wait" => m_pstateTarget[t] = 0
  BY ServeInvNext DEF SleepInv, ServeInv, PoolInv
<1>1. UNCHANGED <<m_vectorStates, m_stringName>>
  BY DEF ServeNext, Start, AcquireCall, Work, Acquired, AcquireTake, Acquiring,
         AcquireMiss, AcquireRetry, AcquireSleep, Bind, Callback, RunScript,
         ResetGlobals, Return, Release, Woken, SpuriousWake, serveVars, vars, poolVars
<1>2. \A t \in Threads : pc'[t] \in {"scan", "wait"} => stringName'[t] = Core
  <2>1. ASSUME NEW u \in Threads, Work(u) \/ Woken(u)
        PROVE  \A t \in Threads : pc'[t] \in {"scan", "wait"} =>
                   pc[t] \in {"scan", "wait"} /\ stringName'[t] = stringName[t]
    BY <1>0, <2>1
    DEF TypeOK, Work, Acquired, AcquireTake, Acquiring, AcquireMiss, AcquireRetry,
        AcquireSleep, Bind, Callback, RunScript, ResetGlobals, Return, Release, Woken,
        SpuriousWake, vars, callVars
  <2>2. ASSUME NEW u \in Threads, NEW page, NEW n, Start(u, page, n)
        PROVE  \A t \in Threads : pc'[t] \in {"scan", "wait"} => stringName'[t] = Core
    BY <1>0, <2>2 DEF TypeOK, Start, AcquireCall, AllCore
  <2>3. CASE UNCHANGED serveVars
    BY <1>0, <2>3 DEF serveVars, vars, callVars, AllCore
  <2> QED  BY <1>0, <2>1, <2>2, <2>3 DEF ServeNext, AllCore
<1>3. AllCore'
  BY <1>0, <1>1, <1>2 DEF AllCore, Owned
<1>4. Enough' <=> Enough
  BY <1>1 DEF Enough
<1>5. ASSUME NEW t \in Threads, AcquireSleep(t) PROVE ~Enough
  BY <1>0, <1>5, SomeStateIsIdle DEF AcquireSleep, AllCore
<1>6. waiters' \subseteq waiters \/ \E t \in Threads : AcquireSleep(t)
  BY DEF ServeNext, Start, AcquireCall, Work, Acquired, AcquireTake, Acquiring,
         AcquireMiss, AcquireRetry, Bind, Callback, RunScript, ResetGlobals, Return,
         Release, Woken, SpuriousWake, serveVars, vars
<1>7. NobodySleeps'
  BY <1>0, <1>4, <1>5, <1>6 DEF NobodySleeps
<1> QED  BY <1>0, <1>3, <1>7 DEF SleepInv

\* With a state for every worker nobody sleeps on the condition variable, so
\* that it does no harm that release notifies nobody (borrow::release).
THEOREM EnoughStatesNoSleep == ServeSpec => []NobodySleeps
<1>1. SleepInv => NobodySleeps
  BY DEF SleepInv
<1> QED  BY SleepInvInit, SleepInvNext, <1>1, PTL DEF ServeSpec
=============================================================================
