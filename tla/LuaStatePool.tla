---------------------------- MODULE LuaStatePool ----------------------------
(***************************************************************************)
(* LUA::LuaStatePool, the pool of Lua interpreters that the worker threads *)
(* of the HTTP server share (target/server/http/lua/LUAStatePool.{h,cpp}). *)
(*                                                                         *)
(* A state record is known by its id: ids are handed out once and the      *)
(* record's name never changes.  One action is one critical section of     *)
(* m_mutexPool, or one access made without it.  Inside a critical section  *)
(* an in-use flag can be cleared by a concurrent release but never set, so *)
(* a scan that is overtaken by releases ends as it would had those         *)
(* releases come after it, and the sections can be atomic.                 *)
(*                                                                         *)
(* Bound: MaxId caps the 64-bit id counter.                                *)
(***************************************************************************)
EXTENDS Naturals, Sequences, SequencesExt

CONSTANTS
    Threads,        \* the threads that call the pool
    Names,          \* the names states are grouped by, "core" in the server
    NoName,         \* the name of a record that does not exist yet
    MaxId           \* bound on the ids handed out by next_id

ASSUME ThreadsAndNames == NoName \notin Names
ASSUME MaxIdNat == MaxId \in Nat

VARIABLES
    m_vectorStates,     \* the records the pool owns, by id, in vector order
    m_stringName,       \* state::m_stringName of each record
    m_bInUse,           \* the ids of the live records whose m_bInUse is true
    m_uNextStateId,     \* the counter behind next_id
    m_pstateTarget,     \* the record in each thread's borrow token, 0 for nullptr
    waiters,            \* the threads asleep on m_conditionStateAvailable
    pc,                 \* where each thread is in Acquire or Erase
    stringName,         \* the argument of a running Acquire
    uId                 \* the argument of a running Erase, and its stateTarget

poolVars == <<m_vectorStates, m_stringName, m_bInUse, m_uNextStateId>>
callVars == <<pc, stringName, uId>>
vars == <<poolVars, m_pstateTarget, waiters, callVars>>

StateIds == 1..MaxId

\* The ids of the records that exist.
Owned == {m_vectorStates[k] : k \in DOMAIN m_vectorStates}

\* Mutation of IdleAt: the scan does not look at the flag.
IdleAt_AnyMatch(n) == {k \in DOMAIN m_vectorStates : m_stringName[m_vectorStates[k]] = n}

\* The positions Acquire's scan for the name n may stop at.
IdleAt(n) ==
    {k \in DOMAIN m_vectorStates :
        /\ m_stringName[m_vectorStates[k]] = n
        /\ m_vectorStates[k] \notin m_bInUse}

Init ==
    /\ m_vectorStates = <<>>
    /\ m_stringName = [i \in StateIds |-> NoName]
    /\ m_bInUse = {}
    /\ m_uNextStateId = 1
    /\ m_pstateTarget = [t \in Threads |-> 0]
    /\ waiters = {}
    /\ pc = [t \in Threads |-> "out"]
    /\ stringName = [t \in Threads |-> NoName]
    /\ uId = [t \in Threads |-> 0]

-----------------------------------------------------------------------------
(* Add: the interpreter is created before the lock is taken; next_id is    *)
(* called under it.  Nothing is notified and no limit is looked at.        *)

Add(t, n) ==
    /\ pc[t] = "out"
    /\ m_uNextStateId \in StateIds
    /\ m_vectorStates' = Append(m_vectorStates, m_uNextStateId)
    /\ m_stringName' = [m_stringName EXCEPT ![m_uNextStateId] = n]
    /\ m_uNextStateId' = m_uNextStateId + 1
    /\ UNCHANGED <<m_bInUse, m_pstateTarget, waiters, callVars>>

-----------------------------------------------------------------------------
(* Acquire: two critical sections, with the mutex dropped between them.    *)

\* Mutation of AcquireCall: a thread may ask for a second state, and its
\* token is overwritten.
AcquireCall_WhileHolding(t, n) ==
    /\ pc[t] = "out"
    /\ m_vectorStates # <<>>
    /\ pc' = [pc EXCEPT ![t] = "scan"]
    /\ stringName' = [stringName EXCEPT ![t] = n]
    /\ UNCHANGED <<poolVars, m_pstateTarget, waiters, uId>>

\* The callers look at Empty() first, and Acquire asserts it.
AcquireCall(t, n) ==
    /\ pc[t] = "out"
    /\ m_pstateTarget[t] = 0
    /\ m_vectorStates # <<>>
    /\ pc' = [pc EXCEPT ![t] = "scan"]
    /\ stringName' = [stringName EXCEPT ![t] = n]
    /\ UNCHANGED <<poolVars, m_pstateTarget, waiters, uId>>

\* The scan claims the first idle match and returns the borrow token.
AcquireTake(t) ==
    /\ pc[t] = "scan"
    /\ \E k \in IdleAt(stringName[t]) :
          /\ \A j \in IdleAt(stringName[t]) : k <= j
          /\ m_bInUse' = m_bInUse \cup {m_vectorStates[k]}
          /\ m_pstateTarget' = [m_pstateTarget EXCEPT ![t] = m_vectorStates[k]]
    /\ pc' = [pc EXCEPT ![t] = "out"]
    /\ stringName' = [stringName EXCEPT ![t] = NoName]
    /\ UNCHANGED <<m_vectorStates, m_stringName, m_uNextStateId, waiters, uId>>

\* Every match is busy.
AcquireMiss(t) ==
    /\ pc[t] = "scan"
    /\ IdleAt(stringName[t]) = {}
    /\ pc' = [pc EXCEPT ![t] = "wait"]
    /\ UNCHANGED <<poolVars, m_pstateTarget, waiters, stringName, uId>>

\* wait(lock, predicate): the predicate is looked at before each sleep.
AcquireRetry(t) ==
    /\ pc[t] = "wait" /\ t \notin waiters
    /\ IdleAt(stringName[t]) # {}
    /\ pc' = [pc EXCEPT ![t] = "scan"]
    /\ UNCHANGED <<poolVars, m_pstateTarget, waiters, stringName, uId>>

AcquireSleep(t) ==
    /\ pc[t] = "wait" /\ t \notin waiters
    /\ IdleAt(stringName[t]) = {}
    /\ waiters' = waiters \cup {t}
    /\ UNCHANGED <<poolVars, m_pstateTarget, callVars>>

-----------------------------------------------------------------------------
(* borrow::release clears the flag: no lock, no notification.              *)

\* Mutation of Release: the flag is not cleared.
Release_KeepsFlag(t) ==
    /\ pc[t] = "out"
    /\ m_pstateTarget[t] # 0
    /\ m_pstateTarget' = [m_pstateTarget EXCEPT ![t] = 0]
    /\ UNCHANGED <<poolVars, waiters, callVars>>

Release(t) ==
    /\ pc[t] = "out"
    /\ m_pstateTarget[t] # 0
    /\ m_bInUse' = m_bInUse \ {m_pstateTarget[t]}
    /\ m_pstateTarget' = [m_pstateTarget EXCEPT ![t] = 0]
    /\ UNCHANGED <<m_vectorStates, m_stringName, m_uNextStateId, waiters, callVars>>

-----------------------------------------------------------------------------
(* Erase: one critical section per turn of its loop, ended by the return   *)
(* or by the wait.                                                         *)

EraseCall(t, i) ==
    /\ pc[t] = "out"
    /\ pc' = [pc EXCEPT ![t] = "erase"]
    /\ uId' = [uId EXCEPT ![t] = i]
    /\ UNCHANGED <<poolVars, m_pstateTarget, waiters, stringName>>

\* The id is not found: returns false.
EraseAbsent(t) ==
    /\ pc[t] = "erase"
    /\ uId[t] \notin Owned
    /\ pc' = [pc EXCEPT ![t] = "out"]
    /\ uId' = [uId EXCEPT ![t] = 0]
    /\ UNCHANGED <<poolVars, m_pstateTarget, waiters, stringName>>

\* Mutation of EraseRemove: the record is destroyed without being claimed.
EraseRemove_Unclaimed(t) ==
    /\ pc[t] = "erase"
    /\ \E k \in DOMAIN m_vectorStates :
          /\ m_vectorStates[k] = uId[t]
          /\ m_vectorStates' = RemoveAt(m_vectorStates, k)
    /\ waiters' = {}
    /\ pc' = [pc EXCEPT ![t] = "out"]
    /\ uId' = [uId EXCEPT ![t] = 0]
    /\ UNCHANGED <<m_stringName, m_bInUse, m_uNextStateId, m_pstateTarget, stringName>>

\* The claim succeeds: the record is destroyed, its flag with it, and every
\* waiter is notified before Erase returns true.
EraseRemove(t) ==
    /\ pc[t] = "erase"
    /\ uId[t] \notin m_bInUse
    /\ \E k \in DOMAIN m_vectorStates :
          /\ m_vectorStates[k] = uId[t]
          /\ m_vectorStates' = RemoveAt(m_vectorStates, k)
    /\ waiters' = {}
    /\ pc' = [pc EXCEPT ![t] = "out"]
    /\ uId' = [uId EXCEPT ![t] = 0]
    /\ UNCHANGED <<m_stringName, m_bInUse, m_uNextStateId, m_pstateTarget, stringName>>

\* The record is borrowed: sleep, holding a reference to it.
EraseSleep(t) ==
    /\ pc[t] = "erase"
    /\ uId[t] \in Owned \cap m_bInUse
    /\ pc' = [pc EXCEPT ![t] = "eraseWait"]
    /\ waiters' = waiters \cup {t}
    /\ UNCHANGED <<poolVars, m_pstateTarget, stringName, uId>>

\* The predicate reads stateTarget.m_bInUse.  When the record has been
\* destroyed meanwhile the read is undefined and gives either answer.
EraseRetry(t) ==
    /\ pc[t] = "eraseWait" /\ t \notin waiters
    /\ uId[t] \in Owned => uId[t] \notin m_bInUse
    /\ pc' = [pc EXCEPT ![t] = "erase"]
    /\ UNCHANGED <<poolVars, m_pstateTarget, waiters, stringName, uId>>

EraseSleepAgain(t) ==
    /\ pc[t] = "eraseWait" /\ t \notin waiters
    /\ uId[t] \in Owned => uId[t] \in m_bInUse
    /\ waiters' = waiters \cup {t}
    /\ UNCHANGED <<poolVars, m_pstateTarget, callVars>>

-----------------------------------------------------------------------------

\* A condition variable may wake a thread that nobody notified.
SpuriousWake(t) ==
    /\ t \in waiters
    /\ waiters' = waiters \ {t}
    /\ UNCHANGED <<poolVars, m_pstateTarget, callVars>>

AcquireStep(t) ==
    \/ AcquireTake(t)
    \/ AcquireMiss(t)
    \/ AcquireRetry(t)
    \/ AcquireSleep(t)

EraseStep(t) ==
    \/ EraseAbsent(t)
    \/ EraseRemove(t)
    \/ EraseSleep(t)
    \/ EraseRetry(t)
    \/ EraseSleepAgain(t)

Next ==
    \E t \in Threads :
        \/ \E n \in Names : Add(t, n) \/ AcquireCall(t, n)
        \/ \E i \in StateIds : EraseCall(t, i)
        \/ AcquireStep(t)
        \/ EraseStep(t)
        \/ Release(t)
        \/ SpuriousWake(t)

Spec == Init /\ [][Next]_vars
-----------------------------------------------------------------------------

TypeOK ==
    /\ m_vectorStates \in Seq(StateIds)
    /\ m_stringName \in [StateIds -> Names \cup {NoName}]
    /\ m_bInUse \subseteq StateIds
    /\ m_uNextStateId \in 1..(MaxId + 1)
    /\ m_pstateTarget \in [Threads -> StateIds \cup {0}]
    /\ waiters \subseteq {t \in Threads : pc[t] \in {"wait", "eraseWait"}}
    /\ pc \in [Threads -> {"out", "scan", "wait", "erase", "eraseWait"}]
    /\ stringName \in [Threads -> Names \cup {NoName}]
    /\ uId \in [Threads -> StateIds \cup {0}]

\* Two threads never run in the same interpreter: "grants exclusive access
\* to the underlying sol::state" (LUAStatePool.h:141-142).
ExclusiveBorrow ==
    \A t, u \in Threads :
        m_pstateTarget[t] = m_pstateTarget[u] /\ m_pstateTarget[t] # 0 => t = u

\* The record behind a borrow token exists: Erase never destroys a borrowed
\* record, so no token dangles.
BorrowIsLive == \A t \in Threads : m_pstateTarget[t] # 0 => m_pstateTarget[t] \in Owned

\* A record is marked in use exactly while some token refers to it: no claim
\* is lost (two borrowers) and none is left behind (a state nobody can have).
FlagIffBorrowed == m_bInUse = {m_pstateTarget[t] : t \in Threads} \ {0}

\* The vector is ordered by id and holds each id once, so that "the first
\* match" and find_if by id both denote one record, whatever was erased.
IdsAscend ==
    /\ \A j, k \in DOMAIN m_vectorStates : j < k => m_vectorStates[j] < m_vectorStates[k]
    /\ \A k \in DOMAIN m_vectorStates : m_vectorStates[k] < m_uNextStateId

\* The inductive strengthening.  FlagIffBorrowed needs its last conjunct: a
\* token that Acquire overwrote would leave its record marked for ever.
PoolInv ==
    /\ TypeOK
    /\ ExclusiveBorrow
    /\ BorrowIsLive
    /\ FlagIffBorrowed
    /\ IdsAscend
    /\ \A t \in Threads : pc[t] \in {"scan", "wait"} => m_pstateTarget[t] = 0

\* The whole class is an exclusive pool of records that enter it once.
Retired == {i \in StateIds : i < m_uNextStateId} \ Owned
Abstract == INSTANCE ExclusivePool WITH
    Clients <- Threads, Resources <- StateIds, None <- 0,
    members <- Owned, retired <- Retired, holds <- m_pstateTarget
ImplementsExclusivePool == Abstract!Spec
=============================================================================
