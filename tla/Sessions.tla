------------------------------ MODULE Sessions ------------------------------
(***************************************************************************)
(* CSessions, the session table of a document (target/server/http/Session. *)
(* {h,cpp}): a fixed number of rows, each free or holding the uuid of a    *)
(* connected user and the time it was last active.  A row is free when its *)
(* time is null.                                                           *)
(*                                                                         *)
(* Sessions are added under m_mutexTable, and deleted and purged without   *)
(* it.  Update takes no lock either, but its comment asks the caller for   *)
(* one, and it runs here in a caller that holds it.                        *)
(* A step is one access to one row.  The null bits of a row are one word:  *)
(* clearing the row stores the word, setting a cell reads, modifies and    *)
(* writes it.                                                              *)
(*                                                                         *)
(* Bound: MaxTime caps the clock.                                          *)
(***************************************************************************)
EXTENDS Integers

CONSTANTS
    Threads,        \* the threads that work on the table
    Uuids,          \* the session ids
    Null,           \* the value of a cell whose null bit is set
    Nobody,         \* the owner of a free mutex
    MaxCount,       \* rows of the table, the argument of Initialize
    MaxTime         \* bound on the clock

ASSUME NullIsNoUuid == Null \notin Uuids \cup Nat
ASSUME NobodyIsNoThread == Nobody \notin Threads
ASSUME MaxCountPositive == MaxCount \in Nat \ {0}
ASSUME MaxTimePositive == MaxTime \in Nat \ {0}

VARIABLES
    id,             \* column id of each row
    time,           \* column time of each row
    m_mutexTable,   \* the thread that holds the mutex
    now,            \* the clock GetTime_s reads
    pc,             \* what each thread does next
    uRow,           \* the row it has reached
    uuid,           \* the uuid it adds or deletes
    uTime           \* the time it stores, or its purge threshold

table == <<id, time>>
locals == <<uRow, uuid, uTime>>
vars == <<table, m_mutexTable, now, pc, locals>>

Rows == 0..(MaxCount - 1)
Times == 1..MaxTime

Initialize ==
    /\ id = [r \in Rows |-> Null]
    /\ time = [r \in Rows |-> Null]
    /\ m_mutexTable = Nobody
    /\ now = 1
    /\ pc = [t \in Threads |-> "out"]
    /\ uRow = [t \in Threads |-> 0]
    /\ uuid = [t \in Threads |-> Null]
    /\ uTime = [t \in Threads |-> 0]

-----------------------------------------------------------------------------

Lock(t) == m_mutexTable = Nobody /\ m_mutexTable' = t

Goto(t, label) == pc' = [pc EXCEPT ![t] = label]

Reach(t, r) == uRow' = [uRow EXCEPT ![t] = r]

\* The call returns and its locals are gone.
Leave(t) ==
    /\ Goto(t, "out")
    /\ Reach(t, 0)
    /\ uuid' = [uuid EXCEPT ![t] = Null]
    /\ uTime' = [uTime EXCEPT ![t] = 0]

\* Mutation of ClearRow: the id column survives.
ClearRow_TimeOnly(r) ==
    /\ time' = [time EXCEPT ![r] = Null]
    /\ UNCHANGED id

\* Clear: both cells become null in one store.  The store is lost when a
\* thread that sets a cell of the row has read the null bits before it.
ClearRow(r) ==
    \/ /\ id' = [id EXCEPT ![r] = Null]
       /\ time' = [time EXCEPT ![r] = Null]
    \/ /\ \E t \in Threads : pc[t] \in {"setId", "setTime"} /\ uRow[t] = r
       /\ UNCHANGED table

-----------------------------------------------------------------------------
(* The overloads of Add look for a free row from the first, AddLast looks  *)
(* from the last.                                                          *)

\* Mutation of AddLock: the lock is not waited for.
AddLock_NoLock(t, u, last) ==
    /\ pc[t] = "out"
    /\ m_mutexTable' = t
    /\ Goto(t, IF last THEN "lookLast" ELSE "look")
    /\ Reach(t, IF last THEN MaxCount - 1 ELSE 0)
    /\ uuid' = [uuid EXCEPT ![t] = u]
    /\ UNCHANGED <<table, now, uTime>>

AddLock(t, u, last) ==
    /\ pc[t] = "out"
    /\ Lock(t)
    /\ Goto(t, IF last THEN "lookLast" ELSE "look")
    /\ Reach(t, IF last THEN MaxCount - 1 ELSE 0)
    /\ uuid' = [uuid EXCEPT ![t] = u]
    /\ UNCHANGED <<table, now, uTime>>

AddNext(t) ==
    /\ pc[t] \in {"look", "lookLast"}
    /\ uRow[t] \in Rows /\ time[uRow[t]] # Null
    /\ Reach(t, IF pc[t] = "look" THEN uRow[t] + 1 ELSE uRow[t] - 1)
    /\ UNCHANGED <<table, m_mutexTable, now, pc, uuid, uTime>>

\* No free row was found.
AddRefuse(t) ==
    /\ pc[t] \in {"look", "lookLast"}
    /\ uRow[t] \notin Rows
    /\ m_mutexTable' = Nobody
    /\ Leave(t)
    /\ UNCHANGED <<table, now>>

AddClaim(t) ==
    /\ pc[t] \in {"look", "lookLast"}
    /\ uRow[t] \in Rows /\ time[uRow[t]] = Null
    /\ Goto(t, "setId")
    /\ uTime' = [uTime EXCEPT ![t] = now]
    /\ UNCHANGED <<table, m_mutexTable, now, uRow, uuid>>

AddSetId(t) ==
    /\ pc[t] = "setId"
    /\ id' = [id EXCEPT ![uRow[t]] = uuid[t]]
    /\ Goto(t, "setTime")
    /\ UNCHANGED <<time, m_mutexTable, now, locals>>

\* The last write of Add, and the only one of Update.
SetTime(t) ==
    /\ pc[t] = "setTime"
    /\ time' = [time EXCEPT ![uRow[t]] = uTime[t]]
    /\ m_mutexTable' = Nobody
    /\ Leave(t)
    /\ UNCHANGED <<id, now>>

-----------------------------------------------------------------------------
(* Delete, by uuid and by row, takes no lock.                              *)

DeleteCall(t, u) ==
    /\ pc[t] = "out"
    /\ Goto(t, "find")
    /\ uuid' = [uuid EXCEPT ![t] = u]
    /\ UNCHANGED <<table, m_mutexTable, now, uRow, uTime>>

\* Find passes the rows that do not hold the uuid.
FindNext(t) ==
    /\ pc[t] = "find"
    /\ uRow[t] \in Rows /\ id[uRow[t]] # uuid[t]
    /\ Reach(t, uRow[t] + 1)
    /\ UNCHANGED <<table, m_mutexTable, now, pc, uuid, uTime>>

FindAbsent(t) ==
    /\ pc[t] = "find"
    /\ uRow[t] \notin Rows
    /\ Leave(t)
    /\ UNCHANGED <<table, m_mutexTable, now>>

FindHit(t) ==
    /\ pc[t] = "find"
    /\ uRow[t] \in Rows /\ id[uRow[t]] = uuid[t]
    /\ Goto(t, "clear")
    /\ UNCHANGED <<table, m_mutexTable, now, locals>>

DeleteClear(t) ==
    /\ pc[t] = "clear"
    /\ ClearRow(uRow[t])
    /\ Leave(t)
    /\ UNCHANGED <<m_mutexTable, now>>

\* A row past the end is refused, which changes nothing.
DeleteAt(t, r) ==
    /\ pc[t] = "out"
    /\ ClearRow(r)
    /\ UNCHANGED <<m_mutexTable, now, pc, locals>>

-----------------------------------------------------------------------------
(* Update writes the time of any row, be it in use or free.  Purge frees   *)
(* the rows whose time is before a threshold, and takes no lock.           *)

UpdateLock(t, r) ==
    /\ pc[t] = "out"
    /\ Lock(t)
    /\ Goto(t, "setTime")
    /\ Reach(t, r)
    /\ uTime' = [uTime EXCEPT ![t] = now]
    /\ UNCHANGED <<table, now, uuid>>

PurgeCall(t, limit) ==
    /\ pc[t] = "out"
    /\ limit <= now
    /\ Goto(t, "purge")
    /\ uTime' = [uTime EXCEPT ![t] = now - limit]
    /\ UNCHANGED <<table, m_mutexTable, now, uRow, uuid>>

Expired(r, threshold) == time[r] # Null /\ time[r] < threshold

PurgeNext(t) ==
    /\ pc[t] = "purge"
    /\ uRow[t] \in Rows /\ ~Expired(uRow[t], uTime[t])
    /\ Reach(t, uRow[t] + 1)
    /\ UNCHANGED <<table, m_mutexTable, now, pc, uuid, uTime>>

\* A row cleared between the look at its null bit and the read of its time
\* is read as it was before, so that the two are one step.
PurgeHit(t) ==
    /\ pc[t] = "purge"
    /\ uRow[t] \in Rows /\ Expired(uRow[t], uTime[t])
    /\ Goto(t, "purgeClear")
    /\ UNCHANGED <<table, m_mutexTable, now, locals>>

PurgeClear(t) ==
    /\ pc[t] = "purgeClear"
    /\ ClearRow(uRow[t])
    /\ Goto(t, "purge")
    /\ Reach(t, uRow[t] + 1)
    /\ UNCHANGED <<m_mutexTable, now, uuid, uTime>>

PurgeEnd(t) ==
    /\ pc[t] = "purge"
    /\ uRow[t] \notin Rows
    /\ Leave(t)
    /\ UNCHANGED <<table, m_mutexTable, now>>

-----------------------------------------------------------------------------

Tick ==
    /\ now < MaxTime
    /\ now' = now + 1
    /\ UNCHANGED <<table, m_mutexTable, pc, locals>>

Next ==
    \/ Tick
    \/ \E t \in Threads :
        \/ \E u \in Uuids : DeleteCall(t, u) \/ \E last \in BOOLEAN : AddLock(t, u, last)
        \/ AddNext(t) \/ AddRefuse(t) \/ AddClaim(t) \/ AddSetId(t) \/ SetTime(t)
        \/ FindNext(t) \/ FindAbsent(t) \/ FindHit(t) \/ DeleteClear(t)
        \/ \E r \in Rows : DeleteAt(t, r) \/ UpdateLock(t, r)
        \/ \E limit \in 0..MaxTime : PurgeCall(t, limit)
        \/ PurgeNext(t) \/ PurgeHit(t) \/ PurgeClear(t) \/ PurgeEnd(t)

Spec == Initialize /\ [][Next]_vars
-----------------------------------------------------------------------------

\* "If the time value is 0 or null it means that session is not active, the
\* row is free to use" (Session.h:33): a row that is in use is never handed
\* to a second session, whatever is deleted and purged meanwhile.
NoOverwrite ==
    [][\A r \in Rows :
        id[r] # Null /\ time[r] # Null => id'[r] \in {id[r], Null}]_vars

\* A free row that still answers to a uuid would let Find and Delete reach a
\* session that has ended.  Only the row an Add is writing is in that state,
\* with the uuid of that Add, whatever clears the row meanwhile.  A time
\* without a uuid is another matter: a clear between the two writes of an Add
\* leaves one, and an Update of a free row.
OnlyAddsAreHalf ==
    \A r \in Rows : id[r] # Null /\ time[r] = Null =>
        \E t \in Threads : pc[t] = "setTime" /\ uRow[t] = r /\ uuid[t] = id[r]

\* "Delete session if found for uuid" (Session.cpp:158), and "if time is before
\* expire time remove session" (Session.h:104): the session that a Delete or a
\* Purge clears is the one for which it chose the row, and not one that was
\* added or refreshed there since.  Neither holds the mutex between the look at
\* the row and the clear.
ClearsWhatItFound ==
    [][\A t \in Threads :
        LET r == uRow[t] IN
        /\ pc[t] = "clear" /\ pc'[t] = "out" => id[r] \in {uuid[t], Null}
        /\ pc[t] = "purgeClear" /\ pc'[t] = "purge" /\ id[r] # Null =>
              time[r] = Null \/ time[r] < uTime[t]]_vars
=============================================================================
