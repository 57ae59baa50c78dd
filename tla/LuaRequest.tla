----------------------------- MODULE LuaRequest -----------------------------
(***************************************************************************)
(* LuaRequestExecute and LuaSSRExecute (api/API_Scripting.cpp): the worker *)
(* threads of the server run the Lua code of statements and pages in the   *)
(* states of the pool.  The pool is filled once, by LUA_Initialize, before *)
(* the server starts; after that the workers only Acquire and release.     *)
(*                                                                         *)
(* The globals app, doc and request are always bound and cleared together, *)
(* so they are one binding, "request"; the other is "view".  A binding is  *)
(* the worker whose request it serves.  What scripts put into globals of   *)
(* their own is left out.                                                  *)
(*                                                                         *)
(* Bound: MaxScripts caps the scripts of one statement.                    *)
(***************************************************************************)
EXTENDS Integers, FiniteSets, LuaStatePool

CONSTANTS
    Core,               \* the name LUA_Initialize gives the states
    CoreCounts,         \* what "core" may be in the lua configuration
    MaxScripts,         \* bound on the scripts one execution is given
    CallbackResults,    \* what the callback of an execution may answer
    Nobody,             \* a global that is nil
    Gone                \* a global left bound by a request that has ended

ASSUME CoreIsAName == Core \in Names
ASSUME CoreCountsPositive == CoreCounts \subseteq StateIds
ASSUME MaxScriptsNat == MaxScripts \in Nat
ASSUME CallbackAnswers == CallbackResults \subseteq BOOLEAN
ASSUME WorkersAreFinite == IsFiniteSet(Threads)
ASSUME NobodyIsNoWorker == Nobody \notin Threads
ASSUME GoneIsNoWorker == Gone \notin Threads \cup {Nobody}

VARIABLES
    phase,              \* where each worker is in its execution
    ssr,                \* whether it runs LuaSSRExecute
    scripts,            \* the scripts it has left to run
    bound               \* the globals of each state

requestVars == <<phase, ssr, scripts, bound>>
serveVars == <<vars, requestVars>>

Unbound == [request |-> Nobody, view |-> Nobody]

\* LUA_Initialize has added the core states, before any worker runs.
ServeInit ==
    /\ \E count \in CoreCounts :
          /\ m_vectorStates = [k \in 1..count |-> k]
          /\ m_stringName = [i \in StateIds |-> IF i <= count THEN Core ELSE NoName]
          /\ m_uNextStateId = count + 1
    /\ m_bInUse = {}
    /\ m_pstateTarget = [t \in Threads |-> 0]
    /\ waiters = {}
    /\ pc = [t \in Threads |-> "out"]
    /\ stringName = [t \in Threads |-> NoName]
    /\ uId = [t \in Threads |-> 0]
    /\ phase = [t \in Threads |-> "serve"]
    /\ ssr = [t \in Threads |-> FALSE]
    /\ scripts = [t \in Threads |-> 0]
    /\ bound = [i \in StateIds |-> Unbound]

-----------------------------------------------------------------------------

\* A statement with Lua code, or one code block of a page, which is a single
\* script.  With an empty pool the execution fails at once, which changes
\* nothing.
Start(t, page, n) ==
    /\ phase[t] = "serve"
    /\ page => n = 1
    /\ AcquireCall(t, Core)
    /\ phase' = [phase EXCEPT ![t] = "acquire"]
    /\ ssr' = [ssr EXCEPT ![t] = page]
    /\ scripts' = [scripts EXCEPT ![t] = n]
    /\ UNCHANGED bound

Acquired(t) ==
    /\ phase[t] = "acquire"
    /\ AcquireTake(t)
    /\ phase' = [phase EXCEPT ![t] = "bind"]
    /\ UNCHANGED <<ssr, scripts, bound>>

\* The other steps inside Acquire.
Acquiring(t) ==
    /\ phase[t] = "acquire"
    /\ AcquireMiss(t) \/ AcquireRetry(t) \/ AcquireSleep(t)
    /\ UNCHANGED requestVars

Bind(t) ==
    LET i == m_pstateTarget[t] IN
    /\ phase[t] = "bind"
    /\ bound' = [bound EXCEPT ![i] =
                    [request |-> t, view |-> IF ssr[t] THEN t ELSE bound[i].view]]
    /\ phase' = [phase EXCEPT ![t] = "callback"]
    /\ UNCHANGED <<vars, ssr, scripts>>

\* A callback that fails ends the execution on the spot, without the reset.
\* Without a callback the step is the one of a callback that succeeds.
Callback(t) ==
    /\ phase[t] = "callback"
    /\ \E ok \in CallbackResults :
          phase' = [phase EXCEPT ![t] = IF ok THEN "script" ELSE "failed"]
    /\ UNCHANGED <<vars, ssr, scripts, bound>>

\* safe_script either succeeds or throws; an error skips the scripts left.
RunScript(t) ==
    /\ phase[t] = "script"
    /\ scripts[t] > 0
    /\ \E left \in {scripts[t] - 1, 0} : scripts' = [scripts EXCEPT ![t] = left]
    /\ UNCHANGED <<vars, phase, ssr, bound>>

\* Mutation of ResetGlobals: the list passed to reset leaves "view" out.
ResetGlobals_NotView(t) ==
    LET i == m_pstateTarget[t] IN
    /\ phase[t] = "script"
    /\ scripts[t] = 0
    /\ bound' = [bound EXCEPT ![i].request = Nobody]
    /\ phase' = [phase EXCEPT ![t] = "return"]
    /\ UNCHANGED <<vars, ssr, scripts>>

\* borrowLuaState.reset, after the last script or the first error.
\* LuaStatePool::Reset does nothing to a record it does not find.
ResetGlobals(t) ==
    LET i == m_pstateTarget[t] IN
    /\ phase[t] = "script"
    /\ scripts[t] = 0
    /\ bound' = IF i \in Owned
                THEN [bound EXCEPT ![i] =
                        [request |-> Nobody,
                         view |-> IF ssr[t] THEN Nobody ELSE bound[i].view]]
                ELSE bound
    /\ phase' = [phase EXCEPT ![t] = "return"]
    /\ UNCHANGED <<vars, ssr, scripts>>

\* The borrow token is destroyed, and the request's objects with it: what is
\* still bound refers to nothing.
Return(t) ==
    LET i == m_pstateTarget[t] IN
    /\ phase[t] \in {"return", "failed"}
    /\ Release(t)
    /\ phase' = [phase EXCEPT ![t] = "serve"]
    /\ ssr' = [ssr EXCEPT ![t] = FALSE]
    /\ scripts' = [scripts EXCEPT ![t] = 0]
    /\ bound' = [bound EXCEPT ![i] =
                    [g \in {"request", "view"} |->
                        IF bound[i][g] = t THEN Gone ELSE bound[i][g]]]

-----------------------------------------------------------------------------

\* Every step of a worker that has an execution to finish.
Work(t) ==
    \/ Acquired(t)
    \/ Acquiring(t)
    \/ Bind(t)
    \/ Callback(t)
    \/ RunScript(t)
    \/ ResetGlobals(t)
    \/ Return(t)

Woken(t) == SpuriousWake(t) /\ UNCHANGED requestVars

ServeNext ==
    \E t \in Threads :
        \/ \E page \in BOOLEAN, n \in 0..MaxScripts : Start(t, page, n)
        \/ Work(t)
        \/ Woken(t)

\* The operating system runs every worker that can run, and scripts end.
\* Nothing promises a spurious wakeup.
ServeSpec ==
    /\ ServeInit
    /\ [][ServeNext]_serveVars
    /\ \A t \in Threads : WF_serveVars(Work(t))
-----------------------------------------------------------------------------

\* A script that runs sees the objects of its own request and of no other
\* one: nobody rebinds or clears the globals of its state meanwhile.
ScriptSeesOwnRequest ==
    \A t \in Threads : phase[t] = "script" =>
        /\ bound[m_pstateTarget[t]].request = t
        /\ ssr[t] => bound[m_pstateTarget[t]].view = t

\* A state keeps the objects of a request that has ended only when the
\* request's callback failed: scripts, also those that throw, and whatever the
\* other workers do meanwhile, leave nothing behind (borrow.reset at the ends
\* of LuaRequestExecute and LuaSSRExecute).
OnlyFailedCallbacksSpoil ==
    [][\A i \in StateIds : \A g \in {"request", "view"} :
          bound[i][g] # Gone /\ bound'[i][g] = Gone =>
              \E t \in Threads : m_pstateTarget[t] = i /\ phase[t] = "failed"]_serveVars

\* "If all matching states are busy ... the call blocks until one becomes
\* available" (LUAStatePool.cpp:72-73): nobody sleeps in Acquire for good
\* beside an idle state of the name it asks for.  release notifies nobody.
SleepersAreWoken ==
    \A t \in Threads : []<>~(t \in waiters /\ IdleAt(stringName[t]) # {})

\* The pool has a state for every worker.
Enough == Len(m_vectorStates) >= Cardinality(Threads)

\* With a state for every worker an execution always gets one, and returns,
\* whether its callback fails, its scripts throw or neither.
EveryExecutionReturns ==
    \A t \in Threads : (Enough /\ phase[t] # "serve") ~> phase[t] = "serve"

\* With a state for every worker nobody ever sleeps in the pool, so that the
\* wakeups that release does not send are not missed.
NobodySleeps == Enough => waiters = {}
=============================================================================
