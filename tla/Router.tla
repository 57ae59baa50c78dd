------------------------------- MODULE Router -------------------------------
(***************************************************************************)
(* CRouter and the API handlers it dispatches to (target/server/http/      *)
(* Router.cpp, api/API{System,Database,Sql,View}.cpp, dto/DTOResponse.cpp):*)
(* how one request, "!db/open/query?..." or an XML document of such        *)
(* commands, is run segment by segment and answered.                       *)
(*                                                                         *)
(* What a command does is a choice of its outcome.  The groups of "sys"    *)
(* differ in their commands only, so "session" stands for "file", "client" *)
(* and "application" too, and "sql" for "view".  A document of commands is *)
(* the body of the request "!xml".  Segments are numbered from 1.          *)
(*                                                                         *)
(* Bound: MaxSegments caps the segments of all the commands of a request.  *)
(***************************************************************************)
EXTENDS Naturals, Sequences

CONSTANT MaxSegments
ASSUME MaxSegmentsNat == MaxSegments \in Nat

VARIABLES
    path,           \* vectorPath of the command that runs
    xml,            \* whether the request is a document of commands
    budget,         \* segments that further commands of it may have
    uCommandIndex,  \* the router's position in path
    m_uCommandIndex,\* the position the handler reports
    uIndex,         \* the position of the handler's loop
    result_,        \* whether the last call succeeded
    pc,             \* what runs next
    inner,          \* the commands of the sys group that runs
    aborted,        \* eFlagStatusAbort of the context
    executed,       \* the commands that have run, in order
    m_objects,      \* the context's objects: the command, and if it is held
    m_tableBody,    \* the response: the command of each row's object, or 0
    reply           \* what RouteCommand answers

pathVars == <<path, xml, budget>>
loopVars == <<uCommandIndex, m_uCommandIndex, uIndex>>
resultVars == <<executed, m_objects, m_tableBody>>
vars == <<pathVars, loopVars, result_, pc, inner, aborted, resultVars, reply>>

\* The segments that are told apart; "" comes from "//" in the path.
Segments == {"db", "sys", "sql", "session", "meta", "query", "add", ""}

Paths(n) == UNION {[1..k -> Segments] : k \in 1..n}

\* The segment a handler's loop is at, "end" past the last one.
Segment == IF uIndex \in DOMAIN path THEN path[uIndex] ELSE "end"

Init ==
    /\ path \in Paths(MaxSegments)
    /\ xml \in BOOLEAN
    /\ budget = IF xml THEN MaxSegments - Len(path) ELSE 0
    /\ uCommandIndex = 1
    /\ m_uCommandIndex = 1
    /\ uIndex = 1
    /\ result_ = TRUE
    /\ pc = "prepare"
    /\ inner = {}
    /\ aborted = FALSE
    /\ executed = <<>>
    /\ m_objects = <<>>
    /\ m_tableBody = <<>>
    /\ reply = "none"

-----------------------------------------------------------------------------
(* Run(vectorPath): the dispatch of one command.                           *)

\* Prepare and the parsing of the path may fail; nothing has run then.
Prepare ==
    /\ pc = "prepare"
    /\ \/ pc' = "route" /\ UNCHANGED reply
       \/ pc' = "answered" /\ reply' = "bad_request"
    /\ UNCHANGED <<pathVars, loopVars, result_, inner, aborted, resultVars>>

\* A handler is made for the segment.  Those of sql and view start from the
\* first segment, whatever the position.
Dispatch ==
    /\ pc = "route"
    /\ uCommandIndex <= Len(path)
    /\ path[uCommandIndex] \in {"db", "sys", "sql"}
    /\ pc' = path[uCommandIndex]
    /\ m_uCommandIndex' = uCommandIndex
    /\ uIndex' = IF path[uCommandIndex] = "sql" THEN 1 ELSE uCommandIndex
    /\ result_' = TRUE
    /\ UNCHANGED <<pathVars, uCommandIndex, inner, aborted, resultVars, reply>>

\* Run(vectorPath) returns: at the end of the path, or "Unknown command".
RunReturn ==
    /\ pc = "route"
    /\ \/ uCommandIndex > Len(path) /\ UNCHANGED result_
       \/ /\ uCommandIndex <= Len(path)
          /\ path[uCommandIndex] \notin {"db", "sys", "sql"}
          /\ result_' = FALSE
    /\ pc' = "ran"
    /\ UNCHANGED <<pathVars, loopVars, inner, aborted, resultVars, reply>>

\* Mutation of Transferred: the context keeps the pointers it hands over.
Transferred_NoRelease(objects) == objects

\* The pointers of the context's objects; 0 is one that has been released.
Pointers(objects) ==
    [k \in DOMAIN objects |-> IF objects[k].held THEN objects[k].by ELSE 0]

\* Every pointer of the context has been released.
Transferred(objects) == [k \in DOMAIN objects |-> [objects[k] EXCEPT !.held = FALSE]]

\* Mutation of AddTransfer: the response is filled anew, not appended to.
AddTransfer_Overwrites ==
    /\ m_tableBody' = Pointers(m_objects)
    /\ m_objects' = Transferred(m_objects)

\* The response gets a row for every object of the context.  One it took
\* over before gets another row, with a null pointer, that prints nothing.
AddTransfer ==
    /\ m_tableBody' = m_tableBody \o Pointers(m_objects)
    /\ m_objects' = Transferred(m_objects)

\* Mutation of HandlerReturn: a failing handler does not end the chain.
HandlerReturn_GoesOn ==
    /\ pc = "return"
    /\ IF result_ THEN AddTransfer ELSE UNCHANGED <<m_objects, m_tableBody>>
    /\ uCommandIndex' = m_uCommandIndex + 1
    /\ pc' = "route"
    /\ UNCHANGED <<pathVars, m_uCommandIndex, uIndex, result_, inner, aborted, executed, reply>>

\* Mutation of HandlerReturn: a handler that reports the position it was
\* given is run again, before its objects are transferred.
HandlerReturn_NotMoved ==
    /\ pc = "return"
    /\ IF result_ /\ m_uCommandIndex # uCommandIndex
       THEN AddTransfer /\ uCommandIndex' = m_uCommandIndex + 1
       ELSE UNCHANGED <<uCommandIndex, m_objects, m_tableBody>>
    /\ pc' = IF result_ THEN "route" ELSE "ran"
    /\ UNCHANGED <<pathVars, m_uCommandIndex, uIndex, result_, inner, aborted, executed, reply>>

\* The handler has returned.
HandlerReturn ==
    /\ pc = "return"
    /\ IF result_ THEN AddTransfer ELSE UNCHANGED <<m_objects, m_tableBody>>
    /\ uCommandIndex' = m_uCommandIndex + 1
    /\ pc' = IF result_ THEN "route" ELSE "ran"
    /\ UNCHANGED <<pathVars, m_uCommandIndex, uIndex, result_, inner, aborted, executed, reply>>

-----------------------------------------------------------------------------

\* A command runs: it fails, or it succeeds and may leave an object.
Execute(handler) ==
    \E ok \in BOOLEAN, made \in BOOLEAN :
        /\ made => ok
        /\ result_' = ok
        /\ executed' = Append(executed, [handler |-> handler, ok |-> ok, made |-> made])
        /\ m_objects' = IF made THEN Append(m_objects, [by |-> Len(executed'), held |-> TRUE])
                                ELSE m_objects
        /\ UNCHANGED m_tableBody

Return(ok) == pc' = "return" /\ result_' = ok

-----------------------------------------------------------------------------
(* CAPIDatabase::Execute                                                   *)

\* The document has no database: other requests open and replace it.
DbNoDatabase ==
    /\ pc = "db" /\ uIndex = uCommandIndex
    /\ Return(FALSE)
    /\ UNCHANGED <<pathVars, loopVars, inner, aborted, resultVars, reply>>

DbSkip ==
    /\ pc = "db"
    /\ Segment = "db"
    /\ m_uCommandIndex' = uIndex
    /\ uIndex' = uIndex + 1
    /\ UNCHANGED <<pathVars, uCommandIndex, result_, pc, inner, aborted, resultVars, reply>>

\* The Lua code of a statement may set the abort flag; it is looked at after
\* every command, and ends the handler with success.
DbExecute ==
    /\ pc = "db"
    /\ Segment = "query"
    /\ Execute("db")
    /\ \/ UNCHANGED aborted
       \/ aborted' = TRUE
    /\ m_uCommandIndex' = uIndex
    /\ IF ~result_' \/ aborted'
       THEN pc' = "return" /\ UNCHANGED uIndex
       ELSE uIndex' = uIndex + 1 /\ UNCHANGED pc
    /\ UNCHANGED <<pathVars, uCommandIndex, inner, reply>>

DbUnknown ==
    /\ pc = "db"
    /\ Segment \notin {"db", "query", "end"}
    /\ m_uCommandIndex' = uIndex
    /\ Return(FALSE)
    /\ UNCHANGED <<pathVars, uCommandIndex, uIndex, inner, aborted, resultVars, reply>>

DbEnd ==
    /\ pc = "db"
    /\ Segment = "end"
    /\ m_uCommandIndex' = uIndex
    /\ Return(TRUE)
    /\ UNCHANGED <<pathVars, uCommandIndex, uIndex, inner, aborted, resultVars, reply>>

-----------------------------------------------------------------------------
(* CAPISql::Execute, and CAPIView::Execute                                 *)

SqlSkip ==
    /\ pc = "sql"
    /\ Segment = "sql"
    /\ m_uCommandIndex' = uIndex
    /\ uIndex' = uIndex + 1
    /\ UNCHANGED <<pathVars, uCommandIndex, result_, pc, inner, aborted, resultVars, reply>>

SqlExecute ==
    /\ pc = "sql"
    /\ Segment = "add"
    /\ Execute("sql")
    /\ m_uCommandIndex' = uIndex
    /\ IF result_' THEN uIndex' = uIndex + 1 /\ UNCHANGED pc
                   ELSE pc' = "return" /\ UNCHANGED uIndex
    /\ UNCHANGED <<pathVars, uCommandIndex, inner, aborted, reply>>

SqlUnknown ==
    /\ pc = "sql"
    /\ Segment \notin {"sql", "add", "end"}
    /\ m_uCommandIndex' = uIndex
    /\ Return(FALSE)
    /\ UNCHANGED <<pathVars, uCommandIndex, uIndex, inner, aborted, resultVars, reply>>

SqlEnd ==
    /\ pc = "sql"
    /\ Segment = "end"
    /\ Return(TRUE)
    /\ UNCHANGED <<pathVars, loopVars, inner, aborted, resultVars, reply>>

-----------------------------------------------------------------------------
(* CAPISystem::Execute: an outer loop over the groups and an inner one over*)
(* the commands of a group.  The inner loops test result_ in their         *)
(* increment, where it stops nothing.                                      *)

SysSkip ==
    /\ pc = "sys"
    /\ Segment = "sys"
    /\ uIndex' = uIndex + 1
    /\ UNCHANGED <<pathVars, uCommandIndex, m_uCommandIndex, result_, pc, inner, aborted,
                   resultVars, reply>>

SysGroup ==
    /\ pc = "sys"
    /\ Segment = "session"
    /\ uIndex' = uIndex + 1
    /\ inner' = {"add"}
    /\ pc' = "inner"
    /\ UNCHANGED <<pathVars, uCommandIndex, m_uCommandIndex, result_, aborted, resultVars, reply>>

\* "meta" has groups of its own; one it does not know runs nothing, and the
\* loop goes on after it.
SysMeta ==
    /\ pc = "sys"
    /\ Segment = "meta" /\ uIndex < Len(path)
    /\ \/ path[uIndex + 1] \in {"query", "sql"} /\ uIndex' = uIndex + 2 /\ inner' = {"add"}
       \/ path[uIndex + 1] = "db" /\ uIndex' = uIndex + 2 /\ inner' = {}
       \/ path[uIndex + 1] \notin {"query", "sql", "db"} /\ uIndex' = uIndex + 1 /\ inner' = {}
    /\ pc' = "inner"
    /\ UNCHANGED <<pathVars, uCommandIndex, m_uCommandIndex, result_, aborted, resultVars, reply>>

SysUnknown ==
    /\ pc = "sys"
    /\ Segment \notin {"sys", "session", "meta", "end"}
    /\ Return(FALSE)
    /\ UNCHANGED <<pathVars, loopVars, inner, aborted, resultVars, reply>>

\* "Missing session command"
SysMetaAlone ==
    /\ pc = "sys"
    /\ Segment = "meta" /\ uIndex = Len(path)
    /\ Return(FALSE)
    /\ UNCHANGED <<pathVars, loopVars, inner, aborted, resultVars, reply>>

InnerExecute ==
    /\ pc = "inner"
    /\ Segment \in inner
    /\ Execute("sys")
    /\ uIndex' = uIndex + 1
    /\ UNCHANGED <<pathVars, uCommandIndex, m_uCommandIndex, pc, inner, aborted, reply>>

\* Mutation of InnerEnd: the position is set after the loop's increment.
InnerEnd_AfterIncrement ==
    /\ pc = "inner"
    /\ Segment \notin inner
    /\ m_uCommandIndex' = uIndex + 1
    /\ inner' = {}
    /\ IF result_ /\ Segment # ""
       THEN uIndex' = uIndex + 1 /\ pc' = "sys"
       ELSE pc' = "return" /\ UNCHANGED uIndex
    /\ UNCHANGED <<pathVars, uCommandIndex, result_, aborted, resultVars, reply>>

\* The inner loop ends at the end of the path or at a segment that is none
\* of its commands.  An empty one goes back to the router; the outer loop
\* skips any other.
InnerEnd ==
    /\ pc = "inner"
    /\ Segment \notin inner
    /\ m_uCommandIndex' = uIndex
    /\ inner' = {}
    /\ IF result_ /\ Segment # ""
       THEN uIndex' = uIndex + 1 /\ pc' = "sys"
       ELSE pc' = "return" /\ UNCHANGED uIndex
    /\ UNCHANGED <<pathVars, uCommandIndex, result_, aborted, resultVars, reply>>

SysEnd ==
    /\ pc = "sys"
    /\ Segment = "end"
    /\ Return(TRUE)
    /\ UNCHANGED <<pathVars, loopVars, inner, aborted, resultVars, reply>>

-----------------------------------------------------------------------------

\* RunXml goes on to the next command of the document; one that has no
\* path ends it.
NextCommand ==
    /\ pc = "ran"
    /\ xml /\ result_
    /\ \/ /\ path' \in Paths(budget)
          /\ budget' = budget - Len(path')
          /\ uCommandIndex' = 1
          /\ pc' = "route"
          /\ UNCHANGED result_
       \/ /\ result_' = FALSE
          /\ UNCHANGED <<path, budget, uCommandIndex, pc>>
    /\ UNCHANGED <<xml, m_uCommandIndex, uIndex, inner, aborted, resultVars, reply>>

\* Run(stringQueryString) and RouteCommand: the result of the commands is
\* assigned and not returned.
Answer ==
    /\ pc = "ran"
    /\ pc' = "answered"
    /\ reply' = "ok"
    /\ UNCHANGED <<pathVars, loopVars, result_, inner, aborted, resultVars>>

Next ==
    \/ Prepare \/ Dispatch \/ RunReturn \/ HandlerReturn \/ NextCommand \/ Answer
    \/ DbNoDatabase \/ DbSkip \/ DbExecute \/ DbUnknown \/ DbEnd
    \/ SqlSkip \/ SqlExecute \/ SqlUnknown \/ SqlEnd
    \/ SysSkip \/ SysGroup \/ SysMeta \/ SysUnknown \/ SysMetaAlone \/ SysEnd
    \/ InnerExecute \/ InnerEnd

\* A request runs in its worker until it is answered; commands return.
Spec == Init /\ [][Next]_vars /\ WF_vars(Next)
-----------------------------------------------------------------------------

TypeOK ==
    /\ path \in Seq(Segments) /\ Len(path) \in 1..MaxSegments
    /\ xml \in BOOLEAN /\ budget \in 0..MaxSegments
    /\ uCommandIndex \in 1..(Len(path) + 2)
    /\ m_uCommandIndex \in 1..(MaxSegments + 1)
    /\ uIndex \in 1..(MaxSegments + 2)
    /\ result_ \in BOOLEAN /\ aborted \in BOOLEAN
    /\ pc \in {"prepare", "route", "db", "sys", "sql", "inner", "return", "ran", "answered"}
    /\ inner \subseteq Segments
    /\ executed \in Seq([handler : {"db", "sys", "sql"}, ok : BOOLEAN, made : BOOLEAN])
    /\ m_objects \in Seq([by : DOMAIN executed, held : BOOLEAN])
    /\ m_tableBody \in Seq({0} \cup DOMAIN executed)
    /\ reply \in {"none", "ok", "bad_request"}

\* An object has one owner, the context or one row of the response, though
\* each handler that succeeds transfers the whole context again: ~CRouter
\* and the response delete what they own.
OneOwner ==
    /\ \A j, k \in DOMAIN m_tableBody :
          j # k => m_tableBody[j] = 0 \/ m_tableBody[j] # m_tableBody[k]
    /\ \A j \in DOMAIN m_tableBody, k \in DOMAIN m_objects :
          m_objects[k].held => m_objects[k].by # m_tableBody[j]

\* When every command of the request has been run to its end, the answer
\* holds what each of them has made.
NothingMadeIsLost ==
    reply = "ok" /\ result_ =>
        \A k \in DOMAIN executed :
            executed[k].made => \E j \in DOMAIN m_tableBody : m_tableBody[j] = k

\* A database command that fails is the last one that runs: neither the rest
\* of its chain nor a later command of the document is executed on top of it.
FailedDbCommandIsLast ==
    \A k \in DOMAIN executed :
        executed[k].handler = "db" /\ ~executed[k].ok => k = Len(executed)

\* Every request is answered: no mix of handlers that report positions of
\* their own makes the router stay at one segment.
EveryRequestAnswered == <>(pc = "answered")
=============================================================================
