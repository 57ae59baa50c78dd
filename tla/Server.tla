------------------------------- MODULE Server -------------------------------
(***************************************************************************)
(* The HTTP server: the listener, its connections ("session" in Server.cpp,*)
(* not to be confused with CSessions) and CApplication::SERVER_Start, whose*)
(* threads run the handlers of one boost::asio::io_context.                *)
(*                                                                         *)
(* An operation is started by a handler, is pending until the system       *)
(* completes it, and is then a ready handler, in the order of completion,  *)
(* that any thread may run.  A handler runs to its end; its steps are the  *)
(* calls that other threads can tell apart.  What handle_request answers   *)
(* is left out, but for a request that stops the server.                   *)
(*                                                                         *)
(* Bound: Sessions caps the connections that exist at the same time.       *)
(***************************************************************************)
EXTENDS Naturals, Sequences, FiniteSets

CONSTANTS
    Threads,        \* the threads that call iocontext_.run(), the main one included
    Sessions,       \* the connections
    Listener        \* the listener

ASSUME ListenerIsNoSession == Listener \notin Sessions
ASSUME HasThread == Threads # {}

VARIABLES
    main,           \* where SERVER_Start is
    result_,        \* the success flag it has returned
    m_pserverBoost, \* whether the CServer object exists
    reported,       \* the failures fail_g has printed
    m_acceptor,     \* "none", "unbound", "listening" or "closed"
    pending,        \* operations that have been started
    ready,          \* handlers that can run, in order of completion
    stopped,        \* iocontext_ has been stopped
    job,            \* the step each thread is at
    shut            \* the connections that were shut down

startVars == <<main, result_, m_pserverBoost>>
listenVars == <<reported, m_acceptor>>
contextVars == <<pending, ready, stopped>>
vars == <<startVars, listenVars, contextVars, job, shut>>

Handler(op, who, ec) == [op |-> op, who |-> who, ec |-> ec]
Operation(op, who) == [op |-> op, who |-> who]

\* A thread that waits in run() for a handler, and one that is not in run().
Idle == Handler("idle", Listener, "ok")
Out == Handler("out", Listener, "ok")

\* The operations and handlers that keep the object x alive.
Holds(x) ==
    {p \in pending : p.who = x}
        \cup {k \in DOMAIN ready : ready[k].who = x}
        \cup {t \in Threads : job[t].who = x /\ job[t] \notin {Idle, Out}}

Free == {s \in Sessions : Holds(s) = {}}

Init ==
    /\ main = "start"
    /\ result_ = FALSE
    /\ m_pserverBoost = TRUE
    /\ reported = {}
    /\ m_acceptor = "none"
    /\ pending = {}
    /\ ready = <<>>
    /\ stopped = FALSE
    /\ job = [t \in Threads |-> Out]
    /\ shut = {}

-----------------------------------------------------------------------------
(* Starting operations.                                                    *)

Start(op, who) == pending' = pending \cup {Operation(op, who)} /\ UNCHANGED ready

\* An accept on an acceptor that does not listen fails at once.
do_accept(acceptor) ==
    IF acceptor = "listening"
    THEN Start("accept", Listener)
    ELSE ready' = Append(ready, Handler("accept", Listener, "error")) /\ UNCHANGED pending

Goto(t, step) == job' = [job EXCEPT ![t].op = step]

\* The handler that t runs returns.
Done(t) == job' = [job EXCEPT ![t] = Idle]

do_close(s) == shut' = shut \cup {s}

-----------------------------------------------------------------------------
(* SERVER_Start.                                                           *)

\* The listener is made and run, then every thread enters iocontext_.run().
\* Its constructor prints a failure and returns all the same.
Listen ==
    /\ main = "start"
    /\ \E bound \in BOOLEAN :
          /\ m_acceptor' = IF bound THEN "listening" ELSE "unbound"
          /\ reported' = IF bound THEN {} ELSE {"listen"}
    /\ do_accept(m_acceptor')
    /\ main' = "run"
    /\ job' = [t \in Threads |-> Idle]
    /\ UNCHANGED <<result_, m_pserverBoost, stopped, shut>>

OutOfWork ==
    /\ pending = {}
    /\ ready = <<>>
    /\ \A t \in Threads : job[t] \in {Idle, Out}

\* run() returns when the context was stopped or nothing is left to wait for.
Leave(t) ==
    /\ main = "run"
    /\ job[t] = Idle
    /\ stopped \/ OutOfWork
    /\ job' = [job EXCEPT ![t] = Out]
    /\ UNCHANGED <<startVars, listenVars, contextVars, shut>>

\* Every thread is joined, the listener is stopped, and the server and the
\* context are destroyed with what was waiting in it.
Return ==
    /\ main = "run"
    /\ \A t \in Threads : job[t] = Out
    /\ main' = "returned"
    /\ result_' = TRUE
    /\ m_pserverBoost' = FALSE
    /\ m_acceptor' = "closed"
    /\ pending' = {}
    /\ ready' = <<>>
    /\ UNCHANGED <<reported, stopped, job, shut>>

-----------------------------------------------------------------------------
(* The io_context.                                                         *)

Outcomes(op) ==
    CASE op = "accept" -> {"ok", "error"}
      [] op = "read" -> {"ok", "eof", "error"}
      [] OTHER -> {"ok", "error"}

\* The system completes an operation.  A read or write that takes longer
\* than the 60 seconds set in do_read ends with an error.
Complete(p, ec) ==
    /\ p \in pending
    /\ p.op = "accept" /\ ec = "ok" => Free # {}
    /\ pending' = pending \ {p}
    /\ ready' = Append(ready, Handler(p.op, p.who, ec))
    /\ UNCHANGED <<startVars, listenVars, stopped, job, shut>>

Take(t) ==
    /\ job[t] = Idle
    /\ ~stopped
    /\ ready # <<>>
    /\ job' = [job EXCEPT ![t] = Head(ready)]
    /\ ready' = Tail(ready)
    /\ UNCHANGED <<startVars, listenVars, pending, stopped, shut>>

-----------------------------------------------------------------------------
(* The listener.                                                           *)

\* Neither an abort nor a failure is followed by another accept.
on_accept_failed(t) ==
    /\ job[t].op = "accept" /\ job[t].ec # "ok"
    /\ reported' = IF job[t].ec = "error" THEN reported \cup {"accept"} ELSE reported
    /\ Done(t)
    /\ UNCHANGED <<startVars, m_acceptor, contextVars, shut>>

\* The connection is made, and Run posts its first do_read.
on_accept(t) ==
    /\ job[t].op = "accept" /\ job[t].ec = "ok"
    /\ \E s \in Free :
          /\ ready' = Append(ready, Handler("run", s, "ok"))
          /\ shut' = shut \ {s}
    /\ Goto(t, "accept again")
    /\ UNCHANGED <<startVars, listenVars, pending, stopped>>

\* Mutation of on_accept_again: no other accept is started.
on_accept_again_Once(t) ==
    /\ job[t].op = "accept again"
    /\ Done(t)
    /\ UNCHANGED <<startVars, listenVars, contextVars, shut>>

on_accept_again(t) ==
    /\ job[t].op = "accept again"
    /\ do_accept(m_acceptor)
    /\ Done(t)
    /\ UNCHANGED <<startVars, listenVars, stopped, shut>>

-----------------------------------------------------------------------------
(* A connection.                                                           *)

do_read(t) ==
    /\ job[t].op = "run"
    /\ Start("read", job[t].who)
    /\ Done(t)
    /\ UNCHANGED <<startVars, listenVars, stopped, shut>>

on_read_failed(t) ==
    /\ job[t].op = "read" /\ job[t].ec # "ok"
    /\ do_close(job[t].who)
    /\ Done(t)
    /\ UNCHANGED <<startVars, listenVars, contextVars>>

\* The address that Read adds to m_argument is left out.
on_read(t) ==
    /\ job[t].op = "read" /\ job[t].ec = "ok"
    /\ Goto(t, "handle")
    /\ UNCHANGED <<startVars, listenVars, contextVars, shut>>

\* The request is !sys/application/quit: listener::stop cancels the accept,
\* closes the acceptor and stops the context.
stop_acceptor(t) ==
    /\ job[t].op = "handle"
    /\ m_acceptor' = "closed"
    /\ LET accept == Operation("accept", Listener) IN
       IF accept \in pending
       THEN /\ pending' = pending \ {accept}
            /\ ready' = Append(ready, Handler("accept", Listener, "aborted"))
       ELSE UNCHANGED <<pending, ready>>
    /\ Goto(t, "stop context")
    /\ UNCHANGED <<startVars, reported, stopped, shut>>

\* Mutation of stop_context: the acceptor is closed, the context goes on.
stop_context_GoesOn(t) ==
    /\ job[t].op = "stop context"
    /\ Goto(t, "respond")
    /\ UNCHANGED <<startVars, listenVars, contextVars, shut>>

stop_context(t) ==
    /\ job[t].op = "stop context"
    /\ stopped' = TRUE
    /\ Goto(t, "respond")
    /\ UNCHANGED <<startVars, listenVars, pending, ready, shut>>

\* Mutation of send_response: the next request is read while the answer is
\* being written.
send_response_ReadsOn(t) ==
    /\ job[t].op \in {"handle", "respond"}
    /\ pending' = pending \cup {Operation(op, job[t].who) : op \in {"read", "write"}}
    /\ Done(t)
    /\ UNCHANGED <<startVars, listenVars, ready, stopped, shut>>

\* Mutation of send_response: the answer is never written.
send_response_Forgotten(t) ==
    /\ job[t].op \in {"handle", "respond"}
    /\ Done(t)
    /\ UNCHANGED <<startVars, listenVars, contextVars, shut>>

\* The handler of the write knows whether the connection is kept.
send_response(t) ==
    /\ job[t].op \in {"handle", "respond"}
    /\ \E op \in {"write", "last write"} : Start(op, job[t].who)
    /\ Done(t)
    /\ UNCHANGED <<startVars, listenVars, stopped, shut>>

Closes(h) == h.ec # "ok" \/ h.op = "last write"

\* Mutation of on_write_last: the connection is closed and read from again.
on_write_last_ReadsOn(t) ==
    /\ job[t].op \in {"write", "last write"} /\ Closes(job[t])
    /\ do_close(job[t].who)
    /\ Start("read", job[t].who)
    /\ Done(t)
    /\ UNCHANGED <<startVars, listenVars, stopped>>

on_write_last(t) ==
    /\ job[t].op \in {"write", "last write"} /\ Closes(job[t])
    /\ do_close(job[t].who)
    /\ Done(t)
    /\ UNCHANGED <<startVars, listenVars, contextVars>>

on_write(t) ==
    /\ job[t].op \in {"write", "last write"} /\ ~Closes(job[t])
    /\ Start("read", job[t].who)
    /\ Done(t)
    /\ UNCHANGED <<startVars, listenVars, stopped, shut>>

-----------------------------------------------------------------------------

Run(t) ==
    \/ Take(t)
    \/ on_accept_failed(t) \/ on_accept(t) \/ on_accept_again(t)
    \/ do_read(t) \/ on_read_failed(t) \/ on_read(t)
    \/ stop_acceptor(t) \/ stop_context(t) \/ send_response(t)
    \/ on_write_last(t) \/ on_write(t)
    \/ Leave(t)

Next ==
    \/ Listen
    \/ Return
    \/ \E p \in pending : \E ec \in Outcomes(p.op) : Complete(p, ec)
    \/ \E t \in Threads : Run(t)

\* Every thread runs on, requests are handled in finite time, and a write
\* completes, if only by its timeout.  No client has to connect or to send.
Spec ==
    /\ Init
    /\ [][Next]_vars
    /\ WF_vars(Listen)
    /\ WF_vars(Return)
    /\ \A t \in Threads : WF_vars(Run(t))
    /\ \A s \in Sessions, op \in {"write", "last write"} :
          WF_vars(\E ec \in Outcomes(op) : Complete(Operation(op, s), ec))
-----------------------------------------------------------------------------

\* One operation or handler of a connection exists at a time, and one of the
\* listener: the buffers and the request object of a session are never used
\* by two threads, whatever the threads interleave.
OneOperation == \A x \in Sessions \cup {Listener} : Cardinality(Holds(x)) <= 1

\* A connection that was shut down is neither read from nor written to.
NoTrafficAfterShutdown ==
    \A s \in shut :
        /\ \A p \in pending : p.who # s
        /\ \A k \in DOMAIN ready : ready[k].who # s

\* The context never runs out of work by itself: the server ends because it
\* was told to, or because listening or accepting failed.
EndsOnlyWhenTold == main = "returned" => stopped \/ reported # {}

\* A server that is told to stop ends, though clients keep their connections
\* and go on sending requests.
StopEndsServer == (m_acceptor = "closed") ~> (main = "returned")

\* Every request that is handled is answered: its connection comes back to
\* reading or is shut down, unless the whole server is stopped.
EveryRequestAnswered ==
    \A s \in Sessions :
        (\E t \in Threads : job[t].op = "handle" /\ job[t].who = s)
            ~> (s \in shut \/ Operation("read", s) \in pending \/ stopped)
=============================================================================
