---------------------------- MODULE ServerProofs ----------------------------
(***************************************************************************)
(* Proofs about Server, for any number of threads and connections.         *)
(***************************************************************************)
EXTENDS Server, SequenceTheorems, FiniteSetTheorems, TLAPS

\* The listener has its own operations and handlers, a connection its own.
Operations ==
    [op : {"accept"}, who : {Listener}]
        \cup [op : {"read", "write", "last write"}, who : Sessions]

Handlers ==
    [op : {"accept", "accept again"}, who : {Listener}, ec : {"ok", "error", "aborted"}]
        \cup [op : {"run", "read", "handle", "stop context", "respond", "write",
                    "last write"},
              who : Sessions, ec : {"ok", "eof", "error"}]

TypeOK ==
    /\ main \in {"start", "run", "returned"}
    /\ m_pserverBoost = (main # "returned")
    /\ pending \subseteq Operations
    /\ ready \in Seq(Handlers)
    /\ stopped \in BOOLEAN
    /\ job \in [Threads -> Handlers \cup {Idle, Out}]
    /\ shut \subseteq Sessions

\* The thread t runs a handler.
Busy(t) == job[t] \notin {Idle, Out}

\* Nothing happens before the listener is made and after everything is joined.
QuietOutsideRun ==
    main # "run" => /\ pending = {}
                    /\ ready = <<>>
                    /\ \A t \in Threads : job[t] = Out

\* What OneOperation says, place by place.
Exclusive ==
    /\ \A p, q \in pending : p.who = q.who => p = q
    /\ \A j, k \in DOMAIN ready : ready[j].who = ready[k].who => j = k
    /\ \A t, u \in Threads :
          Busy(t) /\ Busy(u) /\ job[t].who = job[u].who => t = u
    /\ \A p \in pending, k \in DOMAIN ready : p.who # ready[k].who
    /\ \A p \in pending, t \in Threads : Busy(t) => p.who # job[t].who
    /\ \A k \in DOMAIN ready, t \in Threads : Busy(t) => ready[k].who # job[t].who

\* An operation or a handler of the object x exists.
Held(x) ==
    \/ \E p \in pending : p.who = x
    \/ \E k \in DOMAIN ready : ready[k].who = x
    \/ \E t \in Threads : Busy(t) /\ job[t].who = x

\* A connection that was shut down has no handler that runs either.
ShutIsIdle == \A s \in shut : ~Held(s)

\* A thread is about to stop the context.
Stopping == \E t \in Threads : job[t].op = "stop context"

\* Who is told to end the server is on the way to it.
ClosedMeansStop ==
    \/ m_acceptor = "closed"
    \/ \E k \in DOMAIN ready : ready[k].ec = "aborted"
    \/ \E t \in Threads : job[t].ec = "aborted"
    => stopped \/ Stopping \/ main = "returned"

\* While nothing has failed and nobody has asked for the end, an accept is
\* under way, so that the context has work.
KeepsListening ==
    main = "run" /\ ~stopped /\ reported = {} => Held(Listener) \/ Stopping

\* A thread leaves run() for a reason that lasts.
LeftForGood ==
    main = "run" /\ (\E t \in Threads : job[t] = Out) => stopped \/ reported # {}

ServerInv ==
    /\ TypeOK
    /\ QuietOutsideRun
    /\ Exclusive
    /\ ShutIsIdle
    /\ ClosedMeansStop
    /\ KeepsListening
    /\ LeftForGood
    /\ EndsOnlyWhenTold
-----------------------------------------------------------------------------
(* Facts about the queue of ready handlers.                                *)

LEMMA Queued ==
    ASSUME NEW q \in Seq(Handlers), NEW h \in Handlers
    PROVE  /\ Append(q, h) \in Seq(Handlers)
           /\ DOMAIN q = 1..Len(q) /\ Len(q) \in Nat
           /\ DOMAIN Append(q, h) = 1..(Len(q) + 1)
           /\ \A k \in DOMAIN q : Append(q, h)[k] = q[k] /\ q[k] \in Handlers
           /\ Append(q, h)[Len(q) + 1] = h
<1>1. DOMAIN q = 1..Len(q) /\ Len(q) \in Nat
  BY LenProperties
<1>2. \A k \in DOMAIN q : q[k] \in Handlers
  BY <1>1, ElementOfSeq
<1>3. /\ Append(q, h) \in Seq(Handlers) /\ Len(Append(q, h)) = Len(q) + 1
      /\ \A k \in DOMAIN q : Append(q, h)[k] = q[k]
      /\ Append(q, h)[Len(q) + 1] = h
  BY <1>1, AppendProperties
<1>4. DOMAIN Append(q, h) = 1..(Len(q) + 1)
  BY <1>3, LenProperties
<1> QED  BY <1>1, <1>2, <1>3, <1>4

LEMMA AppendTyped ==
    \A q \in Seq(Handlers), h \in Handlers : Append(q, h) \in Seq(Handlers)
  BY AppendProperties

LEMMA Dequeued ==
    ASSUME NEW q \in Seq(Handlers), q # <<>>
    PROVE  /\ Tail(q) \in Seq(Handlers) /\ Head(q) \in Handlers /\ Head(q) = q[1]
           /\ DOMAIN q = 1..Len(q) /\ Len(q) \in Nat \ {0}
           /\ DOMAIN Tail(q) = 1..(Len(q) - 1)
           /\ \A k \in DOMAIN Tail(q) : Tail(q)[k] = q[k + 1] /\ k + 1 \in DOMAIN q
<1>1. DOMAIN q = 1..Len(q) /\ Len(q) \in Nat \ {0}
  BY LenProperties, EmptySeq
<1>2. /\ Tail(q) \in Seq(Handlers) /\ Head(q) \in Handlers /\ Len(Tail(q)) = Len(q) - 1
      /\ \A k \in 1..Len(Tail(q)) : Tail(q)[k] = q[k + 1]
  BY HeadTailProperties
<1>3. DOMAIN Tail(q) = 1..(Len(q) - 1)
  BY <1>2, LenProperties
<1>4. Head(q) = q[1]
  OBVIOUS
<1> QED  BY <1>1, <1>2, <1>3, <1>4

\* What an object free of operations and handlers is.
LEMMA FreeIsIdle ==
    ASSUME TypeOK, NEW s \in Free
    PROVE  /\ s \in Sessions
           /\ ~Held(s)
  BY DEF Free, Holds, Held, Busy

-----------------------------------------------------------------------------
(* The invariant.                                                          *)

LEMMA ServerInvInit == Init => ServerInv
<1> SUFFICES ASSUME Init PROVE ServerInv
  OBVIOUS
<1>1. TypeOK
  BY EmptySeq DEF Init, TypeOK, Out
<1>2. DOMAIN ready = {}
  BY DEF Init
<1> QED
  BY <1>1, <1>2
  DEF Init, ServerInv, QuietOutsideRun, Exclusive, ShutIsIdle,
      ClosedMeansStop, KeepsListening, LeftForGood, EndsOnlyWhenTold, Busy, Out, Handler

LEMMA TypeNext == ServerInv /\ [Next]_vars => TypeOK'
<1> SUFFICES ASSUME ServerInv, [Next]_vars PROVE TypeOK'
  OBVIOUS
<1>0. TypeOK
  BY DEF ServerInv
<1> USE DEF startVars, listenVars, contextVars
<1>a. Idle \in Handlers \cup {Idle, Out} /\ Out \in Handlers \cup {Idle, Out}
  OBVIOUS
<1>b. /\ Idle.op = "idle" /\ Out.op = "out"
      /\ \A h \in Handlers : h.op \notin {"idle", "out"}
  BY DEF Idle, Out, Handler, Handlers
<1>c. Handler("accept", Listener, "error") \in Handlers
      /\ Handler("accept", Listener, "aborted") \in Handlers
      /\ Operation("accept", Listener) \in Operations
  BY DEF Handler, Handlers, Operation, Operations
<1>1. CASE Listen
  BY <1>0, <1>1, <1>c, AppendTyped DEF Listen, do_accept, Start, TypeOK
<1>2. CASE Return
  BY <1>0, <1>2, EmptySeq DEF Return, TypeOK
<1>3. ASSUME NEW p \in pending, NEW ec \in Outcomes(p.op), Complete(p, ec)
      PROVE  TypeOK'
  <2>1. Handler(p.op, p.who, ec) \in Handlers
    BY <1>0, <1>3 DEF TypeOK, Outcomes, Operations, Handlers, Handler
  <2> QED  BY <1>0, <1>3, <2>1, AppendTyped DEF Complete, TypeOK
<1>4. ASSUME NEW t \in Threads, Run(t) PROVE TypeOK'
  <2>1. CASE Take(t)
    BY <1>0, <2>1, Dequeued DEF Take, TypeOK
  <2>2. CASE on_accept_failed(t) \/ on_read_failed(t) \/ on_write_last(t)
    BY <1>0, <1>b, <2>2
    DEF on_accept_failed, on_read_failed, on_write_last, Done, do_close, TypeOK, Handlers
  <2>3. CASE on_accept(t)
    <3>1. \A s \in Free : Handler("run", s, "ok") \in Handlers /\ s \in Sessions
      BY DEF Handler, Handlers, Free
    <3>2. job[t] \in Handlers
      BY <1>0, <1>b, <2>3 DEF on_accept, TypeOK
    <3>3. [job[t] EXCEPT !.op = "accept again"] \in Handlers
      BY <3>2, <2>3 DEF on_accept, Handlers
    <3>4. ready' \in Seq(Handlers) /\ shut' \subseteq Sessions
      BY <1>0, <2>3, <3>1, AppendTyped DEF on_accept, TypeOK
    <3>5. job' \in [Threads -> Handlers \cup {Idle, Out}]
      BY <1>0, <2>3, <3>3 DEF on_accept, Goto, TypeOK
    <3> QED  BY <1>0, <2>3, <3>4, <3>5 DEF on_accept, TypeOK
  <2>4. CASE on_accept_again(t)
    <3>1. ready' \in Seq(Handlers) /\ pending' \subseteq Operations
      BY <1>0, <1>c, <2>4, AppendTyped DEF on_accept_again, do_accept, Start, TypeOK
    <3>2. job' \in [Threads -> Handlers \cup {Idle, Out}]
      BY <1>0, <2>4 DEF on_accept_again, Done, TypeOK
    <3> QED  BY <1>0, <2>4, <3>1, <3>2 DEF on_accept_again, TypeOK
  <2>5. CASE do_read(t) \/ send_response(t) \/ on_write(t)
    <3>1. job[t] \in Handlers
      BY <1>0, <1>b, <2>5 DEF do_read, send_response, on_write, TypeOK
    <3>2. job[t].who \in Sessions
      BY <3>1, <2>5 DEF do_read, send_response, on_write, Handlers
    <3>3. \A op \in {"read", "write", "last write"} :
             Operation(op, job[t].who) \in Operations
      BY <3>2 DEF Operation, Operations
    <3> QED  BY <1>0, <2>5, <3>3 DEF do_read, send_response, on_write, Start, Done, TypeOK
  <2>6. CASE on_read(t) \/ stop_acceptor(t) \/ stop_context(t)
    <3>1. job[t] \in Handlers
      BY <1>0, <1>b, <2>6 DEF on_read, stop_acceptor, stop_context, TypeOK
    <3>2. \A step \in {"handle", "stop context", "respond"} :
             [job[t] EXCEPT !.op = step] \in Handlers
      BY <3>1, <2>6 DEF on_read, stop_acceptor, stop_context, Handlers
    <3>3. ready' \in Seq(Handlers) /\ pending' \subseteq Operations
      BY <1>0, <1>c, <2>6, AppendTyped DEF on_read, stop_acceptor, stop_context, TypeOK
    <3>4. job' \in [Threads -> Handlers \cup {Idle, Out}]
      BY <1>0, <2>6, <3>2 DEF on_read, stop_acceptor, stop_context, Goto, TypeOK
    <3> QED  BY <1>0, <2>6, <3>3, <3>4
             DEF on_read, stop_acceptor, stop_context, TypeOK
  <2>7. CASE Leave(t)
    BY <1>0, <2>7 DEF Leave, TypeOK
  <2> QED  BY <1>4, <2>1, <2>2, <2>3, <2>4, <2>5, <2>6, <2>7 DEF Run
<1>5. CASE UNCHANGED vars
  BY <1>0, <1>5 DEF vars, TypeOK
<1> QED  BY <1>1, <1>2, <1>3, <1>4, <1>5 DEF Next

-----------------------------------------------------------------------------
(* What a step does to the operations and handlers, by the way it does it. *)

\* Threads run the handlers they ran before, or fewer.
NoNewJob ==
    \A t \in Threads : Busy(t)' => Busy(t) /\ job'[t].who = job[t].who

LEMMA Dropped ==
    ASSUME Exclusive, NoNewJob, pending' \subseteq pending, ready' = ready
    PROVE  Exclusive' /\ \A x : Held(x)' => Held(x)
  BY DEF Exclusive, NoNewJob, Held

LEMMA Added ==
    ASSUME Exclusive, NoNewJob, NEW o, pending' = pending \cup {o}, ready' = ready,
           \A p \in pending : p.who # o.who,
           \A k \in DOMAIN ready : ready[k].who # o.who,
           \A t \in Threads : Busy(t)' => job[t].who # o.who
    PROVE  Exclusive' /\ Held(o.who)' /\ \A x : Held(x)' => Held(x) \/ x = o.who
<1>1. Exclusive'
  BY DEF Exclusive, NoNewJob
<1>2. Held(o.who)' /\ \A x : Held(x)' => Held(x) \/ x = o.who
  BY DEF NoNewJob, Held
<1> QED  BY <1>1, <1>2

LEMMA Pushed ==
    ASSUME Exclusive, NoNewJob, ready \in Seq(Handlers),
           NEW h \in Handlers, ready' = Append(ready, h), pending' \subseteq pending,
           \A p \in pending' : p.who # h.who,
           \A k \in DOMAIN ready : ready[k].who # h.who,
           \A t \in Threads : Busy(t)' => job[t].who # h.who
    PROVE  Exclusive' /\ Held(h.who)' /\ \A x : Held(x)' => Held(x) \/ x = h.who
<1> DEFINE n == Len(ready)
<1>1. /\ n \in Nat /\ DOMAIN ready = 1..n /\ DOMAIN ready' = 1..(n + 1)
      /\ \A k \in 1..n : ready'[k] = ready[k]
      /\ ready'[n + 1] = h
  BY Queued
<1> HIDE DEF n
<1>2. \A k \in DOMAIN ready' : k \in DOMAIN ready \/ k = n + 1
  BY <1>1
<1>3. Exclusive'
  BY <1>1, <1>2 DEF Exclusive, NoNewJob
<1>4. Held(h.who)' /\ \A x : Held(x)' => Held(x) \/ x = h.who
  BY <1>1, <1>2 DEF NoNewJob, Held
<1> QED  BY <1>3, <1>4

LEMMA Taken ==
    ASSUME TypeOK, Exclusive, NEW t \in Threads, Take(t)
    PROVE  Exclusive' /\ \A x : Held(x)' <=> Held(x)
<1> DEFINE n == Len(ready)
<1>1. /\ n \in Nat \ {0} /\ DOMAIN ready = 1..n /\ DOMAIN ready' = 1..(n - 1)
      /\ \A k \in 1..(n - 1) : ready'[k] = ready[k + 1]
      /\ job'[t] = ready[1] /\ ready[1] \in Handlers
      /\ \A u \in Threads \ {t} : job'[u] = job[u]
      /\ pending' = pending
  BY Dequeued DEF Take, TypeOK, contextVars
<1>2. Busy(t)' /\ ~Busy(t)
  <2>1. job'[t].op \notin {"idle", "out"}
    BY <1>1 DEF Handlers
  <2>2. job'[t] \notin {Idle, Out}
    BY <2>1 DEF Idle, Out, Handler
  <2> QED  BY <2>2 DEF Take, Busy
<1>3. \A u \in Threads \ {t} : Busy(u)' <=> Busy(u)
  BY <1>1 DEF Busy
<1> HIDE DEF n
<1>4. Exclusive'
  <2>1. \A j, k \in DOMAIN ready' : ready'[j].who = ready'[k].who => j = k
    BY <1>1 DEF Exclusive
  <2>2. \A k \in DOMAIN ready' : ready'[k].who # ready[1].who
    BY <1>1 DEF Exclusive
  <2>3. /\ \A p \in pending : p.who # ready[1].who
        /\ \A u \in Threads \ {t} : Busy(u) => job[u].who # ready[1].who
    BY <1>1 DEF Exclusive
  <2>4. \A u, w \in Threads : Busy(u)' /\ Busy(w)' /\ job'[u].who = job'[w].who => u = w
    BY <1>1, <1>3, <2>3 DEF Exclusive
  <2>5. \A p \in pending', k \in DOMAIN ready' : p.who # ready'[k].who
    BY <1>1 DEF Exclusive
  <2>6. \A p \in pending', u \in Threads : Busy(u)' => p.who # job'[u].who
    BY <1>1, <1>3, <2>3 DEF Exclusive
  <2>7. \A k \in DOMAIN ready', u \in Threads : Busy(u)' => ready'[k].who # job'[u].who
    BY <1>1, <1>3, <2>2 DEF Exclusive
  <2> QED  BY <1>1, <2>1, <2>4, <2>5, <2>6, <2>7 DEF Exclusive
<1>5. ASSUME NEW x PROVE Held(x)' <=> Held(x)
  <2>1. Held(x)' => Held(x)
    BY <1>1, <1>2, <1>3, SMTT(30) DEF Held
  <2>2. ASSUME NEW k \in DOMAIN ready, ready[k].who = x PROVE Held(x)'
    <3>1. CASE k = 1
      BY <1>1, <1>2, <2>2, <3>1 DEF Held
    <3>2. CASE k # 1
      <4>1. k - 1 \in DOMAIN ready' /\ ready'[k - 1] = ready[k]
        BY <1>1, <3>2
      <4> QED  BY <2>2, <4>1 DEF Held
    <3> QED  BY <3>1, <3>2
  <2> QED  BY <1>1, <1>2, <1>3, <2>1, <2>2 DEF Held
<1> QED  BY <1>4, <1>5

-----------------------------------------------------------------------------

\* Only while the server runs there is anything to take, to do or to complete.
LEMMA QuietNext == ServerInv /\ [Next]_vars => QuietOutsideRun'
<1> SUFFICES ASSUME ServerInv, [Next]_vars PROVE QuietOutsideRun'
  OBVIOUS
<1>0. TypeOK /\ QuietOutsideRun
  BY DEF ServerInv
<1> USE DEF startVars, listenVars, contextVars
<1>1. CASE Listen \/ Return \/ UNCHANGED vars
  BY <1>0, <1>1 DEF Listen, Return, vars, QuietOutsideRun, TypeOK
<1>2. ASSUME NEW p \in pending, NEW ec, Complete(p, ec) PROVE QuietOutsideRun'
  BY <1>0, <1>2 DEF Complete, QuietOutsideRun
<1>3. ASSUME NEW t \in Threads, Run(t) PROVE QuietOutsideRun'
  <2>1. main' = main
    BY <1>3
    DEF Run, Take, on_accept_failed, on_accept, on_accept_again, do_read,
        on_read_failed, on_read, stop_acceptor, stop_context, send_response,
        on_write_last, on_write, Leave
  <2>2. job[t].op # "out"
    <3>1. CASE Take(t) \/ Leave(t)
      BY <3>1 DEF Take, Leave, Idle, Handler
    <3>2. CASE ~Take(t) /\ ~Leave(t)
      BY <1>3, <3>2
      DEF Run, on_accept_failed, on_accept, on_accept_again, do_read, on_read_failed,
          on_read, stop_acceptor, stop_context, send_response, on_write_last, on_write
    <3> QED  BY <3>1, <3>2
  <2>3. main = "run"
    BY <1>0, <2>2 DEF QuietOutsideRun, Out, Handler
  <2> QED  BY <2>1, <2>3 DEF QuietOutsideRun
<1> QED  BY <1>1, <1>2, <1>3 DEF Next

\* Which object a step is about, and that it moves from one place to another.
LEMMA ExclusiveNext ==
    ASSUME ServerInv, [Next]_vars
    PROVE  Exclusive' /\ ShutIsIdle'
<1>0. /\ TypeOK /\ QuietOutsideRun /\ Exclusive /\ ShutIsIdle
      /\ job \in [Threads -> Handlers \cup {Idle, Out}]
      /\ ready \in Seq(Handlers)
  BY DEF ServerInv, TypeOK
<1> USE DEF startVars, listenVars, contextVars
<1>a. ASSUME NEW t \in Threads, Busy(t), Done(t)
      PROVE  NoNewJob /\ ~Busy(t)' /\ job'[t] = Idle
  BY <1>0, <1>a DEF Done, Busy, NoNewJob
<1>b. ASSUME NEW t \in Threads, NEW step, Busy(t), Goto(t, step), job[t] \in Handlers
      PROVE  NoNewJob /\ job'[t].who = job[t].who
  BY <1>0, <1>b DEF Goto, Busy, NoNewJob, Handlers
<1>c. ASSUME NEW t \in Threads, job[t].op \notin {"idle", "out"}
      PROVE  Busy(t) /\ job[t] \in Handlers
  BY <1>0, <1>c DEF Busy, Idle, Out, Handler
<1>d. ASSUME NEW t \in Threads, Busy(t)
      PROVE  /\ \A p \in pending : p.who # job[t].who
             /\ \A k \in DOMAIN ready : ready[k].who # job[t].who
             /\ \A u \in Threads \ {t} : Busy(u) => job[u].who # job[t].who
             /\ Held(job[t].who)
  BY <1>0, <1>d DEF Exclusive, Held
<1>1. CASE Listen
  <2>1. pending = {} /\ ready = <<>> /\ \A t \in Threads : ~Busy(t)'
    BY <1>0, <1>1 DEF Listen, QuietOutsideRun, Busy
  <2> DEFINE h == Handler("accept", Listener, "error")
             o == Operation("accept", Listener)
  <2>2. h \in Handlers /\ h.who = Listener /\ o.who = Listener
    BY DEF Handler, Handlers, Operation
  <2> HIDE DEF h, o
  <2>3. Exclusive' /\ \A x : Held(x)' => Held(x) \/ x = Listener
    <3>1. CASE m_acceptor' = "listening"
      <4>1. pending' = pending \cup {o} /\ ready' = ready
        BY <1>1, <3>1 DEF Listen, do_accept, Start, o
      <4> QED  BY <1>0, <2>1, <2>2, <4>1, Added DEF NoNewJob
    <3>2. CASE m_acceptor' # "listening"
      <4>1. pending' = pending /\ ready' = Append(ready, h)
        BY <1>1, <3>2 DEF Listen, do_accept, h
      <4> QED  BY <1>0, <2>1, <2>2, <4>1, Pushed DEF NoNewJob
    <3> QED  BY <3>1, <3>2
  <2>4. shut' = shut /\ Listener \notin shut
    BY <1>0, <1>1, ListenerIsNoSession DEF Listen, TypeOK
  <2> QED  BY <1>0, <2>3, <2>4 DEF ShutIsIdle
<1>2. CASE Return
  BY <1>0, <1>2 DEF Return, Exclusive, ShutIsIdle, Held, Busy
<1>3. ASSUME NEW p \in pending, NEW ec \in Outcomes(p.op), Complete(p, ec)
      PROVE  Exclusive' /\ ShutIsIdle'
  <2> DEFINE h == Handler(p.op, p.who, ec)
  <2>1. h \in Handlers /\ h.who = p.who
    BY <1>0, <1>3 DEF TypeOK, Outcomes, Operations, Handlers, Handler
  <2> HIDE DEF h
  <2>2. /\ pending' = pending \ {p} /\ ready' = Append(ready, h)
        /\ shut' = shut /\ NoNewJob
    BY <1>3 DEF Complete, NoNewJob, Busy, h
  <2>3. /\ \A q \in pending' : q.who # h.who
        /\ \A k \in DOMAIN ready : ready[k].who # h.who
        /\ \A t \in Threads : Busy(t)' => job[t].who # h.who
        /\ Held(h.who)
    BY <1>0, <2>1, <2>2 DEF Exclusive, NoNewJob, Held
  <2>4. Exclusive' /\ \A x : Held(x)' => Held(x)
    BY <1>0, <2>1, <2>2, <2>3, Pushed
  <2> QED  BY <1>0, <2>2, <2>4 DEF ShutIsIdle
<1>4. ASSUME NEW t \in Threads, Run(t) PROVE Exclusive' /\ ShutIsIdle'
  <2>1. CASE Take(t)
    BY <1>0, <2>1, Taken DEF Take, ShutIsIdle
  <2>2. CASE on_accept_failed(t) \/ on_read_failed(t) \/ on_write_last(t)
    <3>1. /\ Busy(t) /\ job[t] \in Handlers
          /\ Done(t) /\ pending' = pending /\ ready' = ready
      BY <2>2, <1>c DEF on_accept_failed, on_read_failed, on_write_last
    <3>0. PICK who : who = job[t].who
      OBVIOUS
    <3>2. Exclusive' /\ (\A x : Held(x)' => Held(x)) /\ ~Held(who)'
      <4>1. NoNewJob /\ ~Busy(t)'
        BY <1>a, <3>1
      <4>2. Exclusive' /\ \A x : Held(x)' => Held(x)
        BY <1>0, <3>1, <4>1, Dropped
      <4>3. ~Held(who)'
        BY <1>d, <3>0, <3>1, <4>1 DEF Held, NoNewJob
      <4> QED  BY <4>2, <4>3
    <3>3. shut' = shut \/ shut' = shut \cup {who}
      BY <2>2, <3>0 DEF on_accept_failed, on_read_failed, on_write_last, do_close
    <3> QED  BY <1>0, <3>2, <3>3 DEF ShutIsIdle
  <2>3. CASE on_accept(t)
    <3>1. Busy(t) /\ job[t] \in Handlers
      BY <2>3, <1>c DEF on_accept
    <3>2. PICK s \in Free : /\ ready' = Append(ready, Handler("run", s, "ok"))
                           /\ shut' = shut \ {s}
      BY <2>3 DEF on_accept
    <3> DEFINE h == Handler("run", s, "ok")
    <3>3. h \in Handlers /\ h.who = s /\ ~Held(s)
      BY <1>0, FreeIsIdle DEF Handler, Handlers
    <3> HIDE DEF h
    <3>4. NoNewJob /\ pending' = pending
      BY <1>b, <2>3, <3>1 DEF on_accept
    <3>5. /\ \A p \in pending' : p.who # h.who
          /\ \A k \in DOMAIN ready : ready[k].who # h.who
          /\ \A u \in Threads : Busy(u)' => job[u].who # h.who
      BY <3>3, <3>4 DEF NoNewJob, Held
    <3>6. Exclusive' /\ \A x : Held(x)' => Held(x) \/ x = s
      BY <1>0, <3>2, <3>3, <3>4, <3>5, Pushed DEF h
    <3> QED  BY <1>0, <3>2, <3>6 DEF ShutIsIdle
  <2>4. CASE on_accept_again(t)
    <3>1. Busy(t) /\ job[t] \in Handlers
      BY <2>4, <1>c DEF on_accept_again
    <3>2. job[t].who = Listener
      BY <2>4, <3>1 DEF on_accept_again, Handlers
    <3>3. NoNewJob /\ ~Busy(t)' /\ shut' = shut
      BY <1>a, <2>4, <3>1 DEF on_accept_again
    <3>4. /\ \A p \in pending : p.who # Listener
          /\ \A k \in DOMAIN ready : ready[k].who # Listener
          /\ \A u \in Threads : Busy(u)' => job[u].who # Listener
          /\ Held(Listener)
      BY <1>d, <3>1, <3>2, <3>3 DEF NoNewJob
    <3>5. Exclusive' /\ \A x : Held(x)' => Held(x) \/ x = Listener
      <4>1. CASE m_acceptor = "listening"
        <5>1. /\ pending' = pending \cup {Operation("accept", Listener)}
              /\ ready' = ready /\ Operation("accept", Listener).who = Listener
          BY <2>4, <4>1 DEF on_accept_again, do_accept, Start, Operation
        <5> QED  BY <1>0, <3>3, <3>4, <5>1, Added
      <4>2. CASE m_acceptor # "listening"
        <5>1. /\ pending' = pending
              /\ ready' = Append(ready, Handler("accept", Listener, "error"))
          BY <2>4, <4>2 DEF on_accept_again, do_accept
        <5>2. /\ Handler("accept", Listener, "error") \in Handlers
              /\ Handler("accept", Listener, "error").who = Listener
          BY DEF Handler, Handlers
        <5> QED  BY <1>0, <3>3, <3>4, <5>1, <5>2, Pushed
      <4> QED  BY <4>1, <4>2
    <3> QED  BY <1>0, <3>3, <3>4, <3>5 DEF ShutIsIdle
  <2>5. CASE do_read(t) \/ send_response(t) \/ on_write(t)
    <3>1. Busy(t) /\ job[t] \in Handlers /\ Done(t)
      BY <2>5, <1>c DEF do_read, send_response, on_write
    <3>2. PICK o : /\ pending' = pending \cup {o} /\ ready' = ready
                   /\ o.who = job[t].who /\ shut' = shut
      BY <2>5 DEF do_read, send_response, on_write, Start, Operation
    <3>3. NoNewJob /\ ~Busy(t)'
      BY <1>a, <3>1
    <3>4. /\ \A p \in pending : p.who # o.who
          /\ \A k \in DOMAIN ready : ready[k].who # o.who
          /\ \A u \in Threads : Busy(u)' => job[u].who # o.who
          /\ Held(o.who)
      BY <1>d, <3>1, <3>2, <3>3 DEF NoNewJob
    <3>5. Exclusive' /\ \A x : Held(x)' => Held(x)
      BY <1>0, <3>2, <3>3, <3>4, Added
    <3> QED  BY <1>0, <3>2, <3>5 DEF ShutIsIdle
  <2>6. CASE on_read(t) \/ stop_context(t)
    <3>1. /\ Busy(t) /\ job[t] \in Handlers
          /\ pending' = pending /\ ready' = ready /\ shut' = shut
          /\ \E step : Goto(t, step)
      BY <2>6, <1>c DEF on_read, stop_context
    <3>2. NoNewJob
      BY <1>b, <3>1
    <3> QED  BY <1>0, <3>1, <3>2, Dropped DEF ShutIsIdle
  <2>7. CASE stop_acceptor(t)
    <3>1. Busy(t) /\ job[t] \in Handlers
      BY <2>7, <1>c DEF stop_acceptor
    <3>2. NoNewJob /\ shut' = shut
      BY <1>b, <2>7, <3>1 DEF stop_acceptor
    <3> DEFINE p == Operation("accept", Listener)
               h == Handler("accept", Listener, "aborted")
    <3>3. h \in Handlers /\ h.who = Listener /\ p.who = Listener
      BY DEF Handler, Handlers, Operation
    <3> HIDE DEF p, h
    <3>4. CASE p \in pending
      <4>1. pending' = pending \ {p} /\ ready' = Append(ready, h)
        BY <2>7, <3>4 DEF stop_acceptor, p, h
      <4>2. /\ \A q \in pending' : q.who # h.who
            /\ \A k \in DOMAIN ready : ready[k].who # h.who
            /\ \A u \in Threads : Busy(u)' => job[u].who # h.who
            /\ Held(h.who)
        BY <1>0, <3>2, <3>3, <3>4, <4>1 DEF Exclusive, NoNewJob, Held
      <4>3. Exclusive' /\ \A x : Held(x)' => Held(x)
        BY <1>0, <3>2, <3>3, <4>1, <4>2, Pushed
      <4> QED  BY <1>0, <3>2, <4>3 DEF ShutIsIdle
    <3>5. CASE p \notin pending
      <4>1. pending' = pending /\ ready' = ready
        BY <2>7, <3>5 DEF stop_acceptor, p
      <4> QED  BY <1>0, <3>2, <4>1, Dropped DEF ShutIsIdle
    <3> QED  BY <3>4, <3>5
  <2>8. CASE Leave(t)
    BY <1>0, <2>8, Dropped DEF Leave, NoNewJob, Busy, ShutIsIdle
  <2> QED  BY <1>4, <2>1, <2>2, <2>3, <2>4, <2>5, <2>6, <2>7, <2>8 DEF Run
<1>5. CASE UNCHANGED vars
  BY <1>0, <1>5 DEF vars, Exclusive, ShutIsIdle, Held, Busy
<1> QED  BY <1>1, <1>2, <1>3, <1>4, <1>5 DEF Next

\* The steps of a handler: what they leave, and who may be stopping after them.
LEMMA StoppingStays ==
    ASSUME TypeOK, NEW t \in Threads, Run(t)
    PROVE  /\ main' = main
           /\ stopped => stopped'
           /\ reported \subseteq reported'
           /\ \A u \in Threads \ {t} : job'[u] = job[u]
           /\ stop_context(t) => stopped'
           /\ ~stop_context(t) => job[t].op # "stop context"
           /\ Stopping => stopped' \/ Stopping'
<1> USE DEF startVars, listenVars, contextVars
<1>0. job \in [Threads -> Handlers \cup {Idle, Out}]
  BY DEF TypeOK
<1>1. \A u \in Threads \ {t} : job'[u] = job[u]
  BY <1>0
  DEF Run, Take, on_accept_failed, on_accept, on_accept_again, do_read, on_read_failed,
      on_read, stop_acceptor, stop_context, send_response, on_write_last, on_write,
      Leave, Done, Goto
<1>2. main' = main /\ (stopped => stopped') /\ reported \subseteq reported'
  <2>1. CASE on_accept_failed(t)
    BY <2>1 DEF on_accept_failed
  <2>2. CASE stop_context(t)
    BY <2>2 DEF stop_context
  <2>3. CASE ~on_accept_failed(t) /\ ~stop_context(t)
    <3>1. main' = main /\ stopped' = stopped /\ reported' = reported
      BY <2>3
      DEF Run, Take, on_accept, on_accept_again, do_read, on_read_failed, on_read,
          stop_acceptor, send_response, on_write_last, on_write, Leave
    <3> QED  BY <3>1
  <2> QED  BY <2>1, <2>2, <2>3
<1>3. stop_context(t) => stopped'
  BY DEF stop_context
<1>4. ASSUME ~stop_context(t) PROVE job[t].op # "stop context"
  <2>1. CASE Take(t) \/ Leave(t)
    <3>1. Idle.op = "idle"
      BY DEF Idle, Handler
    <3> QED  BY <2>1, <3>1 DEF Take, Leave
  <2>2. CASE on_write_last(t) \/ on_write(t) \/ send_response(t)
    BY <2>2 DEF on_write_last, on_write, send_response
  <2>3. CASE \/ on_accept_failed(t) \/ on_accept(t) \/ on_accept_again(t) \/ do_read(t)
             \/ on_read_failed(t) \/ on_read(t) \/ stop_acceptor(t)
    BY <2>3
    DEF on_accept_failed, on_accept, on_accept_again, do_read, on_read_failed, on_read,
        stop_acceptor
  <2> QED  BY <1>4, <2>1, <2>2, <2>3 DEF Run
<1>5. Stopping => stopped' \/ Stopping'
  BY <1>1, <1>3, <1>4 DEF Stopping
<1> QED  BY <1>1, <1>2, <1>3, <1>4, <1>5

LEMMA ClosedNext == ServerInv /\ [Next]_vars => ClosedMeansStop'
<1> SUFFICES ASSUME ServerInv, [Next]_vars PROVE ClosedMeansStop'
  OBVIOUS
<1>0. /\ TypeOK /\ QuietOutsideRun /\ ClosedMeansStop
      /\ job \in [Threads -> Handlers \cup {Idle, Out}]
      /\ ready \in Seq(Handlers)
  BY DEF ServerInv, TypeOK
<1> USE DEF startVars, listenVars, contextVars
<1>a. ASSUME NEW h \in Handlers, h.ec # "aborted", ready' = Append(ready, h)
      PROVE  \A k \in DOMAIN ready' : ready'[k].ec = "aborted" =>
                 \E j \in DOMAIN ready : ready[j].ec = "aborted"
  BY <1>0, <1>a, Queued
<1>b. /\ Handler("accept", Listener, "error") \in Handlers
      /\ Handler("accept", Listener, "error").ec # "aborted"
      /\ Idle.ec # "aborted" /\ Out.ec # "aborted" /\ Idle.op # "stop context"
  BY DEF Handler, Handlers, Idle, Out
<1>1. CASE Listen
  <2>1. /\ m_acceptor' # "closed" /\ ready = <<>>
        /\ \A t \in Threads : job'[t] = Idle
        /\ ready' = ready \/ ready' = Append(ready, Handler("accept", Listener, "error"))
    BY <1>0, <1>1 DEF Listen, do_accept, Start, QuietOutsideRun
  <2>2. \A k \in DOMAIN ready' : ready'[k].ec # "aborted"
    <3>1. DOMAIN ready = {}
      BY <2>1
    <3>2. ready' = ready => DOMAIN ready' = {}
      BY <3>1
    <3> QED  BY <1>a, <1>b, <2>1, <3>1, <3>2
  <2> QED  BY <1>b, <2>1, <2>2 DEF ClosedMeansStop
<1>2. CASE Return
  BY <1>2 DEF Return, ClosedMeansStop
<1>3. ASSUME NEW p \in pending, NEW ec \in Outcomes(p.op), Complete(p, ec)
      PROVE  ClosedMeansStop'
  <2> DEFINE h == Handler(p.op, p.who, ec)
  <2>1. h \in Handlers /\ h.ec # "aborted"
    BY <1>0, <1>3 DEF TypeOK, Outcomes, Operations, Handlers, Handler
  <2> HIDE DEF h
  <2>2. /\ ready' = Append(ready, h) /\ job' = job /\ main' = main
        /\ m_acceptor' = m_acceptor /\ stopped' = stopped
    BY <1>3 DEF Complete, h
  <2> QED  BY <1>0, <1>a, <2>1, <2>2 DEF ClosedMeansStop, Stopping
<1>4. ASSUME NEW t \in Threads, Run(t) PROVE ClosedMeansStop'
  <2>0. /\ main' = main /\ (stopped => stopped')
        /\ \A u \in Threads \ {t} : job'[u] = job[u]
        /\ Stopping => stopped' \/ Stopping'
    BY <1>0, <1>4, StoppingStays
  <2>1. CASE stop_acceptor(t)
    <3>1. job[t] \in Handlers
      <4>1. Idle.op = "idle" /\ Out.op = "out"
        BY DEF Idle, Out, Handler
      <4> QED  BY <1>0, <2>1, <4>1 DEF stop_acceptor
    <3>2. job'[t].op = "stop context"
      BY <1>0, <2>1, <3>1 DEF stop_acceptor, Goto, Handlers
    <3> QED  BY <3>2 DEF ClosedMeansStop, Stopping
  <2>2. CASE ~stop_acceptor(t)
    <3>1. m_acceptor' = m_acceptor
      BY <1>4, <2>2
      DEF Run, Take, on_accept_failed, on_accept, on_accept_again, do_read,
          on_read_failed, on_read, stop_context, send_response, on_write_last,
          on_write, Leave
    <3>2. CASE Take(t)
      <4>1. /\ \A k \in DOMAIN ready' : ready'[k] = ready[k + 1] /\ k + 1 \in DOMAIN ready
            /\ job'[t] = ready[1] /\ 1 \in DOMAIN ready
        BY <1>0, <3>2, Dequeued DEF Take
      <4> QED  BY <1>0, <2>0, <3>1, <4>1 DEF ClosedMeansStop
    <3>3. CASE ~Take(t)
      <4>1. job'[t].ec = "aborted" => job[t].ec = "aborted"
        <5>1. CASE Leave(t) \/ \E step : Goto(t, step)
          <6>1. CASE Leave(t)
            <7>1. job'[t] = Out
              BY <1>0, <6>1 DEF Leave
            <7> QED  BY <1>b, <7>1
          <6>2. ASSUME NEW step, Goto(t, step)
                PROVE  job'[t].ec = job[t].ec
            <7>1. job'[t] = [job[t] EXCEPT !.op = step]
              BY <1>0, <6>2 DEF Goto
            <7>2. job[t] = [op |-> job[t].op, who |-> job[t].who, ec |-> job[t].ec]
              <8>1. job[t] \in Handlers \cup {Idle, Out}
                BY <1>0
              <8>2. CASE job[t] \in Handlers
                BY <8>2 DEF Handlers
              <8>3. CASE job[t] = Idle
                BY <8>3 DEF Idle, Handler
              <8>4. CASE job[t] = Out
                BY <8>4 DEF Out, Handler
              <8> QED  BY <8>1, <8>2, <8>3, <8>4
            <7> QED  BY <7>1, <7>2
          <6> QED  BY <5>1, <6>1, <6>2
        <5>2. CASE Done(t)
          BY <1>0, <1>b, <5>2 DEF Done
        <5> QED
          BY <1>4, <2>2, <3>3, <5>1, <5>2
          DEF Run, on_accept_failed, on_accept, on_accept_again, do_read,
              on_read_failed, on_read, stop_context, send_response, on_write_last,
              on_write
      <4>2. \A k \in DOMAIN ready' : ready'[k].ec = "aborted" =>
                \E j \in DOMAIN ready : ready[j].ec = "aborted"
        <5>1. \A s : Handler("run", s, "ok").ec # "aborted"
              /\ (s \in Free => Handler("run", s, "ok") \in Handlers)
          BY DEF Handler, Handlers, Free
        <5>2. CASE on_accept(t)
          BY <1>a, <5>1, <5>2 DEF on_accept
        <5>3. CASE on_accept_again(t)
          BY <1>a, <1>b, <5>3 DEF on_accept_again, do_accept, Start
        <5> QED
          BY <1>4, <2>2, <3>3, <5>2, <5>3
          DEF Run, on_accept_failed, do_read, on_read_failed, on_read, stop_context,
              send_response, on_write_last, on_write, Leave, Start
      <4> QED  BY <1>0, <2>0, <3>1, <4>1, <4>2 DEF ClosedMeansStop
    <3> QED  BY <3>2, <3>3
  <2> QED  BY <2>1, <2>2
<1>5. CASE UNCHANGED vars
  BY <1>0, <1>5 DEF vars, ClosedMeansStop, Stopping
<1> QED  BY <1>1, <1>2, <1>3, <1>4, <1>5 DEF Next

\* The chain of accepts: an accept, its handler, and the handler's next accept
\* follow each other until one fails or the server is told to end.
LEMMA KeepsNext == ServerInv /\ [Next]_vars => KeepsListening'
<1> SUFFICES ASSUME ServerInv, [Next]_vars PROVE KeepsListening'
  OBVIOUS
<1>0. /\ TypeOK /\ QuietOutsideRun /\ ClosedMeansStop /\ KeepsListening
      /\ job \in [Threads -> Handlers \cup {Idle, Out}]
      /\ ready \in Seq(Handlers)
  BY DEF ServerInv, TypeOK
<1> USE DEF startVars, listenVars, contextVars
<1>a. ASSUME NEW h \in Handlers, ready' = Append(ready, h)
      PROVE  /\ \E k \in DOMAIN ready' : ready'[k] = h
             /\ \A k \in DOMAIN ready : k \in DOMAIN ready' /\ ready'[k] = ready[k]
  BY <1>0, <1>a, Queued
<1>b. /\ Handler("accept", Listener, "error") \in Handlers
      /\ Handler("accept", Listener, "error").who = Listener
      /\ Operation("accept", Listener).who = Listener
  BY DEF Handler, Handlers, Operation
<1>c. ASSUME NEW t \in Threads, job[t].op \notin {"idle", "out"}
      PROVE  Busy(t) /\ job[t] \in Handlers
  BY <1>0, <1>c DEF Busy, Idle, Out, Handler
<1>d. ASSUME do_accept(m_acceptor') \/ do_accept(m_acceptor) PROVE Held(Listener)'
  <2>1. CASE ready' = Append(ready, Handler("accept", Listener, "error"))
    <3>1. \E k \in DOMAIN ready' : ready'[k].who = Listener
      BY <1>a, <1>b, <2>1
    <3> QED  BY <3>1 DEF Held
  <2>2. CASE pending' = pending \cup {Operation("accept", Listener)}
    BY <1>b, <2>2 DEF Held
  <2> QED  BY <1>d, <2>1, <2>2 DEF do_accept, Start
<1>1. CASE Listen
  BY <1>1, <1>d DEF Listen, KeepsListening
<1>2. CASE Return
  BY <1>2 DEF Return, KeepsListening
<1>3. ASSUME NEW p \in pending, NEW ec \in Outcomes(p.op), Complete(p, ec)
      PROVE  KeepsListening'
  <2> DEFINE h == Handler(p.op, p.who, ec)
  <2>1. h \in Handlers /\ h.who = p.who
    BY <1>0, <1>3 DEF TypeOK, Outcomes, Operations, Handlers, Handler
  <2> HIDE DEF h
  <2>2. /\ pending' = pending \ {p} /\ ready' = Append(ready, h) /\ job' = job
        /\ main' = main /\ reported' = reported /\ stopped' = stopped
    BY <1>3 DEF Complete, h
  <2>3. Held(Listener) => Held(Listener)'
    BY <1>a, <2>1, <2>2 DEF Held, Busy
  <2> QED  BY <1>0, <2>2, <2>3 DEF KeepsListening, Stopping
<1>4. ASSUME NEW t \in Threads, Run(t) PROVE KeepsListening'
  <2>0. /\ main' = main /\ (stopped => stopped') /\ reported \subseteq reported'
        /\ \A u \in Threads \ {t} : job'[u] = job[u]
        /\ Stopping => stopped' \/ Stopping'
    BY <1>0, <1>4, StoppingStays
  <2>a. SUFFICES ASSUME main = "run", ~stopped, reported = {}, ~Stopping, Held(Listener)
                 PROVE  Held(Listener)' \/ Stopping' \/ reported' # {} \/ stopped'
    BY <1>0, <2>0 DEF KeepsListening
  <2>b. ASSUME \A p \in pending : p.who = Listener => p \in pending',
               \A k \in DOMAIN ready : k \in DOMAIN ready' /\ ready'[k] = ready[k],
               Busy(t) => job[t].who # Listener \/ (Busy(t)' /\ job'[t].who = Listener)
        PROVE  Held(Listener)'
    BY <2>0, <2>a, <2>b DEF Held, Busy
  <2>1. CASE Take(t)
    BY <1>0, <2>1, <2>a, Taken DEF ServerInv
  <2>2. CASE on_accept_failed(t)
    <3>1. CASE job[t].ec = "error"
      BY <2>2, <3>1 DEF on_accept_failed
    <3>2. CASE job[t].ec # "error"
      <4>1. job[t].ec = "aborted"
        BY <1>c, <2>2, <3>2 DEF on_accept_failed, Handlers
      <4> QED  BY <1>0, <2>a, <4>1 DEF ClosedMeansStop
    <3> QED  BY <3>1, <3>2
  <2>3. CASE on_accept(t)
    <3>1. job[t] \in Handlers /\ job[t].op = "accept"
      BY <1>c, <2>3 DEF on_accept
    <3>2. job'[t].op = "accept again" /\ job'[t].who = Listener
      BY <1>0, <2>3, <3>1 DEF on_accept, Goto, Handlers
    <3>3. Busy(t)'
      <4>1. Idle.op = "idle" /\ Out.op = "out"
        BY DEF Idle, Out, Handler
      <4> QED  BY <3>2, <4>1 DEF Busy
    <3> QED  BY <3>2, <3>3 DEF Held
  <2>4. CASE on_accept_again(t)
    BY <1>d, <2>4 DEF on_accept_again
  <2>5. CASE \/ do_read(t) \/ send_response(t) \/ on_write(t)
             \/ on_read_failed(t) \/ on_write_last(t)
    <3>1. job[t] \in Handlers
      BY <1>c, <2>5 DEF do_read, send_response, on_write, on_read_failed, on_write_last
    <3>2. job[t].who \in Sessions
      BY <2>5, <3>1
      DEF do_read, send_response, on_write, on_read_failed, on_write_last, Handlers
    <3>3. pending \subseteq pending' /\ ready' = ready
      BY <2>5
      DEF do_read, send_response, on_write, on_read_failed, on_write_last, Start
    <3> QED  BY <2>b, <3>2, <3>3, ListenerIsNoSession
  <2>6. CASE on_read(t)
    <3>1. job[t].who \in Sessions
      BY <1>c, <2>6 DEF on_read, Handlers
    <3> QED  BY <2>6, <2>b, <3>1, ListenerIsNoSession DEF on_read
  <2>7. CASE stop_acceptor(t) \/ stop_context(t)
    <3>1. CASE stop_context(t)
      BY <3>1 DEF stop_context
    <3>2. CASE stop_acceptor(t)
      <4>1. job[t] \in Handlers
        BY <1>c, <3>2 DEF stop_acceptor
      <4>2. job'[t].op = "stop context"
        BY <1>0, <3>2, <4>1 DEF stop_acceptor, Goto, Handlers
      <4> QED  BY <4>2 DEF Stopping
    <3> QED  BY <2>7, <3>1, <3>2
  <2>8. CASE Leave(t)
    BY <2>8, <2>b DEF Leave, Busy
  <2> QED  BY <1>4, <2>1, <2>2, <2>3, <2>4, <2>5, <2>6, <2>7, <2>8 DEF Run
<1>5. CASE UNCHANGED vars
  BY <1>0, <1>5 DEF vars, KeepsListening, Held, Busy, Stopping
<1> QED  BY <1>1, <1>2, <1>3, <1>4, <1>5 DEF Next

\* A thread leaves when the context was stopped or has no work, and it has
\* work while the listener is not told to end.
LEMMA LeftNext ==
    ServerInv /\ [Next]_vars => LeftForGood' /\ EndsOnlyWhenTold'
<1> SUFFICES ASSUME ServerInv, [Next]_vars PROVE LeftForGood' /\ EndsOnlyWhenTold'
  OBVIOUS
<1>0. /\ TypeOK /\ KeepsListening /\ LeftForGood /\ EndsOnlyWhenTold
      /\ job \in [Threads -> Handlers \cup {Idle, Out}]
  BY DEF ServerInv, TypeOK
<1> USE DEF startVars, listenVars, contextVars
<1>1. CASE Listen
  BY <1>1 DEF Listen, LeftForGood, EndsOnlyWhenTold, Idle, Out, Handler
<1>2. CASE Return
  BY <1>0, <1>2, HasThread DEF Return, LeftForGood, EndsOnlyWhenTold
<1>3. ASSUME NEW p \in pending, NEW ec, Complete(p, ec)
      PROVE  LeftForGood' /\ EndsOnlyWhenTold'
  BY <1>0, <1>3 DEF Complete, LeftForGood, EndsOnlyWhenTold
<1>4. ASSUME NEW t \in Threads, Run(t) PROVE LeftForGood' /\ EndsOnlyWhenTold'
  <2>0. /\ main' = main /\ (stopped => stopped') /\ reported \subseteq reported'
        /\ \A u \in Threads \ {t} : job'[u] = job[u]
    BY <1>0, <1>4, StoppingStays
  <2>1. EndsOnlyWhenTold'
    BY <1>0, <2>0 DEF EndsOnlyWhenTold
  <2>2. CASE Leave(t)
    <3>1. OutOfWork => ~Held(Listener) /\ ~Stopping
      <4>1. Idle.op = "idle" /\ Out.op = "out"
        BY DEF Idle, Out, Handler
      <4>2. OutOfWork => ~Stopping
        BY <4>1 DEF OutOfWork, Stopping
      <4>3. OutOfWork => ~Held(Listener)
        <5>1. ready = <<>> => DOMAIN ready = {}
          OBVIOUS
        <5> QED  BY <5>1 DEF OutOfWork, Held, Busy
      <4> QED  BY <4>2, <4>3
    <3> QED  BY <1>0, <2>0, <2>1, <2>2, <3>1 DEF Leave, KeepsListening, LeftForGood
  <2>3. CASE ~Leave(t)
    <3>1. job'[t] # Out
      <4>1. Idle # Out /\ Out \notin Handlers
        BY DEF Idle, Out, Handler, Handlers
      <4>2. CASE Take(t)
        BY <1>0, <4>1, <4>2, Dequeued DEF Take, TypeOK
      <4>3. CASE Done(t)
        BY <1>0, <4>1, <4>3 DEF Done
      <4>4. CASE \E step \in {"accept again", "handle", "stop context", "respond"} :
                    Goto(t, step)
        <5>1. job'[t].op \in {"accept again", "handle", "stop context", "respond"}
          <6>1. PICK step \in {"accept again", "handle", "stop context", "respond"} :
                   job'[t] = [job[t] EXCEPT !.op = step]
            BY <1>0, <4>4 DEF Goto
          <6>2. CASE job[t] \in Handlers
            BY <6>1, <6>2 DEF Handlers
          <6>3. CASE job[t] \in {Idle, Out}
            BY <6>1, <6>3 DEF Idle, Out, Handler
          <6> QED  BY <1>0, <6>2, <6>3
        <5>2. Out.op = "out"
          BY DEF Out, Handler
        <5> QED  BY <5>1, <5>2
      <4> QED
        BY <1>4, <2>3, <4>2, <4>3, <4>4
        DEF Run, on_accept_failed, on_accept, on_accept_again, do_read, on_read_failed,
            on_read, stop_acceptor, stop_context, send_response, on_write_last, on_write
    <3> QED  BY <1>0, <2>0, <2>1, <3>1 DEF LeftForGood
  <2> QED  BY <2>2, <2>3
<1>5. CASE UNCHANGED vars
  BY <1>0, <1>5 DEF vars, LeftForGood, EndsOnlyWhenTold
<1> QED  BY <1>1, <1>2, <1>3, <1>4, <1>5 DEF Next

-----------------------------------------------------------------------------

\* The inductive invariant of the listener, its connections and the threads
\* of SERVER_Start.
THEOREM ServerInvariant == Spec => []ServerInv
<1>1. ServerInv /\ [Next]_vars => ServerInv'
  BY TypeNext, QuietNext, ExclusiveNext, ClosedNext, KeepsNext, LeftNext DEF ServerInv
<1> QED  BY ServerInvInit, <1>1, PTL DEF Spec

\* One operation or handler of a connection exists at a time, and one of the
\* listener, whatever the threads interleave (session and listener, Server.cpp).
THEOREM OneOperationAtATime == Spec => []OneOperation
<1>1. ASSUME ServerInv PROVE OneOperation
  <2> SUFFICES ASSUME NEW x \in Sessions \cup {Listener} PROVE Cardinality(Holds(x)) <= 1
    BY DEF OneOperation
  <2>1. \A a, b \in Holds(x) : a = b
    <3>1. Exclusive
      BY <1>1 DEF ServerInv
    <3>2. CASE \E p \in pending : p.who = x
      BY <3>1, <3>2 DEF Holds, Exclusive, Busy
    <3>3. CASE \E k \in DOMAIN ready : ready[k].who = x
      BY <3>1, <3>3 DEF Holds, Exclusive, Busy
    <3>4. CASE \A p \in pending : p.who # x
               /\ \A k \in DOMAIN ready : ready[k].who # x
      BY <3>1, <3>4 DEF Holds, Exclusive, Busy
    <3> QED  BY <3>2, <3>3, <3>4
  <2>2. CASE Holds(x) = {}
    <3>1. Cardinality({}) = 0
      BY FS_EmptySet
    <3> QED  BY <2>2, <3>1
  <2>3. CASE Holds(x) # {}
    <3>1. PICK a : Holds(x) = {a}
      BY <2>1, <2>3
    <3>2. Cardinality({a}) = 1
      BY FS_Singleton
    <3> QED  BY <3>1, <3>2
  <2> QED  BY <2>2, <2>3
<1> QED  BY ServerInvariant, <1>1, PTL

\* A connection that was shut down is neither read from nor written to
\* (session::do_close is always the last call of a handler).
THEOREM ShutdownIsLast == Spec => []NoTrafficAfterShutdown
<1>1. ServerInv => NoTrafficAfterShutdown
  BY DEF ServerInv, ShutIsIdle, Held, NoTrafficAfterShutdown
<1> QED  BY ServerInvariant, <1>1, PTL

\* run() returns, and the server ends, only after stop or a reported failure:
\* the chain of accepts keeps the context in work.
THEOREM ServerEndsOnlyWhenTold == Spec => []EndsOnlyWhenTold
<1>1. ServerInv => EndsOnlyWhenTold
  BY DEF ServerInv
<1> QED  BY ServerInvariant, <1>1, PTL
=============================================================================
