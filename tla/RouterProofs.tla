---------------------------- MODULE RouterProofs ----------------------------
(***************************************************************************)
(* Proofs about Router, for requests of any number of segments.            *)
(***************************************************************************)
EXTENDS Router, SequenceTheorems, TLAPS

\* Where a handler is, within the path or just past its end: the loop of sys
\* may have left it by two.
InHandler == {"db", "sql", "sys", "inner", "return"}

Positions ==
    /\ pc \in InHandler => m_uCommandIndex <= Len(path) + 1
    /\ pc \in {"db", "sql", "inner"} => uIndex <= Len(path) + 1
    /\ pc \in {"sys", "return"} => uIndex <= Len(path) + 2

\* The answer comes last.
AnswerIsLast == reply # "none" => pc = "answered"

\* The router looks for another handler only after one that has succeeded.
RoutesAfterSuccess == pc \in {"prepare", "route"} => result_

\* The context's objects are those the commands have made, one for each.
ObjectsAreMade ==
    /\ \A j, k \in DOMAIN m_objects : m_objects[j].by = m_objects[k].by => j = k
    /\ \A n \in DOMAIN executed :
          executed[n].made => \E k \in DOMAIN m_objects : m_objects[k].by = n

\* The rows of the response are the objects whose pointer was released, and
\* each pointer is in one row.
RowsAreReleased ==
    /\ \A i, j \in DOMAIN m_tableBody :
          m_tableBody[i] = m_tableBody[j] => i = j \/ m_tableBody[i] = 0
    /\ \A j \in DOMAIN m_tableBody : m_tableBody[j] # 0 =>
          \E k \in DOMAIN m_objects :
             m_objects[k].by = m_tableBody[j] /\ ~m_objects[k].held
    /\ \A k \in DOMAIN m_objects : ~m_objects[k].held =>
          \E j \in DOMAIN m_tableBody : m_tableBody[j] = m_objects[k].by

\* Between two handlers that succeed the context holds no pointer.
ReleasedBetweenHandlers ==
    pc \in {"prepare", "route", "ran", "answered"} /\ result_ =>
        \A k \in DOMAIN m_objects : ~m_objects[k].held

\* After a database command that failed the request runs no other.
DbFailureEnds ==
    \A n \in DOMAIN executed :
        executed[n].handler = "db" /\ ~executed[n].ok =>
            n = Len(executed) /\ ~result_ /\ pc \in {"return", "ran", "answered"}

RouterInv ==
    /\ TypeOK
    /\ Positions
    /\ AnswerIsLast
    /\ RoutesAfterSuccess
    /\ ObjectsAreMade
    /\ RowsAreReleased
    /\ ReleasedBetweenHandlers
    /\ DbFailureEnds
-----------------------------------------------------------------------------
(* Facts about sequences.                                                  *)

LEMMA Elements ==
    ASSUME NEW S, NEW s \in Seq(S)
    PROVE  /\ DOMAIN s = 1..Len(s) /\ Len(s) \in Nat
           /\ \A k \in DOMAIN s : s[k] \in S
  BY LenProperties, ElementOfSeq

LEMMA Appended ==
    ASSUME NEW S, NEW s \in Seq(S), NEW e \in S
    PROVE  /\ Append(s, e) \in Seq(S) /\ Len(Append(s, e)) = Len(s) + 1
           /\ DOMAIN Append(s, e) = 1..(Len(s) + 1)
           /\ \A k \in DOMAIN s : k \in 1..Len(s) /\ Append(s, e)[k] = s[k]
           /\ Append(s, e)[Len(s) + 1] = e
<1>1. Append(s, e) \in Seq(S) /\ Len(Append(s, e)) = Len(s) + 1
  BY AppendProperties
<1>2. DOMAIN Append(s, e) = 1..(Len(s) + 1)
  BY <1>1, LenProperties
<1>3. DOMAIN s = 1..Len(s)
  BY LenProperties
<1> QED  BY <1>1, <1>2, <1>3, AppendProperties

LEMMA Concatenated ==
    ASSUME NEW S, NEW s \in Seq(S), NEW r \in Seq(S)
    PROVE  /\ s \o r \in Seq(S) /\ DOMAIN (s \o r) = 1..(Len(s) + Len(r))
           /\ \A k \in DOMAIN s : (s \o r)[k] = s[k]
           /\ \A k \in DOMAIN r : (s \o r)[Len(s) + k] = r[k]
           /\ \A n \in DOMAIN (s \o r) : n \in DOMAIN s \/ n - Len(s) \in DOMAIN r
<1>1. /\ DOMAIN s = 1..Len(s) /\ Len(s) \in Nat
      /\ DOMAIN r = 1..Len(r) /\ Len(r) \in Nat
  BY LenProperties
<1>2. /\ s \o r \in Seq(S) /\ Len(s \o r) = Len(s) + Len(r)
      /\ \A i \in 1..(Len(s) + Len(r)) :
            (s \o r)[i] = IF i <= Len(s) THEN s[i] ELSE r[i - Len(s)]
  BY ConcatProperties
<1>3. DOMAIN (s \o r) = 1..(Len(s) + Len(r))
  BY <1>2, LenProperties
<1>4. \A k \in DOMAIN s : (s \o r)[k] = s[k]
  BY <1>1, <1>2
<1>5. ASSUME NEW k \in DOMAIN r PROVE (s \o r)[Len(s) + k] = r[k]
  <2>1. Len(s) + k \in 1..(Len(s) + Len(r)) /\ ~(Len(s) + k <= Len(s))
    BY <1>1
  <2>2. (Len(s) + k) - Len(s) = k
    BY <1>1
  <2> QED  BY <1>2, <2>1, <2>2
<1>6. \A n \in DOMAIN (s \o r) : n \in DOMAIN s \/ n - Len(s) \in DOMAIN r
  BY <1>1, <1>3
<1> QED  BY <1>2, <1>3, <1>4, <1>5, <1>6

-----------------------------------------------------------------------------
(* What becomes of the objects.                                            *)

Commands == [handler : {"db", "sys", "sql"}, ok : BOOLEAN, made : BOOLEAN]

ResultsOK ==
    /\ executed \in Seq(Commands)
    /\ m_objects \in Seq([by : DOMAIN executed, held : BOOLEAN])
    /\ m_tableBody \in Seq({0} \cup DOMAIN executed)

LEMMA ExecuteKeepsOwners ==
    ASSUME ResultsOK, ObjectsAreMade, RowsAreReleased,
           NEW handler \in {"db", "sys", "sql"}, Execute(handler)
    PROVE  /\ ResultsOK' /\ ObjectsAreMade' /\ RowsAreReleased'
           /\ result_' \in BOOLEAN
           /\ DOMAIN executed' = 1..(Len(executed) + 1)
           /\ DOMAIN executed = 1..Len(executed) /\ Len(executed) \in Nat
           /\ Len(executed') = Len(executed) + 1
           /\ \A n \in DOMAIN executed : executed'[n] = executed[n]
           /\ executed'[Len(executed) + 1].handler = handler
           /\ executed'[Len(executed) + 1].ok = result_'
<1> DEFINE n == Len(executed) + 1
           m == Len(m_objects) + 1
<1>1. PICK ok \in BOOLEAN, made \in BOOLEAN :
         /\ result_' = ok
         /\ executed' = Append(executed, [handler |-> handler, ok |-> ok, made |-> made])
         /\ m_objects' = IF made THEN Append(m_objects, [by |-> Len(executed'), held |-> TRUE])
                                 ELSE m_objects
         /\ m_tableBody' = m_tableBody
  BY DEF Execute
<1> DEFINE c == [handler |-> handler, ok |-> ok, made |-> made]
<1>2. /\ DOMAIN executed = 1..Len(executed) /\ Len(executed) \in Nat
      /\ executed' \in Seq(Commands) /\ Len(executed') = n /\ DOMAIN executed' = 1..n
      /\ \A i \in DOMAIN executed : executed'[i] = executed[i]
      /\ executed'[n] = c
  <2>1. executed \in Seq(Commands) /\ c \in Commands
    BY DEF ResultsOK, Commands
  <2> QED  BY <1>1, <2>1, Elements, Appended
<1>3. /\ DOMAIN executed \subseteq DOMAIN executed'
      /\ n \in DOMAIN executed' /\ n \notin DOMAIN executed
  BY <1>2
<1>4. /\ DOMAIN m_objects = 1..Len(m_objects) /\ Len(m_objects) \in Nat
      /\ \A k \in DOMAIN m_objects : m_objects[k].by \in DOMAIN executed
  <2>1. \A k \in DOMAIN m_objects : m_objects[k] \in [by : DOMAIN executed, held : BOOLEAN]
    BY Elements DEF ResultsOK
  <2> QED  BY <2>1, Elements DEF ResultsOK
<1>5. CASE ~made
  <2>1. m_objects' = m_objects
    BY <1>1, <1>5
  <2>2. ResultsOK'
    <3>1. m_tableBody \in Seq({0} \cup DOMAIN executed')
      BY <1>3, SeqMonotonic DEF ResultsOK
    <3>2. m_objects \in Seq([by : DOMAIN executed', held : BOOLEAN])
      BY <1>3, SeqMonotonic DEF ResultsOK
    <3> QED  BY <1>1, <1>2, <2>1, <3>1, <3>2 DEF ResultsOK
  <2>3. ObjectsAreMade'
    BY <1>2, <1>5, <2>1 DEF ObjectsAreMade
  <2>4. RowsAreReleased'
    BY <1>1, <2>1 DEF RowsAreReleased
  <2> QED  BY <1>1, <1>2, <2>2, <2>3, <2>4
<1>6. CASE made
  <2> DEFINE o == [by |-> n, held |-> TRUE]
  <2>1. m_objects' = Append(m_objects, o)
    BY <1>1, <1>2, <1>6
  <2>2. /\ m_objects \in Seq([by : DOMAIN executed', held : BOOLEAN])
        /\ o \in [by : DOMAIN executed', held : BOOLEAN]
    BY <1>3, SeqMonotonic DEF ResultsOK
  <2>3. /\ m_objects' \in Seq([by : DOMAIN executed', held : BOOLEAN])
        /\ DOMAIN m_objects' = 1..m
        /\ \A k \in DOMAIN m_objects : k \in 1..Len(m_objects) /\ m_objects'[k] = m_objects[k]
        /\ m_objects'[m] = o
    BY <2>1, <2>2, Appended
  <2>4. ResultsOK'
    <3>1. m_tableBody \in Seq({0} \cup DOMAIN executed')
      BY <1>3, SeqMonotonic DEF ResultsOK
    <3> QED  BY <1>1, <1>2, <2>3, <3>1 DEF ResultsOK
  <2>5. \A k \in DOMAIN m_objects' : k \in DOMAIN m_objects \/ k = m
    BY <1>4, <2>3
  <2>6. m_objects'[m].by = n /\ m_objects'[m].held /\ m \in DOMAIN m_objects'
    BY <1>4, <2>3
  <2> HIDE DEF n, m, o
  <2>7. ObjectsAreMade'
    <3>1. \A j, k \in DOMAIN m_objects' : m_objects'[j].by = m_objects'[k].by => j = k
      BY <1>3, <1>4, <2>3, <2>5, <2>6 DEF ObjectsAreMade
    <3>2. ASSUME NEW i \in DOMAIN executed', executed'[i].made
          PROVE  \E k \in DOMAIN m_objects' : m_objects'[k].by = i
      <4>1. CASE i = n
        BY <2>6, <4>1
      <4>2. CASE i # n
        <5>1. i \in DOMAIN executed
          BY <1>2, <4>2 DEF n
        <5>2. PICK k \in DOMAIN m_objects : m_objects[k].by = i
          BY <1>2, <3>2, <5>1 DEF ObjectsAreMade
        <5> QED  BY <1>4, <2>3, <5>2 DEF m
      <4> QED  BY <4>1, <4>2
    <3> QED  BY <3>1, <3>2 DEF ObjectsAreMade
  <2>8. RowsAreReleased'
    <3>1. \A k \in DOMAIN m_objects : k \in DOMAIN m_objects' /\ m_objects'[k] = m_objects[k]
      BY <1>4, <2>3 DEF m
    <3> QED  BY <1>1, <2>5, <2>6, <3>1 DEF RowsAreReleased
  <2> QED  BY <1>1, <1>2, <2>4, <2>7, <2>8 DEF n
<1> QED  BY <1>5, <1>6

LEMMA TransferKeepsOwners ==
    ASSUME ResultsOK, ObjectsAreMade, RowsAreReleased, AddTransfer, executed' = executed
    PROVE  /\ ResultsOK' /\ ObjectsAreMade' /\ RowsAreReleased'
           /\ \A k \in DOMAIN m_objects' : ~m_objects'[k].held
<1> DEFINE p == Pointers(m_objects)
           rows == Len(m_tableBody)
<1>1. /\ DOMAIN m_objects = 1..Len(m_objects) /\ Len(m_objects) \in Nat
      /\ \A k \in DOMAIN m_objects :
            /\ m_objects[k] \in [by : DOMAIN executed, held : BOOLEAN]
            /\ m_objects[k].by \in DOMAIN executed
  <2>1. /\ DOMAIN m_objects = 1..Len(m_objects) /\ Len(m_objects) \in Nat
        /\ \A k \in DOMAIN m_objects : m_objects[k] \in [by : DOMAIN executed, held : BOOLEAN]
    BY Elements DEF ResultsOK
  <2> QED  BY <2>1
<1>2. /\ DOMAIN executed = 1..Len(executed) /\ Len(executed) \in Nat
      /\ DOMAIN m_tableBody = 1..rows /\ rows \in Nat
  BY Elements DEF ResultsOK
<1>3. \A k \in DOMAIN m_objects : m_objects[k].by # 0
  BY <1>1, <1>2
<1>4. /\ m_objects' \in [DOMAIN m_objects -> [by : DOMAIN executed, held : BOOLEAN]]
      /\ \A k \in DOMAIN m_objects :
            m_objects'[k].by = m_objects[k].by /\ ~m_objects'[k].held
  BY <1>1 DEF AddTransfer, Transferred
<1>5. m_objects' \in Seq([by : DOMAIN executed, held : BOOLEAN])
      /\ DOMAIN m_objects' = DOMAIN m_objects
  <2> DEFINE S == [by : DOMAIN executed, held : BOOLEAN]
  <2>1. m_objects' \in [1..Len(m_objects) -> S] /\ Len(m_objects) \in Nat
    BY <1>1, <1>4
  <2> HIDE DEF S
  <2>2. m_objects' \in Seq(S) /\ DOMAIN m_objects' = 1..Len(m_objects)
    BY <2>1
  <2> QED  BY <1>1, <2>2 DEF S
<1>6. p \in [DOMAIN m_objects -> {0} \cup DOMAIN executed]
  BY <1>1 DEF Pointers
<1>7. p \in Seq({0} \cup DOMAIN executed)
  BY <1>1, <1>6
<1>8. /\ \A k \in DOMAIN m_objects : p[k] = IF m_objects[k].held THEN m_objects[k].by ELSE 0
      /\ DOMAIN p = DOMAIN m_objects
  BY DEF Pointers
<1> HIDE DEF p
<1>9. m_tableBody' = m_tableBody \o p
  BY DEF AddTransfer, p
<1> HIDE DEF rows
<1>10. /\ m_tableBody' \in Seq({0} \cup DOMAIN executed)
       /\ \A j \in DOMAIN m_tableBody : m_tableBody'[j] = m_tableBody[j]
                                       /\ j \in DOMAIN m_tableBody'
       /\ \A k \in DOMAIN m_objects : m_tableBody'[rows + k] = p[k]
                                     /\ rows + k \in DOMAIN m_tableBody'
       /\ \A n \in DOMAIN m_tableBody' : n \in DOMAIN m_tableBody
                                        \/ n - rows \in DOMAIN m_objects
  <2>1. /\ m_tableBody \in Seq({0} \cup DOMAIN executed)
        /\ Len(p) = Len(m_objects)
    <3>1. DOMAIN p = 1..Len(p) /\ Len(p) \in Nat
      BY <1>7, Elements
    <3> QED  BY <1>1, <1>8, <3>1 DEF ResultsOK
  <2>2. /\ m_tableBody' \in Seq({0} \cup DOMAIN executed)
        /\ DOMAIN m_tableBody' = 1..(rows + Len(m_objects))
        /\ \A j \in DOMAIN m_tableBody : m_tableBody'[j] = m_tableBody[j]
        /\ \A k \in DOMAIN m_objects : m_tableBody'[rows + k] = p[k]
        /\ \A n \in DOMAIN m_tableBody' : n \in DOMAIN m_tableBody
                                         \/ n - rows \in DOMAIN m_objects
    <3> DEFINE T == {0} \cup DOMAIN executed
    <3>1. m_tableBody \in Seq(T) /\ p \in Seq(T)
      BY <1>7, <2>1
    <3> HIDE DEF T
    <3>2. /\ m_tableBody \o p \in Seq(T)
          /\ DOMAIN (m_tableBody \o p) = 1..(Len(m_tableBody) + Len(p))
          /\ \A k \in DOMAIN m_tableBody : (m_tableBody \o p)[k] = m_tableBody[k]
          /\ \A k \in DOMAIN p : (m_tableBody \o p)[Len(m_tableBody) + k] = p[k]
          /\ \A n \in DOMAIN (m_tableBody \o p) :
                n \in DOMAIN m_tableBody \/ n - Len(m_tableBody) \in DOMAIN p
      BY <3>1, Concatenated
    <3> QED  BY <1>8, <1>9, <2>1, <3>2 DEF rows, T
  <2>3. \A j \in DOMAIN m_tableBody : j \in DOMAIN m_tableBody'
    BY <1>1, <1>2, <2>2
  <2>4. \A k \in DOMAIN m_objects : rows + k \in DOMAIN m_tableBody'
    BY <1>1, <1>2, <2>2
  <2> QED  BY <2>2, <2>3, <2>4
<1>11. ResultsOK'
  BY <1>5, <1>10 DEF ResultsOK
<1>12. ObjectsAreMade'
  BY <1>4, <1>5 DEF ObjectsAreMade
<1>13. RowsAreReleased'
  <2>a. ASSUME NEW n \in DOMAIN m_tableBody', n \notin DOMAIN m_tableBody, m_tableBody'[n] # 0
        PROVE  \E k \in DOMAIN m_objects :
                  n = rows + k /\ m_objects[k].held /\ m_tableBody'[n] = m_objects[k].by
    <3>1. n - rows \in DOMAIN m_objects /\ n \in Int
      BY <1>10, <2>a, Elements
    <3>2. n = rows + (n - rows)
      BY <1>2, <3>1
    <3> QED  BY <1>8, <1>10, <2>a, <3>1, <3>2
  <2>b. ASSUME NEW n \in DOMAIN m_tableBody, m_tableBody[n] # 0
        PROVE  \E k \in DOMAIN m_objects :
                  m_objects[k].by = m_tableBody[n] /\ ~m_objects[k].held
    BY <2>b DEF RowsAreReleased
  <2>1. ASSUME NEW i \in DOMAIN m_tableBody', NEW j \in DOMAIN m_tableBody',
               m_tableBody'[i] = m_tableBody'[j], m_tableBody'[i] # 0
        PROVE  i = j
    <3>1. CASE i \in DOMAIN m_tableBody /\ j \in DOMAIN m_tableBody
      BY <1>10, <2>1, <3>1 DEF RowsAreReleased
    <3>2. CASE i \notin DOMAIN m_tableBody /\ j \notin DOMAIN m_tableBody
      BY <2>1, <2>a, <3>2 DEF ObjectsAreMade
    <3>3. CASE i \in DOMAIN m_tableBody /\ j \notin DOMAIN m_tableBody
      BY <1>10, <2>1, <2>a, <2>b, <3>3 DEF ObjectsAreMade
    <3>4. CASE i \notin DOMAIN m_tableBody /\ j \in DOMAIN m_tableBody
      BY <1>10, <2>1, <2>a, <2>b, <3>4 DEF ObjectsAreMade
    <3> QED  BY <3>1, <3>2, <3>3, <3>4
  <2>2. ASSUME NEW j \in DOMAIN m_tableBody', m_tableBody'[j] # 0
        PROVE  \E k \in DOMAIN m_objects' :
                  m_objects'[k].by = m_tableBody'[j] /\ ~m_objects'[k].held
    <3>1. CASE j \in DOMAIN m_tableBody
      <4>1. PICK k \in DOMAIN m_objects : m_objects[k].by = m_tableBody[j]
        BY <1>10, <2>2, <2>b, <3>1
      <4> QED  BY <1>4, <1>5, <1>10, <3>1, <4>1
    <3>2. CASE j \notin DOMAIN m_tableBody
      <4>1. PICK k \in DOMAIN m_objects : m_objects[k].by = m_tableBody'[j]
        BY <2>2, <2>a, <3>2
      <4> QED  BY <1>4, <1>5, <4>1
    <3> QED  BY <3>1, <3>2
  <2>3. ASSUME NEW k \in DOMAIN m_objects'
        PROVE  \E j \in DOMAIN m_tableBody' : m_tableBody'[j] = m_objects'[k].by
    <3>1. CASE m_objects[k].held
      <4>1. m_tableBody'[rows + k] = m_objects'[k].by /\ rows + k \in DOMAIN m_tableBody'
        BY <1>4, <1>5, <1>8, <1>10, <2>3, <3>1
      <4> QED  BY <4>1
    <3>2. CASE ~m_objects[k].held
      BY <1>4, <1>5, <1>10, <2>3, <3>2 DEF RowsAreReleased
    <3> QED  BY <3>1, <3>2
  <2> QED  BY <2>1, <2>2, <2>3 DEF RowsAreReleased
<1> QED  BY <1>4, <1>5, <1>11, <1>12, <1>13

-----------------------------------------------------------------------------
(* The positions.                                                          *)

PathOK ==
    /\ path \in Seq(Segments) /\ Len(path) \in 1..MaxSegments
    /\ xml \in BOOLEAN /\ budget \in 0..MaxSegments

FlagsOK ==
    /\ result_ \in BOOLEAN /\ aborted \in BOOLEAN
    /\ pc \in InHandler \cup {"prepare", "route", "ran", "answered"}
    /\ inner \subseteq Segments
    /\ reply \in {"none", "ok", "bad_request"}
    /\ AnswerIsLast
    /\ RoutesAfterSuccess

IndexesOK ==
    /\ uCommandIndex \in 1..(Len(path) + 2)
    /\ m_uCommandIndex \in 1..(MaxSegments + 1)
    /\ uIndex \in 1..(MaxSegments + 2)
    /\ Positions

ControlOK == PathOK /\ FlagsOK /\ IndexesOK

LEMMA Parts == TypeOK /\ Positions /\ AnswerIsLast /\ RoutesAfterSuccess
                   <=> ControlOK /\ ResultsOK
  BY DEF TypeOK, ControlOK, PathOK, FlagsOK, IndexesOK, ResultsOK, Commands, InHandler

LEMMA PathIsSeq ==
    ASSUME NEW n \in 0..MaxSegments, NEW p \in Paths(n)
    PROVE  p \in Seq(Segments) /\ Len(p) \in 1..n
<1>1. PICK k \in 1..n : p \in [1..k -> Segments]
  BY DEF Paths
<1>2. k \in Nat /\ n \in Nat
  BY MaxSegmentsNat
<1> HIDE DEF Segments
<1>3. p \in Seq(Segments) /\ Len(p) = k
  BY <1>1, <1>2
<1> QED  BY <1>3

LEMMA ControlInit == Init => ControlOK /\ ResultsOK
<1> SUFFICES ASSUME Init PROVE ControlOK /\ ResultsOK
  OBVIOUS
<1>1. path \in Seq(Segments) /\ Len(path) \in 1..MaxSegments
  BY MaxSegmentsNat, PathIsSeq DEF Init
<1>2. ControlOK
  <2>1. Len(path) \in Nat /\ Len(path) > 0 /\ Len(path) <= MaxSegments
    BY <1>1, MaxSegmentsNat
  <2>2. budget \in 0..MaxSegments
    BY <2>1, MaxSegmentsNat DEF Init
  <2>3. uCommandIndex \in 1..(Len(path) + 2) /\ m_uCommandIndex \in 1..(MaxSegments + 1)
        /\ uIndex \in 1..(MaxSegments + 2)
    BY <2>1, MaxSegmentsNat DEF Init
  <2>4. Positions /\ AnswerIsLast /\ RoutesAfterSuccess
    BY DEF Init, Positions, InHandler, AnswerIsLast, RoutesAfterSuccess
  <2> QED  BY <1>1, <2>2, <2>3, <2>4
           DEF Init, ControlOK, PathOK, FlagsOK, IndexesOK, InHandler
<1>3. ResultsOK
  BY EmptySeq DEF Init, ResultsOK
<1> QED  BY <1>2, <1>3

LEMMA ControlNext == ControlOK /\ [Next]_vars => ControlOK'
<1> SUFFICES ASSUME ControlOK, [Next]_vars PROVE ControlOK'
  OBVIOUS
<1> DEFINE n == Len(path)
<1>0. /\ DOMAIN path = 1..n /\ n \in Nat
      /\ \A k \in DOMAIN path : path[k] \in Segments
  BY Elements DEF ControlOK, PathOK
<1>a. /\ Segment # "end" => uIndex <= n
      /\ Segment = "end" => uIndex > n
      /\ uIndex \in Nat \ {0} /\ uCommandIndex \in Nat \ {0}
      /\ m_uCommandIndex \in Nat \ {0} /\ n <= MaxSegments
  <2>1. "end" \notin Segments
    BY DEF Segments
  <2> QED  BY <1>0, <2>1, MaxSegmentsNat DEF Segment, ControlOK, PathOK, IndexesOK
<1> USE DEF pathVars, loopVars, resultVars
<1>1. CASE NextCommand
  <2>1. PathOK' /\ uCommandIndex' \in 1..(Len(path') + 2)
    <3>1. CASE UNCHANGED <<path, budget, uCommandIndex>>
      BY <1>1, <3>1 DEF NextCommand, ControlOK, PathOK, IndexesOK
    <3>2. CASE path' \in Paths(budget) /\ budget' = budget - Len(path') /\ uCommandIndex' = 1
      <4>1. path' \in Seq(Segments) /\ Len(path') \in 1..budget
        BY <3>2, PathIsSeq DEF ControlOK, PathOK
      <4> QED  BY <1>1, <3>2, <4>1, MaxSegmentsNat DEF NextCommand, ControlOK, PathOK
    <3> QED  BY <1>1, <3>1, <3>2 DEF NextCommand
  <2>2. FlagsOK'
    BY <1>1 DEF NextCommand, ControlOK, FlagsOK, AnswerIsLast, RoutesAfterSuccess
  <2>3. IndexesOK'
    BY <1>1, <2>1 DEF NextCommand, ControlOK, IndexesOK, Positions, InHandler
  <2> QED  BY <2>1, <2>2, <2>3 DEF ControlOK
<1>2. CASE UNCHANGED vars
  BY <1>2 DEF vars, ControlOK, PathOK, FlagsOK, IndexesOK, Positions, AnswerIsLast,
              RoutesAfterSuccess
<1>3. CASE Next /\ ~NextCommand
  <2>1. UNCHANGED pathVars
    BY <1>3
    DEF Next, Prepare, Dispatch, RunReturn, HandlerReturn, Answer, DbNoDatabase, DbSkip,
        DbExecute, DbUnknown, DbEnd, SqlSkip, SqlExecute, SqlUnknown, SqlEnd, SysSkip,
        SysGroup, SysMeta, SysUnknown, SysMetaAlone, SysEnd, InnerExecute, InnerEnd
  <2>2. PathOK'
    BY <2>1 DEF ControlOK, PathOK
  <2>3. FlagsOK'
    <3> USE DEF ControlOK, FlagsOK, AnswerIsLast, RoutesAfterSuccess, InHandler
    <3>1. CASE Prepare \/ Dispatch \/ RunReturn \/ HandlerReturn \/ Answer
      BY <3>1 DEF Prepare, Dispatch, RunReturn, HandlerReturn, Answer
    <3>2. CASE DbNoDatabase \/ DbSkip \/ DbUnknown \/ DbEnd \/ SqlSkip \/ SqlUnknown \/ SqlEnd
      BY <3>2 DEF DbNoDatabase, DbSkip, DbUnknown, DbEnd, SqlSkip, SqlUnknown, SqlEnd, Return
    <3>3. CASE DbExecute \/ SqlExecute \/ InnerExecute
      BY <3>3 DEF DbExecute, SqlExecute, InnerExecute, Execute
    <3>4. CASE SysSkip \/ SysGroup \/ SysMeta \/ SysUnknown \/ SysMetaAlone \/ SysEnd
      BY <3>4
      DEF SysSkip, SysGroup, SysMeta, SysUnknown, SysMetaAlone, SysEnd, Return, Segments
    <3>5. CASE InnerEnd
      BY <3>5 DEF InnerEnd
    <3> QED  BY <1>3, <3>1, <3>2, <3>3, <3>4, <3>5 DEF Next
  <2>4. IndexesOK'
    <3> SUFFICES /\ uCommandIndex' \in 1..(n + 2)
                 /\ m_uCommandIndex' \in 1..(MaxSegments + 1)
                 /\ uIndex' \in 1..(MaxSegments + 2)
                 /\ pc' \in InHandler => m_uCommandIndex' <= n + 1
                 /\ pc' \in {"db", "sql", "inner"} => uIndex' <= n + 1
                 /\ pc' \in {"sys", "return"} => uIndex' <= n + 2
      BY <2>1 DEF IndexesOK, Positions
    <3>a. /\ uCommandIndex <= n + 2
          /\ m_uCommandIndex <= MaxSegments + 1 /\ uIndex <= MaxSegments + 2
          /\ pc \in InHandler => m_uCommandIndex <= n + 1
          /\ pc \in {"db", "sql", "inner"} => uIndex <= n + 1
          /\ pc \in {"sys", "return"} => uIndex <= n + 2
      BY <1>0, <1>a, MaxSegmentsNat DEF ControlOK, IndexesOK, Positions
    <3> USE MaxSegmentsNat DEF InHandler
    <3> HIDE DEF n
    <3>1. CASE Prepare \/ RunReturn \/ HandlerReturn \/ Answer
      BY <1>0, <1>a, <3>1, <3>a DEF Prepare, RunReturn, HandlerReturn, Answer
    <3>2. CASE Dispatch
      BY <1>0, <1>a, <3>2, <3>a DEF Dispatch, n
    <3>3. CASE DbNoDatabase \/ DbSkip \/ DbUnknown \/ DbEnd \/ SqlSkip \/ SqlUnknown \/ SqlEnd
      BY <1>0, <1>a, <3>3, <3>a
      DEF DbNoDatabase, DbSkip, DbUnknown, DbEnd, SqlSkip, SqlUnknown, SqlEnd, Return
    <3>4. CASE DbExecute \/ SqlExecute \/ InnerExecute
      <4>1. Segment # "end"
        <5>1. "end" \notin inner
          BY DEF ControlOK, FlagsOK, Segments
        <5> QED  BY <3>4, <5>1 DEF DbExecute, SqlExecute, InnerExecute
      <4> QED  BY <1>0, <1>a, <3>4, <3>a, <4>1 DEF DbExecute, SqlExecute, InnerExecute
    <3>5. CASE SysSkip \/ SysGroup \/ SysMeta \/ SysUnknown \/ SysMetaAlone \/ SysEnd
      <4>1. UNCHANGED <<uCommandIndex, m_uCommandIndex>> /\ pc = "sys"
        BY <3>5 DEF SysSkip, SysGroup, SysMeta, SysUnknown, SysMetaAlone, SysEnd
      <4>2. CASE SysSkip
        BY <1>0, <1>a, <3>a, <4>1, <4>2 DEF SysSkip
      <4>3. CASE SysGroup
        BY <1>0, <1>a, <3>a, <4>1, <4>3 DEF SysGroup
      <4>4. CASE SysMeta
        <5>1. uIndex < n /\ uIndex' \in {uIndex + 1, uIndex + 2} /\ pc' = "inner"
          BY <4>4 DEF SysMeta, n
        <5> QED  BY <1>0, <1>a, <3>a, <4>1, <5>1
      <4>5. CASE SysUnknown \/ SysMetaAlone \/ SysEnd
        BY <1>0, <1>a, <3>a, <4>1, <4>5 DEF SysUnknown, SysMetaAlone, SysEnd, Return
      <4> QED  BY <3>5, <4>2, <4>3, <4>4, <4>5
    <3>6. CASE InnerEnd
      <4>1. /\ pc = "inner" /\ uCommandIndex' = uCommandIndex /\ m_uCommandIndex' = uIndex
            /\ \/ uIndex' = uIndex + 1 /\ pc' = "sys"
               \/ uIndex' = uIndex /\ pc' = "return"
        BY <3>6 DEF InnerEnd
      <4> QED  BY <1>0, <1>a, <3>a, <4>1
    <3> QED  BY <1>3, <3>1, <3>2, <3>3, <3>4, <3>5, <3>6 DEF Next
  <2> QED  BY <2>2, <2>3, <2>4 DEF ControlOK
<1> QED  BY <1>1, <1>2, <1>3

-----------------------------------------------------------------------------

LEMMA RouterInvInit == Init => RouterInv
<1> SUFFICES ASSUME Init PROVE RouterInv
  OBVIOUS
<1>1. DOMAIN executed = {} /\ DOMAIN m_objects = {} /\ DOMAIN m_tableBody = {}
  BY DEF Init
<1>2. ObjectsAreMade /\ RowsAreReleased /\ ReleasedBetweenHandlers /\ DbFailureEnds
  BY <1>1 DEF ObjectsAreMade, RowsAreReleased, ReleasedBetweenHandlers, DbFailureEnds
<1> QED  BY <1>2, ControlInit, Parts DEF RouterInv

LEMMA RouterInvNext == RouterInv /\ [Next]_vars => RouterInv'
<1> SUFFICES ASSUME RouterInv, [Next]_vars PROVE RouterInv'
  OBVIOUS
<1>0. /\ ControlOK /\ ResultsOK /\ ObjectsAreMade /\ RowsAreReleased
      /\ ReleasedBetweenHandlers /\ DbFailureEnds
  BY Parts DEF RouterInv
<1>1. ControlOK'
  BY <1>0, ControlNext
<1> SUFFICES /\ ResultsOK' /\ ObjectsAreMade' /\ RowsAreReleased'
             /\ ReleasedBetweenHandlers' /\ DbFailureEnds'
  <2>1. (TypeOK /\ Positions /\ AnswerIsLast /\ RoutesAfterSuccess
             <=> ControlOK /\ ResultsOK)'
    BY DEF TypeOK, ControlOK, PathOK, FlagsOK, IndexesOK, ResultsOK, Commands, InHandler
  <2> QED  BY <1>1, <2>1 DEF RouterInv
<1> USE DEF resultVars
<1>2. ASSUME NEW handler \in {"db", "sys", "sql"}, Execute(handler),
             pc \in {"db", "sql", "inner"},
             pc' = pc \/ pc' = "return",
             handler = "db" /\ ~result_' => pc' = "return"
      PROVE  /\ ResultsOK' /\ ObjectsAreMade' /\ RowsAreReleased'
             /\ ReleasedBetweenHandlers' /\ DbFailureEnds'
  <2>1. /\ ResultsOK' /\ ObjectsAreMade' /\ RowsAreReleased' /\ result_' \in BOOLEAN
        /\ DOMAIN executed' = 1..(Len(executed) + 1)
        /\ DOMAIN executed = 1..Len(executed) /\ Len(executed) \in Nat
        /\ Len(executed') = Len(executed) + 1
        /\ \A n \in DOMAIN executed : executed'[n] = executed[n]
        /\ executed'[Len(executed) + 1].handler = handler
        /\ executed'[Len(executed) + 1].ok = result_'
    BY <1>0, <1>2, ExecuteKeepsOwners
  <2>2. ReleasedBetweenHandlers'
    BY <1>2 DEF ReleasedBetweenHandlers
  <2>3. DbFailureEnds'
    <3> SUFFICES ASSUME NEW n \in DOMAIN executed',
                        executed'[n].handler = "db", ~executed'[n].ok
                 PROVE  n = Len(executed') /\ ~result_' /\ pc' = "return"
      BY DEF DbFailureEnds
    <3>1. n \notin DOMAIN executed
      BY <1>0, <1>2, <2>1 DEF DbFailureEnds
    <3>2. n = Len(executed) + 1
      BY <2>1, <3>1
    <3> QED  BY <1>2, <2>1, <3>2
  <2> QED  BY <2>1, <2>2, <2>3
<1>3. CASE DbExecute
  BY <1>2, <1>3 DEF DbExecute
<1>4. CASE SqlExecute
  BY <1>2, <1>4 DEF SqlExecute
<1>5. CASE InnerExecute
  BY <1>2, <1>5 DEF InnerExecute
<1>6. CASE HandlerReturn /\ result_
  <2>1. /\ AddTransfer /\ executed' = executed /\ result_' = result_
        /\ pc = "return" /\ pc' = "route"
    BY <1>6 DEF HandlerReturn
  <2>2. /\ ResultsOK' /\ ObjectsAreMade' /\ RowsAreReleased'
        /\ \A k \in DOMAIN m_objects' : ~m_objects'[k].held
    BY <1>0, <2>1, TransferKeepsOwners
  <2>3. DbFailureEnds'
    BY <1>0, <1>6, <2>1 DEF DbFailureEnds
  <2> QED  BY <2>2, <2>3 DEF ReleasedBetweenHandlers
<1>7. ASSUME UNCHANGED resultVars,
             pc' \in {"prepare", "route", "ran", "answered"} /\ result_' =>
                 result_ /\ pc \in {"prepare", "route", "ran", "answered"},
             ~result_ /\ pc \in {"return", "ran", "answered"} =>
                 ~result_' /\ pc' \in {"return", "ran", "answered"}
      PROVE  /\ ResultsOK' /\ ObjectsAreMade' /\ RowsAreReleased'
             /\ ReleasedBetweenHandlers' /\ DbFailureEnds'
  <2>1. ResultsOK' /\ ObjectsAreMade' /\ RowsAreReleased'
    BY <1>0, <1>7 DEF ResultsOK, ObjectsAreMade, RowsAreReleased
  <2>2. ReleasedBetweenHandlers' /\ DbFailureEnds'
    BY <1>0, <1>7 DEF ReleasedBetweenHandlers, DbFailureEnds
  <2> QED  BY <2>1, <2>2
<1>8. CASE HandlerReturn /\ ~result_
  BY <1>7, <1>8 DEF HandlerReturn
<1>9. CASE Prepare \/ Dispatch \/ RunReturn \/ NextCommand \/ Answer
  <2>1. pc \in {"prepare", "route"} => result_
    BY <1>0 DEF ControlOK, FlagsOK, RoutesAfterSuccess
  <2>2. /\ pc' \in {"prepare", "route", "ran", "answered"} /\ result_' =>
            result_ /\ pc \in {"prepare", "route", "ran", "answered"}
        /\ ~result_ /\ pc \in {"return", "ran", "answered"} =>
            ~result_' /\ pc' \in {"return", "ran", "answered"}
    BY <1>9, <2>1 DEF Prepare, Dispatch, RunReturn, NextCommand, Answer
  <2>3. UNCHANGED resultVars
    BY <1>9 DEF Prepare, Dispatch, RunReturn, NextCommand, Answer
  <2> QED  BY <1>7, <2>2, <2>3
<1>10. CASE \/ DbNoDatabase \/ DbSkip \/ DbUnknown \/ DbEnd \/ SqlSkip \/ SqlUnknown \/ SqlEnd
            \/ SysSkip \/ SysGroup \/ SysMeta \/ SysUnknown \/ SysMetaAlone \/ SysEnd
            \/ InnerEnd
  <2>1. /\ pc \in {"db", "sql", "sys", "inner"} /\ UNCHANGED resultVars
        /\ pc' \in {"db", "sql", "sys", "inner", "return"}
    BY <1>10
    DEF DbNoDatabase, DbSkip, DbUnknown, DbEnd, SqlSkip, SqlUnknown, SqlEnd, SysSkip,
        SysGroup, SysMeta, SysUnknown, SysMetaAlone, SysEnd, InnerEnd, Return
  <2> QED  BY <1>7, <2>1
<1>11. CASE UNCHANGED vars
  BY <1>7, <1>11 DEF vars
<1> QED
  BY <1>3, <1>4, <1>5, <1>6, <1>8, <1>9, <1>10, <1>11 DEF Next

\* The inductive invariant of CRouter::Run, RunXml and the handlers' loops.
THEOREM RouterInvariant == Spec => []RouterInv
  BY RouterInvInit, RouterInvNext, PTL DEF Spec

\* Every position stays within one past the path of the command, or two, and
\* every object and row names a command that has run.
THEOREM RouterTypeCorrect == Spec => []TypeOK
<1>1. RouterInv => TypeOK
  BY DEF RouterInv
<1> QED  BY RouterInvariant, <1>1, PTL

\* An object is owned by the context or by one row of the response, however
\* often its pointer is transferred (CDTOResponse::AddTransfer).
THEOREM EveryObjectHasOneOwner == Spec => []OneOwner
<1>1. ASSUME RouterInv PROVE OneOwner
  <2>1. ResultsOK /\ ObjectsAreMade /\ RowsAreReleased
    BY <1>1, Parts DEF RouterInv
  <2>2. \A k \in DOMAIN m_objects : m_objects[k].by # 0
    <3>1. \A k \in DOMAIN m_objects : m_objects[k] \in [by : DOMAIN executed, held : BOOLEAN]
      BY <2>1, Elements DEF ResultsOK
    <3>2. 0 \notin DOMAIN executed
      BY <2>1, Elements DEF ResultsOK
    <3> QED  BY <3>1, <3>2
  <2>3. ASSUME NEW j \in DOMAIN m_tableBody, NEW k \in DOMAIN m_objects, m_objects[k].held
        PROVE  m_objects[k].by # m_tableBody[j]
    BY <2>1, <2>2, <2>3 DEF ObjectsAreMade, RowsAreReleased
  <2> QED  BY <2>1, <2>3 DEF RowsAreReleased, OneOwner
<1> QED  BY RouterInvariant, <1>1, PTL

\* The response to a request that succeeds holds every object its commands
\* have made, over all the commands of a document (CRouter::RunXml).
THEOREM EverythingMadeIsAnswered == Spec => []NothingMadeIsLost
<1>1. ASSUME RouterInv PROVE NothingMadeIsLost
  <2> SUFFICES ASSUME reply = "ok", result_, NEW n \in DOMAIN executed, executed[n].made
               PROVE  \E j \in DOMAIN m_tableBody : m_tableBody[j] = n
    BY DEF NothingMadeIsLost
  <2>1. pc = "answered"
    BY <1>1 DEF RouterInv, AnswerIsLast
  <2>2. PICK k \in DOMAIN m_objects : m_objects[k].by = n
    BY <1>1 DEF RouterInv, ObjectsAreMade
  <2>3. ~m_objects[k].held
    BY <1>1, <2>1 DEF RouterInv, ReleasedBetweenHandlers
  <2> QED  BY <1>1, <2>2, <2>3 DEF RouterInv, RowsAreReleased
<1> QED  BY RouterInvariant, <1>1, PTL

\* After a database command that failed the request runs no other command
\* (CAPIDatabase::Execute, CRouter::Run and RunXml).
THEOREM NothingAfterDbFailure == Spec => []FailedDbCommandIsLast
<1>1. RouterInv => FailedDbCommandIsLast
  BY DEF RouterInv, DbFailureEnds, FailedDbCommandIsLast
<1> QED  BY RouterInvariant, <1>1, PTL
=============================================================================
