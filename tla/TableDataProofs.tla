-------------------------- MODULE TableDataProofs --------------------------
(***************************************************************************)
(* Proofs about TableData for tables without a footer, for any values,     *)
(* names and bounds: a key names one row, a key that is gone does not come *)
(* back, rows are as wide as the columns, CountValue counts what           *)
(* CELLGetValue returns, GetData is sorted and shows those cells, and      *)
(* ReadObjects puts each object in a row of its own.  What a loop of the   *)
(* code computes is a recursive function, and what its turns keep is shown *)
(* by induction on a set of numbers (EveryIndex, LoopRuns, LoopKeeps).     *)
(* Bodies is the set of the bodies a table may have; the lemmas say which  *)
(* operations on arrays stay in it, then what each action of the module    *)
(* does to it.                                                             *)
(***************************************************************************)
EXTENDS TableData, SequenceTheorems, WellFoundedInduction, TLAPS

\* The rows of a body have n elements and their keys are in a set.
RowsOf(body, n, keys) ==
    \A i \in 1..Len(body) : Len(body[i]) = n /\ Key(body[i]) \in keys

OneRowForKey(body) ==
    \A i, j \in 1..Len(body) : Key(body[i]) = Key(body[j]) => i = j

\* The bodies of at most iNextKey rows.
Bodies(n, iNextKey, keys) ==
    {body \in Seq(Seq(Int)) :
        Len(body) <= iNextKey /\ RowsOf(body, n, keys) /\ OneRowForKey(body)}

\* The keys given while the next key goes from one to another.
KeysFrom(k, m) == k..(m - 1)

Column == [id : Names \cup {NoName}, hide : BOOLEAN, sort : {-1, 0, 1}]

\* A position is the place of a column that exists.
IndexFits ==
    m_aColumnIndex # NoIndex =>
        m_aColumnIndex \in Seq(0..(Len(m_aColumn) - 1))

SizesFit ==
    /\ m_iHeaderSize \in Nat
    /\ m_iFooterSize = 0

\* At most one column is marked for sorting.
OneSorted(column) ==
    \A c, d \in 1..Len(column) : column[c].sort # 0 /\ column[d].sort # 0 => c = d

TableInv ==
    /\ m_aColumn \in Seq(Column)
    /\ OneSorted(m_aColumn)
    /\ m_iNextKey \in Nat
    /\ m_aBody \in Bodies(Len(m_aColumn) + 1, m_iNextKey, KeysFrom(0, m_iNextKey))
    /\ IndexFits
    /\ SizesFit

-----------------------------------------------------------------------------

\* Where Array.splice begins.
Cut(s, start) ==
    IF start < 0
    THEN IF Len(s) + start < 0 THEN 0 ELSE Len(s) + start
    ELSE IF start > Len(s) THEN Len(s) ELSE start

\* r is s with n elements from at on replaced by items.
IsSpliced(r, s, at, n, items) ==
    /\ at \in 0..Len(s)
    /\ Len(r) = at + Len(items) + (IF at + n < Len(s) THEN Len(s) - at - n ELSE 0)
    /\ \A j \in 1..Len(r) :
         r[j] = IF j <= at THEN s[j]
                ELSE IF j <= at + Len(items) THEN items[j - at]
                ELSE s[j - Len(items) + n]

\* What Array.splice returns, wherever its start leads.
LEMMA SpliceYields ==
    ASSUME NEW T, NEW s \in Seq(T), NEW start \in Int, NEW n \in Nat,
           NEW items \in Seq(T)
    PROVE  /\ Splice(s, start, n, items) \in Seq(T)
           /\ IsSpliced(Splice(s, start, n, items), s, Cut(s, start), n, items)
<1> DEFINE at == Cut(s, start)
           rest == IF at + n < Len(s) THEN Len(s) - at - n ELSE 0
           front == SubSeq(s, 1, at)
           back == SubSeq(s, at + 1 + n, Len(s))
           r == Splice(s, start, n, items)
<1>1. at \in 0..Len(s) /\ Len(s) \in Nat
  BY LenProperties DEF Cut
<1>2. r = (front \o items) \o back
  BY DEF Splice, Cut
<1> HIDE DEF at, r
<1>3. /\ front \in Seq(T) /\ Len(front) = at
      /\ \A j \in 1..at : front[j] = s[j]
  BY <1>1
<1>4. /\ back \in Seq(T) /\ Len(back) = rest
      /\ \A j \in 1..rest : back[j] = s[at + n + j]
  BY <1>1
<1> HIDE DEF front, back, rest
<1>5. rest \in Nat
  BY <1>1 DEF rest
<1>6. r \in Seq(T) /\ Len(r) = at + Len(items) + rest
  <2>1. front \o items \in Seq(T) /\ Len(front \o items) = at + Len(items)
    BY <1>3, ConcatProperties
  <2> QED  BY <1>2, <1>4, <2>1, ConcatProperties
<1>7. ASSUME NEW j \in 1..Len(r)
      PROVE  r[j] = IF j <= at THEN s[j]
                    ELSE IF j <= at + Len(items) THEN items[j - at]
                    ELSE s[j - Len(items) + n]
  <2> DEFINE m == front \o items
  <2>1. m \in Seq(T) /\ Len(m) = at + Len(items) /\ Len(items) \in Nat
    BY <1>1, <1>3
  <2>2. \A i \in 1..Len(m) : m[i] = IF i <= at THEN s[i] ELSE items[i - at]
    BY <1>1, <1>3
  <2>3. r[j] = IF j <= Len(m) THEN m[j] ELSE back[j - Len(m)]
    BY <1>2, <1>4, <1>6, <2>1, SMTT(30)
  <2> HIDE DEF m
  <2>4. CASE j <= Len(m)
    BY <2>1, <2>2, <2>3, <2>4, <1>1
  <2>5. CASE j > Len(m)
    <3>1. j - Len(m) \in 1..rest
      BY <2>1, <2>5, <1>1, <1>5, <1>6
    <3>2. r[j] = s[at + n + (j - Len(m))]
      BY <3>1, <2>3, <2>5, <1>4, <2>1
    <3>3. /\ ~(j <= at) /\ ~(j <= at + Len(items))
          /\ at + n + (j - Len(m)) = j - Len(items) + n
      BY <2>1, <2>5, <1>1
    <3> QED  BY <3>2, <3>3
  <2> QED  BY <2>4, <2>5, <2>1, <1>1
<1> QED  BY <1>1, <1>6, <1>7 DEF at, rest, r, IsSpliced
-----------------------------------------------------------------------------
(* Loops.                                                                  *)

\* Induction on the natural numbers, as a statement on a set.
LEMMA EveryIndex ==
    ASSUME NEW P \in SUBSET Nat, 0 \in P, \A n \in P : n + 1 \in P
    PROVE  P = Nat
<1> DEFINE Rest == Nat \ P
<1>1. SUFFICES ASSUME Rest # {}
               PROVE  FALSE
  OBVIOUS
<1>2. \E n \in Rest : \A m \in Rest : ~(<<m, n>> \in OpToRel(<, Nat))
  BY <1>1, NatLessThanWellFounded, WFMin
<1>3. PICK n \in Rest : \A m \in Rest : ~(m < n)
  BY <1>2 DEF OpToRel
<1>4. n # 0 /\ n - 1 \in Nat /\ n - 1 < n /\ (n - 1) + 1 = n
  OBVIOUS
<1>5. n - 1 \in P
  BY <1>3, <1>4
<1> QED  BY <1>3, <1>4, <1>5

\* The states of a loop of n turns.
LoopOf(n, S, start, turn, f) ==
    /\ f \in [0..n -> S]
    /\ \A i \in 0..n : f[i] = IF i = 0 THEN start ELSE turn[<<i, f[i - 1]>>]

\* A loop of n turns that starts in a set and whose turns stay in it has a
\* state after every turn.
LEMMA LoopRuns ==
    ASSUME NEW n \in Nat, NEW S, NEW start \in S, NEW turn \in [(1..n) \X S -> S]
    PROVE  \E f : LoopOf(n, S, start, turn, f)
<1> DEFINE Runs(k) ==
        \E f \in [0..k -> S] :
            \A i \in 0..k : f[i] = IF i = 0 THEN start ELSE turn[<<i, f[i - 1]>>]
           P == {k \in Nat : k <= n => Runs(k)}
<1>1. 0 \in P
  <2>1. Runs(0)
    <3>1. [i \in 0..0 |-> start] \in [0..0 -> S]
      OBVIOUS
    <3>2. \A i \in 0..0 : i = 0
      OBVIOUS
    <3> QED  BY <3>1, <3>2
  <2> QED  BY <2>1
<1>2. ASSUME NEW k \in P
      PROVE  k + 1 \in P
  <2>1. SUFFICES ASSUME k + 1 <= n
                 PROVE  Runs(k + 1)
    OBVIOUS
  <2>2. PICK f \in [0..k -> S] :
           \A i \in 0..k : f[i] = IF i = 0 THEN start ELSE turn[<<i, f[i - 1]>>]
    BY <2>1
  <2> DEFINE g == [i \in 0..(k + 1) |->
                      IF i = k + 1 THEN turn[<<k + 1, f[k]>>] ELSE f[i]]
  <2>3. turn[<<k + 1, f[k]>>] \in S
    BY <2>1
  <2>4. g \in [0..(k + 1) -> S]
    BY <2>3
  <2>5. ASSUME NEW i \in 0..(k + 1)
        PROVE  g[i] = IF i = 0 THEN start ELSE turn[<<i, g[i - 1]>>]
    <3>1. CASE i = k + 1
      <4>1. g[k + 1] = turn[<<k + 1, f[k]>>] /\ g[k] = f[k]
        OBVIOUS
      <4>2. i # 0 /\ i - 1 = k
        BY <3>1
      <4> HIDE DEF g
      <4> QED  BY <3>1, <4>1, <4>2
    <3>2. CASE i # k + 1
      <4>1. i \in 0..k /\ g[i] = f[i] /\ (i # 0 => i - 1 \in 0..k /\ g[i - 1] = f[i - 1])
        BY <3>2
      <4> QED  BY <2>2, <4>1
    <3> QED  BY <3>1, <3>2
  <2> QED  BY <2>4, <2>5
<1>3. P = Nat
  <2> HIDE DEF P
  <2>1. P \in SUBSET Nat
    BY DEF P
  <2> QED  BY <1>1, <1>2, <2>1, EveryIndex
<1>4. Runs(n)
  BY <1>3
<1> QED  BY <1>4 DEF LoopOf

\* What holds at the start of a loop and is kept by every turn holds after
\* every turn; S says what may hold after each.
LEMMA LoopKeeps ==
    ASSUME NEW n \in Nat, NEW S, NEW f, f[0] \in S[0],
           \A i \in 1..n : f[i - 1] \in S[i - 1] => f[i] \in S[i]
    PROVE  \A i \in 0..n : f[i] \in S[i]
<1> DEFINE P == {k \in Nat : k <= n => f[k] \in S[k]}
<1>1. 0 \in P
  OBVIOUS
<1>2. ASSUME NEW k \in P
      PROVE  k + 1 \in P
  <2>1. k + 1 <= n => k + 1 \in 1..n /\ (k + 1) - 1 = k /\ k <= n
    OBVIOUS
  <2> QED  BY <2>1
<1>3. P = Nat
  <2> HIDE DEF P
  <2>1. P \in SUBSET Nat
    BY DEF P
  <2> QED  BY <1>1, <1>2, <2>1, EveryIndex
<1> QED  BY <1>3

-----------------------------------------------------------------------------
(* Looking for a row or a column.                                          *)

\* Min of a set of numbers is one of them.
LEMMA FirstOf ==
    ASSUME NEW S \in SUBSET Nat, S # {}
    PROVE  Min(S) \in S
<1>1. \E x \in S : \A y \in S : ~(<<y, x>> \in OpToRel(<, Nat))
  BY NatLessThanWellFounded, WFMin
<1>2. PICK x \in S : \A y \in S : ~(y < x)
  BY <1>1 DEF OpToRel
<1>3. \A y \in S : x <= y
  BY <1>2
<1> QED  BY <1>3 DEF Min

\* Max of some positions of a sequence is the last of them.
LEMMA LastOf ==
    ASSUME NEW n \in Nat, NEW S \in SUBSET (1..n), S # {}
    PROVE  Max(S) \in S /\ \A x \in S : x <= Max(S)
<1> DEFINE B == {k \in Nat : \A y \in S : y <= k}
<1>1. B \in SUBSET Nat /\ n \in B
  OBVIOUS
<1>2. \E k \in B : \A y \in B : ~(<<y, k>> \in OpToRel(<, Nat))
  <2> HIDE DEF B
  <2> QED  BY <1>1, NatLessThanWellFounded, WFMin
<1>3. PICK k \in B : \A y \in B : ~(y < k)
  BY <1>2 DEF OpToRel
<1>4. k \in S
  <2>1. SUFFICES ASSUME k \notin S
                 PROVE  FALSE
    OBVIOUS
  <2>2. k # 0 /\ k - 1 \in Nat /\ k - 1 < k
    <3>1. PICK y \in S : TRUE
      OBVIOUS
    <3>2. y \in 1..n /\ y <= k /\ k \in Nat
      BY <3>1
    <3> QED  BY <3>2
  <2>3. \A y \in S : y \in Nat /\ y <= k /\ y # k
    BY <2>1
  <2>4. \A y \in S : y <= k - 1
    BY <2>2, <2>3
  <2> QED  BY <1>3, <2>2, <2>4
<1>5. \E x \in S : \A y \in S : x >= y
  BY <1>4
<1>6. Max(S) \in S /\ \A y \in S : Max(S) >= y
  BY <1>5 DEF Max
<1> QED  BY <1>6

\* _row answers None or the position of a row with that key.
LEMMA RowFound ==
    ASSUME NEW body \in Seq(Seq(Int)), NEW iKey \in Nat
    PROVE  /\ _row(body, iKey) \in -1..(Len(body) - 1)
           /\ _row(body, iKey) # None => Key(body[_row(body, iKey) + 1]) = iKey
           /\ iKey \in Keys(body) => _row(body, iKey) # None
<1> DEFINE I == {i \in 1..Len(body) : Key(body[i]) = iKey}
<1>1. I \in SUBSET Nat
  OBVIOUS
<1>2. I # {} => Min(I) \in I
  <2> HIDE DEF I
  <2> QED  BY <1>1, FirstOf
<1>3. SelectInSeq(body, LAMBDA row : Key(row) = iKey) = IF I # {} THEN Min(I) ELSE 0
  BY DEF SelectInSeq
<1>4. iKey \in Keys(body) => I # {}
  BY DEF Keys
<1> QED  BY <1>2, <1>3, <1>4 DEF _row, None

\* _indexOfName answers None or the place of a column of that name.
LEMMA ColumnFound ==
    ASSUME NEW column \in Seq(Column), NEW sName
    PROVE  /\ _indexOfName(column, sName) \in -1..(Len(column) - 1)
           /\ (\E i \in DOMAIN column : column[i].id = sName)
                <=> _indexOfName(column, sName) # None
           /\ _indexOfName(column, sName) # None =>
                column[_indexOfName(column, sName) + 1].id = sName
<1> DEFINE I == {i \in 1..Len(column) : column[i].id = sName}
<1>1. I \in SUBSET (1..Len(column)) /\ Len(column) \in Nat
  OBVIOUS
<1>2. I # {} => Max(I) \in I
  <2> HIDE DEF I
  <2> QED  BY <1>1, LastOf
<1>3. SelectLastInSeq(column, LAMBDA c : c.id = sName) = IF I # {} THEN Max(I) ELSE 0
  BY DEF SelectLastInSeq
<1>4. (\E i \in DOMAIN column : column[i].id = sName) <=> I # {}
  OBVIOUS
<1> QED  BY <1>2, <1>3, <1>4 DEF _indexOfName, None

-----------------------------------------------------------------------------
(* Bodies.                                                                 *)

\* A function on the first n positions is a sequence.
LEMMA FunctionIsSequence ==
    ASSUME NEW S, NEW n \in Nat, NEW r \in [1..n -> S]
    PROVE  r \in Seq(S) /\ Len(r) = n
  OBVIOUS

\* What it takes to be a body.
LEMMA BodyRows ==
    ASSUME NEW n, NEW k, NEW K, NEW body \in Bodies(n, k, K)
    PROVE  /\ body \in Seq(Seq(Int)) /\ Len(body) \in Nat /\ Len(body) <= k
           /\ DOMAIN body = 1..Len(body)
           /\ RowsOf(body, n, K)
           /\ OneRowForKey(body)
  BY DEF Bodies

\* What it takes to make a body.
LEMMA BodyOf ==
    ASSUME NEW n, NEW k, NEW K, NEW body \in Seq(Seq(Int)), Len(body) <= k,
           RowsOf(body, n, K), OneRowForKey(body)
    PROVE  body \in Bodies(n, k, K)
  BY DEF Bodies

\* More keys and more rows may be allowed.
LEMMA BodyWidens ==
    ASSUME NEW n, NEW k \in Int, NEW m \in Int, k <= m, NEW K, NEW L, K \subseteq L,
           NEW body \in Bodies(n, k, K)
    PROVE  body \in Bodies(n, m, L)
<1>1. Len(body) <= m
  BY BodyRows
<1>2. RowsOf(body, n, K)
  BY BodyRows
<1>3. RowsOf(body, n, L)
  BY <1>2 DEF RowsOf
<1> QED  BY <1>1, <1>3, BodyRows, BodyOf

\* A body keeps to the keys it has.
LEMMA BodyOfItsKeys ==
    ASSUME NEW n, NEW k, NEW K, NEW body \in Bodies(n, k, K)
    PROVE  body \in Bodies(n, k, Keys(body))
<1>1. RowsOf(body, n, K) /\ DOMAIN body = 1..Len(body)
  BY BodyRows
<1>2. RowsOf(body, n, Keys(body))
  BY <1>1 DEF RowsOf, Keys
<1> QED  BY <1>2, BodyRows, BodyOf

\* Values may change and columns come, as long as the rows keep their keys.
LEMMA BodyRewritten ==
    ASSUME NEW n, NEW k, NEW K, NEW body \in Bodies(n, k, K),
           NEW m, NEW new \in Seq(Seq(Int)), Len(new) = Len(body),
           \A i \in 1..Len(body) : Len(new[i]) = m /\ Key(new[i]) = Key(body[i])
    PROVE  new \in Bodies(m, k, K)
<1>1. RowsOf(body, n, K) /\ OneRowForKey(body) /\ Len(body) <= k
  BY BodyRows
<1>2. RowsOf(new, m, K)
  BY <1>1 DEF RowsOf
<1>3. OneRowForKey(new)
  BY <1>1 DEF OneRowForKey
<1> QED  BY <1>1, <1>2, <1>3, BodyOf

\* The rows of a body in other places.
LEMMA BodyMoved ==
    ASSUME NEW n, NEW k \in Int, NEW K, NEW body \in Bodies(n, k, K),
           NEW r \in Seq(Seq(Int)), Len(r) <= Len(body),
           NEW from \in [1..Len(r) -> 1..Len(body)],
           \A j \in 1..Len(r) : r[j] = body[from[j]],
           \A i, j \in 1..Len(r) : from[i] = from[j] => i = j
    PROVE  r \in Bodies(n, k, K)
<1>1. RowsOf(body, n, K) /\ OneRowForKey(body) /\ Len(body) <= k
  BY BodyRows
<1>5. ASSUME NEW j \in 1..Len(r)
      PROVE  from[j] \in 1..Len(body) /\ r[j] = body[from[j]]
  OBVIOUS
<1>2. RowsOf(r, n, K)
  <2> SUFFICES ASSUME NEW j \in 1..Len(r)
               PROVE  Len(r[j]) = n /\ Key(r[j]) \in K
    BY DEF RowsOf
  <2>1. PICK i \in 1..Len(body) : r[j] = body[i]
    BY <1>5
  <2> QED  BY <1>1, <2>1 DEF RowsOf
<1>3. OneRowForKey(r)
  <2> SUFFICES ASSUME NEW i \in 1..Len(r), NEW j \in 1..Len(r), Key(r[i]) = Key(r[j])
               PROVE  i = j
    BY DEF OneRowForKey
  <2>1. PICK x \in 1..Len(body) : x = from[i] /\ r[i] = body[x]
    BY <1>5
  <2>2. PICK y \in 1..Len(body) : y = from[j] /\ r[j] = body[y]
    BY <1>5
  <2>3. x = y
    BY <1>1, <2>1, <2>2 DEF OneRowForKey
  <2> QED  BY <2>1, <2>2, <2>3
<1>4. Len(r) <= k
  <2>1. Len(body) \in Nat /\ Len(r) \in Nat
    OBVIOUS
  <2> QED  BY <1>1, <2>1
<1> QED  BY <1>2, <1>3, <1>4, BodyOf

\* Rows that are removed take their keys with them.
LEMMA BodyCut ==
    ASSUME NEW n, NEW k \in Int, NEW K, NEW body \in Bodies(n, k, K),
           NEW start \in Int, NEW iLength \in Nat
    PROVE  Splice(body, start, iLength, <<>>) \in Bodies(n, k, K)
<1> DEFINE at == Cut(body, start)
           r == Splice(body, start, iLength, <<>>)
           from == [j \in 1..Len(r) |-> IF j <= at THEN j ELSE j + iLength]
<1>1. body \in Seq(Seq(Int)) /\ <<>> \in Seq(Seq(Int))
  BY BodyRows
<1>2. r \in Seq(Seq(Int)) /\ IsSpliced(r, body, at, iLength, <<>>)
  BY <1>1, SpliceYields
<1> HIDE DEF at, r
<1>3. Len(body) \in Nat /\ Len(r) \in Nat
  BY <1>1, <1>2
<1>4. /\ at \in 0..Len(body)
      /\ Len(r) = at + (IF at + iLength < Len(body) THEN Len(body) - at - iLength ELSE 0)
  BY <1>2, <1>3 DEF IsSpliced
<1>5. ASSUME NEW j \in 1..Len(r)
      PROVE  from[j] \in 1..Len(body) /\ r[j] = body[from[j]]
  <2>1. CASE j <= at
    BY <1>2, <1>3, <1>4, <2>1 DEF IsSpliced
  <2>2. CASE ~(j <= at)
    <3>1. Len(<<>>) = 0 /\ at + 0 = at /\ j - 0 + iLength = j + iLength
      BY <1>4
    <3>2. r[j] = body[j + iLength]
      BY <1>2, <2>2, <3>1 DEF IsSpliced
    <3> QED  BY <1>3, <1>4, <2>2, <3>2
  <2> QED  BY <2>1, <2>2
<1>6. \A i, j \in 1..Len(r) : from[i] = from[j] => i = j
  BY <1>3, <1>4
<1>7. from \in [1..Len(r) -> 1..Len(body)] /\ Len(r) <= Len(body)
  BY <1>3, <1>4, <1>5
<1> HIDE DEF from
<1>8. \A j \in 1..Len(r) : r[j] = body[from[j]]
  BY <1>5
<1>9. r \in Bodies(n, k, K)
  BY <1>2, <1>6, <1>7, <1>8, BodyMoved, SMTT(30)
<1> QED  BY <1>9 DEF r

\* A row that comes with a key of its own.
LEMMA BodyGrows ==
    ASSUME NEW n, NEW k \in Int, NEW K, NEW body \in Bodies(n, k, K),
           NEW start \in Int, NEW row \in Seq(Int), Len(row) = n, Key(row) \notin K
    PROVE  Splice(body, start, 0, <<row>>) \in Bodies(n, k + 1, K \cup {Key(row)})
<1> DEFINE at == Cut(body, start)
           r == Splice(body, start, 0, <<row>>)
           from == [j \in 1..Len(r) |-> IF j <= at THEN j ELSE j - 1]
<1>1. body \in Seq(Seq(Int)) /\ <<row>> \in Seq(Seq(Int))
  BY BodyRows
<1>2. r \in Seq(Seq(Int)) /\ IsSpliced(r, body, at, 0, <<row>>)
  BY <1>1, SpliceYields
<1> HIDE DEF at, r
<1>3. Len(body) \in Nat /\ Len(r) \in Nat /\ Len(<<row>>) = 1 /\ <<row>>[1] = row
  BY <1>1, <1>2
<1>4. at \in 0..Len(body) /\ Len(r) = Len(body) + 1
  <2>1. /\ at \in 0..Len(body)
        /\ Len(r) = at + 1 + (IF at + 0 < Len(body) THEN Len(body) - at - 0 ELSE 0)
    BY <1>2, <1>3 DEF IsSpliced
  <2>2. Len(body) \in Nat /\ at + 0 = at /\ at - 0 = at
    BY <1>3, <2>1
  <2>3. CASE at = Len(body)
    BY <2>1, <2>2, <2>3
  <2>4. CASE at < Len(body)
    BY <2>1, <2>2, <2>4
  <2>5. at = Len(body) \/ at < Len(body)
    BY <2>1, <2>2
  <2> QED  BY <2>1, <2>3, <2>4, <2>5
<1>5. ASSUME NEW j \in 1..Len(r), j # at + 1
      PROVE  from[j] \in 1..Len(body) /\ r[j] = body[from[j]]
  <2>1. CASE j <= at
    <3>1. r[j] = body[j]
      BY <1>2, <2>1 DEF IsSpliced
    <3> QED  BY <1>3, <1>4, <2>1, <3>1
  <2>2. CASE ~(j <= at)
    <3>1. ~(j <= at + 1) /\ j - 1 + 0 = j - 1
      BY <1>4, <1>5, <2>2
    <3>2. r[j] = body[j - 1]
      BY <1>2, <1>3, <2>2, <3>1 DEF IsSpliced
    <3> QED  BY <1>3, <1>4, <2>2, <3>2, <1>5
  <2> QED  BY <2>1, <2>2
<1>6. r[at + 1] = row
  <2>1. /\ at + 1 \in 1..Len(r) /\ ~(at + 1 <= at) /\ (at + 1) - at = 1
        /\ at + 1 <= at + 1
    BY <1>3, <1>4
  <2> QED  BY <1>2, <1>3, <2>1 DEF IsSpliced
<1>7. \A i, j \in 1..Len(r) : i # at + 1 /\ j # at + 1 /\ from[i] = from[j] => i = j
  BY <1>3, <1>4
<1> HIDE DEF from
<1>8. RowsOf(body, n, K) /\ OneRowForKey(body) /\ Len(body) <= k
  BY BodyRows
<1>9. RowsOf(r, n, K \cup {Key(row)})
  BY <1>5, <1>6, <1>8 DEF RowsOf
<1>10. OneRowForKey(r)
  <2>1. \A j \in 1..Len(r) : j # at + 1 => Key(r[j]) \in K
    BY <1>5, <1>8 DEF RowsOf
  <2>2. ASSUME NEW i \in 1..Len(r), NEW j \in 1..Len(r),
               i # at + 1, j # at + 1, Key(r[i]) = Key(r[j])
        PROVE  i = j
    <3>1. from[i] = from[j]
      BY <1>5, <1>8, <2>2 DEF OneRowForKey
    <3> QED  BY <1>7, <2>2, <3>1
  <2> QED  BY <1>6, <2>1, <2>2 DEF OneRowForKey
<1>11. Len(r) <= k + 1
  BY <1>3, <1>4, <1>8
<1> QED  BY <1>2, <1>9, <1>10, <1>11, BodyOf DEF r

-----------------------------------------------------------------------------
(* New rows and keys.                                                      *)

\* A row under another key is as long.
LEMMA KeyedRow ==
    ASSUME NEW iKey \in Int, NEW row \in Seq(Int), row # <<>>
    PROVE  /\ WithKey(iKey, row) \in Seq(Int)
           /\ Len(WithKey(iKey, row)) = Len(row)
           /\ Key(WithKey(iKey, row)) = iKey
<1>1. Tail(row) \in Seq(Int) /\ Len(Tail(row)) = Len(row) - 1 /\ Len(row) \in Nat
  OBVIOUS
<1>2. <<iKey>> \in Seq(Int) /\ Len(<<iKey>>) = 1 /\ <<iKey>>[1] = iKey
  OBVIOUS
<1>3. /\ <<iKey>> \o Tail(row) \in Seq(Int)
      /\ Len(<<iKey>> \o Tail(row)) = 1 + (Len(row) - 1)
      /\ (<<iKey>> \o Tail(row))[1] = iKey
  BY <1>1, <1>2, ConcatProperties
<1> QED  BY <1>1, <1>3 DEF WithKey, Key

\* Blank rows have room for the key.
LEMMA BlankRows ==
    ASSUME NEW iCount \in Nat, NEW n \in Nat
    PROVE  /\ Blanks(iCount, n) \in Seq(Seq(Int))
           /\ Len(Blanks(iCount, n)) = iCount
           /\ \A i \in 1..iCount : Len(Blanks(iCount, n)[i]) = n + 1
<1>1. Blank(n) \in Seq(Int) /\ Len(Blank(n)) = n + 1
  BY DEF Blank, Undefined
<1>2. Blanks(iCount, n) = [i \in 1..iCount |-> Blank(n)]
  BY DEF Blanks
<1> HIDE DEF Blanks, Blank
<1> QED  BY <1>1, <1>2

\* ROWAppend puts the new rows last, under the next keys.
LEMMA BodyAppended ==
    ASSUME m_iFooterSize = 0, m_iNextKey \in Nat, NEW n \in Nat, n > 0,
           NEW K \in SUBSET KeysFrom(0, m_iNextKey),
           NEW body \in Bodies(n, m_iNextKey, K), NEW aRow \in Seq(Seq(Int)),
           \A i \in 1..Len(aRow) : Len(aRow[i]) = n
    PROVE  /\ Appended(body, aRow)
                \in Bodies(n, m_iNextKey + Len(aRow),
                           K \cup KeysFrom(m_iNextKey, m_iNextKey + Len(aRow)))
           /\ KeysTaken(body, aRow) = Len(aRow)
           /\ Len(Appended(body, aRow)) = Len(body) + Len(aRow)
           /\ \A i \in 1..(Len(body) + Len(aRow)) :
                 IF i <= Len(body) THEN Appended(body, aRow)[i] = body[i]
                 ELSE Key(Appended(body, aRow)[i]) = m_iNextKey + i - (Len(body) + 1)
<1> DEFINE both == body \o aRow
           old == Len(body)
           r == Appended(body, aRow)
           L == K \cup KeysFrom(m_iNextKey, m_iNextKey + Len(aRow))
<1>1. /\ body \in Seq(Seq(Int)) /\ old \in Nat /\ Len(aRow) \in Nat /\ old <= m_iNextKey
      /\ RowsOf(body, n, K) /\ OneRowForKey(body)
  BY BodyRows
<1>2. /\ both \in Seq(Seq(Int)) /\ Len(both) = old + Len(aRow)
      /\ \A i \in 1..(old + Len(aRow)) :
            both[i] = IF i <= old THEN body[i] ELSE aRow[i - old]
  BY <1>1, ConcatProperties
<1>3. r = [i \in 1..Len(both) |->
             IF i < old + 1 THEN both[i]
             ELSE WithKey(m_iNextKey + i - (old + 1), both[i])]
  <2>1. DOMAIN both = 1..Len(both)
    BY <1>2
  <2> QED  BY <2>1 DEF Appended, Rekey
<1> HIDE DEF both, old, r
<1>4. ASSUME NEW i \in 1..Len(both)
      PROVE  /\ r[i] \in Seq(Int)
             /\ Len(r[i]) = n
             /\ i <= old => Key(r[i]) = Key(body[i]) /\ i \in 1..old
             /\ i > old => Key(r[i]) = m_iNextKey + i - (old + 1)
  <2>1. CASE i <= old
    <3>1. i \in 1..old /\ r[i] = body[i] /\ ~(i > old)
      BY <1>1, <1>2, <1>3, <2>1
    <3>2. body[i] \in Seq(Int) /\ Len(body[i]) = n
      BY <1>1, <3>1 DEF RowsOf, old
    <3> QED  BY <3>1, <3>2
  <2>2. CASE i > old
    <3>1. i - old \in 1..Len(aRow) /\ ~(i <= old) /\ m_iNextKey + i - (old + 1) \in Int
      <4>1. i \in 1..(old + Len(aRow)) /\ old \in Nat /\ Len(aRow) \in Nat
        BY <1>1, <1>2
      <4>2. i - old \in 1..Len(aRow) /\ ~(i <= old)
        BY <4>1, <2>2
      <4>3. m_iNextKey + i - (old + 1) \in Int
        BY <4>1
      <4> QED  BY <4>2, <4>3
    <3>2. both[i] = aRow[i - old] /\ r[i] = WithKey(m_iNextKey + i - (old + 1), both[i])
      BY <1>1, <1>2, <1>3, <2>2, <3>1
    <3>3. aRow[i - old] \in Seq(Int) /\ Len(aRow[i - old]) = n
      BY <3>1
    <3>4. aRow[i - old] # <<>>
      BY <3>3
    <3> QED  BY <3>1, <3>2, <3>3, <3>4, KeyedRow
  <2> QED  BY <1>1, <1>2, <2>1, <2>2
<1>5. r \in Seq(Seq(Int)) /\ Len(r) = old + Len(aRow)
  <2>1. Len(both) \in Nat
    BY <1>1, <1>2
  <2>2. r \in [1..Len(both) -> Seq(Int)]
    BY <1>3, <1>4
  <2>3. r \in Seq(Seq(Int)) /\ Len(r) = Len(both)
    BY <2>1, <2>2, FunctionIsSequence
  <2> QED  BY <1>2, <2>3
<1>6. RowsOf(r, n, L)
  <2> SUFFICES ASSUME NEW i \in 1..Len(r)
               PROVE  Len(r[i]) = n /\ Key(r[i]) \in L
    BY DEF RowsOf
  <2>1. i \in 1..Len(both) /\ i \in Int
    BY <1>1, <1>2, <1>5
  <2>2. CASE i <= old
    <3>1. Key(r[i]) = Key(body[i]) /\ i \in 1..Len(body)
      BY <1>4, <2>1, <2>2 DEF old
    <3>2. Key(body[i]) \in K
      BY <1>1, <3>1 DEF RowsOf
    <3> QED  BY <1>4, <2>1, <3>1, <3>2
  <2>3. CASE i > old
    <3>1. m_iNextKey + i - (old + 1) \in KeysFrom(m_iNextKey, m_iNextKey + Len(aRow))
      BY <1>1, <1>2, <2>1, <2>3 DEF KeysFrom
    <3> QED  BY <1>4, <2>1, <2>3, <3>1
  <2> QED  BY <1>1, <2>1, <2>2, <2>3
<1>7. OneRowForKey(r)
  <2> SUFFICES ASSUME NEW i \in 1..Len(r), NEW j \in 1..Len(r), Key(r[i]) = Key(r[j])
               PROVE  i = j
    BY DEF OneRowForKey
  <2>1. i \in 1..Len(both) /\ j \in 1..Len(both) /\ i \in Int /\ j \in Int
    BY <1>1, <1>2, <1>5
  <2>2. \A x \in 1..Len(both) : x <= old => Key(r[x]) \in Int /\ Key(r[x]) < m_iNextKey
    <3> SUFFICES ASSUME NEW x \in 1..Len(both), x <= old
                 PROVE  Key(r[x]) \in Int /\ Key(r[x]) < m_iNextKey
      OBVIOUS
    <3>1. Key(r[x]) = Key(body[x]) /\ x \in 1..Len(body)
      BY <1>4 DEF old
    <3>2. Key(body[x]) \in K
      BY <1>1, <3>1 DEF RowsOf
    <3> QED  BY <3>1, <3>2 DEF KeysFrom
  <2>3. \A x \in 1..Len(both) :
           x > old => Key(r[x]) \in Int /\ Key(r[x]) >= m_iNextKey
                      /\ Key(r[x]) = m_iNextKey + x - (old + 1)
    <3> SUFFICES ASSUME NEW x \in 1..Len(both), x > old
                 PROVE  /\ Key(r[x]) \in Int /\ Key(r[x]) >= m_iNextKey
                        /\ Key(r[x]) = m_iNextKey + x - (old + 1)
      OBVIOUS
    <3>1. Key(r[x]) = m_iNextKey + x - (old + 1)
      BY <1>4
    <3> QED  BY <1>1, <1>2, <3>1
  <2>4. CASE i <= old /\ j <= old
    <3>1. /\ Key(r[i]) = Key(body[i]) /\ i \in 1..Len(body)
          /\ Key(r[j]) = Key(body[j]) /\ j \in 1..Len(body)
      BY <1>4, <2>1, <2>4 DEF old
    <3> QED  BY <1>1, <3>1 DEF OneRowForKey
  <2>5. CASE i > old /\ j > old
    BY <1>1, <2>1, <2>3, <2>5
  <2>6. CASE i <= old /\ j > old
    BY <1>1, <2>1, <2>2, <2>3, <2>6
  <2>7. CASE i > old /\ j <= old
    BY <1>1, <2>1, <2>2, <2>3, <2>7
  <2> QED  BY <1>1, <2>1, <2>4, <2>5, <2>6, <2>7
<1>8. r \in Bodies(n, m_iNextKey + Len(aRow), L)
  <2>1. Len(r) <= m_iNextKey + Len(aRow)
    BY <1>1, <1>5
  <2> HIDE DEF L
  <2> QED  BY <1>5, <1>6, <1>7, <2>1, BodyOf
<1>9. KeysTaken(body, aRow) = Len(aRow)
  BY DEF KeysTaken
<1>10. ASSUME NEW i \in 1..(old + Len(aRow))
       PROVE  IF i <= old THEN r[i] = body[i]
              ELSE Key(r[i]) = m_iNextKey + i - (old + 1)
  <2>1. i \in 1..Len(both) /\ i \in Int
    BY <1>1, <1>2
  <2>2. CASE i <= old
    <3>1. i < old + 1 /\ both[i] = body[i]
      BY <1>1, <1>2, <2>1, <2>2
    <3> QED  BY <1>3, <2>1, <2>2, <3>1
  <2>3. CASE ~(i <= old)
    <3>1. i > old
      BY <1>1, <2>1, <2>3
    <3> QED  BY <1>4, <2>1, <2>3, <3>1
  <2> QED  BY <2>2, <2>3
<1> QED  BY <1>5, <1>8, <1>9, <1>10 DEF r, old

\* ROWInsert puts the new rows in one by one, each with the next key.
LEMMA BodyInserted ==
    ASSUME m_iNextKey \in Nat, NEW n \in Nat, n > 0,
           NEW K \in SUBSET KeysFrom(0, m_iNextKey),
           NEW body \in Bodies(n, m_iNextKey, K), NEW iRow \in Nat,
           NEW aRow \in Seq(Seq(Int)),
           \A i \in 1..Len(aRow) : Len(aRow[i]) = n
    PROVE  Inserted(body, iRow, aRow)
                \in Bodies(n, m_iNextKey + Len(aRow),
                           K \cup KeysFrom(m_iNextKey, m_iNextKey + Len(aRow)))
<1> DEFINE N == Len(aRow)
           S == Seq(Seq(Int))
           at == _row(body, iRow)
           new(i) == <<WithKey(m_iNextKey + i - 1, aRow[i])>>
           turn == [p \in (1..N) \X S |-> Splice(p[2], at + p[1] - 1, 0, new(p[1]))]
           B == [i \in 0..N |-> Bodies(n, m_iNextKey + i,
                                       K \cup KeysFrom(m_iNextKey, m_iNextKey + i))]
<1>1. body \in S /\ N \in Nat /\ at \in Int
  <2>1. body \in S
    BY BodyRows
  <2> QED  BY <2>1, RowFound, SMTT(30)
<1>2. ASSUME NEW i \in 1..N
      PROVE  /\ m_iNextKey + i - 1 \in Int
             /\ WithKey(m_iNextKey + i - 1, aRow[i]) \in Seq(Int)
             /\ Len(WithKey(m_iNextKey + i - 1, aRow[i])) = n
             /\ Key(WithKey(m_iNextKey + i - 1, aRow[i])) = m_iNextKey + i - 1
  <2>1. aRow[i] \in Seq(Int) /\ Len(aRow[i]) = n /\ m_iNextKey + i - 1 \in Int
    OBVIOUS
  <2>2. aRow[i] # <<>>
    BY <2>1
  <2> QED  BY <2>1, <2>2, KeyedRow
<1>3. turn \in [(1..N) \X S -> S]
  <2> SUFFICES ASSUME NEW p \in (1..N) \X S
               PROVE  Splice(p[2], at + p[1] - 1, 0, new(p[1])) \in S
    OBVIOUS
  <2>1. p[1] \in 1..N /\ p[2] \in S /\ at + p[1] - 1 \in Int
    BY <1>1
  <2>2. new(p[1]) \in S
    BY <1>2, <2>1
  <2> HIDE DEF new, at
  <2> QED  BY <2>1, <2>2, SpliceYields
<1> HIDE DEF at, new
<1>4. PICK f \in [0..N -> S] :
         \A i \in 0..N : f[i] = IF i = 0 THEN body ELSE turn[<<i, f[i - 1]>>]
  <2> HIDE DEF turn, N, S
  <2>1. \E f : LoopOf(N, S, body, turn, f)
    BY <1>1, <1>3, LoopRuns
  <2> QED  BY <2>1 DEF LoopOf
<1>5. f = [i \in 0..N |-> IF i = 0 THEN body ELSE Splice(f[i - 1], at + i - 1, 0, new(i))]
  <2>1. ASSUME NEW i \in 0..N, i # 0
        PROVE  f[i] = Splice(f[i - 1], at + i - 1, 0, new(i))
    <3>1. <<i, f[i - 1]>> \in (1..N) \X S
      <4>1. i \in 1..N /\ i - 1 \in 0..N
        BY <2>1, <1>1
      <4>2. f[i - 1] \in S
        BY <1>4, <4>1
      <4> QED  BY <4>1, <4>2
    <3> QED  BY <1>4, <2>1, <3>1
  <2> QED  BY <1>4, <2>1
<1> DEFINE F == CHOOSE Place : Place = [i \in 0..N |->
                    IF i = 0 THEN body
                    ELSE Splice(Place[i - 1], at + i - 1, 0, new(i))]
<1>6. F = [i \in 0..N |-> IF i = 0 THEN body ELSE Splice(F[i - 1], at + i - 1, 0, new(i))]
  BY <1>5
<1>7. Inserted(body, iRow, aRow) = F[N]
  BY DEF Inserted, at, new
<1> HIDE DEF F
<1>8. F[0] \in B[0]
  <2>1. F[0] = body /\ m_iNextKey + 0 = m_iNextKey /\ 0 \in 0..N
    BY <1>1, <1>6
  <2>2. body \in Bodies(n, m_iNextKey, K \cup KeysFrom(m_iNextKey, m_iNextKey))
    BY BodyWidens
  <2> QED  BY <2>1, <2>2
<1>9. ASSUME NEW i \in 1..N, F[i - 1] \in B[i - 1]
      PROVE  F[i] \in B[i]
  <2> DEFINE row == WithKey(m_iNextKey + i - 1, aRow[i])
             k == m_iNextKey + i - 1
             L == K \cup KeysFrom(m_iNextKey, k)
  <2>1. i - 1 \in 0..N /\ i \in 0..N /\ i # 0 /\ k \in Int /\ m_iNextKey + (i - 1) = k
        /\ k + 1 = m_iNextKey + i /\ at + i - 1 \in Int
    BY <1>1
  <2>2. F[i] = Splice(F[i - 1], at + i - 1, 0, <<row>>)
    BY <1>6, <2>1 DEF new
  <2>3. F[i - 1] \in Bodies(n, k, L)
    BY <1>9, <2>1
  <2>4. row \in Seq(Int) /\ Len(row) = n /\ Key(row) = k
    BY <1>2
  <2>5. k \notin L /\ L \cup {k} = K \cup KeysFrom(m_iNextKey, m_iNextKey + i)
    <3>1. i \in Nat /\ i > 0
      BY <1>1
    <3>2. \A x \in K : x \in Int /\ x < m_iNextKey
      BY DEF KeysFrom
    <3>3. k >= m_iNextKey
      BY <3>1
    <3>4. k \notin K
      BY <3>2, <3>3, <2>1
    <3>5. k \notin KeysFrom(m_iNextKey, k)
      BY <2>1 DEF KeysFrom
    <3>6. KeysFrom(m_iNextKey, k) \cup {k} = KeysFrom(m_iNextKey, m_iNextKey + i)
      <4>1. /\ KeysFrom(m_iNextKey, m_iNextKey + i) = m_iNextKey..k
            /\ KeysFrom(m_iNextKey, k) = m_iNextKey..(k - 1)
        BY DEF KeysFrom
      <4> HIDE DEF k
      <4> QED  BY <2>1, <3>3, <4>1, SMTT(30)
    <3> QED  BY <3>4, <3>5, <3>6
  <2> HIDE DEF row, L, k
  <2>6. F[i] \in Bodies(n, k + 1, L \cup {k})
    <3>1. Key(row) \notin L /\ at + i - 1 \in Int /\ k \in Int
      BY <2>1, <2>4, <2>5
    <3>2. Splice(F[i - 1], at + i - 1, 0, <<row>>) \in Bodies(n, k + 1, L \cup {Key(row)})
      BY <2>3, <2>4, <3>1, BodyGrows
    <3> QED  BY <2>2, <2>4, <3>2
  <2> QED  BY <2>1, <2>5, <2>6
<1>10. F[N] \in B[N]
  <2> HIDE DEF B, N
  <2>1. \A i \in 0..N : F[i] \in B[i]
    BY <1>1, <1>8, <1>9, LoopKeeps
  <2> QED  BY <1>1, <2>1
<1>11. N \in 0..N
  BY <1>1
<1> QED  BY <1>7, <1>10, <1>11

-----------------------------------------------------------------------------
(* Cells and columns.                                                      *)

\* splice(at, 1, item) at a place that exists.
LEMMA ElementReplaced ==
    ASSUME NEW T, NEW s \in Seq(T), NEW at \in 0..(Len(s) - 1), NEW item \in T
    PROVE  /\ Splice(s, at, 1, <<item>>) \in Seq(T)
           /\ Len(Splice(s, at, 1, <<item>>)) = Len(s)
           /\ \A j \in 1..Len(s) :
                Splice(s, at, 1, <<item>>)[j] = IF j = at + 1 THEN item ELSE s[j]
<1> DEFINE r == Splice(s, at, 1, <<item>>)
<1>1. Len(s) \in Nat /\ at \in Int /\ at >= 0 /\ at < Len(s)
  OBVIOUS
<1>2. <<item>> \in Seq(T) /\ Len(<<item>>) = 1 /\ <<item>>[1] = item
  OBVIOUS
<1>3. Cut(s, at) = at
  BY <1>1 DEF Cut
<1>4. r \in Seq(T) /\ IsSpliced(r, s, at, 1, <<item>>)
  <2>1. r \in Seq(T) /\ IsSpliced(r, s, Cut(s, at), 1, <<item>>)
    BY <1>1, <1>2, SpliceYields
  <2> QED  BY <1>3, <2>1
<1> HIDE DEF r
<1>5. Len(r) = Len(s)
  <2>1. Len(r) = at + 1 + (IF at + 1 < Len(s) THEN Len(s) - at - 1 ELSE 0)
    BY <1>2, <1>4 DEF IsSpliced
  <2>2. CASE at + 1 = Len(s)
    <3>1. ~(at + 1 < Len(s)) /\ at + 1 + 0 = Len(s)
      BY <1>1, <2>2
    <3> QED  BY <2>1, <3>1
  <2>3. CASE at + 1 < Len(s)
    BY <1>1, <2>1, <2>3
  <2>4. at + 1 = Len(s) \/ at + 1 < Len(s)
    BY <1>1
  <2> QED  BY <2>2, <2>3, <2>4
<1>6. ASSUME NEW j \in 1..Len(s)
      PROVE  r[j] = IF j = at + 1 THEN item ELSE s[j]
  <2>1. r[j] = IF j <= at THEN s[j]
               ELSE IF j <= at + 1 THEN <<item>>[j - at]
               ELSE s[j - 1 + 1]
    BY <1>2, <1>4, <1>5 DEF IsSpliced
  <2>2. CASE j <= at
    <3>1. j # at + 1
      BY <1>1, <2>2
    <3> QED  BY <2>1, <2>2, <3>1
  <2>3. CASE j = at + 1
    <3>1. ~(j <= at) /\ j <= at + 1 /\ j - at = 1
      BY <1>1, <2>3
    <3> QED  BY <1>2, <2>1, <2>3, <3>1
  <2>4. CASE j > at + 1
    <3>1. ~(j <= at) /\ ~(j <= at + 1) /\ j - 1 + 1 = j /\ j # at + 1
      BY <1>1, <2>4
    <3> QED  BY <2>1, <3>1
  <2> QED  BY <1>1, <2>2, <2>3, <2>4
<1> QED  BY <1>4, <1>5, <1>6 DEF r

\* A row that takes the place of one with the same key.
LEMMA BodyReplaced ==
    ASSUME NEW n, NEW k, NEW K, NEW body \in Bodies(n, k, K),
           NEW iR \in 0..(Len(body) - 1), NEW row \in Seq(Int), Len(row) = n,
           Key(row) = Key(body[iR + 1])
    PROVE  Splice(body, iR, 1, <<row>>) \in Bodies(n, k, K)
<1> DEFINE r == Splice(body, iR, 1, <<row>>)
<1>1. body \in Seq(Seq(Int)) /\ RowsOf(body, n, K)
  BY BodyRows
<1>2. /\ r \in Seq(Seq(Int)) /\ Len(r) = Len(body)
      /\ \A j \in 1..Len(body) : r[j] = IF j = iR + 1 THEN row ELSE body[j]
  BY <1>1, ElementReplaced, SMTT(30)
<1> HIDE DEF r
<1>3. \A j \in 1..Len(body) : Len(r[j]) = n /\ Key(r[j]) = Key(body[j])
  BY <1>1, <1>2 DEF RowsOf
<1>4. r \in Bodies(n, k, K)
  BY <1>2, <1>3, BodyRewritten
<1> QED  BY <1>4 DEF r

\* The columns a cell may have: an undefined one is no element of the row.
CellColumns(n) == 1..(n - 1) \cup {Undefined}

\* Writing a cell leaves the key and the length of its row.
LEMMA RowAssigned ==
    ASSUME NEW row \in Seq(Int), NEW iC \in CellColumns(Len(row)), NEW v \in Int
    PROVE  /\ Assign(row, iC, v) \in Seq(Int)
           /\ Len(Assign(row, iC, v)) = Len(row)
           /\ Key(Assign(row, iC, v)) = Key(row)
<1>1. CASE iC = Undefined
  BY <1>1 DEF Assign
<1>2. CASE iC # Undefined
  <2>1. Len(row) \in Nat /\ iC \in 1..(Len(row) - 1)
    BY <1>2 DEF CellColumns
  <2>2. Assign(row, iC, v) =
           [j \in 1..Len(row) |-> IF j = iC + 1 THEN v
                                  ELSE IF j <= Len(row) THEN row[j] ELSE Undefined]
    BY <1>2, <2>1 DEF Assign
  <2>3. Assign(row, iC, v) \in [1..Len(row) -> Int]
    BY <2>1, <2>2
  <2>4. Assign(row, iC, v) \in Seq(Int) /\ Len(Assign(row, iC, v)) = Len(row)
    BY <2>1, <2>3, FunctionIsSequence
  <2>5. Assign(row, iC, v)[1] = row[1]
    BY <2>1, <2>2
  <2> QED  BY <2>4, <2>5 DEF Key
<1> QED  BY <1>1, <1>2

\* A cell is written by putting its row back.
LEMMA BodyCellSet ==
    ASSUME NEW n, NEW k, NEW K, NEW body \in Bodies(n, k, K),
           NEW iR \in 0..(Len(body) - 1), NEW iC \in CellColumns(n), NEW v \in Int
    PROVE  SetCell(body, iR, iC, v) \in Bodies(n, k, K)
<1>1. body \in Seq(Seq(Int)) /\ RowsOf(body, n, K)
  BY BodyRows
<1>2. iR + 1 \in 1..Len(body)
  BY <1>1
<1>3. body[iR + 1] \in Seq(Int) /\ Len(body[iR + 1]) = n
  BY <1>1, <1>2 DEF RowsOf
<1> DEFINE row == Assign(body[iR + 1], iC, v)
<1>4. row \in Seq(Int) /\ Len(row) = n /\ Key(row) = Key(body[iR + 1])
  BY <1>3, RowAssigned
<1> HIDE DEF row
<1>5. Splice(body, iR, 1, <<row>>) \in Bodies(n, k, K)
  BY <1>4, BodyReplaced
<1> QED  BY <1>5 DEF SetCell, row

\* The same values put into every row, behind its key.
LEMMA BodyExpanded ==
    ASSUME NEW n \in Nat, NEW k, NEW K, NEW body \in Bodies(n, k, K),
           NEW iCount \in Nat, NEW v \in Int, NEW iWhere \in 1..n
    PROVE  ROWExpand(body, iCount, v, iWhere) \in Bodies(n + iCount, k, K)
<1> DEFINE a == [j \in 1..iCount |-> v]
           r == ROWExpand(body, iCount, v, iWhere)
<1>1. body \in Seq(Seq(Int)) /\ Len(body) \in Nat /\ RowsOf(body, n, K)
      /\ DOMAIN body = 1..Len(body)
  BY BodyRows
<1>2. a \in Seq(Int) /\ Len(a) = iCount
  <2>1. a \in [1..iCount -> Int]
    OBVIOUS
  <2> QED  BY <2>1, FunctionIsSequence
<1> HIDE DEF a
<1>3. r = [i \in 1..Len(body) |-> Splice(body[i], iWhere, 0, a)]
  BY <1>1 DEF ROWExpand, a
<1>4. ASSUME NEW i \in 1..Len(body)
      PROVE  /\ r[i] \in Seq(Int) /\ Len(r[i]) = n + iCount
             /\ Key(r[i]) = Key(body[i])
  <2> DEFINE row == body[i]
             s == Splice(row, iWhere, 0, a)
  <2>1. row \in Seq(Int) /\ Len(row) = n
    BY <1>1 DEF RowsOf
  <2>2. r[i] = s
    BY <1>3
  <2> HIDE DEF row, r
  <2>3. Cut(row, iWhere) = iWhere
    BY <2>1 DEF Cut
  <2>4. s \in Seq(Int) /\ IsSpliced(s, row, iWhere, 0, a)
    BY <1>2, <2>1, <2>3, SpliceYields
  <2> HIDE DEF s
  <2>5. Len(s) = n + iCount
    <3>1. Len(s) = iWhere + iCount + (IF iWhere + 0 < n THEN n - iWhere - 0 ELSE 0)
      BY <1>2, <2>1, <2>4 DEF IsSpliced
    <3>2. CASE iWhere = n
      BY <3>1, <3>2
    <3>3. CASE iWhere < n
      BY <3>1, <3>3
    <3> QED  BY <3>2, <3>3
  <2>6. s[1] = row[1]
    <3>1. 1 \in 1..Len(s) /\ 1 <= iWhere
      BY <2>5
    <3> QED  BY <2>4, <3>1 DEF IsSpliced
  <2> QED  BY <2>2, <2>4, <2>5, <2>6 DEF Key, row
<1>5. r \in Seq(Seq(Int)) /\ Len(r) = Len(body)
  <2>1. r \in [1..Len(body) -> Seq(Int)]
    BY <1>3, <1>4
  <2> QED  BY <1>1, <2>1, FunctionIsSequence
<1> HIDE DEF r
<1>6. r \in Bodies(n + iCount, k, K)
  BY <1>4, <1>5, BodyRewritten
<1> QED  BY <1>6 DEF r

\* The turns of the loop over the columns.
LooksAt(column, F) ==
    /\ F[0] = <<>>
    /\ \A i \in 1..Len(column) :
          F[i] = IF column[i].hide THEN F[i - 1] ELSE Append(F[i - 1], i - 1)
    /\ Visible(column) = F[Len(column)]

LEMMA VisibleTurns ==
    ASSUME NEW column \in Seq(Column)
    PROVE  \E F : LooksAt(column, F)
<1> DEFINE N == Len(column)
           S == Seq(0..(Len(column) - 1))
           step(s, i) == IF column[i].hide THEN s ELSE Append(s, i - 1)
           turn == [p \in (1..N) \X S |-> step(p[2], p[1])]
<1>1. N \in Nat /\ <<>> \in S
  OBVIOUS
<1>2. ASSUME NEW i \in 1..N, NEW s \in S
      PROVE  step(s, i) \in S
  <2>1. i - 1 \in 0..(Len(column) - 1)
    BY <1>1
  <2>2. Append(s, i - 1) \in S
    BY <2>1, AppendProperties
  <2> QED  BY <2>2
<1>3. turn \in [(1..N) \X S -> S]
  <2> HIDE DEF step, N, S
  <2> QED  BY <1>2
<1> HIDE DEF S, step, N
<1>4. PICK f \in [0..N -> S] :
         \A i \in 0..N : f[i] = IF i = 0 THEN <<>> ELSE turn[<<i, f[i - 1]>>]
  <2> HIDE DEF turn
  <2>1. \E f : LoopOf(N, S, <<>>, turn, f)
    BY <1>1, <1>3, LoopRuns
  <2> QED  BY <2>1 DEF LoopOf
<1>5. f = [i \in 0..N |-> IF i = 0 THEN <<>> ELSE step(f[i - 1], i)]
  <2>1. ASSUME NEW i \in 0..N, i # 0
        PROVE  f[i] = step(f[i - 1], i)
    <3>1. i \in 1..N /\ i - 1 \in 0..N
      BY <1>1, <2>1
    <3>2. f[i - 1] \in S
      BY <1>4, <3>1
    <3> QED  BY <1>4, <2>1, <3>1, <3>2
  <2> QED  BY <1>4, <2>1
<1> DEFINE F == CHOOSE aIndex : aIndex = [i \in 0..N |->
                    IF i = 0 THEN <<>> ELSE step(aIndex[i - 1], i)]
<1>6. F = [i \in 0..N |-> IF i = 0 THEN <<>> ELSE step(F[i - 1], i)]
  BY <1>5
<1>7. Visible(column) = F[N]
  BY DEF Visible, N, step
<1> HIDE DEF F
<1>8. F[0] = <<>> /\ \A i \in 1..N : F[i] = step(F[i - 1], i)
  <2>1. 0 \in 0..N
    BY <1>1
  <2>2. F[0] = <<>>
    BY <1>6, <2>1
  <2>3. ASSUME NEW i \in 1..N
        PROVE  F[i] = step(F[i - 1], i)
    <3>1. i \in 0..N /\ i # 0
      BY <1>1
    <3> QED  BY <1>6, <3>1
  <2> QED  BY <2>2, <2>3
<1>9. LooksAt(column, F)
  BY <1>7, <1>8 DEF N, step, LooksAt
<1> QED  BY <1>9

\* The places of the columns that are not hidden.
LEMMA VisiblePlaces ==
    ASSUME NEW column \in Seq(Column)
    PROVE  Visible(column) \in Seq(0..(Len(column) - 1))
<1> DEFINE N == Len(column)
           S == Seq(0..(N - 1))
<1>1. N \in Nat /\ <<>> \in S
  OBVIOUS
<1> PICK F : LooksAt(column, F)
  BY VisibleTurns
<1>2. /\ F[0] = <<>>
      /\ \A i \in 1..N : F[i] = IF column[i].hide THEN F[i - 1]
                                 ELSE Append(F[i - 1], i - 1)
      /\ Visible(column) = F[N]
  BY DEF LooksAt
<1>3. ASSUME NEW i \in 1..N, F[i - 1] \in S
      PROVE  F[i] \in S
  <2>1. i - 1 \in 0..(N - 1)
    BY <1>1
  <2> HIDE DEF N
  <2>2. Append(F[i - 1], i - 1) \in S
    BY <1>3, <2>1, AppendProperties
  <2> HIDE DEF S
  <2> QED  BY <1>2, <1>3, <2>2
<1> DEFINE B == [i \in 0..N |-> S]
<1> HIDE DEF N, S
<1>4. F[0] \in B[0] /\ \A i \in 1..N : F[i - 1] \in B[i - 1] => F[i] \in B[i]
  BY <1>1, <1>2, <1>3
<1>5. N \in 0..N /\ B[N] = S
  BY <1>1
<1> HIDE DEF B
<1>6. \A i \in 0..N : F[i] \in B[i]
  BY <1>1, <1>4, LoopKeeps
<1>7. F[N] \in S
  BY <1>5, <1>6
<1> QED  BY <1>2, <1>7 DEF S, N

\* With no column hidden, they are all places.
LEMMA AllVisible ==
    ASSUME NEW column \in Seq(Column), \A c \in DOMAIN column : ~column[c].hide
    PROVE  Visible(column) = [j \in 1..Len(column) |-> j - 1]
<1> DEFINE N == Len(column)
           all(i) == [j \in 1..i |-> j - 1]
           B == [i \in 0..N |-> {all(i)}]
<1>1. N \in Nat /\ DOMAIN column = 1..N
  OBVIOUS
<1> PICK F : LooksAt(column, F)
  BY VisibleTurns
<1>2. /\ F[0] = <<>>
      /\ \A i \in 1..N : F[i] = IF column[i].hide THEN F[i - 1]
                                 ELSE Append(F[i - 1], i - 1)
      /\ Visible(column) = F[N]
  BY DEF LooksAt
<1> HIDE DEF N
<1>3. F[0] = all(0)
  BY <1>2
<1>4. ASSUME NEW i \in 1..N, F[i - 1] = all(i - 1)
      PROVE  F[i] = all(i)
  <2> DEFINE k == i - 1
             s == all(k)
  <2>1. k \in Nat /\ k + 1 = i
    BY <1>1
  <2>2. F[i] = Append(s, k)
    BY <1>1, <1>2, <1>4
  <2> HIDE DEF k
  <2>3. s \in Seq(Nat) /\ Len(s) = k
    <3>1. s \in [1..k -> Nat]
      BY <2>1
    <3> HIDE DEF s
    <3> QED  BY <2>1, <3>1, FunctionIsSequence
  <2>4. Append(s, k) \in Seq(Nat) /\ Len(Append(s, k)) = k + 1
        /\ \A j \in 1..k : Append(s, k)[j] = s[j]
        /\ Append(s, k)[k + 1] = k
    <3> HIDE DEF s
    <3> QED  BY <2>1, <2>3, AppendProperties
  <2>5. \A j \in 1..(k + 1) : Append(s, k)[j] = j - 1
    BY <2>1, <2>4
  <2>6. Append(s, k) = [j \in 1..(k + 1) |-> j - 1]
    <3> DEFINE t == Append(s, k)
    <3> HIDE DEF s
    <3>1. t \in Seq(Nat) /\ Len(t) = k + 1 /\ \A j \in 1..(k + 1) : t[j] = j - 1
      BY <2>4, <2>5
    <3> HIDE DEF t
    <3>2. DOMAIN t = 1..(k + 1) /\ t = [j \in DOMAIN t |-> t[j]]
      BY <3>1
    <3>3. t = [j \in 1..(k + 1) |-> j - 1]
      BY <3>1, <3>2
    <3> QED  BY <3>3 DEF t
  <2> QED  BY <2>1, <2>2, <2>6
<1> HIDE DEF all
<1>5. F[0] \in B[0] /\ \A i \in 1..N : F[i - 1] \in B[i - 1] => F[i] \in B[i]
  <2>1. ASSUME NEW i \in 1..N, F[i - 1] \in B[i - 1]
        PROVE  F[i] \in B[i]
    <3>1. i \in 0..N /\ i - 1 \in 0..N
      BY <1>1
    <3>2. F[i - 1] = all(i - 1)
      BY <2>1, <3>1
    <3>3. F[i] = all(i)
      BY <1>4, <3>2
    <3> QED  BY <3>1, <3>3
  <2>2. 0 \in 0..N
    BY <1>1
  <2>3. F[0] \in B[0]
    BY <1>3, <2>2
  <2> QED  BY <2>1, <2>3
<1>6. N \in 0..N /\ B[N] = {all(N)}
  BY <1>1
<1> HIDE DEF B
<1>7. \A i \in 0..N : F[i] \in B[i]
  BY <1>1, <1>5, LoopKeeps
<1>8. F[N] = all(N)
  BY <1>6, <1>7
<1> QED  BY <1>2, <1>8 DEF all, N

\* What a position leads to is a cell of the row.
LEMMA PositionIsCell ==
    ASSUME IndexFits, m_aColumn \in Seq(Column), NEW n \in Nat, Len(m_aColumn) <= n,
           NEW p \in 0..(n - 1)
    PROVE  _index2(p) \in CellColumns(n + 1)
<1>1. _index(p) \in -1..(n - 1)
  <2>1. CASE m_aColumnIndex = NoIndex
    BY <2>1 DEF _index
  <2>2. CASE m_aColumnIndex # NoIndex
    <3>1. m_aColumnIndex \in Seq(0..(Len(m_aColumn) - 1))
      BY <2>2 DEF IndexFits
    <3>2. CASE p < Len(m_aColumnIndex)
      <4>1. p + 1 \in 1..Len(m_aColumnIndex)
        BY <3>1, <3>2
      <4>2. m_aColumnIndex[p + 1] \in 0..(Len(m_aColumn) - 1)
        BY <3>1, <4>1
      <4>3. Len(m_aColumn) \in Nat
        OBVIOUS
      <4> QED  BY <2>2, <3>2, <4>2, <4>3 DEF _index
    <3>3. CASE ~(p < Len(m_aColumnIndex))
      BY <2>2, <3>3 DEF _index, None
    <3> QED  BY <3>2, <3>3
  <2> QED  BY <2>1, <2>2
<1> QED  BY <1>1 DEF _index2, CellColumns, Undefined

-----------------------------------------------------------------------------
(* Reading objects.                                                        *)

Entry == Names \X Values

\* What ReadObjects may have reached with keys from a set: the columns never
\* become fewer and the rows are as wide as they are.
ReadStates(iNextKey, keys) ==
    {s \in [body : Seq(Seq(Int)), column : Seq(Column), nextKey : Int, threw : BOOLEAN] :
        /\ Len(m_aColumn) <= Len(s.column)
        /\ s.body \in Bodies(Len(s.column) + 1, iNextKey, keys)
        /\ OneSorted(s.column)
        /\ s.nextKey = iNextKey}

\* What makes a state of ReadObjects.
LEMMA ReadStateOf ==
    ASSUME NEW k \in Int, NEW K, NEW body, NEW column \in Seq(Column), NEW threw \in BOOLEAN,
           Len(m_aColumn) <= Len(column), OneSorted(column),
           body \in Bodies(Len(column) + 1, k, K)
    PROVE  [body |-> body, column |-> column, nextKey |-> k, threw |-> threw]
                \in ReadStates(k, K)
<1>1. body \in Seq(Seq(Int))
  BY BodyRows
<1> QED  BY <1>1 DEF ReadStates

\* What a state of ReadObjects consists of.
LEMMA ReadStateParts ==
    ASSUME NEW k, NEW K, NEW s \in ReadStates(k, K)
    PROVE  /\ s.column \in Seq(Column) /\ Len(s.column) \in Nat
           /\ Len(m_aColumn) <= Len(s.column) /\ OneSorted(s.column)
           /\ s.body \in Bodies(Len(s.column) + 1, k, K)
           /\ s.nextKey = k /\ k \in Int /\ s.threw \in BOOLEAN
           /\ s = [body |-> s.body, column |-> s.column, nextKey |-> k, threw |-> s.threw]
  BY DEF ReadStates

\* A new column is not marked for sorting.
LEMMA OneSortedStill ==
    ASSUME NEW column \in Seq(Column), OneSorted(column), NEW c \in Column, c.sort = 0
    PROVE  OneSorted(Append(column, c))
<1> DEFINE new == Append(column, c)
<1>1. /\ Len(column) \in Nat /\ Len(new) = Len(column) + 1 /\ new[Len(column) + 1] = c
      /\ \A i \in 1..Len(column) : new[i] = column[i]
  BY AppendProperties
<1> HIDE DEF new
<1>2. ASSUME NEW i \in 1..Len(new), new[i].sort # 0
      PROVE  i \in 1..Len(column) /\ new[i] = column[i]
  BY <1>1, <1>2
<1>3. OneSorted(new)
  BY <1>2 DEF OneSorted
<1> QED  BY <1>3 DEF new

\* A new column comes last and every row gets a value for it.
LEMMA ColumnAdded ==
    ASSUME m_aColumn \in Seq(Column), NEW k, NEW K, NEW s \in ReadStates(k, K),
           NEW sName \in Names
    PROVE  /\ AddColumn(s, sName) \in ReadStates(k, K)
           /\ _indexOfName(AddColumn(s, sName).column, sName)
                \in 0..(Len(AddColumn(s, sName).column) - 1)
           /\ Len(AddColumn(s, sName).body) = Len(s.body)
           /\ AddColumn(s, sName).threw = s.threw
<1>1. /\ s.column \in Seq(Column) /\ Len(s.column) \in Nat
      /\ Len(m_aColumn) <= Len(s.column) /\ OneSorted(s.column)
      /\ s.body \in Bodies(Len(s.column) + 1, k, K)
      /\ s.nextKey = k /\ k \in Int /\ s.threw \in BOOLEAN
      /\ s = [body |-> s.body, column |-> s.column, nextKey |-> k, threw |-> s.threw]
  BY ReadStateParts
<1>2. /\ s.body \in Seq(Seq(Int)) /\ Len(s.body) \in Nat /\ DOMAIN s.body = 1..Len(s.body)
      /\ RowsOf(s.body, Len(s.column) + 1, K)
  BY <1>1, BodyRows
<1>3. CASE _indexOfName(s.column, sName) # None
  <2>1. AddColumn(s, sName) = s
    BY <1>3 DEF AddColumn
  <2>2. _indexOfName(s.column, sName) \in 0..(Len(s.column) - 1)
    BY <1>1, <1>3, ColumnFound DEF None
  <2> QED  BY <2>1, <2>2
<1>4. CASE _indexOfName(s.column, sName) = None
  <2> DEFINE c == _create_column(sName)
             column == Append(s.column, c)
             body == [i \in 1..Len(s.body) |-> Append(s.body[i], Undefined)]
  <2>1. AddColumn(s, sName) =
          [body |-> body, column |-> column, nextKey |-> k, threw |-> s.threw]
    BY <1>1, <1>2, <1>4 DEF AddColumn
  <2>2. c \in Column /\ c.id = sName /\ c.sort = 0
    BY DEF _create_column, Column
  <2> HIDE DEF c
  <2>11. OneSorted(column)
    BY <1>1, <2>2, OneSortedStill
  <2>3. /\ column \in Seq(Column) /\ Len(column) = Len(s.column) + 1
        /\ column[Len(s.column) + 1] = c
    BY <1>1, <2>2, AppendProperties
  <2> HIDE DEF column
  <2>4. _indexOfName(column, sName) \in 0..(Len(column) - 1)
    <3>1. Len(s.column) + 1 \in DOMAIN column
      BY <1>1, <2>3
    <3>2. _indexOfName(column, sName) # None
      BY <2>2, <2>3, <3>1, ColumnFound
    <3> QED  BY <2>3, <3>2, ColumnFound DEF None
  <2>5. ASSUME NEW i \in 1..Len(s.body)
        PROVE  /\ body[i] \in Seq(Int) /\ Len(body[i]) = Len(column) + 1
               /\ Key(body[i]) = Key(s.body[i])
    <3> DEFINE row == s.body[i]
    <3>1. row \in Seq(Int) /\ Len(row) = Len(s.column) + 1 /\ Undefined \in Int
      BY <1>2 DEF RowsOf, Undefined
    <3>2. body[i] = Append(row, Undefined)
      OBVIOUS
    <3> HIDE DEF row, body
    <3>3. /\ Append(row, Undefined) \in Seq(Int)
          /\ Len(Append(row, Undefined)) = Len(row) + 1
          /\ \A j \in 1..Len(row) : Append(row, Undefined)[j] = row[j]
      BY <3>1, AppendProperties
    <3>4. 1 \in 1..Len(row)
      BY <1>1, <3>1
    <3> QED  BY <1>1, <2>3, <3>1, <3>2, <3>3, <3>4 DEF Key, row
  <2>6. body \in Seq(Seq(Int)) /\ Len(body) = Len(s.body)
    <3>1. body \in [1..Len(s.body) -> Seq(Int)]
      BY <2>5
    <3> HIDE DEF body
    <3> QED  BY <1>2, <3>1, FunctionIsSequence
  <2> HIDE DEF body
  <2>7. body \in Bodies(Len(column) + 1, k, K)
    <3> DEFINE old == s.body
               n == Len(s.column) + 1
               m == Len(column) + 1
    <3>1. /\ old \in Bodies(n, k, K) /\ Len(body) = Len(old)
          /\ \A i \in 1..Len(old) : Len(body[i]) = m /\ Key(body[i]) = Key(old[i])
      BY <1>1, <2>5, <2>6
    <3> HIDE DEF old, n, m
    <3>2. body \in Bodies(m, k, K)
      BY <2>6, <3>1, BodyRewritten
    <3> QED  BY <3>2 DEF m
  <2>8. Len(m_aColumn) <= Len(column)
    <3>1. Len(m_aColumn) \in Nat
      OBVIOUS
    <3> QED  BY <1>1, <2>3, <3>1
  <2>9. AddColumn(s, sName) \in ReadStates(k, K)
    BY <1>1, <2>1, <2>3, <2>7, <2>8, <2>11, ReadStateOf
  <2>10. /\ AddColumn(s, sName).column = column /\ AddColumn(s, sName).body = body
         /\ AddColumn(s, sName).threw = s.threw
    BY <2>1
  <2> QED  BY <2>4, <2>6, <2>9, <2>10
<1> QED  BY <1>3, <1>4

\* An entry is written to an element of the row that is no key.
LEMMA EntryRead ==
    ASSUME IndexFits, m_aColumn \in Seq(Column), NEW k, NEW K, NEW s \in ReadStates(k, K),
           NEW iRow \in Nat, NEW entry \in Entry
    PROVE  ReadEntry(s, iRow, entry) \in ReadStates(k, K)
<1> DEFINE t == AddColumn(s, entry[1])
           iR == _row(t.body, iRow)
           iC == _index2(_indexOfName(t.column, entry[1]))
<1>1. entry[1] \in Names /\ entry[2] \in Int
  <2>1. entry \in Names \X Values
    BY DEF Entry
  <2>2. entry[1] \in Names /\ entry[2] \in Values
    BY <2>1
  <2>3. \A v \in Values : v \in Int
    BY ValuesAreNumbers
  <2> QED  BY <2>2, <2>3
<1>2. t \in ReadStates(k, K) /\ _indexOfName(t.column, entry[1]) \in 0..(Len(t.column) - 1)
  BY <1>1, ColumnAdded
<1>3. ReadEntry(s, iRow, entry) =
        IF s.threw THEN s
        ELSE IF iR = None THEN [t EXCEPT !.threw = TRUE]
        ELSE [t EXCEPT !.body = SetCell(@, iR, iC, entry[2])]
  BY DEF ReadEntry
<1> HIDE DEF t
<1>4. /\ t.column \in Seq(Column) /\ Len(t.column) \in Nat
      /\ Len(m_aColumn) <= Len(t.column) /\ OneSorted(t.column)
      /\ t.body \in Bodies(Len(t.column) + 1, k, K)
      /\ t.nextKey = k /\ k \in Int /\ t.threw \in BOOLEAN
      /\ t = [body |-> t.body, column |-> t.column, nextKey |-> k, threw |-> t.threw]
  BY <1>2, ReadStateParts
<1>5. t.body \in Seq(Seq(Int))
  BY <1>4, BodyRows
<1>6. iR \in -1..(Len(t.body) - 1)
  BY <1>5, RowFound
<1>7. iC \in CellColumns(Len(t.column) + 1)
  BY <1>2, <1>4, PositionIsCell
<1> HIDE DEF iR, iC
<1>8. CASE iR = None
  <2>1. [t EXCEPT !.threw = TRUE] \in ReadStates(k, K)
    BY <1>2 DEF ReadStates
  <2> QED  BY <1>2, <1>3, <1>8, <2>1
<1>9. CASE iR # None
  <2> DEFINE body == SetCell(t.body, iR, iC, entry[2])
  <2>1. iR \in 0..(Len(t.body) - 1)
    BY <1>5, <1>6, <1>9 DEF None
  <2>2. body \in Bodies(Len(t.column) + 1, k, K)
    BY <1>1, <1>4, <1>7, <2>1, BodyCellSet
  <2>3. [t EXCEPT !.body = SetCell(@, iR, iC, entry[2])] =
           [body |-> body, column |-> t.column, nextKey |-> k, threw |-> t.threw]
    BY <1>4
  <2> HIDE DEF body
  <2>4. [t EXCEPT !.body = SetCell(@, iR, iC, entry[2])] \in ReadStates(k, K)
    BY <1>4, <2>2, <2>3, ReadStateOf
  <2> QED  BY <1>3, <1>9, <2>4
<1> QED  BY <1>8, <1>9

\* The turns of the loop over the entries of an object.
ReadsEntries(F, s, iRow, object) ==
    /\ F[0] = s
    /\ \A i \in 1..Len(object) : F[i] = ReadEntry(F[i - 1], iRow, object[i])
    /\ ReadObject(s, iRow, object) = F[Len(object)]

LEMMA ObjectTurns ==
    ASSUME IndexFits, m_aColumn \in Seq(Column), NEW k, NEW K, NEW s \in ReadStates(k, K),
           NEW iRow \in Nat, NEW object \in Seq(Entry)
    PROVE  \E F : ReadsEntries(F, s, iRow, object)
<1> DEFINE N == Len(object)
           S == ReadStates(k, K)
           step(t, i) == ReadEntry(t, iRow, object[i])
           turn == [p \in (1..N) \X S |-> step(p[2], p[1])]
<1>1. N \in Nat /\ s \in S
  OBVIOUS
<1>2. ASSUME NEW i \in 1..N, NEW t \in S
      PROVE  step(t, i) \in S
  <2>1. object[i] \in Entry
    OBVIOUS
  <2> QED  BY <2>1, EntryRead
<1>3. turn \in [(1..N) \X S -> S]
  <2> HIDE DEF step, N, S
  <2> QED  BY <1>2
<1> HIDE DEF S, step, N
<1>4. PICK f \in [0..N -> S] :
         \A i \in 0..N : f[i] = IF i = 0 THEN s ELSE turn[<<i, f[i - 1]>>]
  <2> HIDE DEF turn
  <2>1. \E f : LoopOf(N, S, s, turn, f)
    BY <1>1, <1>3, LoopRuns
  <2> QED  BY <2>1 DEF LoopOf
<1>5. f = [i \in 0..N |-> IF i = 0 THEN s ELSE step(f[i - 1], i)]
  <2>1. ASSUME NEW i \in 0..N, i # 0
        PROVE  f[i] = step(f[i - 1], i)
    <3>1. i \in 1..N /\ i - 1 \in 0..N
      BY <1>1, <2>1
    <3>2. f[i - 1] \in S
      BY <1>4, <3>1
    <3> QED  BY <1>4, <2>1, <3>1, <3>2
  <2> QED  BY <1>4, <2>1
<1> DEFINE F == CHOOSE entries : entries = [i \in 0..N |->
                    IF i = 0 THEN s ELSE step(entries[i - 1], i)]
<1>6. F = [i \in 0..N |-> IF i = 0 THEN s ELSE step(F[i - 1], i)]
  BY <1>5
<1>7. ReadObject(s, iRow, object) = F[N]
  BY DEF ReadObject, N, step
<1> HIDE DEF F
<1>8. F[0] = s
  <2>1. 0 \in 0..N
    BY <1>1
  <2> QED  BY <1>6, <2>1
<1>9. ASSUME NEW i \in 1..N
      PROVE  F[i] = step(F[i - 1], i)
  <2>1. i \in 0..N /\ i # 0
    BY <1>1
  <2> QED  BY <1>6, <2>1
<1> QED  BY <1>7, <1>8, <1>9 DEF ReadsEntries, step, N

\* The entries of an object are read one by one.
LEMMA ObjectRead ==
    ASSUME IndexFits, m_aColumn \in Seq(Column), NEW k, NEW K, NEW s \in ReadStates(k, K),
           NEW iRow \in Nat, NEW object \in Seq(Entry)
    PROVE  ReadObject(s, iRow, object) \in ReadStates(k, K)
<1> DEFINE N == Len(object)
           S == ReadStates(k, K)
<1>1. N \in Nat /\ s \in S
  OBVIOUS
<1> PICK F : ReadsEntries(F, s, iRow, object)
  BY ObjectTurns
<1>2. /\ F[0] = s
      /\ \A i \in 1..N : F[i] = ReadEntry(F[i - 1], iRow, object[i])
      /\ ReadObject(s, iRow, object) = F[N]
  BY DEF ReadsEntries
<1>3. ASSUME NEW i \in 1..N, F[i - 1] \in S
      PROVE  F[i] \in S
  <2>1. object[i] \in Entry
    OBVIOUS
  <2>2. ReadEntry(F[i - 1], iRow, object[i]) \in S
    BY <1>3, <2>1, EntryRead
  <2> QED  BY <1>2, <2>2
<1> DEFINE B == [i \in 0..N |-> S]
<1>4. F[0] \in B[0] /\ \A i \in 1..N : F[i - 1] \in B[i - 1] => F[i] \in B[i]
  <2> HIDE DEF S, N
  <2>1. \A i \in 0..N : B[i] = S
    OBVIOUS
  <2>2. 0 \in 0..N /\ \A i \in 1..N : i \in 0..N /\ i - 1 \in 0..N
    BY <1>1
  <2> HIDE DEF B
  <2> QED  BY <1>1, <1>2, <1>3, <2>1, <2>2
<1>5. N \in 0..N /\ B[N] = S
  BY <1>1
<1> HIDE DEF B, S, N
<1>6. \A i \in 0..N : F[i] \in B[i]
  BY <1>1, <1>4, LoopKeeps
<1>7. F[N] \in S
  BY <1>5, <1>6
<1> QED  BY <1>2, <1>7 DEF S, N

\* The turns of the loop over the columns of the first object.
AddsColumns(F, s, object) ==
    /\ F[0] = s
    /\ \A i \in 1..Len(object) : F[i] = AddColumn(F[i - 1], object[i][1])
    /\ FirstColumns(s, object) = F[Len(object)]

LEMMA ColumnTurns ==
    ASSUME m_aColumn \in Seq(Column), NEW k, NEW K, NEW s \in ReadStates(k, K),
           NEW object \in Seq(Entry)
    PROVE  \E F : AddsColumns(F, s, object)
<1> DEFINE N == Len(object)
           S == ReadStates(k, K)
           step(t, i) == AddColumn(t, object[i][1])
           turn == [p \in (1..N) \X S |-> step(p[2], p[1])]
<1>1. N \in Nat /\ s \in S
  OBVIOUS
<1>2. ASSUME NEW i \in 1..N, NEW t \in S
      PROVE  step(t, i) \in S
  <2>1. object[i] \in Names \X Values
    BY DEF Entry
  <2>2. object[i][1] \in Names
    BY <2>1
  <2> QED  BY <2>2, ColumnAdded
<1>3. turn \in [(1..N) \X S -> S]
  <2> HIDE DEF step, N, S
  <2> QED  BY <1>2
<1> HIDE DEF S, step, N
<1>4. PICK f \in [0..N -> S] :
         \A i \in 0..N : f[i] = IF i = 0 THEN s ELSE turn[<<i, f[i - 1]>>]
  <2> HIDE DEF turn
  <2>1. \E f : LoopOf(N, S, s, turn, f)
    BY <1>1, <1>3, LoopRuns
  <2> QED  BY <2>1 DEF LoopOf
<1>5. f = [i \in 0..N |-> IF i = 0 THEN s ELSE step(f[i - 1], i)]
  <2>1. ASSUME NEW i \in 0..N, i # 0
        PROVE  f[i] = step(f[i - 1], i)
    <3>1. i \in 1..N /\ i - 1 \in 0..N
      BY <1>1, <2>1
    <3>2. f[i - 1] \in S
      BY <1>4, <3>1
    <3> QED  BY <1>4, <2>1, <3>1, <3>2
  <2> QED  BY <1>4, <2>1
<1> DEFINE F == CHOOSE columns : columns = [i \in 0..N |->
                    IF i = 0 THEN s ELSE step(columns[i - 1], i)]
<1>6. F = [i \in 0..N |-> IF i = 0 THEN s ELSE step(F[i - 1], i)]
  BY <1>5
<1>7. FirstColumns(s, object) = F[N]
  BY DEF FirstColumns, N, step
<1> HIDE DEF F
<1>8. F[0] = s
  <2>1. 0 \in 0..N
    BY <1>1
  <2> QED  BY <1>6, <2>1
<1>9. ASSUME NEW i \in 1..N
      PROVE  F[i] = step(F[i - 1], i)
  <2>1. i \in 0..N /\ i # 0
    BY <1>1
  <2> QED  BY <1>6, <2>1
<1> QED  BY <1>7, <1>8, <1>9 DEF AddsColumns, step, N

\* The columns of the first object come before the rows are appended.
LEMMA ColumnsAdded ==
    ASSUME m_aColumn \in Seq(Column), NEW k, NEW K, NEW s \in ReadStates(k, K),
           NEW object \in Seq(Entry)
    PROVE  FirstColumns(s, object) \in ReadStates(k, K)
<1> DEFINE N == Len(object)
           S == ReadStates(k, K)
<1>1. N \in Nat /\ s \in S
  OBVIOUS
<1> PICK F : AddsColumns(F, s, object)
  BY ColumnTurns
<1>2. /\ F[0] = s
      /\ \A i \in 1..N : F[i] = AddColumn(F[i - 1], object[i][1])
      /\ FirstColumns(s, object) = F[N]
  BY DEF AddsColumns
<1>3. ASSUME NEW i \in 1..N, F[i - 1] \in S
      PROVE  F[i] \in S
  <2>1. object[i] \in Names \X Values
    BY DEF Entry
  <2>2. object[i][1] \in Names
    BY <2>1
  <2>3. AddColumn(F[i - 1], object[i][1]) \in S
    BY <1>3, <2>2, ColumnAdded
  <2> QED  BY <1>2, <2>3
<1> DEFINE B == [i \in 0..N |-> S]
<1>4. F[0] \in B[0] /\ \A i \in 1..N : F[i - 1] \in B[i - 1] => F[i] \in B[i]
  <2> HIDE DEF S, N
  <2>1. \A i \in 0..N : B[i] = S
    OBVIOUS
  <2>2. 0 \in 0..N /\ \A i \in 1..N : i \in 0..N /\ i - 1 \in 0..N
    BY <1>1
  <2> HIDE DEF B
  <2> QED  BY <1>1, <1>2, <1>3, <2>1, <2>2
<1>5. N \in 0..N /\ B[N] = S
  BY <1>1
<1> HIDE DEF B, S, N
<1>6. \A i \in 0..N : F[i] \in B[i]
  BY <1>1, <1>4, LoopKeeps
<1>7. F[N] \in S
  BY <1>5, <1>6
<1> QED  BY <1>2, <1>7 DEF S, N

\* What a body consists of at first: its own keys.
LEMMA OwnKeys ==
    ASSUME TableInv
    PROVE  /\ Keys(m_aBody) \in SUBSET KeysFrom(0, m_iNextKey)
           /\ m_aBody \in Bodies(Len(m_aColumn) + 1, m_iNextKey, Keys(m_aBody))
           /\ Len(m_aColumn) \in Nat /\ Len(m_aColumn) + 1 > 0
           /\ m_aBody \in Seq(Seq(Int)) /\ Len(m_aBody) \in Nat
<1>1. m_aBody \in Bodies(Len(m_aColumn) + 1, m_iNextKey, KeysFrom(0, m_iNextKey))
  BY DEF TableInv
<1>2. m_aBody \in Bodies(Len(m_aColumn) + 1, m_iNextKey, Keys(m_aBody))
  BY <1>1, BodyOfItsKeys
<1>3. RowsOf(m_aBody, Len(m_aColumn) + 1, KeysFrom(0, m_iNextKey))
      /\ DOMAIN m_aBody = 1..Len(m_aBody)
      /\ m_aBody \in Seq(Seq(Int)) /\ Len(m_aBody) \in Nat
  BY <1>1, BodyRows
<1>4. Keys(m_aBody) \in SUBSET KeysFrom(0, m_iNextKey)
  BY <1>3 DEF RowsOf, Keys
<1>5. Len(m_aColumn) \in Nat /\ Len(m_aColumn) + 1 > 0
  BY DEF TableInv
<1> QED  BY <1>2, <1>3, <1>4, <1>5

\* The keys in use and those given until the next key is k.
KeysUpTo(k) == Keys(m_aBody) \cup KeysFrom(m_iNextKey, k)

ReadStart == [body |-> m_aBody, column |-> m_aColumn,
              nextKey |-> m_iNextKey, threw |-> FALSE]

\* r is first with n more rows, whose keys are the next ones.
HasRoom(r, first, n) ==
    /\ r.threw = first.threw
    /\ Len(r.body) = Len(first.body) + n
    /\ \A i \in 1..(Len(first.body) + n) :
          IF i <= Len(first.body) THEN r.body[i] = first.body[i]
          ELSE Key(r.body[i]) = m_iNextKey + i - (Len(first.body) + 1)

\* Before objects are read there is a row for each of them.
LEMMA RoomIsMade ==
    ASSUME TableInv, NEW aList \in Seq(Seq(Entry)), aList # <<>>
    PROVE  /\ RoomToRead(aList)
                \in ReadStates(m_iNextKey + Len(aList), KeysUpTo(m_iNextKey + Len(aList)))
           /\ ReadStart \in ReadStates(m_iNextKey, Keys(m_aBody))
           /\ HasRoom(RoomToRead(aList), FirstColumns(ReadStart, aList[1]), Len(aList))
<1> DEFINE start == ReadStart
           first == FirstColumns(start, aList[1])
           aRow == Blanks(Len(aList), Len(first.column))
           k == m_iNextKey + Len(aList)
           K == Keys(m_aBody)
<1>1. /\ K \in SUBSET KeysFrom(0, m_iNextKey)
      /\ m_aBody \in Bodies(Len(m_aColumn) + 1, m_iNextKey, K)
      /\ Len(m_aColumn) \in Nat
  BY OwnKeys
<1>2. m_iNextKey \in Nat /\ m_aColumn \in Seq(Column) /\ m_iFooterSize = 0
      /\ OneSorted(m_aColumn)
  BY DEF TableInv, SizesFit
<1>3. Len(aList) \in Nat /\ aList[1] \in Seq(Entry)
  OBVIOUS
<1>4. start \in ReadStates(m_iNextKey, K)
  <2>1. m_iNextKey \in Int /\ Len(m_aColumn) <= Len(m_aColumn) /\ FALSE \in BOOLEAN
    BY <1>1, <1>2
  <2> HIDE DEF K
  <2> QED  BY <1>1, <1>2, <2>1, ReadStateOf DEF ReadStart
<1> HIDE DEF K
<1>5. first \in ReadStates(m_iNextKey, K)
  BY <1>2, <1>3, <1>4, ColumnsAdded
<1>6. RoomToRead(aList) =
         [first EXCEPT !.body = Appended(@, aRow),
                       !.nextKey = @ + KeysTaken(first.body, aRow)]
  BY DEF RoomToRead, ReadStart
<1> HIDE DEF first
<1>7. /\ first.column \in Seq(Column) /\ Len(first.column) \in Nat
      /\ Len(m_aColumn) <= Len(first.column) /\ OneSorted(first.column)
      /\ first.body \in Bodies(Len(first.column) + 1, m_iNextKey, K)
      /\ first.threw \in BOOLEAN
      /\ first = [body |-> first.body, column |-> first.column,
                  nextKey |-> m_iNextKey, threw |-> first.threw]
  BY <1>5, ReadStateParts
<1>8. /\ aRow \in Seq(Seq(Int)) /\ Len(aRow) = Len(aList)
      /\ \A i \in 1..Len(aRow) : Len(aRow[i]) = Len(first.column) + 1
  <2> DEFINE N == Len(aList)
             n == Len(first.column)
  <2>1. N \in Nat /\ n \in Nat /\ aRow = Blanks(N, n)
    BY <1>3, <1>7
  <2> HIDE DEF N, n, aRow
  <2>2. /\ aRow \in Seq(Seq(Int)) /\ Len(aRow) = N
        /\ \A i \in 1..N : Len(aRow[i]) = n + 1
    BY <2>1, BlankRows
  <2> QED  BY <2>2 DEF N, n
<1> HIDE DEF aRow
<1>9. /\ Appended(first.body, aRow)
            \in Bodies(Len(first.column) + 1, m_iNextKey + Len(aRow),
                       K \cup KeysFrom(m_iNextKey, m_iNextKey + Len(aRow)))
      /\ KeysTaken(first.body, aRow) = Len(aRow)
      /\ Len(Appended(first.body, aRow)) = Len(first.body) + Len(aRow)
      /\ \A i \in 1..(Len(first.body) + Len(aRow)) :
            IF i <= Len(first.body) THEN Appended(first.body, aRow)[i] = first.body[i]
            ELSE Key(Appended(first.body, aRow)[i]) = m_iNextKey + i - (Len(first.body) + 1)
  <2> DEFINE w == Len(first.column) + 1
             body == first.body
  <2>1. /\ w \in Nat /\ w > 0 /\ body \in Bodies(w, m_iNextKey, K)
        /\ \A i \in 1..Len(aRow) : Len(aRow[i]) = w
    BY <1>7, <1>8
  <2> HIDE DEF w, body
  <2>2. /\ Appended(body, aRow)
             \in Bodies(w, m_iNextKey + Len(aRow),
                        K \cup KeysFrom(m_iNextKey, m_iNextKey + Len(aRow)))
        /\ KeysTaken(body, aRow) = Len(aRow)
        /\ Len(Appended(body, aRow)) = Len(body) + Len(aRow)
        /\ \A i \in 1..(Len(body) + Len(aRow)) :
              IF i <= Len(body) THEN Appended(body, aRow)[i] = body[i]
              ELSE Key(Appended(body, aRow)[i]) = m_iNextKey + i - (Len(body) + 1)
    BY <1>1, <1>2, <1>8, <2>1, BodyAppended
  <2> QED  BY <2>2 DEF w, body
<1>10. RoomToRead(aList) =
         [body |-> Appended(first.body, aRow), column |-> first.column,
          nextKey |-> k, threw |-> first.threw]
  <2> DEFINE body == Appended(first.body, aRow)
             taken == KeysTaken(first.body, aRow)
  <2>1. taken = Len(aList) /\ first.nextKey = m_iNextKey
    BY <1>7, <1>8, <1>9
  <2>2. RoomToRead(aList) = [first EXCEPT !.body = body, !.nextKey = @ + taken]
    BY <1>6
  <2> HIDE DEF body, taken
  <2>3. first.nextKey + taken = k
    BY <2>1
  <2> HIDE DEF k
  <2>4. RoomToRead(aList) = [first EXCEPT !.body = body, !.nextKey = k]
    BY <2>2, <2>3
  <2>5. RoomToRead(aList) =
          [body |-> body, column |-> first.column, nextKey |-> k, threw |-> first.threw]
    BY <1>7, <2>4
  <2> QED  BY <2>5 DEF body
<1>11. k \in Int /\ Appended(first.body, aRow)
            \in Bodies(Len(first.column) + 1, k, KeysUpTo(k))
  BY <1>2, <1>3, <1>8, <1>9 DEF KeysUpTo, K
<1> HIDE DEF k
<1>12. RoomToRead(aList) \in ReadStates(k, KeysUpTo(k))
  BY <1>7, <1>10, <1>11, ReadStateOf
<1>13. HasRoom(RoomToRead(aList), first, Len(aList))
  <2> DEFINE body == Appended(first.body, aRow)
  <2>1. RoomToRead(aList).body = body /\ RoomToRead(aList).threw = first.threw
    BY <1>10
  <2> HIDE DEF body
  <2>2. /\ Len(body) = Len(first.body) + Len(aList)
        /\ \A i \in 1..(Len(first.body) + Len(aList)) :
              IF i <= Len(first.body) THEN body[i] = first.body[i]
              ELSE Key(body[i]) = m_iNextKey + i - (Len(first.body) + 1)
    BY <1>8, <1>9 DEF body
  <2> QED  BY <2>1, <2>2 DEF HasRoom
<1> QED  BY <1>4, <1>12, <1>13 DEF k, K, first

\* The turns of the loop over the objects, from the row behind the last on.
ReadsList(F, aList) ==
    /\ F[0] = RoomToRead(aList)
    /\ \A i \in 1..Len(aList) :
          F[i] = ReadObject(F[i - 1], Len(m_aBody) + i - 1, aList[i])
    /\ ReadObjects(aList) = F[Len(aList)]

LEMMA ListTurns ==
    ASSUME TableInv, NEW aList \in Seq(Seq(Entry)), aList # <<>>
    PROVE  \E F : ReadsList(F, aList)
<1> DEFINE N == Len(aList)
           k == m_iNextKey + N
           S == ReadStates(k, KeysUpTo(k))
           start == RoomToRead(aList)
           iRow == ROWGetCount(m_aBody) + m_iHeaderSize
           step(t, i) == ReadObject(t, iRow + i - 1, aList[i])
           turn == [p \in (1..N) \X S |-> step(p[2], p[1])]
<1>1. N \in Nat /\ start \in S
  BY RoomIsMade
<1>2. ASSUME NEW i \in 1..N, NEW t \in S
      PROVE  step(t, i) \in S
  <2>1. aList[i] \in Seq(Entry)
    OBVIOUS
  <2>2. iRow \in Nat
    <3>1. Len(m_aBody) \in Nat /\ m_iHeaderSize \in Nat /\ m_iFooterSize = 0
      BY OwnKeys DEF TableInv, SizesFit
    <3> QED  BY <3>1 DEF ROWGetCount
  <2>3. iRow + i - 1 \in Nat
    BY <1>1, <2>2
  <2>4. IndexFits /\ m_aColumn \in Seq(Column)
    BY DEF TableInv
  <2> HIDE DEF iRow
  <2> QED  BY <2>1, <2>3, <2>4, ObjectRead
<1>3. turn \in [(1..N) \X S -> S]
  <2> HIDE DEF step, N, S, start, iRow
  <2> QED  BY <1>2
<1> HIDE DEF S, step, N, start, iRow
<1>4. PICK f \in [0..N -> S] :
         \A i \in 0..N : f[i] = IF i = 0 THEN start ELSE turn[<<i, f[i - 1]>>]
  <2> HIDE DEF turn
  <2>1. \E f : LoopOf(N, S, start, turn, f)
    BY <1>1, <1>3, LoopRuns
  <2> QED  BY <2>1 DEF LoopOf
<1>5. f = [i \in 0..N |-> IF i = 0 THEN start ELSE step(f[i - 1], i)]
  <2>1. ASSUME NEW i \in 0..N, i # 0
        PROVE  f[i] = step(f[i - 1], i)
    <3>1. i \in 1..N /\ i - 1 \in 0..N
      BY <1>1, <2>1
    <3>2. f[i - 1] \in S
      BY <1>4, <3>1
    <3> QED  BY <1>4, <2>1, <3>1, <3>2
  <2> QED  BY <1>4, <2>1
<1> DEFINE F == CHOOSE objects : objects = [i \in 0..N |->
                    IF i = 0 THEN start ELSE step(objects[i - 1], i)]
<1>6. F = [i \in 0..N |-> IF i = 0 THEN start ELSE step(F[i - 1], i)]
  BY <1>5
<1>7. ReadObjects(aList) = F[N]
  BY DEF ReadObjects, N, step, iRow, start
<1> HIDE DEF F
<1>8. F[0] = start
  <2>1. 0 \in 0..N
    BY <1>1
  <2> QED  BY <1>6, <2>1
<1>9. ASSUME NEW i \in 1..N
      PROVE  F[i] = step(F[i - 1], i)
  <2>1. i \in 0..N /\ i # 0
    BY <1>1
  <2> QED  BY <1>6, <2>1
<1>10. iRow = Len(m_aBody)
  <2>1. Len(m_aBody) \in Nat /\ m_iHeaderSize \in Nat /\ m_iFooterSize = 0
    BY OwnKeys DEF TableInv, SizesFit
  <2> QED  BY <2>1 DEF ROWGetCount, iRow
<1> HIDE DEF iRow
<1> QED  BY <1>7, <1>8, <1>9, <1>10 DEF ReadsList, step, N, start

\* The objects are read one by one, into the rows appended for them.
LEMMA ObjectsRead ==
    ASSUME TableInv, NEW aList \in Seq(Seq(Entry)), aList # <<>>
    PROVE  ReadObjects(aList)
              \in ReadStates(m_iNextKey + Len(aList), KeysUpTo(m_iNextKey + Len(aList)))
<1> DEFINE N == Len(aList)
           k == m_iNextKey + N
           S == ReadStates(k, KeysUpTo(k))
<1>1. N \in Nat /\ RoomToRead(aList) \in S
  BY RoomIsMade
<1> PICK F : ReadsList(F, aList)
  BY ListTurns
<1>2. /\ F[0] = RoomToRead(aList)
      /\ \A i \in 1..N : F[i] = ReadObject(F[i - 1], Len(m_aBody) + i - 1, aList[i])
      /\ ReadObjects(aList) = F[N]
  BY DEF ReadsList
<1>3. ASSUME NEW i \in 1..N, F[i - 1] \in S
      PROVE  F[i] \in S
  <2>1. aList[i] \in Seq(Entry)
    OBVIOUS
  <2>2. IndexFits /\ m_aColumn \in Seq(Column) /\ Len(m_aBody) \in Nat
    BY OwnKeys DEF TableInv
  <2> DEFINE iRow == Len(m_aBody) + i - 1
  <2>3. iRow \in Nat
    BY <1>1, <2>2
  <2> HIDE DEF iRow
  <2>4. ReadObject(F[i - 1], iRow, aList[i]) \in S
    BY <1>3, <2>1, <2>2, <2>3, ObjectRead
  <2> QED  BY <1>2, <2>4 DEF iRow
<1> DEFINE B == [i \in 0..N |-> S]
<1>4. F[0] \in B[0] /\ \A i \in 1..N : F[i - 1] \in B[i - 1] => F[i] \in B[i]
  <2> HIDE DEF S, N
  <2>1. \A i \in 0..N : B[i] = S
    OBVIOUS
  <2>2. 0 \in 0..N /\ \A i \in 1..N : i \in 0..N /\ i - 1 \in 0..N
    BY <1>1
  <2> HIDE DEF B
  <2> QED  BY <1>1, <1>2, <1>3, <2>1, <2>2
<1>5. N \in 0..N /\ B[N] = S
  BY <1>1
<1> HIDE DEF B, S, N
<1>6. \A i \in 0..N : F[i] \in B[i]
  BY <1>1, <1>4, LoopKeeps
<1>7. F[N] \in S
  BY <1>5, <1>6
<1> QED  BY <1>2, <1>7 DEF S, k, N

-----------------------------------------------------------------------------
(* The operations.                                                         *)

\* What every operation does that does not number the rows again: columns
\* and keys become no fewer, and a key that comes is a new one.
Advances ==
    /\ m_aColumn' \in Seq(Column)
    /\ OneSorted(m_aColumn')
    /\ Len(m_aColumn) <= Len(m_aColumn')
    /\ m_iNextKey' \in Nat
    /\ m_iNextKey <= m_iNextKey'
    /\ m_aBody' \in Bodies(Len(m_aColumn') + 1, m_iNextKey', KeysUpTo(m_iNextKey'))

\* Values are written as numbers.
LEMMA ValuesInInt == \A v \in Values : v \in Int
  BY ValuesAreNumbers

\* An operation on the rows that takes no key.
LEMMA RowsAdvance ==
    ASSUME TableInv, UNCHANGED <<m_aColumn, m_iNextKey>>,
           m_aBody' \in Bodies(Len(m_aColumn) + 1, m_iNextKey, Keys(m_aBody))
    PROVE  Advances
<1>1. m_aColumn \in Seq(Column) /\ Len(m_aColumn) \in Nat /\ m_iNextKey \in Nat
      /\ OneSorted(m_aColumn)
  BY DEF TableInv
<1>2. m_aBody' \in Bodies(Len(m_aColumn) + 1, m_iNextKey, KeysUpTo(m_iNextKey))
  <2>1. Keys(m_aBody) \subseteq KeysUpTo(m_iNextKey) /\ m_iNextKey \in Int
    BY <1>1 DEF KeysUpTo
  <2> QED  BY <1>1, <2>1, BodyWidens
<1> QED  BY <1>1, <1>2 DEF Advances

\* Appended rows take the keys from the next one on.
LEMMA AppendAdvances ==
    ASSUME TableInv, NEW aRow \in Seq(Seq(Int)),
           \A i \in 1..Len(aRow) : Len(aRow[i]) = Len(m_aColumn) + 1,
           ROWAppend(aRow)
    PROVE  Advances /\ UNCHANGED <<m_aColumnIndex, sizes>>
<1> DEFINE n == Len(m_aColumn) + 1
           K == Keys(m_aBody)
<1>1. /\ K \in SUBSET KeysFrom(0, m_iNextKey) /\ m_aBody \in Bodies(n, m_iNextKey, K)
      /\ n \in Nat /\ n > 0
  BY OwnKeys
<1>2. m_iFooterSize = 0 /\ m_iNextKey \in Nat /\ m_aColumn \in Seq(Column)
      /\ OneSorted(m_aColumn)
  BY DEF TableInv, SizesFit
<1>3. \A i \in 1..Len(aRow) : Len(aRow[i]) = n
  OBVIOUS
<1> HIDE DEF n, K
<1>4. /\ Appended(m_aBody, aRow)
            \in Bodies(n, m_iNextKey + Len(aRow),
                       K \cup KeysFrom(m_iNextKey, m_iNextKey + Len(aRow)))
      /\ KeysTaken(m_aBody, aRow) = Len(aRow)
  BY <1>1, <1>2, <1>3, BodyAppended
<1>5. /\ m_aBody' = Appended(m_aBody, aRow) /\ m_iNextKey' = m_iNextKey + Len(aRow)
      /\ UNCHANGED <<columnVars, sizes>>
  BY <1>4 DEF ROWAppend
<1>6. m_iNextKey' \in Nat /\ m_iNextKey <= m_iNextKey' /\ Len(m_aColumn) <= Len(m_aColumn)
  BY <1>2, <1>5
<1> QED  BY <1>2, <1>4, <1>5, <1>6 DEF Advances, columnVars, KeysUpTo, n, K

\* ROWAppend of a number of blank rows.
LEMMA AppendBlankAdvances ==
    ASSUME TableInv, ROWAppendBlank
    PROVE  Advances /\ UNCHANGED <<m_aColumnIndex, sizes>>
<1>1. PICK iCount \in 1..2 : ROWAppend(Blanks(iCount, Len(m_aColumn)))
  BY DEF ROWAppendBlank
<1>2. Len(m_aColumn) \in Nat /\ iCount \in Nat
  BY DEF TableInv
<1>3. /\ Blanks(iCount, Len(m_aColumn)) \in Seq(Seq(Int))
      /\ \A i \in 1..Len(Blanks(iCount, Len(m_aColumn))) :
            Len(Blanks(iCount, Len(m_aColumn))[i]) = Len(m_aColumn) + 1
  <2> DEFINE n == Len(m_aColumn)
  <2>1. n \in Nat
    BY <1>2
  <2> HIDE DEF n
  <2>2. /\ Blanks(iCount, n) \in Seq(Seq(Int)) /\ Len(Blanks(iCount, n)) = iCount
        /\ \A i \in 1..iCount : Len(Blanks(iCount, n)[i]) = n + 1
    BY <1>2, <2>1, BlankRows
  <2> QED  BY <2>2 DEF n
<1> QED  BY <1>1, <1>3, AppendAdvances

\* ROWAppend of a row of values.
LEMMA AppendValuesAdvances ==
    ASSUME TableInv, ROWAppendValues
    PROVE  Advances /\ UNCHANGED <<m_aColumnIndex, sizes>>
<1>1. PICK values \in FullRows : ROWAppend(<< <<Undefined>> \o values >>)
  BY DEF ROWAppendValues
<1> DEFINE row == <<Undefined>> \o values
<1>2. Len(m_aColumn) \in Nat
  BY DEF TableInv
<1>3. values \in Seq(Int) /\ Len(values) = Len(m_aColumn)
  <2>1. values \in [1..Len(m_aColumn) -> Int]
    BY ValuesInInt DEF FullRows
  <2> QED  BY <1>2, <2>1, FunctionIsSequence
<1>4. row \in Seq(Int) /\ Len(row) = Len(m_aColumn) + 1
  <2>1. <<Undefined>> \in Seq(Int) /\ Len(<<Undefined>>) = 1
    BY DEF Undefined
  <2>2. row \in Seq(Int) /\ Len(row) = 1 + Len(m_aColumn)
    BY <1>3, <2>1, ConcatProperties
  <2> QED  BY <1>2, <2>2
<1> HIDE DEF row
<1>5. <<row>> \in Seq(Seq(Int)) /\ \A i \in 1..Len(<<row>>) : Len(<<row>>[i]) = Len(m_aColumn) + 1
  BY <1>4
<1>6. ROWAppend(<<row>>)
  BY <1>1 DEF row
<1> QED  BY <1>5, <1>6, AppendAdvances

\* Inserted rows take the keys from the next one on.
LEMMA InsertAdvances ==
    ASSUME TableInv, NEW iRow \in Nat, NEW aRow \in Seq(Seq(Int)),
           \A i \in 1..Len(aRow) : Len(aRow[i]) = Len(m_aColumn) + 1,
           ROWInsert(iRow, aRow)
    PROVE  Advances /\ UNCHANGED <<m_aColumnIndex, sizes>>
<1> DEFINE n == Len(m_aColumn) + 1
           K == Keys(m_aBody)
<1>1. /\ K \in SUBSET KeysFrom(0, m_iNextKey) /\ m_aBody \in Bodies(n, m_iNextKey, K)
      /\ n \in Nat /\ n > 0
  BY OwnKeys
<1>2. m_iNextKey \in Nat /\ m_aColumn \in Seq(Column) /\ OneSorted(m_aColumn)
  BY DEF TableInv
<1>3. \A i \in 1..Len(aRow) : Len(aRow[i]) = n
  OBVIOUS
<1> HIDE DEF n, K
<1>4. Inserted(m_aBody, iRow, aRow)
            \in Bodies(n, m_iNextKey + Len(aRow),
                       K \cup KeysFrom(m_iNextKey, m_iNextKey + Len(aRow)))
  BY <1>1, <1>2, <1>3, BodyInserted
<1>5. /\ m_aBody' = Inserted(m_aBody, iRow, aRow) /\ m_iNextKey' = m_iNextKey + Len(aRow)
      /\ UNCHANGED <<columnVars, sizes>>
  BY DEF ROWInsert
<1>6. m_iNextKey' \in Nat /\ m_iNextKey <= m_iNextKey' /\ Len(m_aColumn) <= Len(m_aColumn)
  BY <1>2, <1>5
<1> QED  BY <1>2, <1>4, <1>5, <1>6 DEF Advances, columnVars, KeysUpTo, n, K

\* ROWInsert of a number of blank rows.
LEMMA InsertBlankAdvances ==
    ASSUME TableInv, ROWInsertBlank
    PROVE  Advances /\ UNCHANGED <<m_aColumnIndex, sizes>>
<1>1. PICK iRow \in 0..m_iNextKey, iCount \in 1..2 :
         ROWInsert(iRow, Blanks(iCount, Len(m_aColumn)))
  BY DEF ROWInsertBlank
<1>2. Len(m_aColumn) \in Nat /\ iCount \in Nat /\ iRow \in Nat
  BY DEF TableInv
<1>3. /\ Blanks(iCount, Len(m_aColumn)) \in Seq(Seq(Int))
      /\ \A i \in 1..Len(Blanks(iCount, Len(m_aColumn))) :
            Len(Blanks(iCount, Len(m_aColumn))[i]) = Len(m_aColumn) + 1
  <2> DEFINE n == Len(m_aColumn)
  <2>1. n \in Nat
    BY <1>2
  <2> HIDE DEF n
  <2>2. /\ Blanks(iCount, n) \in Seq(Seq(Int)) /\ Len(Blanks(iCount, n)) = iCount
        /\ \A i \in 1..iCount : Len(Blanks(iCount, n)[i]) = n + 1
    BY <1>2, <2>1, BlankRows
  <2> QED  BY <2>2 DEF n
<1> QED  BY <1>1, <1>2, <1>3, InsertAdvances

\* ROWInsert of a row of values, padded with null.
LEMMA InsertValuesAdvances ==
    ASSUME TableInv, ROWInsertValues
    PROVE  Advances /\ UNCHANGED <<m_aColumnIndex, sizes>>
<1>1. PICK iRow \in 0..m_iNextKey, v \in Values :
         /\ m_aColumn # <<>>
         /\ ROWInsert(iRow, << <<Undefined, v>> \o
                               [i \in 1..(Len(m_aColumn) - 1) |-> Null] >>)
  BY DEF ROWInsertValues
<1> DEFINE padding == [i \in 1..(Len(m_aColumn) - 1) |-> Null]
           row == <<Undefined, v>> \o padding
<1>2. Len(m_aColumn) \in Nat /\ Len(m_aColumn) - 1 \in Nat /\ iRow \in Nat
  <2>1. m_aColumn \in Seq(Column) /\ m_aColumn # <<>> /\ m_iNextKey \in Nat
    BY <1>1 DEF TableInv
  <2> QED  BY <2>1
<1>3. padding \in Seq(Int) /\ Len(padding) = Len(m_aColumn) - 1
  <2>1. padding \in [1..(Len(m_aColumn) - 1) -> Int]
    BY DEF Null
  <2> QED  BY <1>2, <2>1, FunctionIsSequence
<1> HIDE DEF padding
<1>4. row \in Seq(Int) /\ Len(row) = Len(m_aColumn) + 1
  <2>1. <<Undefined, v>> \in Seq(Int) /\ Len(<<Undefined, v>>) = 2
    BY ValuesInInt DEF Undefined
  <2>2. row \in Seq(Int) /\ Len(row) = 2 + (Len(m_aColumn) - 1)
    BY <1>3, <2>1, ConcatProperties
  <2> QED  BY <1>2, <2>2
<1> HIDE DEF row
<1>5. <<row>> \in Seq(Seq(Int)) /\ \A i \in 1..Len(<<row>>) : Len(<<row>>[i]) = Len(m_aColumn) + 1
  BY <1>4
<1>6. ROWInsert(iRow, <<row>>)
  BY <1>1 DEF row, padding
<1> QED  BY <1>2, <1>5, <1>6, InsertAdvances

\* ROWRemove, also where the key names no row.
LEMMA RemoveAdvances ==
    ASSUME TableInv, ROWRemove
    PROVE  Advances /\ UNCHANGED <<m_aColumnIndex, sizes>>
<1>1. PICK iRow \in 0..m_iNextKey, iLength \in 1..2 :
         /\ m_aBody' = Splice(m_aBody, _row(m_aBody, iRow), iLength, <<>>)
         /\ UNCHANGED <<m_iNextKey, columnVars, sizes>>
  BY DEF ROWRemove
<1>2. m_aBody \in Bodies(Len(m_aColumn) + 1, m_iNextKey, Keys(m_aBody))
      /\ m_aBody \in Seq(Seq(Int)) /\ m_iNextKey \in Int /\ iRow \in Nat /\ iLength \in Nat
  BY OwnKeys DEF TableInv
<1>3. _row(m_aBody, iRow) \in Int
  BY <1>2, RowFound
<1>4. m_aBody' \in Bodies(Len(m_aColumn) + 1, m_iNextKey, Keys(m_aBody))
  BY <1>1, <1>2, <1>3, BodyCut
<1> QED  BY <1>1, <1>4, RowsAdvance DEF columnVars

\* A key of the table is found, at a row of it.
LEMMA KeyFound ==
    ASSUME TableInv, NEW iRow \in Keys(m_aBody)
    PROVE  /\ iRow \in Nat
           /\ _row(m_aBody, iRow) \in 0..(Len(m_aBody) - 1)
           /\ _row(m_aBody, iRow) + 1 \in 1..Len(m_aBody)
<1>1. Keys(m_aBody) \in SUBSET KeysFrom(0, m_iNextKey) /\ m_aBody \in Seq(Seq(Int))
      /\ Len(m_aBody) \in Nat
  BY OwnKeys
<1>2. iRow \in Nat
  <2>1. iRow \in KeysFrom(0, m_iNextKey) /\ m_iNextKey \in Nat
    BY <1>1 DEF TableInv
  <2> QED  BY <2>1 DEF KeysFrom
<1>3. _row(m_aBody, iRow) \in -1..(Len(m_aBody) - 1) /\ _row(m_aBody, iRow) # None
  BY <1>1, <1>2, RowFound
<1> QED  BY <1>1, <1>2, <1>3 DEF None

\* ROWSet keeps the key of the row it writes.
LEMMA SetAdvances ==
    ASSUME TableInv, ROWSet
    PROVE  Advances /\ UNCHANGED <<m_aColumnIndex, sizes>>
<1>1. PICK iRow \in Keys(m_aBody), v \in Values :
         /\ m_aBody' = Splice(m_aBody, _row(m_aBody, iRow), 1,
                              << <<Key(m_aBody[_row(m_aBody, iRow) + 1])>>
                                  \o [j \in DOMAIN m_aColumn |-> v] >>)
         /\ UNCHANGED <<m_iNextKey, columnVars, sizes>>
  BY DEF ROWSet
<1> DEFINE iR == _row(m_aBody, iRow)
           iKey == Key(m_aBody[iR + 1])
           value == [j \in DOMAIN m_aColumn |-> v]
           row == <<iKey>> \o value
           n == Len(m_aColumn) + 1
<1>2. iR \in 0..(Len(m_aBody) - 1) /\ iR + 1 \in 1..Len(m_aBody)
  BY KeyFound
<1>3. /\ m_aBody \in Bodies(n, m_iNextKey, Keys(m_aBody)) /\ m_aBody \in Seq(Seq(Int))
      /\ Len(m_aColumn) \in Nat /\ m_aColumn \in Seq(Column)
  BY OwnKeys DEF TableInv
<1>4. RowsOf(m_aBody, n, Keys(m_aBody))
  BY <1>3, BodyRows
<1>5. m_aBody[iR + 1] \in Seq(Int) /\ Len(m_aBody[iR + 1]) = n
  BY <1>2, <1>3, <1>4 DEF RowsOf
<1> HIDE DEF iR
<1>6. iKey \in Int
  BY <1>3, <1>5 DEF Key
<1>7. value \in Seq(Int) /\ Len(value) = Len(m_aColumn)
  <2>1. value \in [1..Len(m_aColumn) -> Int]
    BY <1>3, ValuesInInt
  <2> QED  BY <1>3, <2>1, FunctionIsSequence
<1> HIDE DEF iKey, value
<1>8. row \in Seq(Int) /\ Len(row) = n /\ Key(row) = iKey
  <2>1. <<iKey>> \in Seq(Int) /\ Len(<<iKey>>) = 1 /\ <<iKey>>[1] = iKey
    BY <1>6
  <2>2. row \in Seq(Int) /\ Len(row) = 1 + Len(m_aColumn) /\ row[1] = iKey
    BY <1>7, <2>1, ConcatProperties
  <2> QED  BY <1>3, <2>2 DEF Key
<1> HIDE DEF row, n
<1>9. Splice(m_aBody, iR, 1, <<row>>) \in Bodies(n, m_iNextKey, Keys(m_aBody))
  BY <1>2, <1>3, <1>8, BodyReplaced DEF iKey
<1>10. m_aBody' = Splice(m_aBody, iR, 1, <<row>>)
  BY <1>1 DEF row, iKey, value, iR
<1> QED  BY <1>1, <1>9, <1>10, RowsAdvance DEF columnVars, n

\* A column comes into the rows where it comes into the columns.
LEMMA InsertColumnAdvances ==
    ASSUME TableInv, InsertColumn
    PROVE  Advances /\ UNCHANGED <<m_aColumnIndex, sizes>>
<1>1. PICK p \in 0..MaxColumns, v \in Values \cup {Undefined}, iCount \in 1..2 :
         /\ _index(p) \in 0..Len(m_aColumn)
         /\ m_aBody' = ROWExpand(m_aBody, iCount, v, _index2(p))
         /\ m_aColumn' = Splice(m_aColumn, _index(p), 0,
                                [j \in 1..iCount |-> _create_column(NoName)])
         /\ UNCHANGED <<m_iNextKey, m_aColumnIndex, sizes>>
  BY DEF InsertColumn
<1> DEFINE at == _index(p)
           new == [j \in 1..iCount |-> _create_column(NoName)]
           column == Splice(m_aColumn, at, 0, new)
           n == Len(m_aColumn)
<1>2. /\ m_aColumn \in Seq(Column) /\ n \in Nat /\ m_iNextKey \in Nat
      /\ m_aBody \in Bodies(n + 1, m_iNextKey, Keys(m_aBody))
  BY OwnKeys DEF TableInv
<1>3. at \in 0..n /\ at \in Int /\ _index2(p) = at + 1 /\ iCount \in Nat /\ v \in Int
  BY <1>1, <1>2, ValuesInInt DEF _index2, Undefined
<1> HIDE DEF at
<1>4. new \in Seq(Column) /\ Len(new) = iCount
  <2>1. _create_column(NoName) \in Column
    BY DEF _create_column, Column
  <2>2. new \in [1..iCount -> Column]
    BY <2>1
  <2> QED  BY <1>3, <2>2, FunctionIsSequence
<1>10. \A j \in 1..iCount : new[j].sort = 0
  BY DEF _create_column
<1> HIDE DEF new
<1>5. column \in Seq(Column) /\ Len(column) = n + iCount
  <2>1. Cut(m_aColumn, at) = at
    BY <1>2, <1>3 DEF Cut
  <2>2. column \in Seq(Column) /\ IsSpliced(column, m_aColumn, at, 0, new)
    BY <1>2, <1>3, <1>4, <2>1, SpliceYields
  <2> HIDE DEF column
  <2>3. Len(column) = at + iCount + (IF at + 0 < n THEN n - at - 0 ELSE 0)
    BY <1>4, <2>2 DEF IsSpliced
  <2> HIDE DEF n
  <2>4. CASE at = n
    BY <1>2, <1>3, <2>2, <2>3, <2>4
  <2>5. CASE at < n
    BY <1>2, <1>3, <2>2, <2>3, <2>5
  <2> QED  BY <1>2, <1>3, <2>4, <2>5
<1>11. OneSorted(column)
  <2>1. Cut(m_aColumn, at) = at
    BY <1>2, <1>3 DEF Cut
  <2>2. IsSpliced(column, m_aColumn, at, 0, new)
    BY <1>2, <1>3, <1>4, <2>1, SpliceYields
  <2> HIDE DEF column, n
  <2>3. ASSUME NEW j \in 1..Len(column), column[j].sort # 0
        PROVE  \/ j <= at /\ j \in 1..n /\ column[j] = m_aColumn[j]
               \/ /\ j > at + iCount /\ j - iCount \in 1..n /\ j - iCount > at
                  /\ column[j] = m_aColumn[j - iCount]
    <3>1. CASE j <= at
      <4>1. column[j] = m_aColumn[j]
        BY <2>2, <3>1 DEF IsSpliced
      <4> QED  BY <1>2, <1>3, <3>1, <4>1
    <3>2. CASE j > at /\ j <= at + iCount
      <4>1. ~(j <= at) /\ j - at \in 1..iCount
        BY <1>3, <3>2
      <4>2. column[j] = new[j - at]
        BY <1>4, <2>2, <3>2, <4>1 DEF IsSpliced
      <4> QED  BY <1>10, <2>3, <4>1, <4>2
    <3>3. CASE j > at + iCount
      <4>1. ~(j <= at) /\ ~(j <= at + iCount) /\ j - iCount + 0 = j - iCount
        BY <1>3, <3>3
      <4>2. column[j] = m_aColumn[j - iCount]
        BY <1>4, <2>2, <4>1 DEF IsSpliced
      <4> QED  BY <1>2, <1>3, <1>5, <3>3, <4>2
    <3> QED  BY <1>3, <3>1, <3>2, <3>3
  <2>4. \A i, j \in 1..n : m_aColumn[i].sort # 0 /\ m_aColumn[j].sort # 0 => i = j
    BY DEF TableInv, OneSorted, n
  <2> SUFFICES ASSUME NEW i \in 1..Len(column), NEW j \in 1..Len(column),
                      column[i].sort # 0, column[j].sort # 0
               PROVE  i = j
    BY DEF OneSorted
  <2> QED  BY <1>3, <2>3, <2>4, SMTT(30)
<1>6. ROWExpand(m_aBody, iCount, v, at + 1) \in Bodies((n + 1) + iCount, m_iNextKey, Keys(m_aBody))
  <2>1. n + 1 \in Nat /\ at + 1 \in 1..(n + 1)
    BY <1>2, <1>3
  <2> HIDE DEF n
  <2> QED  BY <1>2, <1>3, <2>1, BodyExpanded
<1>7. m_aBody' \in Bodies(Len(m_aColumn') + 1, m_iNextKey, Keys(m_aBody))
  <2>1. m_aColumn' = column /\ m_aBody' = ROWExpand(m_aBody, iCount, v, at + 1)
    BY <1>1, <1>3 DEF at, new
  <2>2. Len(column) + 1 = (n + 1) + iCount
    BY <1>2, <1>3, <1>5
  <2> HIDE DEF column, n
  <2> QED  BY <1>6, <2>1, <2>2
<1>8. m_aColumn' \in Seq(Column) /\ Len(m_aColumn) <= Len(m_aColumn')
      /\ OneSorted(m_aColumn')
  <2>1. m_aColumn' = column
    BY <1>1 DEF at, new
  <2> HIDE DEF column
  <2> QED  BY <1>2, <1>3, <1>5, <1>11, <2>1
<1>9. m_aBody' \in Bodies(Len(m_aColumn') + 1, m_iNextKey, KeysUpTo(m_iNextKey))
  <2>1. Keys(m_aBody) \subseteq KeysUpTo(m_iNextKey) /\ m_iNextKey \in Int
    BY <1>2 DEF KeysUpTo
  <2> QED  BY <1>2, <1>7, <2>1, BodyWidens
<1> QED  BY <1>1, <1>2, <1>8, <1>9 DEF Advances

\* Hiding and sorting leave the number of columns.
LEMMA ColumnPropertyAdvances ==
    ASSUME TableInv, COLUMNSetPropertyValue
    PROVE  Advances /\ UNCHANGED <<m_aColumnIndex, sizes>>
<1>1. m_aColumn \in Seq(Column) /\ Len(m_aColumn) \in Nat /\ m_iNextKey \in Nat
      /\ m_aBody \in Bodies(Len(m_aColumn) + 1, m_iNextKey, Keys(m_aBody))
      /\ DOMAIN m_aColumn = 1..Len(m_aColumn) /\ OneSorted(m_aColumn)
  BY OwnKeys DEF TableInv
<1>2. m_aColumn' \in Seq(Column) /\ Len(m_aColumn') = Len(m_aColumn)
      /\ OneSorted(m_aColumn')
  <2>1. PICK c \in DOMAIN m_aColumn :
           \/ \E hide \in BOOLEAN :
                m_aColumn' = Splice(m_aColumn, c - 1, 1,
                                    <<[m_aColumn[c] EXCEPT !.hide = hide]>>)
           \/ \E sort \in {-1, 0, 1} :
                m_aColumn' = [i \in DOMAIN m_aColumn |->
                    [m_aColumn[i] EXCEPT !.sort = IF i = c THEN sort ELSE 0]]
    BY DEF COLUMNSetPropertyValue
  <2>2. ASSUME NEW hide \in BOOLEAN,
               m_aColumn' = Splice(m_aColumn, c - 1, 1,
                                   <<[m_aColumn[c] EXCEPT !.hide = hide]>>)
        PROVE  m_aColumn' \in Seq(Column) /\ Len(m_aColumn') = Len(m_aColumn)
               /\ OneSorted(m_aColumn')
    <3> DEFINE item == [m_aColumn[c] EXCEPT !.hide = hide]
    <3>1. m_aColumn[c] \in Column /\ c - 1 \in 0..(Len(m_aColumn) - 1)
      BY <1>1
    <3>2. item \in Column /\ item.sort = m_aColumn[c].sort
      BY <3>1 DEF Column
    <3>3. m_aColumn' = Splice(m_aColumn, c - 1, 1, <<item>>)
      BY <2>2
    <3> HIDE DEF item
    <3>4. /\ m_aColumn' \in Seq(Column)
          /\ Len(m_aColumn') = Len(m_aColumn)
          /\ \A j \in 1..Len(m_aColumn) :
                m_aColumn'[j] = IF j = (c - 1) + 1 THEN item ELSE m_aColumn[j]
      BY <1>1, <3>1, <3>2, <3>3, ElementReplaced
    <3>5. \A j \in 1..Len(m_aColumn) : m_aColumn'[j].sort = m_aColumn[j].sort
      BY <1>1, <3>2, <3>4
    <3> QED  BY <1>1, <3>4, <3>5 DEF OneSorted
  <2>3. ASSUME NEW sort \in {-1, 0, 1},
               m_aColumn' = [i \in DOMAIN m_aColumn |->
                   [m_aColumn[i] EXCEPT !.sort = IF i = c THEN sort ELSE 0]]
        PROVE  m_aColumn' \in Seq(Column) /\ Len(m_aColumn') = Len(m_aColumn)
               /\ OneSorted(m_aColumn')
    <3>1. ASSUME NEW i \in 1..Len(m_aColumn)
          PROVE  [m_aColumn[i] EXCEPT !.sort = IF i = c THEN sort ELSE 0] \in Column
      <4>1. m_aColumn[i] \in Column
        BY <1>1
      <4>2. (IF i = c THEN sort ELSE 0) \in {-1, 0, 1}
        OBVIOUS
      <4> QED  BY <4>1, <4>2 DEF Column
    <3>2. m_aColumn' \in [1..Len(m_aColumn) -> Column]
      BY <1>1, <2>3, <3>1
    <3>3. m_aColumn' \in Seq(Column) /\ Len(m_aColumn') = Len(m_aColumn)
      BY <1>1, <3>2, FunctionIsSequence
    <3>4. \A i \in 1..Len(m_aColumn) : m_aColumn'[i].sort # 0 => i = c
      <4> SUFFICES ASSUME NEW i \in 1..Len(m_aColumn), i # c
                   PROVE  m_aColumn'[i].sort = 0
        OBVIOUS
      <4>1. m_aColumn'[i] = [m_aColumn[i] EXCEPT !.sort = 0] /\ m_aColumn[i] \in Column
        BY <1>1, <2>3
      <4> QED  BY <4>1 DEF Column
    <3> QED  BY <3>3, <3>4 DEF OneSorted
  <2> QED  BY <2>1, <2>2, <2>3
<1>3. UNCHANGED <<rowVars, m_aColumnIndex, sizes>>
  BY DEF COLUMNSetPropertyValue
<1>4. m_aBody \in Bodies(Len(m_aColumn) + 1, m_iNextKey, KeysUpTo(m_iNextKey))
  <2>1. Keys(m_aBody) \subseteq KeysUpTo(m_iNextKey) /\ m_iNextKey \in Int
    BY <1>1 DEF KeysUpTo
  <2> QED  BY <1>1, <2>1, BodyWidens
<1> QED  BY <1>1, <1>2, <1>3, <1>4 DEF Advances, rowVars

\* COLUMNUpdatePositionIndex makes positions of columns that exist.
LEMMA PositionIndexAdvances ==
    ASSUME TableInv, COLUMNUpdatePositionIndex
    PROVE  Advances /\ IndexFits' /\ UNCHANGED sizes
<1>1. /\ m_aColumnIndex' = Visible(m_aColumn) /\ UNCHANGED <<rowVars, m_aColumn, sizes>>
      /\ m_aColumn \in Seq(Column)
  BY DEF COLUMNUpdatePositionIndex, TableInv
<1>2. m_aColumnIndex' \in Seq(0..(Len(m_aColumn) - 1))
  BY <1>1, VisiblePlaces
<1>3. IndexFits'
  BY <1>1, <1>2 DEF IndexFits
<1>4. m_aBody' \in Bodies(Len(m_aColumn) + 1, m_iNextKey, Keys(m_aBody))
  BY <1>1, OwnKeys DEF rowVars
<1>5. Advances
  BY <1>1, <1>4, RowsAdvance DEF rowVars
<1> QED  BY <1>1, <1>3, <1>5

\* The headers and objects a caller reads are sequences.
LEMMA HeadersAreNames == Headers \subseteq Seq(Names)
<1> SUFFICES ASSUME NEW h \in Headers
             PROVE  h \in Seq(Names)
  OBVIOUS
<1>1. CASE h \in {<<n>> : n \in Names}
  <2>1. PICK n \in Names : h = <<n>>
    BY <1>1
  <2> QED  BY <2>1
<1>2. CASE h \in Names \X Names
  <2>1. PICK a \in Names, b \in Names : h = <<a, b>>
    BY <1>2
  <2> QED  BY <2>1
<1> QED  BY <1>1, <1>2 DEF Headers

\* An object is a sequence of entries.
LEMMA ObjectsAreEntries == Objects \subseteq Seq(Entry)
<1> SUFFICES ASSUME NEW o \in Objects
             PROVE  o \in Seq(Entry)
  OBVIOUS
<1>1. PICK h \in Headers, v \in Values : o = [i \in DOMAIN h |-> <<h[i], v>>]
  BY DEF Objects
<1>2. h \in Seq(Names)
  BY HeadersAreNames
<1>3. o \in [1..Len(h) -> Entry] /\ Len(h) \in Nat
  BY <1>1, <1>2 DEF Entry
<1> QED  BY <1>3, FunctionIsSequence

\* Callers read at least one object.
LEMMA ListsAreObjects ==
    ASSUME NEW aList \in ObjectLists
    PROVE  aList \in Seq(Seq(Entry)) /\ aList # <<>> /\ Len(aList) \in Nat
<1>1. CASE aList \in {<<o>> : o \in Objects}
  <2>1. PICK o \in Objects : aList = <<o>>
    BY <1>1
  <2>2. o \in Seq(Entry)
    BY ObjectsAreEntries
  <2> QED  BY <2>1, <2>2
<1>2. CASE aList \in {<<o, p>> : o, p \in Objects}
  <2>1. PICK o \in Objects, p \in Objects : aList = <<o, p>>
    BY <1>2
  <2>2. o \in Seq(Entry) /\ p \in Seq(Entry)
    BY ObjectsAreEntries
  <2> QED  BY <2>1, <2>2
<1> QED  BY <1>1, <1>2 DEF ObjectLists

\* Read takes the columns and rows that ReadObjects reached.
LEMMA ReadAdvances ==
    ASSUME TableInv, Read
    PROVE  Advances /\ UNCHANGED <<m_aColumnIndex, sizes>>
<1>1. PICK aList \in ObjectLists :
         /\ m_aBody' = ReadObjects(aList).body
         /\ m_aColumn' = ReadObjects(aList).column
         /\ m_iNextKey' = ReadObjects(aList).nextKey
         /\ UNCHANGED <<m_aColumnIndex, sizes>>
  BY DEF Read
<1> DEFINE s == ReadObjects(aList)
           k == m_iNextKey + Len(aList)
<1>2. s \in ReadStates(k, KeysUpTo(k))
  BY ListsAreObjects, ObjectsRead
<1>3. m_iNextKey \in Nat /\ k \in Nat /\ m_iNextKey <= k
  BY ListsAreObjects DEF TableInv
<1> HIDE DEF s, k
<1>4. /\ s.column \in Seq(Column) /\ Len(m_aColumn) <= Len(s.column) /\ OneSorted(s.column)
      /\ s.body \in Bodies(Len(s.column) + 1, k, KeysUpTo(k)) /\ s.nextKey = k
  BY <1>2, ReadStateParts
<1>5. m_aBody' = s.body /\ m_aColumn' = s.column /\ m_iNextKey' = k
  BY <1>1, <1>4 DEF s
<1> QED  BY <1>1, <1>3, <1>4, <1>5 DEF Advances

\* ReadArray makes columns only in a table without columns and rows.
LEMMA ReadArrayAdvances ==
    ASSUME TableInv, ReadArray
    PROVE  Advances /\ UNCHANGED <<m_aColumnIndex, sizes>>
<1> DEFINE columnOf(h) == IF m_aColumn # <<>> THEN m_aColumn
                          ELSE [i \in DOMAIN h |-> _create_column(h[i])]
           rowsOf(h, c) == Blanks(IF c = 0 THEN 1 ELSE c, Len(columnOf(h)))
           iRow == ROWGetCount(m_aBody) + m_iHeaderSize
<1>1. PICK header \in Headers, iCount \in 0..1, v \in Values :
         /\ m_aColumn = <<>> => m_aBody = <<>>
         /\ m_aColumn' = columnOf(header)
         /\ m_aBody' = [i \in DOMAIN Appended(m_aBody, rowsOf(header, iCount)) |->
              IF i - 1 \in iRow..(iRow + iCount - 1)
              THEN [j \in DOMAIN Appended(m_aBody, rowsOf(header, iCount))[i] |->
                      IF j = 1 THEN Appended(m_aBody, rowsOf(header, iCount))[i][1] ELSE v]
              ELSE Appended(m_aBody, rowsOf(header, iCount))[i]]
         /\ m_iNextKey' = m_iNextKey + KeysTaken(m_aBody, rowsOf(header, iCount))
         /\ UNCHANGED <<m_aColumnIndex, sizes>>
  BY DEF ReadArray
<1> DEFINE column == columnOf(header)
           aRow == rowsOf(header, iCount)
           body == Appended(m_aBody, aRow)
           N == IF iCount = 0 THEN 1 ELSE iCount
           n == Len(column) + 1
           K == Keys(m_aBody)
           k == m_iNextKey + N
<1>2. /\ m_aColumn \in Seq(Column) /\ m_iNextKey \in Nat /\ m_iFooterSize = 0
      /\ Len(m_aColumn) \in Nat /\ N \in Nat /\ OneSorted(m_aColumn)
  BY DEF TableInv, SizesFit
<1>3. column \in Seq(Column) /\ Len(column) \in Nat /\ Len(m_aColumn) <= Len(column)
      /\ OneSorted(column)
  <2>1. CASE m_aColumn # <<>>
    BY <1>2, <2>1
  <2>2. CASE m_aColumn = <<>>
    <3>1. header \in Seq(Names)
      BY HeadersAreNames
    <3>2. \A i \in 1..Len(header) : _create_column(header[i]) \in Column
      BY <3>1 DEF _create_column, Column
    <3>3. column = [i \in 1..Len(header) |-> _create_column(header[i])]
      BY <2>2, <3>1
    <3>4. column \in [1..Len(header) -> Column] /\ Len(header) \in Nat
      BY <3>1, <3>2, <3>3
    <3>5. column \in Seq(Column) /\ Len(column) = Len(header)
      <4> HIDE DEF column
      <4> QED  BY <3>4, FunctionIsSequence
    <3>6. \A i \in 1..Len(header) : column[i].sort = 0
      BY <3>3 DEF _create_column
    <3> HIDE DEF column
    <3>7. OneSorted(column)
      BY <3>5, <3>6 DEF OneSorted
    <3> QED  BY <1>2, <2>2, <3>4, <3>5, <3>7
  <2> QED  BY <2>1, <2>2
<1>4. K \in SUBSET KeysFrom(0, m_iNextKey) /\ m_aBody \in Bodies(n, m_iNextKey, K)
  <2>1. CASE m_aColumn # <<>>
    BY <2>1, OwnKeys
  <2>2. CASE m_aColumn = <<>>
    <3>1. m_aBody = <<>>
      BY <1>1, <2>2
    <3>2. K \in SUBSET KeysFrom(0, m_iNextKey)
      BY OwnKeys
    <3>3. m_aBody \in Seq(Seq(Int)) /\ Len(m_aBody) <= m_iNextKey
          /\ RowsOf(m_aBody, n, K) /\ OneRowForKey(m_aBody)
      BY <1>2, <3>1 DEF RowsOf, OneRowForKey
    <3> HIDE DEF n, K
    <3> QED  BY <3>2, <3>3, BodyOf
  <2> QED  BY <2>1, <2>2
<1>5. aRow \in Seq(Seq(Int)) /\ Len(aRow) = N /\ \A i \in 1..Len(aRow) : Len(aRow[i]) = n
  <2> DEFINE m == Len(column)
  <2>1. m \in Nat /\ aRow = Blanks(N, m)
    BY <1>3
  <2> HIDE DEF m, aRow, N, column
  <2>2. /\ aRow \in Seq(Seq(Int)) /\ Len(aRow) = N
        /\ \A i \in 1..N : Len(aRow[i]) = m + 1
    BY <1>2, <2>1, BlankRows
  <2> QED  BY <2>2 DEF m
<1>6. n \in Nat /\ n > 0
  BY <1>3
<1> HIDE DEF aRow, n, K
<1>7. /\ body \in Bodies(n, m_iNextKey + Len(aRow),
                         K \cup KeysFrom(m_iNextKey, m_iNextKey + Len(aRow)))
      /\ KeysTaken(m_aBody, aRow) = Len(aRow)
  BY <1>2, <1>4, <1>5, <1>6, BodyAppended
<1>8. body \in Bodies(n, k, KeysUpTo(k)) /\ KeysTaken(m_aBody, aRow) = N
  BY <1>5, <1>7 DEF KeysUpTo, K
<1> DEFINE new == [i \in DOMAIN body |->
                     IF i - 1 \in iRow..(iRow + iCount - 1)
                     THEN [j \in DOMAIN body[i] |-> IF j = 1 THEN body[i][1] ELSE v]
                     ELSE body[i]]
<1>9. m_aBody' = new /\ m_aColumn' = column /\ m_iNextKey' = k
  BY <1>1, <1>8 DEF aRow
<1> HIDE DEF column, iRow, body, k, N
<1>10. new \in Bodies(n, k, KeysUpTo(k))
  <2>1. body \in Seq(Seq(Int)) /\ Len(body) \in Nat /\ DOMAIN body = 1..Len(body)
        /\ RowsOf(body, n, KeysUpTo(k))
    BY <1>8, BodyRows
  <2>2. ASSUME NEW i \in 1..Len(body)
        PROVE  new[i] \in Seq(Int) /\ Len(new[i]) = n /\ Key(new[i]) = Key(body[i])
    <3> DEFINE row == body[i]
               written == [j \in DOMAIN row |-> IF j = 1 THEN row[1] ELSE v]
    <3>1. row \in Seq(Int) /\ Len(row) = n /\ DOMAIN row = 1..n
      BY <2>1 DEF RowsOf
    <3>2. new[i] = row \/ new[i] = written
      BY <2>1
    <3> HIDE DEF row, new
    <3>3. written \in Seq(Int) /\ Len(written) = n /\ written[1] = row[1]
      <4>1. row[1] \in Int /\ 1 \in 1..n /\ v \in Int
        BY <1>6, <3>1, ValuesInInt
      <4>2. written \in [1..n -> Int] /\ written[1] = row[1]
        BY <3>1, <4>1
      <4> HIDE DEF written
      <4> QED  BY <1>6, <4>2, FunctionIsSequence
    <3> HIDE DEF written
    <3> QED  BY <3>1, <3>2, <3>3 DEF Key, row
  <2>3. new \in Seq(Seq(Int)) /\ Len(new) = Len(body)
    <3>1. new \in [1..Len(body) -> Seq(Int)]
      BY <2>1, <2>2
    <3> HIDE DEF new
    <3> QED  BY <2>1, <3>1, FunctionIsSequence
  <2> HIDE DEF new
  <2> QED  BY <1>8, <2>2, <2>3, BodyRewritten
<1>11. k \in Nat /\ m_iNextKey <= k
  BY <1>2 DEF k
<1> HIDE DEF new
<1> QED  BY <1>1, <1>3, <1>9, <1>10, <1>11 DEF Advances, n

\* CELLSetValue writes behind the key.
LEMMA CellAdvances ==
    ASSUME TableInv, CELLSetValue
    PROVE  Advances /\ UNCHANGED <<m_aColumnIndex, sizes>>
<1>1. PICK iRow \in Keys(m_aBody), p \in Positions, v \in Values :
         /\ m_aBody' = SetCell(m_aBody, _row(m_aBody, iRow), _index2(p), v)
         /\ UNCHANGED <<m_iNextKey, columnVars, sizes>>
  BY DEF CELLSetValue, CellSet
<1>2. m_aBody \in Bodies(Len(m_aColumn) + 1, m_iNextKey, Keys(m_aBody))
      /\ Len(m_aColumn) \in Nat /\ m_iNextKey \in Nat
  BY OwnKeys DEF TableInv
<1>3. _row(m_aBody, iRow) \in 0..(Len(m_aBody) - 1) /\ v \in Int
  BY KeyFound, ValuesInInt
<1>4. _index2(p) \in CellColumns(Len(m_aColumn) + 1)
  BY <1>2 DEF Positions, _index2, CellColumns
<1>5. SetCell(m_aBody, _row(m_aBody, iRow), _index2(p), v)
         \in Bodies(Len(m_aColumn) + 1, m_iNextKey, Keys(m_aBody))
  BY <1>2, <1>3, <1>4, BodyCellSet
<1> QED  BY <1>1, <1>5, RowsAdvance DEF columnVars

\* A range of columns never begins at the key of a row.
LEMMA RangeAdvances ==
    ASSUME TableInv, CELLSetRange
    PROVE  Advances /\ UNCHANGED <<m_aColumnIndex, sizes>>
<1>1. PICK iRow1 \in Keys(m_aBody), iRow2 \in Keys(m_aBody),
           p1 \in Positions, p2 \in Positions, v \in Values :
         /\ m_aBody' = [i \in DOMAIN m_aBody |->
              [j \in DOMAIN m_aBody[i] |->
                 IF i - 1 \in UpTo(_row(m_aBody, iRow1), _row(m_aBody, iRow2))
                    /\ j - 1 \in UpTo(_index2(p1), _index2(p2))
                 THEN v ELSE m_aBody[i][j]]]
         /\ UNCHANGED <<m_iNextKey, columnVars, sizes>>
  BY DEF CELLSetRange
<1> DEFINE rows == UpTo(_row(m_aBody, iRow1), _row(m_aBody, iRow2))
           columns == UpTo(_index2(p1), _index2(p2))
           new == [i \in DOMAIN m_aBody |->
                     [j \in DOMAIN m_aBody[i] |->
                        IF i - 1 \in rows /\ j - 1 \in columns THEN v
                        ELSE m_aBody[i][j]]]
           n == Len(m_aColumn) + 1
<1>2. m_aBody \in Bodies(n, m_iNextKey, Keys(m_aBody)) /\ n \in Nat /\ n > 0
  BY OwnKeys
<1>3. 0 \notin columns
  <2>1. Len(m_aColumn) \in Nat
    BY OwnKeys
  <2>2. _index2(p1) \in Int /\ _index2(p1) > 0 /\ _index2(p2) \in Int
    BY <2>1 DEF Positions, _index2
  <2> QED  BY <2>2 DEF UpTo
<1>4. m_aBody' = new
  BY <1>1
<1> HIDE DEF n, rows, columns
<1>5. m_aBody \in Seq(Seq(Int)) /\ Len(m_aBody) \in Nat
      /\ DOMAIN m_aBody = 1..Len(m_aBody) /\ RowsOf(m_aBody, n, Keys(m_aBody))
  BY <1>2, BodyRows
<1>6. ASSUME NEW i \in 1..Len(m_aBody)
      PROVE  new[i] \in Seq(Int) /\ Len(new[i]) = n /\ Key(new[i]) = Key(m_aBody[i])
  <2> DEFINE row == m_aBody[i]
             written == [j \in DOMAIN row |->
                           IF i - 1 \in rows /\ j - 1 \in columns THEN v ELSE row[j]]
  <2>1. row \in Seq(Int) /\ Len(row) = n /\ DOMAIN row = 1..n
    BY <1>5 DEF RowsOf
  <2>2. new[i] = written
    BY <1>5
  <2> HIDE DEF row, new
  <2>3. written \in [1..n -> Int]
    BY <2>1, ValuesInInt
  <2>4. written[1] = row[1]
    <3>1. 1 \in 1..n /\ 1 - 1 = 0
      BY <1>2
    <3> QED  BY <1>3, <2>1, <3>1
  <2> HIDE DEF written
  <2>5. written \in Seq(Int) /\ Len(written) = n
    BY <1>2, <2>3, FunctionIsSequence
  <2> QED  BY <2>2, <2>4, <2>5 DEF Key, row
<1>7. new \in Seq(Seq(Int)) /\ Len(new) = Len(m_aBody)
  <2>1. new \in [1..Len(m_aBody) -> Seq(Int)]
    BY <1>5, <1>6
  <2> HIDE DEF new
  <2> QED  BY <1>5, <2>1, FunctionIsSequence
<1> HIDE DEF new
<1>8. new \in Bodies(n, m_iNextKey, Keys(m_aBody))
  BY <1>2, <1>6, <1>7, BodyRewritten
<1> QED  BY <1>1, <1>4, <1>8, RowsAdvance DEF columnVars, n

-----------------------------------------------------------------------------
(* The invariant.                                                          *)

\* More keys are given while the next key grows.
LEMMA KeysFromWidens ==
    ASSUME NEW k \in Int, NEW m \in Int, NEW j \in Int, NEW n \in Int, j <= k, m <= n
    PROVE  KeysFrom(k, m) \subseteq KeysFrom(j, n)
  BY DEF KeysFrom

\* An operation that advances keeps the invariant while positions and sizes
\* stay, or stay right.
LEMMA AdvanceKeeps ==
    ASSUME TableInv, Advances, IndexFits', UNCHANGED sizes
    PROVE  TableInv'
<1>1. /\ m_aColumn' \in Seq(Column) /\ OneSorted(m_aColumn')
      /\ m_iNextKey' \in Nat /\ m_iNextKey <= m_iNextKey'
      /\ m_iNextKey \in Nat
      /\ m_aBody' \in Bodies(Len(m_aColumn') + 1, m_iNextKey', KeysUpTo(m_iNextKey'))
  BY DEF Advances, TableInv
<1>2. KeysUpTo(m_iNextKey') \subseteq KeysFrom(0, m_iNextKey')
  <2>1. Keys(m_aBody) \subseteq KeysFrom(0, m_iNextKey)
    BY OwnKeys
  <2>2. KeysFrom(0, m_iNextKey) \subseteq KeysFrom(0, m_iNextKey')
    <3>1. 0 <= 0 /\ m_iNextKey \in Int /\ m_iNextKey' \in Int
      BY <1>1
    <3> QED  BY <1>1, <3>1, KeysFromWidens
  <2>3. KeysFrom(m_iNextKey, m_iNextKey') \subseteq KeysFrom(0, m_iNextKey')
    <3>1. 0 <= m_iNextKey /\ m_iNextKey' <= m_iNextKey' /\ m_iNextKey \in Int
          /\ m_iNextKey' \in Int
      BY <1>1
    <3> QED  BY <3>1, KeysFromWidens
  <2> QED  BY <2>1, <2>2, <2>3 DEF KeysUpTo
<1>3. m_aBody' \in Bodies(Len(m_aColumn') + 1, m_iNextKey', KeysFrom(0, m_iNextKey'))
  <2>1. m_iNextKey' \in Int /\ m_iNextKey' <= m_iNextKey'
    BY <1>1
  <2> QED  BY <1>1, <1>2, <2>1, BodyWidens
<1>4. SizesFit'
  BY DEF TableInv, SizesFit, sizes
<1> QED  BY <1>1, <1>3, <1>4 DEF TableInv

\* A sequence over a set is one over a larger set.
LEMMA SequenceWidens ==
    ASSUME NEW S, NEW T, S \subseteq T, NEW s \in Seq(S)
    PROVE  s \in Seq(T)
<1>1. Len(s) \in Nat /\ s \in [1..Len(s) -> T]
  OBVIOUS
<1> QED  BY <1>1, FunctionIsSequence

\* More columns leave the positions where they are.
LEMMA IndexStillFits ==
    ASSUME TableInv, Advances, UNCHANGED m_aColumnIndex
    PROVE  IndexFits'
<1> SUFFICES ASSUME m_aColumnIndex # NoIndex
             PROVE  m_aColumnIndex \in Seq(0..(Len(m_aColumn') - 1))
  BY DEF IndexFits
<1>1. m_aColumnIndex \in Seq(0..(Len(m_aColumn) - 1))
  BY DEF TableInv, IndexFits
<1>2. /\ Len(m_aColumn) <= Len(m_aColumn') /\ Len(m_aColumn) \in Nat
      /\ Len(m_aColumn') \in Nat
  BY DEF Advances, TableInv
<1>3. 0..(Len(m_aColumn) - 1) \subseteq 0..(Len(m_aColumn') - 1)
  BY <1>2
<1> QED  BY <1>1, <1>3, SequenceWidens

\* What the next operation does, but for those that number the rows again.
LEMMA OperationAdvances ==
    ASSUME TableInv, Next, ~Reindex, ~ClearData
    PROVE  Advances /\ IndexFits' /\ UNCHANGED sizes
<1>1. CASE COLUMNUpdatePositionIndex
  BY <1>1, PositionIndexAdvances
<1>2. CASE ~COLUMNUpdatePositionIndex
  <2>1. Advances /\ UNCHANGED <<m_aColumnIndex, sizes>>
    BY <1>2, AppendBlankAdvances, AppendValuesAdvances, InsertBlankAdvances,
       InsertValuesAdvances, RemoveAdvances, SetAdvances, InsertColumnAdvances,
       ColumnPropertyAdvances, ReadArrayAdvances, ReadAdvances, CellAdvances,
       RangeAdvances DEF Next
  <2> QED  BY <2>1, IndexStillFits
<1> QED  BY <1>1, <1>2

\* Reindex gives the rows their positions for keys; there are no more rows
\* than keys were given.
LEMMA ReindexKeeps ==
    ASSUME TableInv, Reindex
    PROVE  TableInv'
<1> DEFINE n == Len(m_aColumn) + 1
           K == KeysFrom(0, m_iNextKey)
           new == [i \in DOMAIN m_aBody |-> WithKey(i - 1, m_aBody[i])]
<1>1. /\ m_aBody \in Seq(Seq(Int)) /\ Len(m_aBody) \in Nat /\ Len(m_aBody) <= m_iNextKey
      /\ DOMAIN m_aBody = 1..Len(m_aBody) /\ RowsOf(m_aBody, n, K)
      /\ n \in Nat /\ n > 0 /\ m_iNextKey \in Nat
  BY BodyRows, OwnKeys DEF TableInv
<1>2. m_aBody' = new /\ UNCHANGED <<m_iNextKey, columnVars, sizes>>
  BY DEF Reindex
<1> HIDE DEF n, K
<1>3. ASSUME NEW i \in 1..Len(m_aBody)
      PROVE  new[i] \in Seq(Int) /\ Len(new[i]) = n /\ Key(new[i]) = i - 1
  <2>1. m_aBody[i] \in Seq(Int) /\ Len(m_aBody[i]) = n
    BY <1>1 DEF RowsOf
  <2>2. m_aBody[i] # <<>> /\ i - 1 \in Int
    BY <1>1, <2>1
  <2>3. new[i] = WithKey(i - 1, m_aBody[i])
    BY <1>1
  <2> HIDE DEF new
  <2> QED  BY <2>1, <2>2, <2>3, KeyedRow
<1>4. new \in Seq(Seq(Int)) /\ Len(new) = Len(m_aBody)
  <2>1. new \in [1..Len(m_aBody) -> Seq(Int)]
    BY <1>1, <1>3
  <2> HIDE DEF new
  <2> QED  BY <1>1, <2>1, FunctionIsSequence
<1> HIDE DEF new
<1>5. RowsOf(new, n, K)
  BY <1>1, <1>3, <1>4, SMTT(30) DEF RowsOf, K, KeysFrom
<1>6. OneRowForKey(new)
  BY <1>1, <1>3, <1>4 DEF OneRowForKey
<1>7. m_aBody' \in Bodies(n, m_iNextKey, K)
  BY <1>1, <1>2, <1>4, <1>5, <1>6, BodyOf
<1> QED  BY <1>2, <1>7 DEF TableInv, IndexFits, SizesFit, columnVars, sizes, n, K

\* ClearData leaves columns, with positions only if there were some.
LEMMA ClearKeeps ==
    ASSUME TableInv, ClearData
    PROVE  TableInv'
<1>1. m_aBody' = <<>> /\ m_iNextKey' = 0 /\ m_iHeaderSize' = 0 /\ m_iFooterSize' = 0
  BY DEF ClearData, ClearBody
<1>2. m_aColumn' \in Seq(Column) /\ OneSorted(m_aColumn') /\ IndexFits'
  <2>1. UNCHANGED m_aColumnIndex /\ m_aColumn \in Seq(Column) /\ IndexFits
        /\ OneSorted(m_aColumn)
    BY DEF ClearData, ClearBody, TableInv
  <2>2. CASE UNCHANGED m_aColumn
    BY <2>1, <2>2 DEF IndexFits
  <2>3. CASE m_aColumnIndex = NoIndex /\ m_aColumn' = <<>>
    BY <2>1, <2>3 DEF IndexFits, OneSorted
  <2> QED  BY <2>2, <2>3 DEF ClearData
<1>3. m_aBody' \in Bodies(Len(m_aColumn') + 1, 0, KeysFrom(0, 0))
  <2> DEFINE n == Len(m_aColumn') + 1
             body == m_aBody'
  <2>1. body \in Seq(Seq(Int)) /\ Len(body) <= 0 /\ RowsOf(body, n, KeysFrom(0, 0))
        /\ OneRowForKey(body)
    BY <1>1 DEF RowsOf, OneRowForKey
  <2> HIDE DEF n, body
  <2>2. body \in Bodies(n, 0, KeysFrom(0, 0))
    BY <2>1, BodyOf
  <2> QED  BY <2>2 DEF n, body
<1> QED  BY <1>1, <1>2, <1>3 DEF TableInv, SizesFit

\* A new table has no rows, columns or positions.
LEMMA InitTable ==
    ASSUME FooterSize = 0, Init
    PROVE  TableInv
<1>1. m_aBody = <<>> /\ m_aColumn = <<>> /\ m_iNextKey = 0 /\ m_aColumnIndex = NoIndex
  BY DEF Init
<1>2. m_iHeaderSize \in Nat /\ m_iFooterSize = 0
  BY SizesAreNumbers DEF Init
<1>3. m_aBody \in Bodies(Len(m_aColumn) + 1, m_iNextKey, KeysFrom(0, m_iNextKey))
  <2> DEFINE n == Len(m_aColumn) + 1
  <2>1. m_aBody \in Seq(Seq(Int)) /\ Len(m_aBody) <= m_iNextKey
        /\ RowsOf(m_aBody, n, KeysFrom(0, m_iNextKey)) /\ OneRowForKey(m_aBody)
    BY <1>1 DEF RowsOf, OneRowForKey
  <2> HIDE DEF n
  <2>2. m_aBody \in Bodies(n, m_iNextKey, KeysFrom(0, m_iNextKey))
    BY <2>1, BodyOf
  <2> QED  BY <2>2 DEF n
<1> QED  BY <1>1, <1>2, <1>3 DEF TableInv, IndexFits, SizesFit, OneSorted

\* The invariant is inductive.
LEMMA NextKeepsTable ==
    ASSUME TableInv, [Next]_vars
    PROVE  TableInv'
<1>1. CASE UNCHANGED vars
  BY <1>1 DEF TableInv, IndexFits, SizesFit, vars, rowVars, columnVars, sizes
<1>2. CASE Next
  <2>1. CASE Reindex
    BY <2>1, ReindexKeeps
  <2>2. CASE ClearData
    BY <2>2, ClearKeeps
  <2>3. CASE ~Reindex /\ ~ClearData
    BY <1>2, <2>3, OperationAdvances, AdvanceKeeps
  <2> QED  BY <2>1, <2>2, <2>3
<1> QED  BY <1>1, <1>2

\* The inductive invariant of a table without a footer: the types, that a
\* body has as many elements in a row as there are columns, one row for each
\* key and keys below the next one, and that positions lead to columns.
THEOREM TableInvariant ==
    ASSUME FooterSize = 0
    PROVE  Spec => []TableInv
<1>1. Init => TableInv
  BY InitTable
<1>2. TableInv /\ [Next]_vars => TableInv'
  BY NextKeepsTable
<1> QED  BY <1>1, <1>2, PTL DEF Spec

\* Whatever is appended, inserted, removed, read or numbered again, a key a
\* caller holds is that of one row, and the next key is of none.
THEOREM KeysAreUnique ==
    ASSUME FooterSize = 0
    PROVE  Spec => []KeysNameOneRow
<1>1. TableInv => KeysNameOneRow
  <2> SUFFICES ASSUME TableInv
               PROVE  KeysNameOneRow
    OBVIOUS
  <2>1. DOMAIN m_aBody = 1..Len(m_aBody) /\ OneRowForKey(m_aBody)
    BY BodyRows DEF TableInv
  <2>2. Keys(m_aBody) \subseteq KeysFrom(0, m_iNextKey)
    BY OwnKeys
  <2> QED  BY <2>1, <2>2 DEF KeysNameOneRow, OneRowForKey, KeysFrom
<1> QED  BY <1>1, TableInvariant, PTL

\* The rows follow the columns through every operation that adds one.
THEOREM RowsFollowColumns ==
    ASSUME FooterSize = 0
    PROVE  Spec => []RowsFitColumns
<1>1. TableInv => RowsFitColumns
  <2> SUFFICES ASSUME TableInv
               PROVE  RowsFitColumns
    OBVIOUS
  <2>1. DOMAIN m_aBody = 1..Len(m_aBody)
        /\ RowsOf(m_aBody, Len(m_aColumn) + 1, KeysFrom(0, m_iNextKey))
    BY BodyRows DEF TableInv
  <2> QED  BY <2>1 DEF RowsFitColumns, RowsOf
<1> QED  BY <1>1, TableInvariant, PTL

\* A key that left the table does not come back before the rows are numbered
\* again: what an operation adds it names by keys not given so far.
THEOREM KeysDoNotComeBack ==
    ASSUME FooterSize = 0
    PROVE  Spec => NewKeysAreFresh
<1> DEFINE A == \/ Reindex \/ ClearData
                \/ /\ m_iNextKey' >= m_iNextKey
                   /\ \A k \in Keys(m_aBody') \ Keys(m_aBody) : k >= m_iNextKey
<1>1. TableInv /\ [Next]_vars => [A]_vars
  <2> SUFFICES ASSUME TableInv, Next, ~Reindex, ~ClearData
               PROVE  A
    OBVIOUS
  <2>1. Advances
    BY OperationAdvances
  <2>2. /\ m_iNextKey' \in Nat /\ m_iNextKey \in Nat /\ m_iNextKey <= m_iNextKey'
        /\ m_aBody' \in Bodies(Len(m_aColumn') + 1, m_iNextKey', KeysUpTo(m_iNextKey'))
    BY <2>1 DEF Advances, TableInv
  <2>3. DOMAIN m_aBody' = 1..Len(m_aBody')
        /\ RowsOf(m_aBody', Len(m_aColumn') + 1, KeysUpTo(m_iNextKey'))
    BY <2>2, BodyRows
  <2>4. \A k \in Keys(m_aBody') : k \in KeysUpTo(m_iNextKey')
    BY <2>3 DEF Keys, RowsOf
  <2>5. \A k \in Keys(m_aBody') \ Keys(m_aBody) : k >= m_iNextKey
    BY <2>2, <2>4 DEF KeysUpTo, KeysFrom
  <2> QED  BY <2>2, <2>5
<1>2. Spec => [][A]_vars
  BY <1>1, TableInvariant, PTL DEF Spec
<1> QED  BY <1>2 DEF NewKeysAreFresh

-----------------------------------------------------------------------------
(* Counting.                                                               *)

\* While keys are positions, a key is looked up at its position.
LEMMA KeyIsPosition ==
    ASSUME TableInv, \A i \in DOMAIN m_aBody : Key(m_aBody[i]) = i - 1
    PROVE  /\ Keys(m_aBody) = 0..(Len(m_aBody) - 1)
           /\ \A k \in 0..(Len(m_aBody) - 1) :
                /\ _row(m_aBody, k) = k
                /\ Key(m_aBody[k + 1]) = k
<1>1. Len(m_aBody) \in Nat /\ DOMAIN m_aBody = 1..Len(m_aBody)
  BY BodyRows DEF TableInv
<1>2. ASSUME NEW k \in 0..(Len(m_aBody) - 1)
      PROVE  /\ _row(m_aBody, k) = k
             /\ Key(m_aBody[k + 1]) = k
             /\ k \in Keys(m_aBody)
  <2>1. k + 1 \in DOMAIN m_aBody /\ (k + 1) - 1 = k /\ k < Len(m_aBody)
    BY <1>1
  <2>2. Key(m_aBody[k + 1]) = k
    BY <2>1
  <2> QED  BY <2>1, <2>2 DEF _row, Keys
<1>3. \A k \in Keys(m_aBody) : k \in 0..(Len(m_aBody) - 1)
  BY <1>1 DEF Keys
<1> QED  BY <1>2, <1>3

\* CountValue agrees with CELLGetValue on every rectangle of a table whose
\* keys are positions, without an index of columns.
THEOREM CountsWhatIsThere ==
    ASSUME FooterSize = 0
    PROVE  Spec => []CountFindsCells
<1>1. TableInv => CountFindsCells
  <2> SUFFICES ASSUME TableInv, m_aColumnIndex = NoIndex,
                      \A i \in DOMAIN m_aBody : Key(m_aBody[i]) = i - 1,
                      NEW iRow1 \in Keys(m_aBody), NEW iRow2 \in Keys(m_aBody),
                      NEW p1 \in Positions, NEW p2 \in Positions, NEW v \in Values,
                      iRow1 <= iRow2, p1 <= p2
               PROVE  CountValue(iRow1, p1, iRow2, p2, v) =
                        {iRow \in iRow1..iRow2 :
                            \E p \in p1..p2 : CELLGetValue(iRow, p) = v}
    BY DEF CountFindsCells
  <2> DEFINE last == Len(m_aBody) - 1
             aRow(i) == m_aBody[_row(m_aBody, i) + 1]
             counted == {r \in iRow1..iRow2 :
                            \E iC \in (p1 + 1)..(p2 + 1) : aRow(r)[iC + 1] = v}
  <2>1. iRow1 \in 0..last /\ iRow2 \in 0..last /\ last \in Int
    BY OwnKeys, KeyIsPosition
  <2>2. ASSUME NEW k \in 0..last
        PROVE  _row(m_aBody, k) = k /\ aRow(k) = m_aBody[k + 1] /\ Key(aRow(k)) = k
    BY KeyIsPosition
  <2>3. ASSUME NEW p \in Nat
        PROVE  _index2(p) = p + 1
    BY DEF _index2, _index
  <2>4. p1 \in Nat /\ p2 \in Nat
    BY DEF Positions
  <2>5. CountValue(iRow1, p1, iRow2, p2, v) = {Key(aRow(i)) : i \in counted}
    <3>1. UpTo(_row(m_aBody, iRow1), _row(m_aBody, iRow2)) = iRow1..iRow2
      BY <2>1, <2>2 DEF UpTo
    <3>2. UpTo(_index2(p1), _index2(p2)) = (p1 + 1)..(p2 + 1)
      BY <2>3, <2>4 DEF UpTo
    <3> QED  BY <3>1, <3>2 DEF CountValue
  <2>6. \A i \in iRow1..iRow2 : i \in 0..last
    BY <2>1
  <2> HIDE DEF aRow
  <2>7. {Key(aRow(i)) : i \in counted} = counted
    BY <2>2, <2>6
  <2>8. ASSUME NEW r \in iRow1..iRow2
        PROVE  (\E iC \in (p1 + 1)..(p2 + 1) : aRow(r)[iC + 1] = v)
                 <=> \E p \in p1..p2 : CELLGetValue(r, p) = v
    <3>1. \A p \in p1..p2 : CELLGetValue(r, p) = aRow(r)[(p + 1) + 1]
      <4> SUFFICES ASSUME NEW p \in p1..p2
                   PROVE  CELLGetValue(r, p) = aRow(r)[(p + 1) + 1]
        OBVIOUS
      <4>1. p \in Nat
        BY <2>4
      <4>2. _index2(p) = p + 1
        BY <2>3, <4>1
      <4> QED  BY <4>2 DEF CELLGetValue, Cell, aRow
    <3>2. \A p \in p1..p2 : p + 1 \in (p1 + 1)..(p2 + 1)
      BY <2>4
    <3>3. \A iC \in (p1 + 1)..(p2 + 1) : iC - 1 \in p1..p2 /\ (iC - 1) + 1 = iC
      BY <2>4
    <3> QED  BY <3>1, <3>2, <3>3
  <2>9. counted = {iRow \in iRow1..iRow2 :
                      \E p \in p1..p2 : CELLGetValue(iRow, p) = v}
    BY <2>8
  <2> QED  BY <2>5, <2>7, <2>9
<1> QED  BY <1>1, TableInvariant, PTL

-----------------------------------------------------------------------------
(* Sorting.                                                                *)

\* R orders 1..n: of two numbers exactly one goes in front of the other.
Orders(R, n) ==
    /\ \A i, j \in 1..n : i # j => <<i, j>> \in R \/ <<j, i>> \in R
    /\ \A i, j \in 1..n : ~(<<i, j>> \in R /\ <<j, i>> \in R)
    /\ \A i, j, k \in 1..n : <<i, j>> \in R /\ <<j, k>> \in R => <<i, k>> \in R

\* The first k numbers in the order R.
IsArranged(p, k, R) ==
    /\ p \in Bijection(1..k, 1..k)
    /\ \A i, j \in 1..k : i < j => <<p[i], p[j]>> \in R

\* What it takes to make a bijection.
LEMMA IsBijection ==
    ASSUME NEW k \in Nat, NEW p \in [1..k -> 1..k],
           \A i, j \in 1..k : p[i] = p[j] => i = j,
           \A w \in 1..k : \E i \in 1..k : p[i] = w
    PROVE  p \in Bijection(1..k, 1..k)
  BY DEF Bijection, Injection, Surjection, IsInjective

\* What a bijection is.
LEMMA BijectionIs ==
    ASSUME NEW k \in Nat, NEW p \in Bijection(1..k, 1..k)
    PROVE  /\ p \in [1..k -> 1..k]
           /\ \A i, j \in 1..k : p[i] = p[j] => i = j
           /\ \A w \in 1..k : \E i \in 1..k : p[i] = w
  BY DEF Bijection, Injection, Surjection, IsInjective

\* The next number has its place: behind all that go in front of it.
LEMMA ArrangesOneMore ==
    ASSUME NEW n \in Nat, NEW R, Orders(R, n), NEW k \in Nat, k + 1 <= n,
           NEW p, IsArranged(p, k, R)
    PROVE  \E q : IsArranged(q, k + 1, R)
<1> DEFINE new == k + 1
           Ahead == {i \in 1..k : <<p[i], new>> \in R}
           at == IF Ahead = {} THEN 0 ELSE Max(Ahead)
           q == [i \in 1..new |-> IF i <= at THEN p[i]
                                  ELSE IF i = at + 1 THEN new ELSE p[i - 1]]
<1>1. /\ p \in [1..k -> 1..k]
      /\ \A i, j \in 1..k : p[i] = p[j] => i = j
      /\ \A w \in 1..k : \E i \in 1..k : p[i] = w
      /\ \A i, j \in 1..k : i < j => <<p[i], p[j]>> \in R
  BY BijectionIs DEF IsArranged
<1>2. /\ at \in 0..k
      /\ at # 0 => <<p[at], new>> \in R
      /\ \A i \in 1..k : i > at => ~(<<p[i], new>> \in R)
  <2>1. Ahead \in SUBSET (1..k)
    OBVIOUS
  <2>2. CASE Ahead = {}
    <3>1. at = 0 /\ \A i \in 1..k : i \notin Ahead
      BY <2>2
    <3>2. \A i \in 1..k : ~(<<p[i], new>> \in R)
      BY <3>1
    <3> HIDE DEF at, Ahead
    <3> QED  BY <3>1, <3>2
  <2>3. CASE Ahead # {}
    <3>1. Max(Ahead) \in Ahead /\ \A x \in Ahead : x <= Max(Ahead)
      <4> HIDE DEF Ahead
      <4> QED  BY <2>1, <2>3, LastOf
    <3>2. at = Max(Ahead)
      BY <2>3
    <3>3. \A i \in 1..k : <<p[i], new>> \in R => i \in Ahead
      OBVIOUS
    <3>4. \A i \in Ahead : i \in 1..k /\ <<p[i], new>> \in R
      OBVIOUS
    <3> HIDE DEF at, Ahead, new
    <3>5. at \in Ahead /\ \A i \in Ahead : i <= at
      BY <3>1, <3>2
    <3>6. at \in 1..k /\ <<p[at], new>> \in R
      BY <3>4, <3>5
    <3>7. \A i \in 1..k : i > at => i \notin Ahead
      BY <3>5, <3>6
    <3> QED  BY <3>3, <3>6, <3>7
  <2> QED  BY <2>2, <2>3
<1> HIDE DEF at
<1>3. new \in 1..n /\ \A i \in 1..k : p[i] \in 1..n /\ p[i] # new
  BY <1>1
<1>4. \A i \in 1..k : i <= at => <<p[i], new>> \in R
  <2> SUFFICES ASSUME NEW i \in 1..k, i <= at
               PROVE  <<p[i], new>> \in R
    OBVIOUS
  <2>1. CASE i = at
    BY <1>2, <2>1
  <2>2. CASE i < at
    <3>1. at \in 1..k /\ <<p[i], p[at]>> \in R /\ <<p[at], new>> \in R
      BY <1>1, <1>2, <2>2
    <3>2. p[i] \in 1..n /\ p[at] \in 1..n /\ new \in 1..n
      BY <1>3, <3>1
    <3> HIDE DEF new
    <3> QED  BY <3>1, <3>2 DEF Orders
  <2> QED  BY <1>2, <2>1, <2>2
<1>5. \A i \in 1..k : i > at => <<new, p[i]>> \in R
  <2> SUFFICES ASSUME NEW i \in 1..k, i > at
               PROVE  <<new, p[i]>> \in R
    OBVIOUS
  <2>1. ~(<<p[i], new>> \in R) /\ p[i] \in 1..n /\ p[i] # new /\ new \in 1..n
    BY <1>2, <1>3
  <2> HIDE DEF new
  <2> QED  BY <2>1 DEF Orders
<1>6. ASSUME NEW i \in 1..new
      PROVE  \/ i <= at /\ i \in 1..k /\ q[i] = p[i]
             \/ i = at + 1 /\ q[i] = new
             \/ i > at + 1 /\ i - 1 \in 1..k /\ i - 1 > at /\ q[i] = p[i - 1]
  BY <1>2
<1>7. q \in [1..new -> 1..new]
  <2>1. ASSUME NEW i \in 1..new
        PROVE  q[i] \in 1..new
    <3>1. \A j \in 1..k : p[j] \in 1..new
      BY <1>1
    <3>2. new \in 1..new
      OBVIOUS
    <3> HIDE DEF new, q
    <3> QED  BY <1>6, <3>1, <3>2
  <2>2. q = [i \in 1..new |-> q[i]]
    OBVIOUS
  <2> QED  BY <2>1, <2>2
<1>8. /\ \A i \in 1..k : i <= at => i \in 1..new /\ q[i] = p[i]
      /\ at + 1 \in 1..new /\ q[at + 1] = new
      /\ \A i \in 1..k : i > at => i + 1 \in 1..new /\ q[i + 1] = p[i]
  BY <1>2
<1> HIDE DEF q
<1>9. \A w \in 1..new : \E i \in 1..new : q[i] = w
  <2> SUFFICES ASSUME NEW w \in 1..new
               PROVE  \E i \in 1..new : q[i] = w
    OBVIOUS
  <2>1. CASE w = new
    BY <1>8, <2>1
  <2>2. CASE w # new
    <3>1. PICK i \in 1..k : p[i] = w
      BY <1>1, <2>2
    <3>2. i <= at \/ i > at
      BY <1>2
    <3> QED  BY <1>8, <3>1, <3>2
  <2> QED  BY <2>1, <2>2
<1>10. \A i, j \in 1..new : i < j => <<q[i], q[j]>> \in R
  <2> SUFFICES ASSUME NEW i \in 1..new, NEW j \in 1..new, i < j
               PROVE  <<q[i], q[j]>> \in R
    OBVIOUS
  <2>1. CASE j <= at
    <3>1. i \in 1..k /\ j \in 1..k /\ i <= at
      BY <1>2, <2>1
    <3>2. q[i] = p[i] /\ q[j] = p[j]
      BY <1>8, <2>1, <3>1
    <3> QED  BY <1>1, <3>1, <3>2
  <2>2. CASE j = at + 1
    <3>1. i <= at /\ i \in 1..k /\ q[i] = p[i] /\ q[j] = new
      BY <1>2, <1>6, <2>2
    <3> QED  BY <1>4, <3>1
  <2>3. CASE j > at + 1
    <3>1. j - 1 \in 1..k /\ j - 1 > at /\ q[j] = p[j - 1]
      BY <1>2, <1>6, <2>3
    <3>2. CASE i <= at
      <4>1. i \in 1..k /\ q[i] = p[i] /\ i < j - 1
        BY <1>2, <1>6, <3>1, <3>2
      <4> QED  BY <1>1, <3>1, <4>1
    <3>3. CASE i = at + 1
      <4>1. q[i] = new
        BY <1>8, <3>3
      <4> QED  BY <1>5, <3>1, <4>1
    <3>4. CASE i > at + 1
      <4>1. i - 1 \in 1..k /\ q[i] = p[i - 1] /\ i - 1 < j - 1
        BY <1>2, <1>6, <3>4
      <4> QED  BY <1>1, <3>1, <4>1
    <3> QED  BY <1>2, <3>2, <3>3, <3>4
  <2> QED  BY <1>2, <2>1, <2>2, <2>3
<1>11. \A i, j \in 1..new : q[i] = q[j] => i = j
  <2>1. \A i \in 1..new : q[i] \in 1..n
    BY <1>3, <1>7
  <2>2. \A i, j \in 1..new : i < j => q[i] # q[j]
    BY <1>10, <2>1 DEF Orders
  <2>3. \A i, j \in 1..new : i < j \/ j < i \/ i = j
    OBVIOUS
  <2> HIDE DEF new
  <2> QED  BY <2>2, <2>3
<1>12. q \in Bijection(1..new, 1..new)
  <2>1. new \in Nat
    OBVIOUS
  <2> HIDE DEF new
  <2> QED  BY <1>7, <1>9, <1>11, <2>1, IsBijection
<1> QED  BY <1>10, <1>12 DEF IsArranged

\* What is ordered can be arranged in that order.
LEMMA OrderArranges ==
    ASSUME NEW n \in Nat, NEW R, Orders(R, n)
    PROVE  \E p : IsArranged(p, n, R)
<1> DEFINE P == {k \in Nat : k <= n => \E p : IsArranged(p, k, R)}
<1>1. 0 \in P
  <2> DEFINE p == [i \in 1..0 |-> i]
  <2>1. 1..0 = {}
    OBVIOUS
  <2>2. p \in [1..0 -> 1..0] /\ \A w \in 1..0 : FALSE
    BY <2>1
  <2> HIDE DEF p
  <2>3. p \in Bijection(1..0, 1..0)
    BY <2>2, IsBijection
  <2>4. IsArranged(p, 0, R)
    BY <2>1, <2>3 DEF IsArranged
  <2> QED  BY <2>4
<1>2. ASSUME NEW k \in P
      PROVE  k + 1 \in P
  <2> SUFFICES ASSUME k + 1 <= n
               PROVE  \E p : IsArranged(p, k + 1, R)
    OBVIOUS
  <2>1. k \in Nat /\ k <= n
    OBVIOUS
  <2>2. PICK p : IsArranged(p, k, R)
    BY <2>1
  <2> QED  BY <2>1, <2>2, ArrangesOneMore
<1>3. P = Nat
  <2> HIDE DEF P
  <2>1. P \in SUBSET Nat
    BY DEF P
  <2> QED  BY <1>1, <1>2, <2>1, EveryIndex
<1>4. n \in P /\ n <= n
  BY <1>3
<1> QED  BY <1>4

\* Numbers order their places, the earlier of two equal ones first.
LEMMA ByValue ==
    ASSUME NEW n \in Nat, NEW R, NEW value,
           \A i \in 1..n : value[i] \in Int,
           \A i, j \in 1..n : <<i, j>> \in R <=>
              value[i] < value[j] \/ (~(value[j] < value[i]) /\ i < j)
    PROVE  Orders(R, n)
<1>1. \A i \in 1..n : ~(<<i, i>> \in R)
  OBVIOUS
<1>2. \A i, j \in 1..n : i # j => <<i, j>> \in R \/ <<j, i>> \in R
  <2> SUFFICES ASSUME NEW i \in 1..n, NEW j \in 1..n, i # j
               PROVE  <<i, j>> \in R \/ <<j, i>> \in R
    OBVIOUS
  <2>1. value[i] \in Int /\ value[j] \in Int
    OBVIOUS
  <2> QED  BY <2>1
<1>3. \A i, j, k \in 1..n :
         <<i, j>> \in R /\ <<j, k>> \in R => <<i, k>> \in R
  <2> SUFFICES ASSUME NEW i \in 1..n, NEW j \in 1..n, NEW k \in 1..n,
                      <<i, j>> \in R, <<j, k>> \in R
               PROVE  <<i, k>> \in R
    OBVIOUS
  <2>1. value[i] \in Int /\ value[j] \in Int /\ value[k] \in Int
    OBVIOUS
  <2>2. value[i] < value[j] \/ (~(value[j] < value[i]) /\ i < j)
    OBVIOUS
  <2>3. value[j] < value[k] \/ (~(value[k] < value[j]) /\ j < k)
    OBVIOUS
  <2> QED  BY <2>1, <2>2, <2>3
<1> QED  BY <1>1, <1>2, <1>3 DEF Orders

\* The pairs of rows of which the first is shown in front of the second.
RowOrder(body) ==
    {r \in (1..Len(body)) \X (1..Len(body)) : Precedes(body, r[1], r[2])}

\* With at most one column to sort by, it is an order.
LEMMA RowsAreOrdered ==
    ASSUME TableInv
    PROVE  Orders(RowOrder(m_aBody), Len(m_aBody))
<1> DEFINE n == Len(m_aBody)
<1>1. /\ n \in Nat /\ m_aBody \in Seq(Seq(Int)) /\ m_aColumn \in Seq(Column)
      /\ Len(m_aColumn) \in Nat /\ OneSorted(m_aColumn)
      /\ RowsOf(m_aBody, Len(m_aColumn) + 1, KeysFrom(0, m_iNextKey))
  BY BodyRows DEF TableInv
<1>2. \A i, j \in 1..n : <<i, j>> \in RowOrder(m_aBody) <=> Precedes(m_aBody, i, j)
  BY DEF RowOrder
<1>3. CASE SortColumns = {}
  <2>1. \A i, j \in 1..n : <<i, j>> \in RowOrder(m_aBody) <=> i < j
    BY <1>2, <1>3 DEF Precedes, Before
  <2> HIDE DEF n
  <2> QED  BY <1>1, <2>1 DEF Orders, n
<1>4. CASE SortColumns # {}
  <2>1. PICK c \in SortColumns : TRUE
    BY <1>4
  <2>2. c \in 1..Len(m_aColumn) /\ SortColumns = {c}
    <3>1. c \in 1..Len(m_aColumn) /\ m_aColumn[c].sort # 0
      BY <1>1 DEF SortColumns
    <3>2. \A d \in SortColumns : d \in 1..Len(m_aColumn) /\ m_aColumn[d].sort # 0
      BY <1>1 DEF SortColumns
    <3>3. \A d \in SortColumns : d = c
      BY <1>1, <3>1, <3>2 DEF OneSorted
    <3> QED  BY <3>1, <3>3
  <2> DEFINE value == [i \in 1..n |-> m_aBody[i][c + 1]]
             less(a, b) == IF m_aColumn[c].sort = -1 THEN a > b ELSE a < b
  <2>3. ASSUME NEW i \in 1..n
        PROVE  value[i] \in Int
    <3>1. m_aBody[i] \in Seq(Int) /\ Len(m_aBody[i]) = Len(m_aColumn) + 1
      BY <1>1 DEF RowsOf
    <3>2. c + 1 \in 1..Len(m_aBody[i])
      BY <1>1, <2>2, <3>1
    <3> QED  BY <3>1, <3>2
  <2>4. \A i, j \in 1..n : Before(m_aBody[i], m_aBody[j]) <=> less(value[i], value[j])
    BY <2>2 DEF Before
  <2> HIDE DEF value
  <2>5. \A i, j \in 1..n : <<i, j>> \in RowOrder(m_aBody) <=>
           less(value[i], value[j]) \/ (~less(value[j], value[i]) /\ i < j)
    BY <1>2, <2>4 DEF Precedes
  <2> HIDE DEF n
  <2>6. CASE m_aColumn[c].sort = -1
    <3>1. \A i, j \in 1..n : <<i, j>> \in RowOrder(m_aBody) <=>
             value[i] > value[j] \/ (~(value[j] > value[i]) /\ i < j)
      BY <2>5, <2>6
    <3>2. \A i \in 1..n : -value[i] \in Int
      BY <2>3
    <3> DEFINE w == [i \in 1..n |-> -value[i]]
    <3>3. \A i \in 1..n : w[i] \in Int
      BY <3>2
    <3>4. \A i, j \in 1..n : value[i] > value[j] <=> w[i] < w[j]
      BY <2>3
    <3> HIDE DEF w
    <3>5. \A i, j \in 1..n : <<i, j>> \in RowOrder(m_aBody) <=>
             w[i] < w[j] \/ (~(w[j] < w[i]) /\ i < j)
      BY <3>1, <3>4
    <3> QED  BY <1>1, <3>3, <3>5, ByValue DEF n
  <2>7. CASE m_aColumn[c].sort # -1
    <3>1. \A i, j \in 1..n : <<i, j>> \in RowOrder(m_aBody) <=>
             value[i] < value[j] \/ (~(value[j] < value[i]) /\ i < j)
      BY <2>5, <2>7
    <3> QED  BY <1>1, <2>3, <3>1, ByValue DEF n
  <2> QED  BY <2>6, <2>7
<1> QED  BY <1>3, <1>4

\* _sort shows the rows of a body, each in one place, in that order.
LEMMA BodySorted ==
    ASSUME TableInv
    PROVE  \E order \in [1..Len(m_aBody) -> 1..Len(m_aBody)] :
              /\ \A i, j \in 1..Len(m_aBody) : order[i] = order[j] => i = j
              /\ \A w \in 1..Len(m_aBody) : \E i \in 1..Len(m_aBody) : order[i] = w
              /\ \A i, j \in 1..Len(m_aBody) :
                    i < j => Precedes(m_aBody, order[i], order[j])
              /\ _sort(m_aBody) = [i \in 1..Len(m_aBody) |-> m_aBody[order[i]]]
<1> DEFINE n == Len(m_aBody)
           order == CHOOSE p \in Bijection(1..n, 1..n) :
                        \A i, j \in 1..n : i < j => Precedes(m_aBody, p[i], p[j])
<1>1. n \in Nat /\ DOMAIN m_aBody = 1..n
  BY BodyRows DEF TableInv
<1>2. \E p \in Bijection(1..n, 1..n) :
         \A i, j \in 1..n : i < j => Precedes(m_aBody, p[i], p[j])
  <2>1. PICK p : IsArranged(p, n, RowOrder(m_aBody))
    BY <1>1, RowsAreOrdered, OrderArranges
  <2>2. p \in Bijection(1..n, 1..n)
    BY <2>1 DEF IsArranged
  <2>3. \A i, j \in 1..n : i < j => Precedes(m_aBody, p[i], p[j])
    <3> SUFFICES ASSUME NEW i \in 1..n, NEW j \in 1..n, i < j
                 PROVE  Precedes(m_aBody, p[i], p[j])
      OBVIOUS
    <3>1. <<p[i], p[j]>> \in RowOrder(m_aBody)
      BY <2>1 DEF IsArranged
    <3> QED  BY <3>1 DEF RowOrder
  <2> QED  BY <2>2, <2>3
<1>3. /\ order \in Bijection(1..n, 1..n)
      /\ \A i, j \in 1..n : i < j => Precedes(m_aBody, order[i], order[j])
  <2> HIDE DEF n
  <2> QED  BY <1>2
<1>4. _sort(m_aBody) = [i \in 1..n |-> m_aBody[order[i]]]
  BY <1>1 DEF _sort
<1> HIDE DEF order, n
<1>5. /\ order \in [1..n -> 1..n]
      /\ \A i, j \in 1..n : order[i] = order[j] => i = j
      /\ \A w \in 1..n : \E i \in 1..n : order[i] = w
  BY <1>1, <1>3, BijectionIs
<1> QED  BY <1>3, <1>4, <1>5 DEF n

-----------------------------------------------------------------------------
(* What GetData shows.                                                     *)

\* A row is found by its key.
LEMMA RowAtItsKey ==
    ASSUME TableInv, NEW i \in 1..Len(m_aBody)
    PROVE  _row(m_aBody, Key(m_aBody[i])) = i - 1
<1>1. /\ m_aBody \in Seq(Seq(Int)) /\ Len(m_aBody) \in Nat
      /\ DOMAIN m_aBody = 1..Len(m_aBody)
      /\ RowsOf(m_aBody, Len(m_aColumn) + 1, KeysFrom(0, m_iNextKey))
      /\ OneRowForKey(m_aBody)
  BY BodyRows DEF TableInv
<1> DEFINE k == Key(m_aBody[i])
           r == _row(m_aBody, k)
<1>2. k \in Nat /\ k \in Keys(m_aBody)
  BY <1>1 DEF RowsOf, KeysFrom, Keys, TableInv
<1>3. r \in -1..(Len(m_aBody) - 1) /\ r # None /\ Key(m_aBody[r + 1]) = k
  <2> HIDE DEF k
  <2> QED  BY <1>1, <1>2, RowFound
<1>4. r + 1 \in 1..Len(m_aBody) /\ Key(m_aBody[r + 1]) = Key(m_aBody[i])
  BY <1>1, <1>3 DEF None
<1>5. r + 1 = i
  <2> DEFINE q == r + 1
  <2>1. q \in 1..Len(m_aBody) /\ Key(m_aBody[q]) = Key(m_aBody[i])
    BY <1>4
  <2> HIDE DEF q
  <2>2. q = i
    BY <1>1, <2>1 DEF OneRowForKey
  <2> QED  BY <2>2 DEF q
<1> HIDE DEF r
<1>6. r = i - 1
  BY <1>1, <1>3, <1>5
<1> QED  BY <1>6 DEF r

\* The rows of a page of the sorted body.
LEMMA PageRows ==
    ASSUME TableInv, NEW order \in [1..Len(m_aBody) -> 1..Len(m_aBody)],
           _sort(m_aBody) = [i \in 1..Len(m_aBody) |-> m_aBody[order[i]]],
           NEW begin \in Nat, NEW end \in 0..Len(m_aBody)
    PROVE  LET rows == SubSeq(_sort(m_aBody), begin + 1, end)
           IN  /\ DOMAIN rows = 1..(IF begin < end THEN end - begin ELSE 0)
               /\ \A i \in DOMAIN rows :
                     /\ begin + i \in 1..Len(m_aBody)
                     /\ rows[i] = m_aBody[order[begin + i]]
<1> DEFINE n == Len(m_aBody)
           sorted == _sort(m_aBody)
           rows == SubSeq(sorted, begin + 1, end)
           m == IF begin < end THEN end - begin ELSE 0
<1>1. m_aBody \in Seq(Seq(Int)) /\ n \in Nat
  BY BodyRows DEF TableInv
<1>2. sorted = [i \in 1..n |-> m_aBody[order[i]]]
  OBVIOUS
<1> HIDE DEF sorted
<1>3. sorted \in Seq(Seq(Int)) /\ Len(sorted) = n
  <2>1. ASSUME NEW i \in 1..n
        PROVE  m_aBody[order[i]] \in Seq(Int)
    <3>1. order[i] \in 1..n
      OBVIOUS
    <3>2. \A w \in 1..n : m_aBody[w] \in Seq(Int)
      BY <1>1
    <3> QED  BY <3>1, <3>2
  <2>2. sorted \in [1..n -> Seq(Int)]
    BY <1>2, <2>1
  <2> HIDE DEF n
  <2> QED  BY <1>1, <2>2, FunctionIsSequence
<1>4. begin + 1 \in 1..(n + 1) \/ begin >= n
  BY <1>1
<1>5. Len(rows) = m /\ DOMAIN rows = 1..m
  BY <1>1, <1>3
<1>6. ASSUME NEW i \in 1..m
      PROVE  begin + i \in 1..n /\ rows[i] = sorted[begin + i]
  BY <1>1, <1>3
<1> HIDE DEF rows, n, m
<1>7. \A i \in 1..m : begin + i \in 1..n /\ rows[i] = m_aBody[order[begin + i]]
  BY <1>2, <1>6
<1> QED  BY <1>5, <1>7 DEF rows, sorted, n, m

\* The header stays empty.
NoHeader == m_iHeaderSize = 0

LEMMA HeaderStaysEmpty ==
    ASSUME HeaderSize = 0, FooterSize = 0
    PROVE  Spec => []NoHeader
<1>1. Init => NoHeader
  BY DEF Init, NoHeader
<1>2. TableInv /\ NoHeader /\ [Next]_vars => NoHeader'
  <2> SUFFICES ASSUME TableInv, NoHeader, [Next]_vars
               PROVE  NoHeader'
    OBVIOUS
  <2>1. CASE UNCHANGED vars
    BY <2>1 DEF NoHeader, vars, sizes
  <2>2. CASE Reindex
    BY <2>2 DEF NoHeader, Reindex, sizes
  <2>3. CASE ClearData
    BY <2>3 DEF NoHeader, ClearData, ClearBody
  <2>4. CASE Next /\ ~Reindex /\ ~ClearData
    BY <2>4, OperationAdvances DEF NoHeader, sizes
  <2> QED  BY <2>1, <2>2, <2>3, <2>4
<1> QED  BY <1>1, <1>2, TableInvariant, PTL DEF Spec

\* In a table without header and footer GetData returns the key of every row
\* once, in the order of the column marked for sorting and equal rows in the
\* order of the body, and a page of one row is that row of the whole.
THEOREM DataIsSorted ==
    ASSUME HeaderSize = 0, FooterSize = 0
    PROVE  Spec => []GetDataIsSortedBody
<1>1. TableInv /\ NoHeader => GetDataIsSortedBody
  <2> SUFFICES ASSUME TableInv, NoHeader
               PROVE  GetDataIsSortedBody
    OBVIOUS
  <2> DEFINE n == Len(m_aBody)
             all == GetData(0, 0).key
             At(i) == m_aBody[_row(m_aBody, all[i]) + 1]
  <2>1. /\ m_aBody \in Seq(Seq(Int)) /\ n \in Nat /\ DOMAIN m_aBody = 1..n
        /\ m_iHeaderSize = 0 /\ m_iFooterSize = 0
    BY BodyRows DEF TableInv, NoHeader, SizesFit
  <2>2. PICK order \in [1..n -> 1..n] :
           /\ \A i, j \in 1..n : order[i] = order[j] => i = j
           /\ \A w \in 1..n : \E i \in 1..n : order[i] = w
           /\ \A i, j \in 1..n : i < j => Precedes(m_aBody, order[i], order[j])
           /\ _sort(m_aBody) = [i \in 1..n |-> m_aBody[order[i]]]
    BY BodySorted
  <2>3. all = [i \in 1..n |-> Key(m_aBody[order[i]])]
    <3> DEFINE rows == SubSeq(_sort(m_aBody), 0 + 1, n)
    <3>1. DOMAIN rows = 1..n /\ \A i \in 1..n : rows[i] = m_aBody[order[i]]
      <4>1. 0 \in Nat /\ n \in 0..n
        BY <2>1
      <4>2. /\ DOMAIN rows = 1..(IF 0 < n THEN n - 0 ELSE 0)
            /\ \A i \in DOMAIN rows : rows[i] = m_aBody[order[0 + i]]
        BY <2>2, <4>1, PageRows
      <4>3. (IF 0 < n THEN n - 0 ELSE 0) = n /\ \A i \in 1..n : 0 + i = i
        BY <2>1
      <4> HIDE DEF rows, n
      <4> QED  BY <4>2, <4>3
    <3>2. all = [i \in DOMAIN rows |-> Key(rows[i])]
      BY <2>1 DEF GetData
    <3> HIDE DEF rows, all, n
    <3> QED  BY <3>1, <3>2
  <2> HIDE DEF all
  <2>4. ASSUME NEW b \in 0..(n - 1)
        PROVE  GetData(b, 1).key = <<all[b + 1]>>
    <3> DEFINE rows == SubSeq(_sort(m_aBody), b + 1, b + 1)
    <3>1. DOMAIN rows = 1..1 /\ rows[1] = m_aBody[order[b + 1]]
      <4>1. b \in Nat /\ b + 1 \in 0..n /\ b + 1 \in 1..n
        BY <2>1
      <4>2. /\ DOMAIN rows = 1..(IF b < b + 1 THEN b + 1 - b ELSE 0)
            /\ \A i \in DOMAIN rows : rows[i] = m_aBody[order[b + i]]
        BY <2>2, <4>1, PageRows
      <4>3. (IF b < b + 1 THEN b + 1 - b ELSE 0) = 1 /\ 1 \in 1..1
        BY <4>1
      <4> HIDE DEF rows, n
      <4> QED  BY <4>2, <4>3
    <3>2. GetData(b, 1).key = [i \in DOMAIN rows |-> Key(rows[i])]
      <4>1. (IF b = 0 THEN m_iHeaderSize ELSE b) = b
        BY <2>1
      <4>2. (IF 1 # 0 /\ n - m_iFooterSize - b > 1 THEN b + 1
             ELSE n - m_iFooterSize) = b + 1
        BY <2>1
      <4> QED  BY <4>1, <4>2 DEF GetData
    <3>3. b + 1 \in 1..n
      BY <2>1
    <3> HIDE DEF rows, n
    <3>4. all[b + 1] = Key(m_aBody[order[b + 1]])
      BY <2>3, <3>3
    <3> QED  BY <3>1, <3>2, <3>4
  <2>5. DOMAIN all = 1..n /\ Len(all) = n
    BY <2>1, <2>3
  <2>6. Range(all) = Keys(m_aBody)
    <3>1. \A w \in 1..n : \E i \in 1..n : order[i] = w
      BY <2>2
    <3> HIDE DEF n
    <3>2. Range(all) = {Key(m_aBody[order[i]]) : i \in 1..n}
      BY <2>3 DEF Range
    <3>3. {Key(m_aBody[order[i]]) : i \in 1..n} = {Key(m_aBody[w]) : w \in 1..n}
      <4>1. \A i \in 1..n : order[i] \in 1..n
        BY <2>2
      <4> QED  BY <3>1, <4>1
    <3> QED  BY <2>1, <3>2, <3>3 DEF Keys, n
  <2>7. ASSUME NEW i \in 1..n
        PROVE  /\ order[i] \in Int
               /\ _row(m_aBody, all[i]) = order[i] - 1
               /\ At(i) = m_aBody[order[i]]
    <3>1. order[i] \in 1..n
      BY <2>2
    <3>5. order[i] \in Int
      BY <2>1, <3>1
    <3>2. _row(m_aBody, Key(m_aBody[order[i]])) = order[i] - 1
      BY <3>1, RowAtItsKey
    <3>3. _row(m_aBody, all[i]) = order[i] - 1
      BY <2>3, <3>2
    <3>4. (order[i] - 1) + 1 = order[i]
      BY <2>1, <3>1
    <3> QED  BY <3>3, <3>4, <3>5
  <2>8. ASSUME NEW i \in 1..n, NEW j \in 1..n, i < j
        PROVE  \/ Before(At(i), At(j))
               \/ /\ ~Before(At(j), At(i))
                  /\ _row(m_aBody, all[i]) < _row(m_aBody, all[j])
    <3>1. Precedes(m_aBody, order[i], order[j])
      BY <2>2, <2>8
    <3>2. /\ At(i) = m_aBody[order[i]] /\ At(j) = m_aBody[order[j]]
          /\ _row(m_aBody, all[i]) = order[i] - 1
          /\ _row(m_aBody, all[j]) = order[j] - 1
      BY <2>7
    <3>3. order[i] \in Int /\ order[j] \in Int
      BY <2>7
    <3>4. order[i] < order[j] => order[i] - 1 < order[j] - 1
      BY <3>3
    <3> HIDE DEF At
    <3> QED  BY <3>1, <3>2, <3>4 DEF Precedes
  <2> HIDE DEF At
  <2> QED  BY <2>4, <2>5, <2>6, <2>8 DEF GetDataIsSortedBody, all, At
<1> QED  BY <1>1, TableInvariant, HeaderStaysEmpty, PTL

\* A cell of the view is the cell that CELLGetValue reads for the row's key
\* and the cell's position, as long as positions are those of the columns
\* shown.
THEOREM ViewShowsCells ==
    ASSUME FooterSize = 0
    PROVE  Spec => []ViewsAgree
<1>1. TableInv => ViewsAgree
  <2> SUFFICES ASSUME TableInv, IndexIsCurrent
               PROVE  LET view == GetData(0, 0)
                      IN  \A i \in DOMAIN view.key : \A j \in DOMAIN view.data[i] :
                             view.data[i][j] = CELLGetValue(view.key[i], j - 1)
    BY DEF ViewsAgree
  <2> DEFINE n == Len(m_aBody)
             shown == Visible(m_aColumn)
             rows == SubSeq(_sort(m_aBody), m_iHeaderSize + 1, n)
             view == GetData(0, 0)
  <2>1. /\ m_aBody \in Seq(Seq(Int)) /\ n \in Nat /\ DOMAIN m_aBody = 1..n
        /\ m_iHeaderSize \in Nat /\ m_iFooterSize = 0
        /\ m_aColumn \in Seq(Column) /\ Len(m_aColumn) \in Nat
    BY BodyRows DEF TableInv, SizesFit
  <2>2. PICK order \in [1..n -> 1..n] :
           _sort(m_aBody) = [i \in 1..n |-> m_aBody[order[i]]]
    BY BodySorted
  <2>3. /\ view.data = [i \in DOMAIN rows |-> _get_data(rows[i])]
        /\ view.key = [i \in DOMAIN rows |-> Key(rows[i])]
    BY <2>1 DEF GetData
  <2>4. \A i \in DOMAIN rows : \E k \in 1..n : rows[i] = m_aBody[k]
    <3>1. n \in 0..n
      BY <2>1
    <3>2. \A i \in DOMAIN rows :
             /\ m_iHeaderSize + i \in 1..n
             /\ rows[i] = m_aBody[order[m_iHeaderSize + i]]
      BY <2>1, <2>2, <3>1, PageRows
    <3> HIDE DEF rows, n
    <3> QED  BY <3>2
  <2>5. ASSUME NEW j \in DOMAIN shown
        PROVE  _index2(j - 1) + 1 = shown[j] + 2
    <3>1. shown \in Seq(0..(Len(m_aColumn) - 1))
      BY <2>1, VisiblePlaces
    <3>2. j \in 1..Len(shown) /\ Len(shown) \in Nat /\ shown[j] \in Nat
      BY <2>1, <3>1
    <3>3. _index(j - 1) = shown[j]
      <4>1. CASE m_aColumnIndex = NoIndex
        <5>1. shown = [i \in 1..Len(m_aColumn) |-> i - 1]
          BY <2>1, <4>1, AllVisible DEF IndexIsCurrent
        <5>2. shown[j] = j - 1
          BY <5>1
        <5> QED  BY <4>1, <5>2 DEF _index
      <4>2. CASE m_aColumnIndex # NoIndex
        <5>1. m_aColumnIndex = shown
          BY <4>2 DEF IndexIsCurrent
        <5>2. j - 1 < Len(shown) /\ (j - 1) + 1 = j
          BY <3>2
        <5> QED  BY <4>2, <5>1, <5>2 DEF _index
      <4> QED  BY <4>1, <4>2
    <3> QED  BY <3>2, <3>3 DEF _index2
  <2> HIDE DEF rows, view, shown
  <2>6. ASSUME NEW i \in DOMAIN rows, NEW j \in DOMAIN view.data[i]
        PROVE  view.data[i][j] = CELLGetValue(view.key[i], j - 1)
    <3>1. PICK k \in 1..n : rows[i] = m_aBody[k]
      BY <2>4
    <3>2. view.data[i] = [c \in DOMAIN shown |-> m_aBody[k][shown[c] + 2]]
      BY <2>3, <3>1 DEF _get_data, shown
    <3>3. j \in DOMAIN shown /\ view.data[i][j] = m_aBody[k][shown[j] + 2]
      BY <2>6, <3>2
    <3>4. view.key[i] = Key(m_aBody[k])
      BY <2>3, <3>1
    <3>5. _row(m_aBody, view.key[i]) + 1 = k
      <4>1. _row(m_aBody, view.key[i]) = k - 1
        BY <3>4, RowAtItsKey
      <4> QED  BY <2>1, <4>1
    <3>6. CELLGetValue(view.key[i], j - 1) = m_aBody[k][_index2(j - 1) + 1]
      BY <3>5 DEF CELLGetValue, Cell
    <3> QED  BY <2>5, <3>3, <3>6
  <2>7. DOMAIN view.key = DOMAIN rows
    BY <2>3
  <2> QED  BY <2>6, <2>7 DEF view
<1> QED  BY <1>1, TableInvariant, PTL

-----------------------------------------------------------------------------
(* Where objects are read.                                                 *)

\* A row still has its elements, in front of what it got.
Widens(old, new) ==
    Len(old) <= Len(new) /\ \A j \in 1..Len(old) : new[j] = old[j]

\* The row holds the entry's value in the column of the entry's name.
Holds(s, row, e) ==
    /\ _indexOfName(s.column, e[1]) # None
    /\ Cell(s.body, row, _indexOfName(s.column, e[1]) + 1) = e[2]

\* With m rows under their positions, ReadObjects has not thrown.
Placed(s, m) ==
    /\ Len(s.body) = m
    /\ ~s.threw
    /\ \A i \in 1..m : Key(s.body[i]) = i - 1
    /\ \A i \in 1..Len(m_aBody) : Widens(m_aBody[i], s.body[i])

\* A column that is there keeps its place when another comes last.
LEMMA PlaceStays ==
    ASSUME NEW column \in Seq(Column), NEW c \in Column, NEW sName,
           _indexOfName(column, sName) # None, c.id # sName
    PROVE  _indexOfName(Append(column, c), sName) = _indexOfName(column, sName)
<1> DEFINE new == Append(column, c)
           I == {i \in 1..Len(column) : column[i].id = sName}
           J == {i \in 1..Len(new) : new[i].id = sName}
<1>1. /\ Len(column) \in Nat /\ Len(new) = Len(column) + 1 /\ new[Len(column) + 1] = c
      /\ \A i \in 1..Len(column) : new[i] = column[i]
  BY AppendProperties
<1>2. I = J
  <2> HIDE DEF new
  <2> QED  BY <1>1
<1>3. SelectLastInSeq(column, LAMBDA x : x.id = sName) = IF I # {} THEN Max(I) ELSE 0
  BY DEF SelectLastInSeq
<1>4. SelectLastInSeq(new, LAMBDA x : x.id = sName) = IF J # {} THEN Max(J) ELSE 0
  BY DEF SelectLastInSeq
<1> HIDE DEF I, J
<1> QED  BY <1>2, <1>3, <1>4 DEF _indexOfName

\* AddColumn leaves what the rows have, and the columns their places.
LEMMA ColumnKeeps ==
    ASSUME m_aColumn \in Seq(Column), NEW k, NEW K, NEW s \in ReadStates(k, K),
           NEW sName \in Names
    PROVE  LET t == AddColumn(s, sName)
           IN  /\ \A i \in 1..Len(s.body) : Widens(s.body[i], t.body[i])
               /\ \A n : _indexOfName(s.column, n) # None =>
                            _indexOfName(t.column, n) = _indexOfName(s.column, n)
<1> DEFINE t == AddColumn(s, sName)
<1>1. /\ s.column \in Seq(Column) /\ s.body \in Bodies(Len(s.column) + 1, k, K)
      /\ s.nextKey = k /\ k \in Int /\ s.threw \in BOOLEAN
      /\ s = [body |-> s.body, column |-> s.column, nextKey |-> k, threw |-> s.threw]
  BY ReadStateParts
<1>2. s.body \in Seq(Seq(Int)) /\ Len(s.body) \in Nat /\ DOMAIN s.body = 1..Len(s.body)
  BY <1>1, BodyRows
<1>3. CASE _indexOfName(s.column, sName) # None
  <2>1. t = s
    BY <1>3 DEF AddColumn
  <2>2. \A i \in 1..Len(s.body) : Widens(s.body[i], s.body[i])
    <3> SUFFICES ASSUME NEW i \in 1..Len(s.body)
                 PROVE  Widens(s.body[i], s.body[i])
      OBVIOUS
    <3>1. Len(s.body[i]) \in Nat
      BY <1>2
    <3> QED  BY <3>1 DEF Widens
  <2> QED  BY <2>1, <2>2
<1>4. CASE _indexOfName(s.column, sName) = None
  <2> DEFINE c == _create_column(sName)
             column == Append(s.column, c)
             body == [i \in 1..Len(s.body) |-> Append(s.body[i], Undefined)]
  <2>1. AddColumn(s, sName) =
          [body |-> body, column |-> column, nextKey |-> k, threw |-> s.threw]
    BY <1>1, <1>2, <1>4 DEF AddColumn
  <2>2. c \in Column /\ c.id = sName
    BY DEF _create_column, Column
  <2> HIDE DEF c
  <2>3. ASSUME NEW n, _indexOfName(s.column, n) # None
        PROVE  _indexOfName(column, n) = _indexOfName(s.column, n)
    BY <1>1, <1>4, <2>2, <2>3, PlaceStays
  <2>4. ASSUME NEW i \in 1..Len(s.body)
        PROVE  Widens(s.body[i], body[i])
    <3> DEFINE row == s.body[i]
    <3>1. row \in Seq(Int) /\ Undefined \in Int /\ Len(row) \in Nat
      BY <1>2 DEF Undefined
    <3>2. body[i] = Append(row, Undefined)
      OBVIOUS
    <3> HIDE DEF row, body
    <3>3. /\ Len(Append(row, Undefined)) = Len(row) + 1
          /\ \A j \in 1..Len(row) : Append(row, Undefined)[j] = row[j]
      BY <3>1, AppendProperties
    <3> QED  BY <3>1, <3>2, <3>3 DEF Widens, row
  <2> HIDE DEF body, column, t
  <2>5. t.body = body /\ t.column = column
    BY <2>1 DEF t
  <2> QED  BY <2>3, <2>4, <2>5 DEF t
<1> QED  BY <1>3, <1>4

\* So what a row holds it still holds.
LEMMA ColumnHolds ==
    ASSUME m_aColumn \in Seq(Column), NEW k, NEW K, NEW s \in ReadStates(k, K),
           NEW sName \in Names, NEW row \in 0..(Len(s.body) - 1), NEW e, Holds(s, row, e)
    PROVE  Holds(AddColumn(s, sName), row, e)
<1> DEFINE t == AddColumn(s, sName)
           at == _indexOfName(s.column, e[1])
<1>1. /\ s.column \in Seq(Column) /\ Len(s.column) \in Nat
      /\ s.body \in Bodies(Len(s.column) + 1, k, K)
  BY ReadStateParts
<1>2. s.body \in Seq(Seq(Int)) /\ Len(s.body) \in Nat /\ RowsOf(s.body, Len(s.column) + 1, K)
  BY <1>1, BodyRows
<1>3. at \in 0..(Len(s.column) - 1) /\ s.body[row + 1][(at + 1) + 1] = e[2]
  BY <1>1, ColumnFound, SMTT(30) DEF Holds, None, Cell
<1>4. row + 1 \in 1..Len(s.body)
  BY <1>2
<1>5. Len(s.body[row + 1]) = Len(s.column) + 1
  BY <1>2, <1>4 DEF RowsOf
<1>6. (at + 1) + 1 \in 1..Len(s.body[row + 1])
  BY <1>1, <1>3, <1>5, SMTT(30)
<1> HIDE DEF t
<1>7. Widens(s.body[row + 1], t.body[row + 1])
  BY <1>4, ColumnKeeps DEF t
<1>8. _indexOfName(t.column, e[1]) = at
  BY ColumnKeeps DEF t, Holds
<1> HIDE DEF at
<1>9. t.body[row + 1][(at + 1) + 1] = e[2]
  BY <1>3, <1>6, <1>7 DEF Widens
<1>10. at # None
  BY <1>1, <1>3 DEF None
<1> QED  BY <1>8, <1>9, <1>10 DEF Holds, Cell, t

OneCellDiffers(r, body, iR, iC, v) ==
    /\ Len(r) = Len(body)
    /\ \A i \in 1..Len(body) : i # iR + 1 => r[i] = body[i]
    /\ r[iR + 1][iC + 1] = v
    /\ \A j \in 1..Len(body[iR + 1]) : j # iC + 1 => r[iR + 1][j] = body[iR + 1][j]

\* SetCell writes one element.
LEMMA OneCellSet ==
    ASSUME NEW body \in Seq(Seq(Int)), NEW iR \in 0..(Len(body) - 1), NEW iC \in Nat,
           iC < Len(body[iR + 1]), NEW v \in Int
    PROVE  OneCellDiffers(SetCell(body, iR, iC, v), body, iR, iC, v)
<1> DEFINE old == body[iR + 1]
           row == Assign(old, iC, v)
           r == Splice(body, iR, 1, <<row>>)
<1>1. iR + 1 \in 1..Len(body) /\ Len(body) \in Nat
  OBVIOUS
<1>2. old \in Seq(Int) /\ Len(old) \in Nat
  BY <1>1
<1>3. row = [j \in 1..Len(old) |-> IF j = iC + 1 THEN v
                                   ELSE IF j <= Len(old) THEN old[j] ELSE Undefined]
  <2>1. iC # Undefined /\ iC < Len(old)
    BY DEF Undefined
  <2> HIDE DEF old
  <2> QED  BY <2>1 DEF Assign
<1> HIDE DEF row
<1>4. row \in Seq(Int)
  <2>1. \A j \in 1..Len(old) : old[j] \in Int /\ j <= Len(old)
    BY <1>2
  <2>2. row \in [1..Len(old) -> Int]
    BY <1>3, <2>1
  <2> HIDE DEF old
  <2> QED  BY <1>2, <2>2, FunctionIsSequence
<1>5. /\ row[iC + 1] = v
      /\ \A j \in 1..Len(old) : j # iC + 1 => row[j] = old[j]
  <2>1. iC + 1 \in 1..Len(old)
    BY <1>2
  <2> HIDE DEF old
  <2> QED  BY <1>2, <1>3, <2>1
<1>6. /\ Len(r) = Len(body)
      /\ \A j \in 1..Len(body) : r[j] = IF j = iR + 1 THEN row ELSE body[j]
  <2> DEFINE T == Seq(Int)
  <2>1. body \in Seq(T) /\ row \in T
    BY <1>4
  <2> HIDE DEF T, old
  <2> QED  BY <2>1, ElementReplaced, SMTT(30)
<1>7. SetCell(body, iR, iC, v) = r
  BY DEF SetCell, row
<1> HIDE DEF r, old
<1>8. r[iR + 1] = row
  BY <1>1, <1>6
<1>9. OneCellDiffers(r, body, iR, iC, v)
  BY <1>5, <1>6, <1>8 DEF OneCellDiffers, old
<1> QED  BY <1>7, <1>9

\* Two names have two columns.
LEMMA TwoColumns ==
    ASSUME NEW column \in Seq(Column), NEW a, NEW b, a # b,
           _indexOfName(column, a) # None, _indexOfName(column, b) # None
    PROVE  _indexOfName(column, a) # _indexOfName(column, b)
  BY ColumnFound

\* AddColumn leaves the rows under their positions.
LEMMA ColumnPlaced ==
    ASSUME TableInv, NEW k, NEW K, NEW s \in ReadStates(k, K), NEW m \in Nat,
           Len(m_aBody) <= m, Placed(s, m), NEW sName \in Names
    PROVE  Placed(AddColumn(s, sName), m)
<1> DEFINE t == AddColumn(s, sName)
<1>1. m_aColumn \in Seq(Column) /\ Len(m_aBody) \in Nat /\ m_aBody \in Seq(Seq(Int))
  BY OwnKeys DEF TableInv
<1>2. t \in ReadStates(k, K) /\ Len(t.body) = Len(s.body) /\ t.threw = s.threw
  BY <1>1, ColumnAdded
<1>3. \A i \in 1..Len(s.body) : Widens(s.body[i], t.body[i])
  BY <1>1, ColumnKeeps
<1> HIDE DEF t
<1>4. /\ Len(s.body) = m /\ ~s.threw
      /\ \A i \in 1..m : Key(s.body[i]) = i - 1
      /\ \A i \in 1..Len(m_aBody) : Widens(m_aBody[i], s.body[i])
  BY DEF Placed
<1>5. Len(s.column) \in Nat /\ s.body \in Bodies(Len(s.column) + 1, k, K)
      /\ Len(t.column) \in Nat /\ t.body \in Bodies(Len(t.column) + 1, k, K)
  BY <1>2, ReadStateParts
<1>6. s.body \in Seq(Seq(Int)) /\ RowsOf(s.body, Len(s.column) + 1, K)
      /\ t.body \in Seq(Seq(Int))
  BY <1>5, BodyRows
<1>7. ASSUME NEW i \in 1..m
      PROVE  Key(t.body[i]) = i - 1
  <2>1. Widens(s.body[i], t.body[i]) /\ Len(s.body[i]) = Len(s.column) + 1
    BY <1>3, <1>4, <1>6 DEF RowsOf
  <2>2. 1 \in 1..Len(s.body[i])
    BY <1>5, <2>1
  <2>3. Key(t.body[i]) = Key(s.body[i])
    BY <2>1, <2>2 DEF Widens, Key
  <2> QED  BY <1>4, <2>3
<1>8. ASSUME NEW i \in 1..Len(m_aBody)
      PROVE  Widens(m_aBody[i], t.body[i])
  <2>1. i \in 1..m
    BY <1>1
  <2>2. Widens(m_aBody[i], s.body[i]) /\ Widens(s.body[i], t.body[i])
    BY <1>3, <1>4, <2>1
  <2>3. m_aBody[i] \in Seq(Int) /\ s.body[i] \in Seq(Int) /\ t.body[i] \in Seq(Int)
    BY <1>1, <1>2, <1>4, <1>6, <2>1, ElementOfSeq
  <2>4. /\ Len(m_aBody[i]) \in Nat /\ Len(s.body[i]) \in Nat /\ Len(t.body[i]) \in Nat
    BY <2>3, LenProperties
  <2> QED  BY <2>2, <2>4 DEF Widens
<1> QED  BY <1>2, <1>4, <1>7, <1>8 DEF Placed, t

\* An entry read into the row at its position is there, and no other row or
\* name has another value.
LEMMA EntryPlaced ==
    ASSUME TableInv, m_aColumnIndex = NoIndex,
           NEW k, NEW K, NEW s \in ReadStates(k, K), NEW m \in Nat, Placed(s, m),
           NEW iRow \in Len(m_aBody)..(m - 1), NEW entry \in Entry
    PROVE  LET r == ReadEntry(s, iRow, entry)
           IN  /\ Placed(r, m)
               /\ Holds(r, iRow, entry)
               /\ \A row \in 0..(m - 1) : \A e \in Entry :
                     (row # iRow \/ e[1] # entry[1]) /\ Holds(s, row, e)
                        => Holds(r, row, e)
<1> DEFINE t == AddColumn(s, entry[1])
           at == _indexOfName(t.column, entry[1])
           r == ReadEntry(s, iRow, entry)
<1>1. entry[1] \in Names /\ entry[2] \in Int /\ m_aColumn \in Seq(Column)
      /\ Len(m_aBody) \in Nat
  <2>1. entry \in Names \X Values /\ m_aColumn \in Seq(Column) /\ Len(m_aBody) \in Nat
    BY OwnKeys DEF Entry, TableInv
  <2> QED  BY <2>1, ValuesInInt
<1>2. /\ t \in ReadStates(k, K) /\ at \in 0..(Len(t.column) - 1)
      /\ Len(t.body) = Len(s.body) /\ t.threw = s.threw
  BY <1>1, ColumnAdded
<1>3. Placed(t, m)
  <2>1. Len(m_aBody) <= m
    BY <1>1
  <2> QED  BY <1>1, <2>1, ColumnPlaced
<1>4. \A row \in 0..(Len(s.body) - 1) : \A e : Holds(s, row, e) => Holds(t, row, e)
  BY <1>1, ColumnHolds
<1>5. Len(s.body) = m /\ ~s.threw
  BY DEF Placed
<1> HIDE DEF t
<1>6. /\ t.column \in Seq(Column) /\ Len(t.column) \in Nat
      /\ t.body \in Bodies(Len(t.column) + 1, k, K)
      /\ t.nextKey = k /\ t.threw \in BOOLEAN
      /\ t = [body |-> t.body, column |-> t.column, nextKey |-> k, threw |-> t.threw]
  BY <1>2, ReadStateParts
<1>7. t.body \in Seq(Seq(Int)) /\ Len(t.body) = m /\ RowsOf(t.body, Len(t.column) + 1, K)
  BY <1>2, <1>5, <1>6, BodyRows
<1>8. ASSUME NEW i \in 1..m
       PROVE  Key(t.body[i]) = i - 1 /\ Len(t.body[i]) = Len(t.column) + 1
  BY <1>3, <1>7 DEF RowsOf, Placed
<1>9. iRow \in 0..(m - 1) /\ iRow + 1 \in 1..m /\ (iRow + 1) - 1 = iRow /\ iRow < m
       /\ iRow # None
  BY <1>1 DEF None
<1>10. _row(t.body, iRow) = iRow
  <2>1. Key(t.body[iRow + 1]) = iRow
    BY <1>8, <1>9
  <2> QED  BY <1>7, <1>9, <2>1 DEF _row
<1>11. _index2(at) = at + 1 /\ at + 1 \in Nat /\ (at + 1) + 1 \in 2..(Len(t.column) + 1)
  BY <1>2, <1>6 DEF _index2, _index
<1> DEFINE body == SetCell(t.body, iRow, at + 1, entry[2])
<1>12. r = [body |-> body, column |-> t.column, nextKey |-> k, threw |-> t.threw]
  <2>1. r = [t EXCEPT !.body = SetCell(@, iRow, at + 1, entry[2])]
    BY <1>5, <1>9, <1>10, <1>11 DEF ReadEntry, t
  <2> QED  BY <1>6, <2>1
<1>13. /\ Len(body) = m
       /\ \A i \in 1..m : i # iRow + 1 => body[i] = t.body[i]
       /\ body[iRow + 1][(at + 1) + 1] = entry[2]
       /\ \A j \in 1..(Len(t.column) + 1) :
             j # (at + 1) + 1 => body[iRow + 1][j] = t.body[iRow + 1][j]
  <2> DEFINE iC == at + 1
  <2>1. Len(t.body[iRow + 1]) = Len(t.column) + 1 /\ iC \in Nat
        /\ iC < Len(t.column) + 1
    BY <1>2, <1>6, <1>8, <1>9
  <2>2. iRow \in 0..(Len(t.body) - 1)
    BY <1>7, <1>9
  <2> HIDE DEF iC
  <2> DEFINE b == SetCell(t.body, iRow, iC, entry[2])
  <2>3. /\ Len(b) = Len(t.body)
        /\ \A i \in 1..Len(t.body) : i # iRow + 1 => b[i] = t.body[i]
        /\ b[iRow + 1][iC + 1] = entry[2]
        /\ \A j \in 1..Len(t.body[iRow + 1]) :
             j # iC + 1 => b[iRow + 1][j] = t.body[iRow + 1][j]
    <3> DEFINE old == t.body
               v == entry[2]
    <3>1. /\ old \in Seq(Seq(Int)) /\ iRow \in 0..(Len(old) - 1)
          /\ iC \in Nat /\ iC < Len(old[iRow + 1]) /\ v \in Int
      BY <1>1, <1>7, <2>1, <2>2
    <3>2. b = SetCell(old, iRow, iC, v)
      OBVIOUS
    <3> HIDE DEF old, v, b
    <3>3. OneCellDiffers(b, old, iRow, iC, v)
      BY <3>1, <3>2, OneCellSet
    <3> QED  BY <3>3 DEF OneCellDiffers, old, v
  <2> HIDE DEF b
  <2>4. /\ Len(b) = m
        /\ \A i \in 1..m : i # iRow + 1 => b[i] = t.body[i]
        /\ b[iRow + 1][iC + 1] = entry[2]
        /\ \A j \in 1..(Len(t.column) + 1) :
             j # iC + 1 => b[iRow + 1][j] = t.body[iRow + 1][j]
    BY <1>7, <2>1, <2>3
  <2> QED  BY <2>4 DEF b, iC
<1> HIDE DEF body, r
<1>14. r.body = body /\ r.column = t.column /\ r.threw = t.threw
  BY <1>12
<1>15. \A i \in 1..m : Key(body[i]) = i - 1
  <2> SUFFICES ASSUME NEW i \in 1..m
               PROVE  Key(body[i]) = i - 1
    OBVIOUS
  <2>1. CASE i = iRow + 1
    <3>1. 1 \in 1..(Len(t.column) + 1) /\ 1 # (at + 1) + 1
      BY <1>6, <1>11
    <3>2. body[iRow + 1][1] = t.body[iRow + 1][1]
      BY <1>13, <3>1
    <3> QED  BY <1>8, <2>1, <3>2 DEF Key
  <2>2. CASE i # iRow + 1
    BY <1>8, <1>13, <2>2
  <2> QED  BY <2>1, <2>2
<1>16. ASSUME NEW i \in 1..Len(m_aBody)
       PROVE  Widens(m_aBody[i], body[i])
  <2>1. i \in 1..m /\ i # iRow + 1
    BY <1>1, <1>9
  <2>2. Widens(m_aBody[i], t.body[i])
    BY <1>3 DEF Placed
  <2> QED  BY <1>13, <2>1, <2>2
<1>17. Placed(r, m)
  BY <1>2, <1>5, <1>13, <1>14, <1>15, <1>16 DEF Placed
<1>18. Holds(r, iRow, entry)
  <2>1. at # None
    BY <1>2 DEF None
  <2> QED  BY <1>13, <1>14, <2>1 DEF Holds, Cell
<1>19. ASSUME NEW row \in 0..(m - 1), NEW e \in Entry, row # iRow \/ e[1] # entry[1],
              Holds(s, row, e)
       PROVE  Holds(r, row, e)
  <2> DEFINE c == _indexOfName(t.column, e[1])
  <2>1. Holds(t, row, e)
    BY <1>4, <1>5, <1>19
  <2>2. c # None /\ c \in 0..(Len(t.column) - 1) /\ t.body[row + 1][(c + 1) + 1] = e[2]
    BY <1>6, <2>1, ColumnFound DEF Holds, Cell, None
  <2>3. row + 1 \in 1..m
    OBVIOUS
  <2>4. CASE row # iRow
    <3>1. row + 1 # iRow + 1
      BY <1>9, <2>4
    <3>2. body[row + 1] = t.body[row + 1]
      BY <1>13, <2>3, <3>1
    <3> QED  BY <1>14, <2>1, <3>2 DEF Holds, Cell
  <2>5. CASE row = iRow /\ e[1] # entry[1]
    <3>1. at # None
      BY <1>2 DEF None
    <3>2. c # at
      BY <1>6, <2>2, <2>5, <3>1, TwoColumns
    <3> DEFINE n == Len(t.column)
    <3>3. n \in Nat /\ c \in 0..(n - 1) /\ at \in 0..(n - 1)
      BY <1>2, <1>6, <2>2
    <3> HIDE DEF c, at, n
    <3>4. (c + 1) + 1 \in 1..(n + 1) /\ (c + 1) + 1 # (at + 1) + 1
      BY <3>2, <3>3
    <3>5. body[iRow + 1][(c + 1) + 1] = t.body[iRow + 1][(c + 1) + 1]
      BY <1>13, <3>4 DEF n
    <3> QED  BY <1>14, <2>2, <2>5, <3>5 DEF Holds, Cell, c
  <2> QED  BY <1>19, <2>4, <2>5
<1> QED  BY <1>17, <1>18, <1>19 DEF r

\* The loop over the first object's columns leaves them there too.
LEMMA ColumnsPlaced ==
    ASSUME TableInv, NEW k, NEW K, NEW s \in ReadStates(k, K), NEW m \in Nat,
           Len(m_aBody) <= m, Placed(s, m), NEW object \in Seq(Entry)
    PROVE  Placed(FirstColumns(s, object), m)
<1> DEFINE N == Len(object)
           S == {t \in ReadStates(k, K) : Placed(t, m)}
<1>1. N \in Nat /\ s \in S /\ m_aColumn \in Seq(Column)
  BY DEF TableInv
<1> PICK F : AddsColumns(F, s, object)
  BY <1>1, ColumnTurns
<1>2. /\ F[0] = s
      /\ \A i \in 1..N : F[i] = AddColumn(F[i - 1], object[i][1])
      /\ FirstColumns(s, object) = F[N]
  BY DEF AddsColumns
<1>3. ASSUME NEW i \in 1..N, F[i - 1] \in S
      PROVE  F[i] \in S
  <2>1. object[i] \in Names \X Values
    BY DEF Entry
  <2>2. object[i][1] \in Names
    BY <2>1
  <2>3. F[i - 1] \in ReadStates(k, K) /\ Placed(F[i - 1], m)
    BY <1>3
  <2>4. AddColumn(F[i - 1], object[i][1]) \in ReadStates(k, K)
    BY <1>1, <2>2, <2>3, ColumnAdded
  <2>5. Placed(AddColumn(F[i - 1], object[i][1]), m)
    BY <2>2, <2>3, ColumnPlaced
  <2> QED  BY <1>2, <2>4, <2>5
<1> DEFINE B == [i \in 0..N |-> S]
<1>4. F[0] \in B[0] /\ \A i \in 1..N : F[i - 1] \in B[i - 1] => F[i] \in B[i]
  <2> HIDE DEF S, N
  <2>1. \A i \in 0..N : B[i] = S
    OBVIOUS
  <2>2. 0 \in 0..N /\ \A i \in 1..N : i \in 0..N /\ i - 1 \in 0..N
    BY <1>1
  <2> HIDE DEF B
  <2> QED  BY <1>1, <1>2, <1>3, <2>1, <2>2
<1>5. N \in 0..N /\ B[N] = S
  BY <1>1
<1> HIDE DEF B, N, S
<1>6. \A i \in 0..N : F[i] \in B[i]
  BY <1>1, <1>4, LoopKeeps
<1>7. F[N] \in S
  BY <1>5, <1>6
<1> QED  BY <1>2, <1>7 DEF S

OneEntryForName(object) ==
    \A i, j \in 1..Len(object) : object[i][1] = object[j][1] => i = j

\* t has the first n entries of the object in a row, and in the others what s has.
EntriesRead(t, s, m, iRow, object, n) ==
    /\ Placed(t, m)
    /\ \A j \in 1..n : Holds(t, iRow, object[j])
    /\ \A row \in 0..(m - 1) : \A e \in Entry :
          row # iRow /\ Holds(s, row, e) => Holds(t, row, e)

\* One more entry; its name is not that of an entry before it.
LEMMA OneMoreEntry ==
    ASSUME TableInv, m_aColumnIndex = NoIndex,
           NEW k, NEW K, NEW s, NEW t \in ReadStates(k, K), NEW m \in Nat,
           NEW iRow \in Len(m_aBody)..(m - 1),
           NEW object \in Seq(Entry), OneEntryForName(object),
           NEW n \in 1..Len(object), EntriesRead(t, s, m, iRow, object, n - 1)
    PROVE  EntriesRead(ReadEntry(t, iRow, object[n]), s, m, iRow, object, n)
<1> DEFINE r == ReadEntry(t, iRow, object[n])
<1>1. object[n] \in Entry /\ Placed(t, m) /\ iRow \in 0..(m - 1)
  <2>1. Len(m_aBody) \in Nat
    BY OwnKeys
  <2> QED  BY <2>1 DEF EntriesRead
<1>2. /\ Placed(r, m)
      /\ Holds(r, iRow, object[n])
      /\ \A row \in 0..(m - 1) : \A e \in Entry :
            (row # iRow \/ e[1] # object[n][1]) /\ Holds(t, row, e) => Holds(r, row, e)
  <2> DEFINE entry == object[n]
  <2>1. entry \in Entry /\ r = ReadEntry(t, iRow, entry)
    BY <1>1
  <2> HIDE DEF entry, r
  <2>2. /\ Placed(r, m)
        /\ Holds(r, iRow, entry)
        /\ \A row \in 0..(m - 1) : \A e \in Entry :
              (row # iRow \/ e[1] # entry[1]) /\ Holds(t, row, e) => Holds(r, row, e)
    BY <1>1, <2>1, EntryPlaced
  <2> QED  BY <2>2 DEF entry
<1> HIDE DEF r
<1>3. ASSUME NEW j \in 1..n
      PROVE  Holds(r, iRow, object[j])
  <2>1. CASE j = n
    BY <1>2, <2>1
  <2>2. CASE j # n
    <3>1. j \in 1..(n - 1) /\ j \in 1..Len(object)
      BY <2>2
    <3>2. object[j] \in Entry /\ Holds(t, iRow, object[j])
      BY <3>1 DEF EntriesRead
    <3>3. object[j][1] # object[n][1]
      BY <2>2, <3>1 DEF OneEntryForName
    <3> QED  BY <1>1, <1>2, <3>2, <3>3
  <2> QED  BY <2>1, <2>2
<1>4. ASSUME NEW row \in 0..(m - 1), NEW e \in Entry, row # iRow, Holds(s, row, e)
      PROVE  Holds(r, row, e)
  <2>1. Holds(t, row, e)
    BY <1>4 DEF EntriesRead
  <2> QED  BY <1>2, <1>4, <2>1
<1> QED  BY <1>2, <1>3, <1>4 DEF EntriesRead, r

\* An object is read into its row.
LEMMA ObjectPlaced ==
    ASSUME TableInv, m_aColumnIndex = NoIndex,
           NEW k, NEW K, NEW s \in ReadStates(k, K), NEW m \in Nat, Placed(s, m),
           NEW iRow \in Len(m_aBody)..(m - 1),
           NEW object \in Seq(Entry), OneEntryForName(object)
    PROVE  EntriesRead(ReadObject(s, iRow, object), s, m, iRow, object, Len(object))
<1> DEFINE N == Len(object)
           S(n) == {t \in ReadStates(k, K) : EntriesRead(t, s, m, iRow, object, n)}
<1>1. N \in Nat /\ IndexFits /\ m_aColumn \in Seq(Column) /\ iRow \in Nat
  <2>1. Len(m_aBody) \in Nat
    BY OwnKeys
  <2> QED  BY <2>1 DEF TableInv
<1> PICK F : ReadsEntries(F, s, iRow, object)
  BY <1>1, ObjectTurns
<1>2. /\ F[0] = s
      /\ \A i \in 1..N : F[i] = ReadEntry(F[i - 1], iRow, object[i])
      /\ ReadObject(s, iRow, object) = F[N]
  BY DEF ReadsEntries
<1>3. s \in S(0)
  BY DEF EntriesRead
<1>4. ASSUME NEW i \in 1..N, F[i - 1] \in S(i - 1)
      PROVE  F[i] \in S(i)
  <2>1. object[i] \in Entry
    OBVIOUS
  <2>2. F[i - 1] \in ReadStates(k, K) /\ EntriesRead(F[i - 1], s, m, iRow, object, i - 1)
    BY <1>4
  <2>3. ReadEntry(F[i - 1], iRow, object[i]) \in ReadStates(k, K)
    BY <1>1, <2>1, <2>2, EntryRead
  <2>4. EntriesRead(ReadEntry(F[i - 1], iRow, object[i]), s, m, iRow, object, i)
    <3> PICK t : t = F[i - 1]
      OBVIOUS
    <3> QED  BY <2>2, OneMoreEntry
  <2> QED  BY <1>2, <2>3, <2>4
<1> DEFINE B == [i \in 0..N |-> S(i)]
<1>5. F[0] \in B[0] /\ \A i \in 1..N : F[i - 1] \in B[i - 1] => F[i] \in B[i]
  <2> HIDE DEF S, N
  <2>1. \A i \in 0..N : B[i] = S(i)
    OBVIOUS
  <2>2. 0 \in 0..N /\ \A i \in 1..N : i \in 0..N /\ i - 1 \in 0..N
    BY <1>1
  <2> HIDE DEF B
  <2> QED  BY <1>2, <1>3, <1>4, <2>1, <2>2
<1>6. N \in 0..N /\ B[N] = S(N)
  BY <1>1
<1> HIDE DEF B, N, S
<1>7. \A i \in 0..N : F[i] \in B[i]
  BY <1>1, <1>5, LoopKeeps
<1>8. F[N] \in S(N)
  BY <1>6, <1>7
<1> QED  BY <1>2, <1>8 DEF S, N

\* The rows for the objects have their positions for keys.
LEMMA RoomPlaced ==
    ASSUME TableInv, KeysArePositions, NEW aList \in Seq(Seq(Entry)), aList # <<>>
    PROVE  Placed(RoomToRead(aList), Len(m_aBody) + Len(aList))
<1> DEFINE first == FirstColumns(ReadStart, aList[1])
           r == RoomToRead(aList)
           old == Len(m_aBody)
           N == Len(aList)
<1>1. old \in Nat /\ N \in Nat /\ aList[1] \in Seq(Entry) /\ m_iNextKey = old
  BY OwnKeys DEF KeysArePositions
<1>2. ReadStart \in ReadStates(m_iNextKey, Keys(m_aBody)) /\ HasRoom(r, first, N)
  BY RoomIsMade
<1>3. Placed(ReadStart, old)
  <2>1. ReadStart.body = m_aBody /\ ReadStart.threw = FALSE
    BY DEF ReadStart
  <2>2. \A i \in 1..old : Key(m_aBody[i]) = i - 1
    <3>1. DOMAIN m_aBody = 1..old
      BY OwnKeys, LenProperties
    <3> QED  BY <3>1 DEF KeysArePositions
  <2>3. ASSUME NEW i \in 1..old
        PROVE  Widens(m_aBody[i], m_aBody[i])
    <3>1. m_aBody[i] \in Seq(Int)
      BY OwnKeys, ElementOfSeq
    <3>2. Len(m_aBody[i]) \in Nat
      BY <3>1, LenProperties
    <3> QED  BY <3>2 DEF Widens
  <2> QED  BY <2>1, <2>2, <2>3 DEF Placed
<1>4. Placed(first, old)
  <2> DEFINE k == m_iNextKey
             K == Keys(m_aBody)
             start == ReadStart
             object == aList[1]
  <2>1. start \in ReadStates(k, K) /\ object \in Seq(Entry) /\ Placed(start, old) /\ old <= old
    BY <1>1, <1>2, <1>3
  <2> HIDE DEF k, K, start, object, old
  <2>2. Len(m_aBody) <= old
    BY <2>1 DEF old
  <2>3. Placed(FirstColumns(start, object), old)
    BY <1>1, <2>1, <2>2, ColumnsPlaced
  <2> QED  BY <2>3 DEF start, object
<1> HIDE DEF first, r
<1>5. /\ ~r.threw /\ Len(first.body) = old /\ Len(r.body) = old + N
      /\ \A i \in 1..(old + N) : IF i <= old THEN r.body[i] = first.body[i]
                                ELSE Key(r.body[i]) = m_iNextKey + i - (old + 1)
  BY <1>2, <1>4 DEF HasRoom, Placed
<1>6. ASSUME NEW i \in 1..(old + N)
      PROVE  Key(r.body[i]) = i - 1
  <2>1. CASE i <= old
    <3>1. r.body[i] = first.body[i] /\ i \in 1..old
      BY <1>1, <1>5, <2>1
    <3> QED  BY <1>4, <3>1 DEF Placed
  <2>2. CASE ~(i <= old)
    BY <1>1, <1>5, <2>2
  <2> QED  BY <2>1, <2>2
<1>7. ASSUME NEW i \in 1..old
      PROVE  Widens(m_aBody[i], r.body[i])
  <2>1. i <= old /\ i \in 1..(old + N)
    BY <1>1
  <2>2. r.body[i] = first.body[i]
    BY <1>5, <2>1
  <2> QED  BY <1>4, <2>2 DEF Placed
<1> QED  BY <1>5, <1>6, <1>7 DEF Placed, r

\* The first n objects of a list are in the rows behind the old ones.
ObjectsPlaced(t, m, aList, n) ==
    /\ Placed(t, m)
    /\ \A i \in 1..n : \A j \in 1..Len(aList[i]) :
          Holds(t, Len(m_aBody) + i - 1, aList[i][j])

\* One more object; the rows of those before it are other rows.
LEMMA OneMoreObject ==
    ASSUME TableInv, m_aColumnIndex = NoIndex,
           NEW k, NEW K, NEW t \in ReadStates(k, K),
           NEW aList \in Seq(Seq(Entry)), \A i \in 1..Len(aList) : OneEntryForName(aList[i]),
           NEW n \in 1..Len(aList), NEW m \in Nat, m = Len(m_aBody) + Len(aList),
           ObjectsPlaced(t, m, aList, n - 1)
    PROVE  ObjectsPlaced(ReadObject(t, Len(m_aBody) + n - 1, aList[n]), m, aList, n)
<1> DEFINE iRow == Len(m_aBody) + n - 1
           r == ReadObject(t, iRow, aList[n])
<1>1. /\ Len(m_aBody) \in Nat /\ Len(aList) \in Nat /\ aList[n] \in Seq(Entry)
      /\ iRow \in Len(m_aBody)..(m - 1) /\ OneEntryForName(aList[n])
  BY OwnKeys
<1>2. EntriesRead(r, t, m, iRow, aList[n], Len(aList[n]))
  <2> PICK object : object = aList[n]
    OBVIOUS
  <2> HIDE DEF iRow
  <2> QED  BY <1>1, ObjectPlaced DEF ObjectsPlaced
<1> HIDE DEF r
<1>3. ASSUME NEW i \in 1..n, NEW j \in 1..Len(aList[i])
      PROVE  Holds(r, Len(m_aBody) + i - 1, aList[i][j])
  <2>1. CASE i = n
    BY <1>2, <2>1 DEF EntriesRead
  <2>2. CASE i # n
    <3> DEFINE row == Len(m_aBody) + i - 1
    <3>1. i \in 1..(n - 1) /\ i \in 1..Len(aList) /\ row \in 0..(m - 1) /\ row # iRow
      BY <1>1, <2>2
    <3>2. aList[i] \in Seq(Entry)
      BY <3>1, ElementOfSeq
    <3>3. aList[i][j] \in Entry
      BY <3>2, ElementOfSeq
    <3>4. Holds(t, row, aList[i][j])
      BY <3>1 DEF ObjectsPlaced
    <3> HIDE DEF row, iRow
    <3>5. Holds(r, row, aList[i][j])
      BY <1>2, <3>1, <3>3, <3>4 DEF EntriesRead
    <3> QED  BY <3>5 DEF row
  <2> QED  BY <2>1, <2>2
<1> QED  BY <1>2, <1>3 DEF ObjectsPlaced, EntriesRead, r, iRow

\* All objects of a list are in rows of their own.
LEMMA ListPlaced ==
    ASSUME TableInv, KeysArePositions, NEW aList \in Seq(Seq(Entry)), aList # <<>>,
           \A i \in 1..Len(aList) : OneEntryForName(aList[i])
    PROVE  ObjectsPlaced(ReadObjects(aList), Len(m_aBody) + Len(aList), aList, Len(aList))
<1> DEFINE N == Len(aList)
           m == Len(m_aBody) + N
           k == m_iNextKey + N
           K == KeysUpTo(k)
           S(n) == {t \in ReadStates(k, K) : ObjectsPlaced(t, m, aList, n)}
<1>1. /\ N \in Nat /\ Len(m_aBody) \in Nat /\ m \in Nat
      /\ IndexFits /\ m_aColumn \in Seq(Column)
      /\ m_aColumnIndex = NoIndex
  BY OwnKeys DEF TableInv, KeysArePositions
<1> PICK F : ReadsList(F, aList)
  BY ListTurns
<1>2. /\ F[0] = RoomToRead(aList)
      /\ \A i \in 1..N : F[i] = ReadObject(F[i - 1], Len(m_aBody) + i - 1, aList[i])
      /\ ReadObjects(aList) = F[N]
  BY DEF ReadsList
<1>3. F[0] \in S(0)
  <2>1. RoomToRead(aList) \in ReadStates(k, K)
    BY RoomIsMade
  <2>2. Placed(RoomToRead(aList), m)
    BY RoomPlaced
  <2> QED  BY <1>2, <2>1, <2>2 DEF ObjectsPlaced
<1>4. ASSUME NEW i \in 1..N, F[i - 1] \in S(i - 1)
      PROVE  F[i] \in S(i)
  <2>1. F[i - 1] \in ReadStates(k, K) /\ ObjectsPlaced(F[i - 1], m, aList, i - 1)
    BY <1>4
  <2> DEFINE iRow == Len(m_aBody) + i - 1
  <2>2. aList[i] \in Seq(Entry) /\ iRow \in Nat
    BY <1>1
  <2>3. ReadObject(F[i - 1], iRow, aList[i]) \in ReadStates(k, K)
    <3> HIDE DEF iRow, k, K
    <3> QED  BY <1>1, <2>1, <2>2, ObjectRead
  <2>4. ObjectsPlaced(ReadObject(F[i - 1], iRow, aList[i]), m, aList, i)
    <3> PICK t : t = F[i - 1]
      OBVIOUS
    <3>1. m = Len(m_aBody) + Len(aList) /\ i \in 1..Len(aList)
      OBVIOUS
    <3> HIDE DEF m, k, K, N
    <3> QED  BY <1>1, <2>1, <3>1, OneMoreObject
  <2> QED  BY <1>2, <2>3, <2>4
<1> DEFINE B == [i \in 0..N |-> S(i)]
<1>5. F[0] \in B[0] /\ \A i \in 1..N : F[i - 1] \in B[i - 1] => F[i] \in B[i]
  <2> HIDE DEF S, N
  <2>1. \A i \in 0..N : B[i] = S(i)
    OBVIOUS
  <2>2. 0 \in 0..N /\ \A i \in 1..N : i \in 0..N /\ i - 1 \in 0..N
    BY <1>1
  <2> HIDE DEF B
  <2> QED  BY <1>2, <1>3, <1>4, <2>1, <2>2
<1>6. N \in 0..N /\ B[N] = S(N)
  BY <1>1
<1> HIDE DEF B, N, S
<1>7. \A i \in 0..N : F[i] \in B[i]
  BY <1>1, <1>5, LoopKeeps
<1>8. F[N] \in S(N)
  BY <1>6, <1>7
<1> QED  BY <1>2, <1>8 DEF S, N

\* The names of an object's entries differ.
LEMMA ObjectsNameOnce ==
    ASSUME NEW o \in Objects
    PROVE  OneEntryForName(o)
<1>1. PICK h \in Headers, v \in Values : o = [i \in DOMAIN h |-> <<h[i], v>>]
  BY DEF Objects
<1>2. h \in Seq(Names) /\ o \in Seq(Entry)
  BY HeadersAreNames, ObjectsAreEntries
<1>3. DOMAIN h = 1..Len(h) /\ DOMAIN o = 1..Len(o) /\ DOMAIN o = DOMAIN h
  BY <1>1, <1>2, LenProperties
<1>4. \A i \in 1..Len(o) : o[i][1] = h[i]
  BY <1>1, <1>3
<1>5. \A i, j \in 1..Len(h) : h[i] = h[j] => i = j
  <2>1. CASE h \in {x \in Names \X Names : x[1] # x[2]}
    <3>1. Len(h) = 2 /\ h[1] # h[2]
      BY <2>1
    <3> QED  BY <3>1
  <2>2. CASE h \in {<<n>> : n \in Names}
    <3>1. Len(h) = 1
      BY <2>2
    <3> QED  BY <3>1
  <2> QED  BY <2>1, <2>2 DEF Headers
<1>6. \A i \in 1..Len(o) : i \in 1..Len(h)
  BY <1>3
<1> QED  BY <1>4, <1>5, <1>6 DEF OneEntryForName

LEMMA ListsNameOnce ==
    ASSUME NEW aList \in ObjectLists, NEW i \in 1..Len(aList)
    PROVE  OneEntryForName(aList[i])
<1>1. aList[i] \in Objects
  <2>1. CASE aList \in {<<o>> : o \in Objects}
    <3>1. PICK o \in Objects : aList = <<o>>
      BY <2>1
    <3> QED  BY <3>1
  <2>2. CASE aList \in {<<o, p>> : o, p \in Objects}
    <3>1. PICK o \in Objects, p \in Objects : aList = <<o, p>>
      BY <2>2
    <3> QED  BY <3>1
  <2> QED  BY <2>1, <2>2 DEF ObjectLists
<1> QED  BY <1>1, ObjectsNameOnce

\* A row that only got wider begins with what it was.
LEMMA WidensIsPrefix ==
    ASSUME NEW old \in Seq(Int), NEW new \in Seq(Int), Widens(old, new)
    PROVE  IsPrefix(old, new)
<1> DEFINE n == Len(old)
<1>1. n \in Nat /\ Len(new) \in Nat /\ n <= Len(new)
  BY LenProperties DEF Widens
<1>2. SubSeq(old, 1, n) = SubSeq(new, 1, n)
  <2>1. SubSeq(old, 1, n) = [i \in 1..n |-> old[i]]
    BY <1>1
  <2>2. SubSeq(new, 1, n) = [i \in 1..n |-> new[i]]
    BY <1>1
  <2>3. \A i \in 1..n : new[i] = old[i]
    BY DEF Widens
  <2> QED  BY <2>1, <2>2, <2>3
<1> QED  BY <1>1, <1>2 DEF IsPrefix

\* While keys are positions, ReadObjects and ReadObject put every entry in the
\* row of its object and change no row that was there.
THEOREM ObjectsGetTheirRows ==
    ASSUME FooterSize = 0
    PROVE  Spec => []ReadKeepsOldRows
<1>1. TableInv => ReadKeepsOldRows
  <2> SUFFICES ASSUME TableInv, KeysArePositions, NEW aList \in ObjectLists
               PROVE  LET s == ReadObjects(aList)
                          old == Len(m_aBody)
                          read(i, e) ==
                            Cell(s.body, old + i - 1, _indexOfName(s.column, e[1]) + 1)
                      IN  /\ \A i \in 1..old : IsPrefix(m_aBody[i], s.body[i])
                          /\ \A i \in DOMAIN aList : \A e \in Range(aList[i]) :
                                read(i, e) = e[2]
    BY DEF ReadKeepsOldRows
  <2> DEFINE s == ReadObjects(aList)
             k == m_iNextKey + Len(aList)
             old == Len(m_aBody)
  <2>1. aList \in Seq(Seq(Entry)) /\ aList # <<>> /\ Len(aList) \in Nat
        /\ DOMAIN aList = 1..Len(aList)
    BY ListsAreObjects, LenProperties
  <2>2. s \in ReadStates(k, KeysUpTo(k))
    BY <2>1, ObjectsRead
  <2>3. ObjectsPlaced(s, old + Len(aList), aList, Len(aList))
    BY <2>1, ListPlaced, ListsNameOnce
  <2>4. old \in Nat /\ m_aBody \in Seq(Seq(Int))
    BY OwnKeys
  <2> HIDE DEF s
  <2>5. s.body \in Seq(Seq(Int)) /\ Len(s.body) = old + Len(aList)
    BY <2>2, <2>3, ReadStateParts, BodyRows DEF ObjectsPlaced, Placed
  <2>6. ASSUME NEW i \in 1..old
        PROVE  IsPrefix(m_aBody[i], s.body[i])
    <3>1. i \in 1..Len(s.body)
      BY <2>1, <2>4, <2>5
    <3>2. m_aBody[i] \in Seq(Int) /\ s.body[i] \in Seq(Int)
      BY <2>4, <2>5, <3>1, ElementOfSeq
    <3>3. Widens(m_aBody[i], s.body[i])
      BY <2>3 DEF ObjectsPlaced, Placed
    <3> QED  BY <3>2, <3>3, WidensIsPrefix
  <2>7. ASSUME NEW i \in DOMAIN aList, NEW e \in Range(aList[i])
        PROVE  Cell(s.body, old + i - 1, _indexOfName(s.column, e[1]) + 1) = e[2]
    <3>1. i \in 1..Len(aList)
      BY <2>1
    <3>2. aList[i] \in Seq(Entry)
      BY <2>1, <3>1, ElementOfSeq
    <3>3. PICK j \in 1..Len(aList[i]) : e = aList[i][j]
      BY <3>2, LenProperties DEF Range
    <3>4. Holds(s, old + i - 1, e)
      BY <2>3, <3>1, <3>3 DEF ObjectsPlaced
    <3> QED  BY <3>4 DEF Holds
  <2> QED  BY <2>6, <2>7 DEF s
<1> QED  BY <1>1, TableInvariant, PTL
=============================================================================
