-------------------------- MODULE FIFORunnerProofs --------------------------
(***************************************************************************)
(* The task queue is correct for every set of tasks and every assignment   *)
(* of priorities: IndInv is inductive, and FIFORunner implements           *)
(* TaskRunner.  The proofs work on the order Before of the list; the first *)
(* lemmas say how each list operation changes the set of linked nodes and  *)
(* their order, and nothing after them looks at positions.                 *)
(***************************************************************************)
EXTENDS FIFORunner, TLAPS

-----------------------------------------------------------------------------
(***************************************************************************)
(* The two sequence operations the list operations are made of.            *)
(***************************************************************************)

\* RemoveAt drops position i and shifts what follows (list.erase).
LEMMA RemoveAtElements ==
  ASSUME NEW S, NEW s \in Seq(S), NEW i \in 1..Len(s)
  PROVE  /\ RemoveAt(s, i) \in Seq(S)
         /\ Len(RemoveAt(s, i)) = Len(s) - 1
         /\ \A j \in 1..(Len(s) - 1) :
              RemoveAt(s, i)[j] = IF j < i THEN s[j] ELSE s[j + 1]
<1> DEFINE a == SubSeq(s, 1, i - 1)
           b == SubSeq(s, i + 1, Len(s))
<1>1. a \in Seq(S) /\ Len(a) = i - 1 /\ \A j \in 1..(i - 1) : a[j] = s[j]
  OBVIOUS
<1>2. b \in Seq(S) /\ Len(b) = Len(s) - i /\ \A j \in 1..(Len(s) - i) : b[j] = s[i + j]
  OBVIOUS
<1> HIDE DEF a, b
<1>3. a \o b \in Seq(S) /\ Len(a \o b) = Len(s) - 1
  <2>1. a \in Seq(S) /\ b \in Seq(S)
    BY <1>1, <1>2
  <2>2. a \o b \in Seq(S) /\ Len(a \o b) = Len(a) + Len(b)
    BY <2>1
  <2> QED
    BY <1>1, <1>2, <2>2
<1>4. ASSUME NEW j \in 1..(Len(s) - 1)
      PROVE  (a \o b)[j] = IF j < i THEN s[j] ELSE s[j + 1]
  BY <1>1, <1>2
<1> QED
  BY <1>3, <1>4 DEF RemoveAt, a, b

\* InsertAt puts e at position i and shifts what follows (list.insert).
LEMMA InsertAtElements ==
  ASSUME NEW S, NEW s \in Seq(S), NEW i \in 1..Len(s), NEW e \in S
  PROVE  /\ InsertAt(s, i, e) \in Seq(S)
         /\ Len(InsertAt(s, i, e)) = Len(s) + 1
         /\ \A j \in 1..(i - 1) : InsertAt(s, i, e)[j] = s[j]
         /\ InsertAt(s, i, e)[i] = e
         /\ \A j \in (i + 1)..(Len(s) + 1) : InsertAt(s, i, e)[j] = s[j - 1]
<1> DEFINE a == SubSeq(s, 1, i - 1)
           b == SubSeq(s, i, Len(s))
           c == a \o <<e>>
<1>1. a \in Seq(S) /\ Len(a) = i - 1 /\ \A j \in 1..(i - 1) : a[j] = s[j]
  OBVIOUS
<1>2. b \in Seq(S) /\ Len(b) = Len(s) - i + 1
      /\ \A j \in 1..(Len(s) - i + 1) : b[j] = s[i + j - 1]
  OBVIOUS
<1> HIDE DEF a, b
<1>3. c \in Seq(S) /\ Len(c) = i /\ \A j \in 1..i : c[j] = IF j < i THEN s[j] ELSE e
  BY <1>1
<1> HIDE DEF c
<1>4. c \o b \in Seq(S) /\ Len(c \o b) = Len(s) + 1
  <2>1. c \in Seq(S) /\ b \in Seq(S)
    BY <1>2, <1>3
  <2>2. c \o b \in Seq(S) /\ Len(c \o b) = Len(c) + Len(b)
    BY <2>1
  <2> QED
    BY <1>2, <1>3, <2>2
<1>5. ASSUME NEW j \in Int, 1 <= j, j <= Len(s) + 1
      PROVE  (c \o b)[j] = IF j < i THEN s[j] ELSE IF j = i THEN e ELSE s[j - 1]
  <2>1. /\ c \in Seq(S) /\ b \in Seq(S) /\ i \in Int
        /\ Len(c) = i /\ Len(b) = Len(s) - i + 1
    BY <1>2, <1>3
  <2>2. CASE j <= i
    <3>1. j \in 1..Len(c)
      BY <1>5, <2>1, <2>2
    <3>2. (c \o b)[j] = c[j]
      BY <2>1, <3>1
    <3>3. c[j] = IF j < i THEN s[j] ELSE e
      BY <1>3, <2>1, <3>1
    <3> QED
      BY <2>1, <2>2, <3>2, <3>3
  <2>3. CASE j > i
    <3>1. /\ j \in Len(c) + 1 .. Len(c) + Len(b) /\ j - i \in 1..(Len(s) - i + 1)
          /\ j - Len(c) = j - i /\ i + (j - i) - 1 = j - 1
      BY <1>5, <2>1, <2>3
    <3>2. (c \o b)[j] = b[j - Len(c)]
      BY <2>1, <3>1
    <3>3. b[j - i] = s[i + (j - i) - 1]
      BY <1>2, <3>1
    <3>4. (c \o b)[j] = s[j - 1]
      BY <3>1, <3>2, <3>3
    <3> QED
      BY <2>3, <3>4
  <2>4. j <= i \/ j > i
    BY <2>1
  <2> QED
    BY ONLY <2>2, <2>3, <2>4
<1> DEFINE r == c \o b
<1>6. r = InsertAt(s, i, e)
  BY DEF InsertAt, a, b, c
<1> HIDE DEF r
<1>7. ASSUME NEW j \in Int, 1 <= j, j <= Len(s) + 1
      PROVE  r[j] = IF j < i THEN s[j] ELSE IF j = i THEN e ELSE s[j - 1]
  BY <1>5, <1>7 DEF r
<1>8. r \in Seq(S) /\ Len(r) = Len(s) + 1
  BY <1>4 DEF r
<1> QED
  BY <1>6, <1>7, <1>8

-----------------------------------------------------------------------------
(***************************************************************************)
(* Before is a strict total order on the nodes of a list.                  *)
(***************************************************************************)

\* The position of a linked node (iterator_to).
LEMMA PosElement ==
  ASSUME NEW S, NEW s \in Seq(S), NEW x \in Nodes(s)
  PROVE  Pos(s, x) \in 1..Len(s) /\ s[Pos(s, x)] = x
BY DEF Nodes, Pos

\* Before is a strict total order on the linked nodes.
LEMMA BeforeOrder ==
  ASSUME NEW S, NEW s \in Seq(S), NoRepeat(s)
  PROVE  /\ \A x, y : Before(s, x, y) => x \in Nodes(s) /\ y \in Nodes(s) /\ x # y
         /\ \A x, y, z : Before(s, x, y) /\ Before(s, y, z) => Before(s, x, z)
         /\ \A x, y : ~(Before(s, x, y) /\ Before(s, y, x))
         /\ \A x, y \in Nodes(s) : x = y \/ Before(s, x, y) \/ Before(s, y, x)
<1>1. ASSUME NEW x, NEW y, Before(s, x, y)
      PROVE  x \in Nodes(s) /\ y \in Nodes(s) /\ x # y
  BY <1>1 DEF Before, Nodes, NoRepeat
<1>2. ASSUME NEW x, NEW y, NEW z, Before(s, x, y), Before(s, y, z)
      PROVE  Before(s, x, z)
  BY <1>2 DEF Before, NoRepeat
<1>3. ASSUME NEW x, NEW y, Before(s, x, y), Before(s, y, x)
      PROVE  FALSE
  BY <1>3 DEF Before, NoRepeat
<1>4. ASSUME NEW x \in Nodes(s), NEW y \in Nodes(s)
      PROVE  x = y \/ Before(s, x, y) \/ Before(s, y, x)
  BY DEF Before, Nodes
<1> QED
  BY <1>1, <1>2, <1>3, <1>4

\* The root node is last iff every other node comes before it.
LEMMA LastNode ==
  ASSUME NEW S, NEW s \in Seq(S), NoRepeat(s), NEW e
  PROVE  (s # << >> /\ s[Len(s)] = e)
           <=> (e \in Nodes(s) /\ \A x \in Nodes(s) : x = e \/ Before(s, x, e))
<1>1. ASSUME s # << >>, s[Len(s)] = e
      PROVE  e \in Nodes(s) /\ \A x \in Nodes(s) : x = e \/ Before(s, x, e)
  <2>1. Len(s) \in 1..Len(s)
    BY <1>1
  <2> QED
    BY <1>1, <2>1 DEF Nodes, Before
<1>2. ASSUME e \in Nodes(s), \A x \in Nodes(s) : x = e \/ Before(s, x, e)
      PROVE  s # << >> /\ s[Len(s)] = e
  <2>1. s # << >> /\ Len(s) \in 1..Len(s)
    BY <1>2 DEF Nodes
  <2>2. s[Len(s)] \in Nodes(s)
    BY <2>1 DEF Nodes
  <2>3. ~Before(s, s[Len(s)], e)
    BY <2>1 DEF Before, NoRepeat
  <2> QED
    BY <1>2, <2>1, <2>2, <2>3
<1> QED
  BY <1>1, <1>2

\* ++iterator leads to the least node behind a node that is not the last.
LEMMA SuccNode ==
  ASSUME NEW S, NEW s \in Seq(S), NoRepeat(s), NEW x, NEW y, Before(s, x, y)
  PROVE  /\ Before(s, x, Succ(s, x))
         /\ \A z : Before(s, x, z) => z = Succ(s, x) \/ Before(s, Succ(s, x), z)
<1>1. PICK i \in 1..Len(s), j \in 1..Len(s) : i < j /\ s[i] = x /\ s[j] = y
  BY DEF Before
<1>2. Pos(s, x) = i
  BY <1>1 DEF Pos, NoRepeat
<1>3. i + 1 \in 1..Len(s) /\ Succ(s, x) = s[i + 1]
  BY <1>1, <1>2 DEF Succ
<1>4. Before(s, x, Succ(s, x))
  BY <1>1, <1>3 DEF Before
<1>5. ASSUME NEW z, Before(s, x, z)
      PROVE  z = Succ(s, x) \/ Before(s, Succ(s, x), z)
  <2>1. PICK k \in 1..Len(s), m \in 1..Len(s) : k < m /\ s[k] = x /\ s[m] = z
    BY <1>5 DEF Before
  <2>2. k = i
    BY <1>1, <2>1 DEF NoRepeat
  <2>3. m = i + 1 \/ i + 1 < m
    BY <2>1, <2>2
  <2> QED
    BY <1>3, <2>1, <2>3 DEF Before
<1> QED
  BY <1>4, <1>5

-----------------------------------------------------------------------------
(***************************************************************************)
(* The list operations.                                                    *)
(***************************************************************************)

\* erase(x) unlinks x and keeps the order of the other nodes.
LEMMA EraseOrder ==
  ASSUME NEW S, NEW s \in Seq(S), NoRepeat(s), NEW x \in Nodes(s)
  PROVE  /\ Erase(s, x) \in Seq(S)
         /\ NoRepeat(Erase(s, x))
         /\ Nodes(Erase(s, x)) = Nodes(s) \ {x}
         /\ \A y, z : Before(Erase(s, x), y, z)
                        <=> Before(s, y, z) /\ y # x /\ z # x
<1> DEFINE r == Erase(s, x)
           i == Pos(s, x)
           Old(j) == IF j < i THEN j ELSE j + 1
           New(j) == IF j < i THEN j ELSE j - 1
<1>1. i \in 1..Len(s) /\ s[i] = x
  BY PosElement
<1>2. r \in Seq(S) /\ Len(r) = Len(s) - 1
      /\ \A j \in 1..Len(r) : r[j] = IF j < i THEN s[j] ELSE s[j + 1]
  BY <1>1, RemoveAtElements DEF Erase
<1> HIDE DEF r, i
<1>3. \A j \in 1..Len(r) : Old(j) \in 1..Len(s) /\ r[j] = s[Old(j)] /\ Old(j) # i
  BY <1>1, <1>2
<1>4. \A j \in 1..Len(s) : j # i => New(j) \in 1..Len(r) /\ r[New(j)] = s[j]
  BY <1>1, <1>2
<1>5. \A j, k \in 1..Len(r) : (j < k <=> Old(j) < Old(k)) /\ (Old(j) = Old(k) => j = k)
  BY <1>1, <1>2
<1>6. \A j, k \in 1..Len(s) : j < k /\ j # i /\ k # i => New(j) < New(k)
  BY <1>1
<1>7. \A j \in 1..Len(s) : j # i => s[j] # x
  BY <1>1 DEF NoRepeat
<1>8. NoRepeat(r)
  BY <1>3, <1>5 DEF NoRepeat
<1> HIDE DEF Old, New
<1>9. Nodes(r) = Nodes(s) \ {x}
  <2>1. ASSUME NEW y \in Nodes(r)
        PROVE  y \in Nodes(s) \ {x}
    BY <1>3, <1>7, <2>1 DEF Nodes
  <2>2. ASSUME NEW y \in Nodes(s), y # x
        PROVE  y \in Nodes(r)
    BY <1>1, <1>4, <2>2 DEF Nodes
  <2> QED
    BY <2>1, <2>2
<1>10. ASSUME NEW y, NEW z
       PROVE  Before(r, y, z) <=> Before(s, y, z) /\ y # x /\ z # x
  <2>1. ASSUME Before(r, y, z)
        PROVE  Before(s, y, z) /\ y # x /\ z # x
    BY <1>3, <1>5, <1>7, <2>1 DEF Before
  <2>2. ASSUME Before(s, y, z), y # x, z # x
        PROVE  Before(r, y, z)
    BY <1>1, <1>4, <1>6, <2>2 DEF Before
  <2> QED
    BY <2>1, <2>2
<1> QED
  BY <1>2, <1>8, <1>9, <1>10 DEF r

\* insert(l, x) links x directly in front of l.
LEMMA InsertOrder ==
  ASSUME NEW S, NEW s \in Seq(S), NoRepeat(s), NEW l \in Nodes(s),
         NEW x \in S, x \notin Nodes(s)
  PROVE  /\ InsertBefore(s, l, x) \in Seq(S)
         /\ NoRepeat(InsertBefore(s, l, x))
         /\ Nodes(InsertBefore(s, l, x)) = Nodes(s) \cup {x}
         /\ \A y, z : Before(InsertBefore(s, l, x), y, z)
                        <=> \/ Before(s, y, z)
                            \/ y = x /\ (z = l \/ Before(s, l, z))
                            \/ z = x /\ Before(s, y, l)
<1> DEFINE r == InsertBefore(s, l, x)
           i == Pos(s, l)
           New(j) == IF j < i THEN j ELSE j + 1
           Old(j) == IF j < i THEN j ELSE j - 1
<1>1. i \in 1..Len(s) /\ s[i] = l
  BY PosElement
<1>2. r \in Seq(S) /\ Len(r) = Len(s) + 1
      /\ \A j \in 1..Len(r) :
           r[j] = IF j < i THEN s[j] ELSE IF j = i THEN x ELSE s[j - 1]
  <2>1. r = InsertAt(s, i, x)
    BY DEF InsertBefore
  <2> HIDE DEF r, i
  <2>2. i \in 1..Len(s)
    BY <1>1
  <2>3. /\ r \in Seq(S) /\ Len(r) = Len(s) + 1
        /\ \A j \in 1..(i - 1) : r[j] = s[j]
        /\ r[i] = x
        /\ \A j \in (i + 1)..(Len(s) + 1) : r[j] = s[j - 1]
    BY <2>1, <2>2, InsertAtElements
  <2> QED
    BY <2>2, <2>3
<1> HIDE DEF r, i
<1>3. \A j \in 1..Len(s) : New(j) \in 1..Len(r) /\ r[New(j)] = s[j] /\ New(j) # i
  BY <1>1, <1>2
<1>4. \A j \in 1..Len(r) : j # i => Old(j) \in 1..Len(s) /\ r[j] = s[Old(j)]
  BY <1>1, <1>2
<1>5. \A j, k \in 1..Len(s) : j < k => New(j) < New(k)
  BY <1>1
<1>6. \A j, k \in 1..Len(r) : j # i /\ k # i =>
        (j < k <=> Old(j) < Old(k)) /\ (Old(j) = Old(k) => j = k)
  BY <1>1, <1>2
<1>7. i \in 1..Len(r) /\ r[i] = x
  BY <1>1, <1>2
<1>8. \A j \in 1..Len(s) : (j < i <=> New(j) < i) /\ s[j] # x
  BY <1>1 DEF Nodes
<1>9. \A j \in 1..Len(r) : j # i =>
        (j < i <=> Old(j) < i) /\ (i < j <=> Old(j) >= i)
  BY <1>1, <1>2
<1> HIDE DEF Old, New
<1>10. NoRepeat(r)
  <2> SUFFICES ASSUME NEW j \in 1..Len(r), NEW k \in 1..Len(r), r[j] = r[k]
               PROVE  j = k
    BY DEF NoRepeat
  <2>1. CASE j = i \/ k = i
    BY <1>4, <1>7, <1>8, <2>1
  <2>2. CASE j # i /\ k # i
    BY <1>4, <1>6, <2>2 DEF NoRepeat
  <2> QED
    BY <2>1, <2>2
<1>11. Nodes(r) = Nodes(s) \cup {x}
  <2>1. ASSUME NEW y \in Nodes(r)
        PROVE  y \in Nodes(s) \cup {x}
    BY <1>4, <1>7, <2>1 DEF Nodes
  <2>2. ASSUME NEW y \in Nodes(s) \cup {x}
        PROVE  y \in Nodes(r)
    BY <1>3, <1>7, <2>2 DEF Nodes
  <2> QED
    BY <2>1, <2>2
<1>12. ASSUME NEW y, NEW z, Before(r, y, z)
       PROVE  \/ Before(s, y, z)
              \/ y = x /\ (z = l \/ Before(s, l, z))
              \/ z = x /\ Before(s, y, l)
  <2>1. PICK j \in 1..Len(r), k \in 1..Len(r) : j < k /\ r[j] = y /\ r[k] = z
    BY <1>12 DEF Before
  <2>2. CASE j = i
    <3>1. k # i /\ Old(k) \in 1..Len(s) /\ s[Old(k)] = z /\ (Old(k) = i \/ i < Old(k))
      BY <1>1, <1>4, <1>9, <2>1, <2>2
    <3> QED
      BY <1>1, <1>7, <2>1, <2>2, <3>1 DEF Before
  <2>3. CASE k = i
    <3>1. j # i /\ Old(j) \in 1..Len(s) /\ s[Old(j)] = y /\ Old(j) < i
      BY <1>4, <1>9, <2>1, <2>3
    <3> QED
      BY <1>1, <1>7, <2>1, <2>3, <3>1 DEF Before
  <2>4. CASE j # i /\ k # i
    BY <1>4, <1>6, <2>1, <2>4 DEF Before
  <2> QED
    BY <2>2, <2>3, <2>4
<1>13. ASSUME NEW y, NEW z, Before(s, y, z)
       PROVE  Before(r, y, z)
  BY <1>3, <1>5, <1>13 DEF Before
<1>14. ASSUME NEW j \in 1..Len(s), i <= j
       PROVE  i < New(j)
  BY <1>1, <1>8, <1>3, <1>14, <1>2 DEF New
<1>15. ASSUME NEW z, z = l \/ Before(s, l, z)
       PROVE  Before(r, x, z)
  <2>1. PICK j \in 1..Len(s) : i <= j /\ s[j] = z
    BY <1>1, <1>15 DEF Before, NoRepeat
  <2> QED
    BY <1>3, <1>7, <1>14, <2>1 DEF Before
<1>16. ASSUME NEW y, Before(s, y, l)
       PROVE  Before(r, y, x)
  <2>1. PICK j \in 1..Len(s) : j < i /\ s[j] = y
    BY <1>1, <1>16 DEF Before, NoRepeat
  <2> QED
    BY <1>3, <1>7, <1>8, <2>1 DEF Before
<1> QED
  BY <1>2, <1>10, <1>11, <1>12, <1>13, <1>15, <1>16 DEF r

\* splice(l, list, x) moves x directly in front of l.
LEMMA SpliceOrder ==
  ASSUME NEW S, NEW s \in Seq(S), NoRepeat(s), NEW l \in Nodes(s),
         NEW x \in Nodes(s), x # l
  PROVE  /\ Splice(s, l, x) \in Seq(S)
         /\ NoRepeat(Splice(s, l, x))
         /\ Nodes(Splice(s, l, x)) = Nodes(s)
         /\ \A y, z : Before(Splice(s, l, x), y, z)
                        <=> \/ Before(s, y, z) /\ y # x /\ z # x
                            \/ y = x /\ z # x /\ (z = l \/ Before(s, l, z))
                            \/ z = x /\ y # x /\ Before(s, y, l)
<1> DEFINE e == Erase(s, x)
<1>1. /\ e \in Seq(S) /\ NoRepeat(e) /\ Nodes(e) = Nodes(s) \ {x}
      /\ \A y, z : Before(e, y, z) <=> Before(s, y, z) /\ y # x /\ z # x
  BY EraseOrder
<1>2. x \in S
  BY DEF Nodes
<1> HIDE DEF e
<1>3. /\ InsertBefore(e, l, x) \in Seq(S) /\ NoRepeat(InsertBefore(e, l, x))
      /\ Nodes(InsertBefore(e, l, x)) = Nodes(e) \cup {x}
      /\ \A y, z : Before(InsertBefore(e, l, x), y, z)
                     <=> \/ Before(e, y, z)
                         \/ y = x /\ (z = l \/ Before(e, l, z))
                         \/ z = x /\ Before(e, y, l)
  BY <1>1, <1>2, InsertOrder
<1>4. Splice(s, l, x) = InsertBefore(e, l, x)
  BY DEF Splice, e
<1> DEFINE r == InsertBefore(e, l, x)
<1>5. r \in Seq(S) /\ NoRepeat(r) /\ Nodes(r) = Nodes(s)
  BY <1>1, <1>3
<1>6. ASSUME NEW y, NEW z
      PROVE  Before(r, y, z) <=> \/ Before(s, y, z) /\ y # x /\ z # x
                                 \/ y = x /\ z # x /\ (z = l \/ Before(s, l, z))
                                 \/ z = x /\ y # x /\ Before(s, y, l)
  <2> HIDE DEF r
  <2>1. Before(r, y, z) <=> \/ Before(e, y, z)
                            \/ y = x /\ (z = l \/ Before(e, l, z))
                            \/ z = x /\ Before(e, y, l)
    BY <1>3 DEF r
  <2>2. /\ Before(e, y, z) <=> Before(s, y, z) /\ y # x /\ z # x
        /\ Before(e, l, z) <=> Before(s, l, z) /\ l # x /\ z # x
        /\ Before(e, y, l) <=> Before(s, y, l) /\ y # x /\ l # x
    BY <1>1
  <2> QED
    BY <2>1, <2>2
<1> HIDE DEF r
<1>7. Splice(s, l, x) = r
  BY <1>4 DEF r
<1> QED
  BY <1>5, <1>6, <1>7

-----------------------------------------------------------------------------
(***************************************************************************)
(* The list of the runner.                                                 *)
(***************************************************************************)

USE FIFORunnerAssumption

\* What the list offers in every state of the invariant: Before is a strict
\* total order on its nodes with the root last, and the three priority ends
\* (priorityEnd()) are linked in order.
LEMMA ListOrder ==
  ASSUME TypeOK, ListWellFormed
  PROVE  /\ tasks \in Seq(Node) /\ NoRepeat(tasks)
         /\ \A x, y : Before(tasks, x, y) => x \in Nodes(tasks) /\ y \in Nodes(tasks) /\ x # y
         /\ \A x, y, z : Before(tasks, x, y) /\ Before(tasks, y, z) => Before(tasks, x, z)
         /\ \A x, y : ~(Before(tasks, x, y) /\ Before(tasks, y, x))
         /\ \A x, y \in Nodes(tasks) : x = y \/ Before(tasks, x, y) \/ Before(tasks, y, x)
         /\ \A x \in Nodes(tasks) : x = End \/ Before(tasks, x, End)
         /\ \A p \in Segment : PriorityEnd(p) \in Nodes(tasks)
         /\ \A x \in Nodes(tasks) : x \in Node
<1>1. tasks \in Seq(Node) /\ NoRepeat(tasks)
  BY DEF TypeOK, ListWellFormed
<1>2. /\ \A x, y : Before(tasks, x, y) => x \in Nodes(tasks) /\ y \in Nodes(tasks) /\ x # y
      /\ \A x, y, z : Before(tasks, x, y) /\ Before(tasks, y, z) => Before(tasks, x, z)
      /\ \A x, y : ~(Before(tasks, x, y) /\ Before(tasks, y, x))
      /\ \A x, y \in Nodes(tasks) : x = y \/ Before(tasks, x, y) \/ Before(tasks, y, x)
  BY <1>1, BeforeOrder
<1>3. End \in Nodes(tasks) /\ \A x \in Nodes(tasks) : x = End \/ Before(tasks, x, End)
  BY <1>1, LastNode DEF ListWellFormed
<1>4. \A p \in Segment : PriorityEnd(p) \in Nodes(tasks)
  BY <1>2, <1>3 DEF ListWellFormed, PriorityEnd, Segment
<1>5. \A x \in Nodes(tasks) : x \in Node
  BY <1>1 DEF Nodes
<1> QED
  BY <1>1, <1>2, <1>3, <1>4, <1>5

\* The iterator f of run(): the least node of the segment.
LEMMA SegmentBeginNode ==
  ASSUME TypeOK, ListWellFormed, ~InPass
  PROVE  /\ SegmentBegin(seg) \in Nodes(tasks)
         /\ seg # "HIGH" => Before(tasks, HighPriorityEnd, SegmentBegin(seg))
         /\ seg = "LOW" => Before(tasks, NormalPriorityEnd, SegmentBegin(seg))
         /\ SegmentBegin(seg) = PriorityEnd(seg) \/ Before(tasks, SegmentBegin(seg), PriorityEnd(seg))
         /\ \A x : (/\ x \in Nodes(tasks)
                    /\ seg # "HIGH" => Before(tasks, HighPriorityEnd, x)
                    /\ seg = "LOW" => Before(tasks, NormalPriorityEnd, x))
                   => x = SegmentBegin(seg) \/ Before(tasks, SegmentBegin(seg), x)
<1>1. CASE seg = "HIGH"
  <2>1. tasks # << >> /\ tasks \in Seq(Node)
    BY DEF ListWellFormed, TypeOK
  <2>2. SegmentBegin(seg) = tasks[1] /\ 1 \in 1..Len(tasks)
    BY <1>1, <2>1 DEF SegmentBegin
  <2>3. \A x \in Nodes(tasks) : x = tasks[1] \/ Before(tasks, tasks[1], x)
    BY <2>1, <2>2 DEF Nodes, Before
  <2>4. tasks[1] \in Nodes(tasks)
    BY <2>2 DEF Nodes
  <2> QED
    BY <1>1, <2>2, <2>3, <2>4, ListOrder DEF Segment
<1>2. CASE seg = "NORMAL"
  <2>1. Before(tasks, HighPriorityEnd, NormalPriorityEnd)
    BY DEF ListWellFormed
  <2>2. SegmentBegin(seg) = Succ(tasks, HighPriorityEnd)
    BY <1>2 DEF SegmentBegin
  <2>3. /\ Before(tasks, HighPriorityEnd, SegmentBegin(seg))
        /\ \A z : Before(tasks, HighPriorityEnd, z) =>
             z = SegmentBegin(seg) \/ Before(tasks, SegmentBegin(seg), z)
    BY <2>1, <2>2, ListOrder, SuccNode
  <2>4. SegmentBegin(seg) \in Nodes(tasks) /\ PriorityEnd(seg) = NormalPriorityEnd
    BY <1>2, <2>3, ListOrder DEF PriorityEnd
  <2> QED
    BY <1>2, <2>1, <2>3, <2>4
<1>3. CASE seg = "LOW"
  <2>1. Before(tasks, HighPriorityEnd, NormalPriorityEnd) /\ NormalPriorityEnd # End
    BY DEF ListWellFormed, NormalPriorityEnd, End
  <2>2. Before(tasks, NormalPriorityEnd, End)
    BY <2>1, ListOrder
  <2>3. SegmentBegin(seg) = Succ(tasks, NormalPriorityEnd)
    BY <1>3 DEF SegmentBegin
  <2>4. /\ Before(tasks, NormalPriorityEnd, SegmentBegin(seg))
        /\ \A z : Before(tasks, NormalPriorityEnd, z) =>
             z = SegmentBegin(seg) \/ Before(tasks, SegmentBegin(seg), z)
    BY <2>2, <2>3, ListOrder, SuccNode
  <2>5. SegmentBegin(seg) \in Nodes(tasks) /\ PriorityEnd(seg) = End
    BY <1>3, <2>4, ListOrder DEF PriorityEnd
  <2>6. Before(tasks, HighPriorityEnd, SegmentBegin(seg))
    BY <2>1, <2>4, ListOrder
  <2> QED
    BY <1>3, <2>2, <2>4, <2>5, <2>6
<1> QED
  BY <1>1, <1>2, <1>3 DEF TypeOK, Segment

-----------------------------------------------------------------------------
(***************************************************************************)
(* IndInv is inductive: one lemma per action.                              *)
(***************************************************************************)

\* The constructor establishes the invariant.
LEMMA InitInv == Init => IndInv
<1> SUFFICES ASSUME Init PROVE IndInv
  OBVIOUS
<1>1. tasks = <<HighPriorityEnd, NormalPriorityEnd, End>>
  BY DEF Init
<1>2. tasks \in Seq(Node) /\ Len(tasks) = 3 /\ tasks[1] = HighPriorityEnd
      /\ tasks[2] = NormalPriorityEnd /\ tasks[3] = End
  BY <1>1 DEF Node, Sentinel
<1>3. NoRepeat(tasks)
  BY <1>2 DEF NoRepeat, HighPriorityEnd, NormalPriorityEnd, End
<1>4. Nodes(tasks) = {HighPriorityEnd, NormalPriorityEnd, End}
  BY <1>2 DEF Nodes
<1>5. Before(tasks, HighPriorityEnd, NormalPriorityEnd)
  BY <1>2 DEF Before
<1>6. Linked = {} /\ QueueEnd \notin Nodes(tasks)
  BY <1>4 DEF Linked, Sentinel, QueueEnd, HighPriorityEnd, NormalPriorityEnd, End
<1>7. TypeOK
  BY <1>2 DEF Init, TypeOK, Node, Sentinel, Segment
<1>8. ListWellFormed
  BY <1>2, <1>3, <1>5, <1>6 DEF Init, ListWellFormed, InPass
<1> QED
  BY <1>6, <1>7, <1>8 DEF Init, IndInv, SegmentsSorted, NextInRange, NoneForgotten,
     RunningTaskLinked, HistoryAgrees, InPass

\* enqueue() links the task at the end of its segment, behind queueEnd_ if that
\* segment is being processed.
LEMMA EnqueueInv ==
  ASSUME IndInv, NEW t \in Task, Enqueue(t)
  PROVE  IndInv'
<1> DEFINE l == PriorityEnd(Priority[t])
<1>1. TypeOK /\ ListWellFormed
  BY DEF IndInv
<1>2. Priority[t] \in Segment /\ l \in Nodes(tasks)
  BY <1>1, ListOrder
<1>3. t \notin Nodes(tasks) /\ t \in Node /\ t \notin Sentinel
  BY DEF Enqueue, Linked, Node
<1>4. tasks' = InsertBefore(tasks, l, t)
  BY DEF Enqueue
<1> HIDE DEF l
<1>5. /\ tasks' \in Seq(Node) /\ NoRepeat(tasks')
      /\ Nodes(tasks') = Nodes(tasks) \cup {t}
      /\ \A y, z : Before(tasks', y, z)
                     <=> \/ Before(tasks, y, z)
                         \/ y = t /\ (z = l \/ Before(tasks, l, z))
                         \/ z = t /\ Before(tasks, y, l)
  BY <1>1, <1>2, <1>3, <1>4, ListOrder, InsertOrder
<1>6. Linked' = Linked \cup {t}
  BY <1>3, <1>5 DEF Linked
<1>7. TypeOK'
  BY <1>1, <1>5 DEF TypeOK, Enqueue, watchdogVars
<1>8. ListWellFormed'
  <2>1. \A x \in Nodes(tasks') : x = End \/ Before(tasks', x, End)
    BY <1>1, <1>2, <1>5, ListOrder DEF l
  <2>2. End \in Nodes(tasks')
    BY <1>1, <1>5, ListOrder DEF PriorityEnd, Segment
  <2>3. tasks' # << >> /\ tasks'[Len(tasks')] = End
    BY <1>5, <2>1, <2>2, LastNode
  <2> QED
    BY <1>1, <1>3, <1>5, <2>3 DEF ListWellFormed, Enqueue, InPass, PriorityEnd, Sentinel
<1>9. SegmentsSorted'
  <2>1. Before(tasks', t, l)
    BY <1>5
  <2>2. Priority[t] # "HIGH" => Before(tasks, HighPriorityEnd, l)
    BY <1>1, <1>2, ListOrder DEF l, PriorityEnd, Segment, ListWellFormed, HighPriorityEnd, End
  <2>3. Priority[t] = "LOW" => Before(tasks, NormalPriorityEnd, l)
    BY <1>1, <1>2, ListOrder DEF l, PriorityEnd, ListWellFormed, NormalPriorityEnd, End
  <2> QED
    BY <1>5, <1>6, <2>1, <2>2, <2>3 DEF IndInv, SegmentsSorted, l, PriorityEnd
<1>10. NextInRange'
  BY <1>5 DEF IndInv, NextInRange, Enqueue, InPass
<1>11. NoneForgotten'
  BY <1>1, <1>5, <1>6 DEF IndInv, NoneForgotten, Enqueue, InPass, TypeOK
<1>12. RunningTaskLinked'
  BY <1>6 DEF IndInv, RunningTaskLinked, Enqueue
<1>13. HistoryAgrees'
  <2>1. InPass /\ Priority[t] = seg => Before(tasks, QueueEnd, l)
    BY <1>1 DEF ListWellFormed, l
  <2> QED
    BY <1>5, <1>6, <2>1 DEF IndInv, HistoryAgrees, Enqueue, InPass
<1> QED
  BY <1>7, <1>8, <1>9, <1>10, <1>11, <1>12, <1>13 DEF IndInv

\* A linked task is followed by another node: the root is last.  So ++next_ in
\* dequeue() and in the loop leads to a linked node.
LEMMA TaskHasSuccessor ==
  ASSUME TypeOK, ListWellFormed, NEW t \in Nodes(tasks), t # End
  PROVE  /\ Before(tasks, t, Succ(tasks, t))
         /\ \A z : Before(tasks, t, z) => z = Succ(tasks, t) \/ Before(tasks, Succ(tasks, t), z)
<1>1. Before(tasks, t, End)
  BY ListOrder
<1> QED
  BY <1>1, ListOrder, SuccNode

\* dequeue() unlinks any task, the one next_ points to included.
LEMMA DequeueInv ==
  ASSUME IndInv, NEW t \in Task, Dequeue(t)
  PROVE  IndInv'
<1>1. TypeOK /\ ListWellFormed
  BY DEF IndInv
<1>2. t \in Nodes(tasks) /\ t \notin Sentinel
  BY DEF Dequeue, Linked
<1>3. /\ tasks' \in Seq(Node) /\ NoRepeat(tasks')
      /\ Nodes(tasks') = Nodes(tasks) \ {t}
      /\ \A y, z : Before(tasks', y, z) <=> Before(tasks, y, z) /\ y # t /\ z # t
  BY <1>1, <1>2, ListOrder, EraseOrder DEF Dequeue
<1>4. Linked' = Linked \ {t}
  BY <1>3 DEF Linked
<1>5. /\ Before(tasks, t, Succ(tasks, t))
      /\ \A z : Before(tasks, t, z) => z = Succ(tasks, t) \/ Before(tasks, Succ(tasks, t), z)
  BY <1>1, <1>2, TaskHasSuccessor DEF Sentinel
<1>6. Succ(tasks, t) \in Node /\ Succ(tasks, t) # t
  BY <1>1, <1>5, ListOrder
<1>7. TypeOK'
  BY <1>1, <1>3, <1>6 DEF TypeOK, Dequeue, watchdogVars
<1>8. ListWellFormed'
  <2>1. \A x \in Nodes(tasks') : x = End \/ Before(tasks', x, End)
    BY <1>1, <1>2, <1>3, ListOrder DEF Sentinel
  <2>2. End \in Nodes(tasks')
    BY <1>1, <1>2, <1>3, ListOrder DEF PriorityEnd, Segment, Sentinel
  <2>3. tasks' # << >> /\ tasks'[Len(tasks')] = End
    BY <1>3, <2>1, <2>2, LastNode
  <2>4. \A p : PriorityEnd(p) # t
    BY <1>2 DEF PriorityEnd, Sentinel
  <2> QED
    BY <1>1, <1>2, <1>3, <2>3, <2>4 DEF ListWellFormed, Dequeue, InPass, PriorityEnd, Sentinel
<1>9. SegmentsSorted'
  BY <1>2, <1>3, <1>4 DEF IndInv, SegmentsSorted, PriorityEnd, Sentinel
<1>10. NextInRange'
  <2>1. InPass => Before(tasks, t, QueueEnd) \/ t # next
    BY <1>2 DEF IndInv, NextInRange, Sentinel
  <2> QED
    BY <1>1, <1>2, <1>3, <1>5, <1>6, <2>1, ListOrder
       DEF IndInv, NextInRange, Dequeue, InPass, Sentinel
<1>11. NoneForgotten'
  BY <1>1, <1>2, <1>3, <1>4, <1>5, <1>6, ListOrder
     DEF IndInv, NoneForgotten, Dequeue, InPass, Sentinel
<1>12. RunningTaskLinked'
  BY <1>4 DEF IndInv, RunningTaskLinked, Dequeue
<1>13. HistoryAgrees'
  BY <1>2, <1>3, <1>4 DEF IndInv, HistoryAgrees, Dequeue, InPass, Sentinel
<1> QED
  BY <1>7, <1>8, <1>9, <1>10, <1>11, <1>12, <1>13 DEF IndInv

\* run(f, l) inserts queueEnd_ and starts at f.
LEMMA BeginSegmentInv ==
  ASSUME IndInv, BeginSegment
  PROVE  IndInv'
<1> DEFINE l == PriorityEnd(seg)
           f == SegmentBegin(seg)
<1>1. TypeOK /\ ListWellFormed /\ ~InPass /\ seg \in Segment
  BY DEF IndInv, BeginSegment, InPass, TypeOK
<1>2. QueueEnd \notin Nodes(tasks) /\ QueueEnd \in Node /\ l \in Nodes(tasks)
  BY <1>1, ListOrder DEF ListWellFormed, Node, Sentinel
<1>3. tasks' = InsertBefore(tasks, l, QueueEnd) /\ next' = f /\ f # l
  BY DEF BeginSegment
<1>4. /\ f \in Nodes(tasks)
      /\ seg # "HIGH" => Before(tasks, HighPriorityEnd, f)
      /\ seg = "LOW" => Before(tasks, NormalPriorityEnd, f)
      /\ f = l \/ Before(tasks, f, l)
      /\ \A x : (/\ x \in Nodes(tasks)
                 /\ seg # "HIGH" => Before(tasks, HighPriorityEnd, x)
                 /\ seg = "LOW" => Before(tasks, NormalPriorityEnd, x))
                => x = f \/ Before(tasks, f, x)
  BY <1>1, SegmentBeginNode
<1> HIDE DEF l, f
<1>5. /\ tasks' \in Seq(Node) /\ NoRepeat(tasks')
      /\ Nodes(tasks') = Nodes(tasks) \cup {QueueEnd}
      /\ \A y, z : Before(tasks', y, z)
                     <=> \/ Before(tasks, y, z)
                         \/ y = QueueEnd /\ (z = l \/ Before(tasks, l, z))
                         \/ z = QueueEnd /\ Before(tasks, y, l)
  BY <1>1, <1>2, <1>3, ListOrder, InsertOrder
<1>6. Linked' = Linked
  BY <1>5 DEF Linked, Sentinel
<1>7. TypeOK'
  BY <1>1, <1>3, <1>4, <1>5, ListOrder DEF TypeOK, BeginSegment, watchdogVars
<1>8. ListWellFormed'
  <2>1. \A x \in Nodes(tasks') : x = End \/ Before(tasks', x, End)
    BY <1>1, <1>2, <1>5, ListOrder
  <2>2. End \in Nodes(tasks')
    BY <1>1, <1>5, ListOrder DEF PriorityEnd, Segment
  <2>3. tasks' # << >> /\ tasks'[Len(tasks')] = End
    BY <1>5, <2>1, <2>2, LastNode
  <2> QED
    BY <1>1, <1>5, <2>3 DEF ListWellFormed, BeginSegment, InPass, l, PriorityEnd
<1>9. SegmentsSorted'
  BY <1>5, <1>6 DEF IndInv, SegmentsSorted, PriorityEnd
<1>10. NextInRange'
  BY <1>3, <1>4, <1>5 DEF NextInRange, BeginSegment
<1>11. NoneForgotten'
  <2>1. ASSUME NEW t \in due, Priority[t] = seg
        PROVE  (t = f \/ Before(tasks, f, t)) /\ Before(tasks, t, l)
    <3>1. t \in Linked /\ t \in Nodes(tasks)
      BY DEF IndInv, NoneForgotten, Linked
    <3>2. /\ Before(tasks, t, l)
          /\ seg # "HIGH" => Before(tasks, HighPriorityEnd, t)
          /\ seg = "LOW" => Before(tasks, NormalPriorityEnd, t)
      BY <2>1, <3>1 DEF IndInv, SegmentsSorted, l
    <3> QED
      BY <1>4, <3>1, <3>2
  <2> QED
    BY <1>3, <1>5, <1>6, <2>1 DEF IndInv, NoneForgotten, BeginSegment, InPass
<1>12. RunningTaskLinked'
  BY <1>6 DEF IndInv, RunningTaskLinked, BeginSegment
<1>13. HistoryAgrees'
  BY DEF IndInv, HistoryAgrees, BeginSegment
<1> QED
  BY <1>7, <1>8, <1>9, <1>10, <1>11, <1>12, <1>13 DEF IndInv

\* While next_ has not reached the marker it points to a task of the segment that
\* is processed, and a node between it and the marker follows.
LEMMA NextIsTask ==
  ASSUME IndInv, pc = "loop", next # QueueEnd
  PROVE  /\ next \in Task /\ next \in Nodes(tasks) /\ next \notin Sentinel
         /\ Priority[next] = seg
         /\ Before(tasks, next, QueueEnd) /\ Before(tasks, QueueEnd, PriorityEnd(seg))
         /\ Before(tasks, next, Succ(tasks, next))
         /\ \A z : Before(tasks, next, z) =>
              z = Succ(tasks, next) \/ Before(tasks, Succ(tasks, next), z)
<1>1. TypeOK /\ ListWellFormed /\ InPass /\ seg \in Segment
  BY DEF IndInv, InPass, TypeOK
<1>2. Before(tasks, next, QueueEnd) /\ Before(tasks, QueueEnd, PriorityEnd(seg))
  BY <1>1 DEF IndInv, NextInRange, ListWellFormed
<1>3. Before(tasks, next, PriorityEnd(seg)) /\ next \in Nodes(tasks) /\ next \in Node
  BY <1>1, <1>2, ListOrder
<1>4. /\ seg # "HIGH" => Before(tasks, HighPriorityEnd, next)
      /\ seg = "LOW" => Before(tasks, NormalPriorityEnd, next)
  BY <1>1 DEF IndInv, NextInRange
<1>5. Before(tasks, HighPriorityEnd, NormalPriorityEnd) /\ Before(tasks, NormalPriorityEnd, End)
  BY <1>1, ListOrder DEF ListWellFormed, NormalPriorityEnd, End
<1>6. next # End
  BY <1>1, <1>3, ListOrder
<1>7. next # HighPriorityEnd /\ next # NormalPriorityEnd
  <2>1. CASE seg = "HIGH"
    BY <1>1, <1>3, <1>5, <2>1, ListOrder DEF PriorityEnd
  <2>2. CASE seg = "NORMAL"
    BY <1>1, <1>3, <1>4, <2>2, ListOrder DEF PriorityEnd
  <2>3. CASE seg = "LOW"
    BY <1>1, <1>3, <1>4, <2>3, ListOrder DEF PriorityEnd
  <2> QED
    BY <1>1, <2>1, <2>2, <2>3 DEF Segment
<1>8. next \in Task /\ next \notin Sentinel
  BY <1>3, <1>6, <1>7 DEF Node, Sentinel
<1>9. Priority[next] = seg
  <2>1. /\ Before(tasks, next, PriorityEnd(Priority[next]))
        /\ Priority[next] # "HIGH" => Before(tasks, HighPriorityEnd, next)
        /\ Priority[next] = "LOW" => Before(tasks, NormalPriorityEnd, next)
    BY <1>3, <1>8 DEF IndInv, SegmentsSorted, Linked
  <2>2. Priority[next] \in Segment
    BY <1>8
  <2>3. \A x, y : ~(Before(tasks, x, y) /\ Before(tasks, y, x))
    BY <1>1, ListOrder
  <2> QED
    BY <1>1, <1>3, <1>4, <1>5, <2>1, <2>2, <2>3 DEF PriorityEnd, Segment
<1> QED
  BY <1>1, <1>2, <1>3, <1>6, <1>8, <1>9, TaskHasSuccessor

\* The loop body calls a task after moving it behind the marker.
LEMMA DispatchInv ==
  ASSUME IndInv, Dispatch
  PROVE  IndInv' /\ next \notin ran /\ next \in Linked /\ Linked' = Linked
<1> DEFINE l == PriorityEnd(seg)
<1>1. TypeOK /\ ListWellFormed /\ InPass /\ seg \in Segment
  BY DEF IndInv, Dispatch, InPass, TypeOK
<1>2. /\ next \in Task /\ next \in Nodes(tasks) /\ next \notin Sentinel
      /\ Priority[next] = seg
      /\ Before(tasks, next, QueueEnd) /\ Before(tasks, QueueEnd, l)
      /\ Before(tasks, next, Succ(tasks, next))
      /\ \A z : Before(tasks, next, z) =>
           z = Succ(tasks, next) \/ Before(tasks, Succ(tasks, next), z)
  BY NextIsTask DEF Dispatch
<1>3. l \in Nodes(tasks) /\ l # next /\ tasks' = Splice(tasks, l, next)
  BY <1>1, <1>2, ListOrder DEF Dispatch
<1> HIDE DEF l
<1>4. /\ tasks' \in Seq(Node) /\ NoRepeat(tasks') /\ Nodes(tasks') = Nodes(tasks)
      /\ \A y, z : Before(tasks', y, z)
                     <=> \/ Before(tasks, y, z) /\ y # next /\ z # next
                         \/ y = next /\ z # next /\ (z = l \/ Before(tasks, l, z))
                         \/ z = next /\ y # next /\ Before(tasks, y, l)
  <2>1. tasks \in Seq(Node) /\ NoRepeat(tasks) /\ l \in Nodes(tasks)
        /\ next \in Nodes(tasks) /\ next # l
    BY <1>1, <1>2, <1>3, ListOrder
  <2> QED
    BY <1>3, <2>1, SpliceOrder
<1>5. Linked' = Linked /\ next \in Linked
  BY <1>2, <1>4 DEF Linked
<1>6. Succ(tasks, next) \in Node /\ Succ(tasks, next) # next
      /\ (Succ(tasks, next) = QueueEnd \/ Before(tasks, Succ(tasks, next), QueueEnd))
  BY <1>1, <1>2, ListOrder
<1>7. TypeOK'
  BY <1>1, <1>2, <1>4, <1>6 DEF TypeOK, Dispatch
<1>8. ListWellFormed'
  <2>1. \A x \in Nodes(tasks') : x = End \/ Before(tasks', x, End)
    BY <1>1, <1>2, <1>3, <1>4, ListOrder DEF Sentinel
  <2>2. End \in Nodes(tasks')
    BY <1>1, <1>4, ListOrder DEF PriorityEnd, Segment
  <2>3. tasks' # << >> /\ tasks'[Len(tasks')] = End
    BY <1>4, <2>1, <2>2, LastNode
  <2>4. Before(tasks', QueueEnd, l)
    BY <1>2, <1>3, <1>4 DEF Sentinel
  <2>5. Before(tasks', HighPriorityEnd, NormalPriorityEnd)
    BY <1>1, <1>2, <1>4 DEF Sentinel, ListWellFormed
  <2>6. InPass' /\ QueueEnd \in Nodes(tasks')
    BY <1>1, <1>4 DEF ListWellFormed, Dispatch, InPass
  <2> QED
    BY <1>4, <2>3, <2>4, <2>5, <2>6 DEF ListWellFormed, Dispatch, l, PriorityEnd
<1>9. SegmentsSorted'
  <2> SUFFICES ASSUME NEW t \in Linked
               PROVE  /\ Before(tasks', t, PriorityEnd(Priority[t]))
                      /\ Priority[t] # "HIGH" => Before(tasks', HighPriorityEnd, t)
                      /\ Priority[t] = "LOW" => Before(tasks', NormalPriorityEnd, t)
    BY <1>5 DEF SegmentsSorted, PriorityEnd
  <2>1. /\ Before(tasks, t, PriorityEnd(Priority[t]))
        /\ Priority[t] # "HIGH" => Before(tasks, HighPriorityEnd, t)
        /\ Priority[t] = "LOW" => Before(tasks, NormalPriorityEnd, t)
    BY DEF IndInv, SegmentsSorted
  <2>2. next # HighPriorityEnd /\ next # NormalPriorityEnd /\ next # PriorityEnd(Priority[t])
    BY <1>2 DEF Sentinel, PriorityEnd
  <2>3. CASE t # next
    BY <1>4, <2>1, <2>2, <2>3
  <2>4. CASE t = next
    <3>1. Before(tasks', next, l) /\ PriorityEnd(Priority[t]) = l
      BY <1>2, <1>3, <1>4, <2>4 DEF l
    <3>2. Before(tasks, next, l)
      BY <1>1, <1>2, ListOrder
    <3>3. /\ Priority[t] # "HIGH" => Before(tasks, HighPriorityEnd, l)
          /\ Priority[t] = "LOW" => Before(tasks, NormalPriorityEnd, l)
      BY <1>1, <2>1, <2>4, <3>2, ListOrder
    <3> QED
      BY <1>4, <2>2, <2>4, <3>1, <3>3
  <2> QED
    BY <2>3, <2>4
<1>10. NextInRange'
  <2>1. next' = Succ(tasks, next) /\ seg' = seg
    BY DEF Dispatch
  <2>2. /\ seg # "HIGH" => Before(tasks, HighPriorityEnd, Succ(tasks, next))
        /\ seg = "LOW" => Before(tasks, NormalPriorityEnd, Succ(tasks, next))
    BY <1>1, <1>2, ListOrder DEF IndInv, NextInRange
  <2> QED
    BY <1>2, <1>4, <1>6, <2>1, <2>2 DEF NextInRange, Sentinel
<1>11. NoneForgotten'
  <2> SUFFICES ASSUME NEW t \in due, t # next
               PROVE  /\ t \in Linked' /\ runnable'[t]
                      /\ seg # "HIGH" => Priority[t] # "HIGH"
                      /\ seg = "LOW" => Priority[t] # "NORMAL"
                      /\ Priority[t] = seg =>
                           /\ t = next' \/ Before(tasks', next', t)
                           /\ Before(tasks', t, QueueEnd)
    BY DEF NoneForgotten, Dispatch, InPass
  <2>1. /\ t \in Linked /\ runnable[t] /\ t \in Task
        /\ seg # "HIGH" => Priority[t] # "HIGH"
        /\ seg = "LOW" => Priority[t] # "NORMAL"
        /\ Priority[t] = seg => Before(tasks, next, t) /\ Before(tasks, t, QueueEnd)
    BY <1>1 DEF IndInv, NoneForgotten, TypeOK
  <2>2. runnable'[t]
    BY <1>1, <2>1 DEF Dispatch, TypeOK
  <2>3. next' = Succ(tasks, next) /\ next # QueueEnd
    BY DEF Dispatch
  <2> QED
    BY <1>2, <1>4, <1>5, <1>6, <2>1, <2>2, <2>3
<1>12. RunningTaskLinked'
  BY <1>5 DEF RunningTaskLinked, Dispatch
<1>13. next \notin ran
  BY <1>1, <1>2, <1>5, ListOrder DEF IndInv, HistoryAgrees
<1>14. HistoryAgrees'
  <2>1. Before(tasks', QueueEnd, next)
    BY <1>2, <1>4 DEF Sentinel
  <2>2. \A t \in ran : Priority[t] = seg /\ (t \in Linked' => Before(tasks', QueueEnd, t))
    BY <1>1, <1>2, <1>4, <1>5, <1>13 DEF IndInv, HistoryAgrees, Sentinel
  <2>3. next # Null
    BY <1>2 DEF Node
  <2> QED
    BY <1>2, <2>1, <2>2, <2>3 DEF HistoryAgrees, Dispatch
<1> QED
  BY <1>5, <1>7, <1>8, <1>9, <1>10, <1>11, <1>12, <1>13, <1>14 DEF IndInv

\* The loop steps over a task that is not runnable.
LEMMA SkipInv ==
  ASSUME IndInv, Skip
  PROVE  IndInv'
<1>1. TypeOK /\ ListWellFormed /\ InPass
  BY DEF IndInv, Skip, InPass
<1>2. /\ next \in Task /\ next \in Nodes(tasks) /\ next \notin Sentinel
      /\ Before(tasks, next, QueueEnd)
      /\ Before(tasks, next, Succ(tasks, next))
      /\ \A z : Before(tasks, next, z) =>
           z = Succ(tasks, next) \/ Before(tasks, Succ(tasks, next), z)
  BY NextIsTask DEF Skip
<1>3. Linked' = Linked /\ next \in Linked
  BY <1>2 DEF Skip, Linked
<1>4. TypeOK'
  BY <1>1, <1>2, ListOrder DEF TypeOK, Skip, watchdogVars
<1>5. ListWellFormed' /\ SegmentsSorted' /\ HistoryAgrees'
  BY <1>3 DEF IndInv, ListWellFormed, SegmentsSorted, HistoryAgrees, Skip, InPass, PriorityEnd
<1>6. NextInRange'
  BY <1>1, <1>2, ListOrder DEF IndInv, NextInRange, Skip, InPass
<1>7. NoneForgotten'
  BY <1>1, <1>2, <1>3 DEF IndInv, NoneForgotten, Skip, InPass
<1>8. RunningTaskLinked'
  BY <1>3 DEF RunningTaskLinked, Skip
<1> QED
  BY <1>4, <1>5, <1>6, <1>7, <1>8 DEF IndInv

\* Unlinking the marker queueEnd_ at the end of run(f, l) keeps the list and the
\* segments in order.
LEMMA EraseMarker ==
  ASSUME IndInv, InPass, tasks' = Erase(tasks, QueueEnd), ~InPass', pc' # "callback"
  PROVE  /\ tasks' \in Seq(Node) /\ Linked' = Linked
         /\ ListWellFormed' /\ SegmentsSorted' /\ NextInRange'
         /\ current' = Null => HistoryAgrees'
<1>1. TypeOK /\ ListWellFormed
  BY DEF IndInv
<1>2. QueueEnd \in Nodes(tasks)
  BY DEF IndInv, ListWellFormed
<1>3. tasks \in Seq(Node) /\ NoRepeat(tasks)
  BY <1>1, ListOrder
<1>4. /\ tasks' \in Seq(Node) /\ NoRepeat(tasks')
      /\ Nodes(tasks') = Nodes(tasks) \ {QueueEnd}
      /\ \A y, z : Before(tasks', y, z)
                     <=> Before(tasks, y, z) /\ y # QueueEnd /\ z # QueueEnd
  BY <1>2, <1>3, EraseOrder
<1>5. Linked' = Linked
  BY <1>4 DEF Linked, Sentinel
<1>6. QueueEnd # End /\ \A p : PriorityEnd(p) # QueueEnd
  BY DEF PriorityEnd, QueueEnd, End, HighPriorityEnd, NormalPriorityEnd
<1>7. ListWellFormed'
  <2>1. \A x \in Nodes(tasks') : x = End \/ Before(tasks', x, End)
    BY <1>1, <1>4, <1>6, ListOrder
  <2>2. End \in Nodes(tasks')
    BY <1>1, <1>4, <1>6, ListOrder DEF PriorityEnd, Segment
  <2>3. tasks' # << >> /\ tasks'[Len(tasks')] = End
    BY <1>4, <2>1, <2>2, LastNode
  <2> QED
    BY <1>1, <1>4, <2>3 DEF ListWellFormed, QueueEnd, HighPriorityEnd, NormalPriorityEnd
<1>8. SegmentsSorted'
  BY <1>4, <1>5, <1>6
     DEF IndInv, SegmentsSorted, Linked, Sentinel, PriorityEnd, QueueEnd, HighPriorityEnd,
         NormalPriorityEnd
<1>9. NextInRange' /\ (current' = Null => HistoryAgrees')
  BY DEF NextInRange, HistoryAgrees
<1> QED
  BY <1>4, <1>5, <1>7, <1>8, <1>9

\* The priority ends are nodes, what next_ is reset to.
LEMMA PriorityEndNode == \A p : PriorityEnd(p) \in Node
BY DEF PriorityEnd, Node, Sentinel

\* The loop reaches the marker.
LEMMA EndSegmentInv ==
  ASSUME IndInv, EndSegment
  PROVE  IndInv' /\ Linked' = Linked
<1>1. /\ tasks' \in Seq(Node) /\ Linked' = Linked
      /\ ListWellFormed' /\ SegmentsSorted' /\ NextInRange'
      /\ current' = Null => HistoryAgrees'
  BY EraseMarker DEF EndSegment, InPass
<1>2. current' = Null
  BY DEF IndInv, HistoryAgrees, EndSegment
<1>3. TypeOK'
  BY <1>1, PriorityEndNode DEF IndInv, TypeOK, EndSegment
<1>4. NoneForgotten'
  <2>1. \A t \in due : Priority[t] # seg
    BY ListOrder DEF IndInv, NoneForgotten, EndSegment, InPass
  <2> QED
    BY <1>1, <2>1 DEF IndInv, NoneForgotten, EndSegment, InPass
<1>5. RunningTaskLinked'
  BY <1>1 DEF IndInv, RunningTaskLinked, EndSegment
<1> QED
  BY <1>1, <1>2, <1>3, <1>4, <1>5 DEF IndInv

\* The callback returns, after a yield with the marker unlinked.
LEMMA CallbackReturnInv ==
  ASSUME IndInv, CallbackReturn
  PROVE  IndInv' /\ Linked' = Linked
<1>1. CASE yield
  <2>1. /\ tasks' \in Seq(Node) /\ Linked' = Linked
        /\ ListWellFormed' /\ SegmentsSorted' /\ NextInRange' /\ HistoryAgrees'
    BY <1>1, EraseMarker DEF CallbackReturn, InPass
  <2>2. TypeOK'
    BY <1>1, <2>1 DEF IndInv, TypeOK, CallbackReturn, watchdogVars
  <2>3. NoneForgotten' /\ RunningTaskLinked'
    BY <1>1, <2>1 DEF IndInv, NoneForgotten, RunningTaskLinked, CallbackReturn, InPass
  <2> QED
    BY <2>1, <2>2, <2>3 DEF IndInv
<1>2. CASE ~yield
  <2>1. Linked' = Linked /\ InPass /\ InPass' /\ UNCHANGED <<tasks, next, seg, ran>>
    BY <1>2 DEF Linked, CallbackReturn, InPass
  <2>2. TypeOK'
    BY <1>2 DEF IndInv, TypeOK, CallbackReturn, watchdogVars
  <2>3. ListWellFormed' /\ SegmentsSorted' /\ NextInRange' /\ HistoryAgrees'
    BY <1>2, <2>1 DEF IndInv, ListWellFormed, SegmentsSorted, NextInRange, HistoryAgrees,
       CallbackReturn, PriorityEnd
  <2>4. NoneForgotten' /\ RunningTaskLinked'
    BY <1>2, <2>1 DEF IndInv, NoneForgotten, RunningTaskLinked, CallbackReturn
  <2> QED
    BY <2>1, <2>2, <2>3, <2>4 DEF IndInv
<1> QED
  BY <1>1, <1>2

\* The callback throws.
LEMMA CallbackThrowInv ==
  ASSUME IndInv, CallbackThrow
  PROVE  IndInv' /\ Linked' = Linked
<1>1. /\ tasks' \in Seq(Node) /\ Linked' = Linked
      /\ ListWellFormed' /\ SegmentsSorted' /\ NextInRange' /\ HistoryAgrees'
  BY EraseMarker DEF CallbackThrow, InPass
<1>2. TypeOK'
  BY <1>1, PriorityEndNode DEF IndInv, TypeOK, CallbackThrow
<1>3. NoneForgotten' /\ RunningTaskLinked'
  BY <1>1 DEF IndInv, NoneForgotten, RunningTaskLinked, CallbackThrow, InPass
<1> QED
  BY <1>1, <1>2, <1>3 DEF IndInv

\* run(f, l) has nothing to do.
LEMMA EmptySegmentInv ==
  ASSUME IndInv, EmptySegment
  PROVE  IndInv'
<1>1. TypeOK /\ ListWellFormed /\ ~InPass /\ ~InPass'
  BY DEF IndInv, EmptySegment, InPass
<1>2. UNCHANGED <<tasks, next, runnable, runningTask, due, seg, current, ran>>
  BY DEF EmptySegment, listVars
<1>3. \A t \in due : Priority[t] # seg
  <2> SUFFICES ASSUME NEW t \in due, Priority[t] = seg
               PROVE  FALSE
    OBVIOUS
  <2>1. t \in Linked /\ t \in Nodes(tasks)
    BY DEF IndInv, NoneForgotten, Linked
  <2>2. /\ Before(tasks, t, PriorityEnd(seg))
        /\ seg # "HIGH" => Before(tasks, HighPriorityEnd, t)
        /\ seg = "LOW" => Before(tasks, NormalPriorityEnd, t)
    BY <2>1 DEF IndInv, SegmentsSorted
  <2>3. t = SegmentBegin(seg) \/ Before(tasks, SegmentBegin(seg), t)
    BY <1>1, <2>1, <2>2, SegmentBeginNode
  <2> QED
    BY <1>1, <2>2, <2>3, ListOrder DEF EmptySegment
<1>4. TypeOK'
  BY DEF IndInv, TypeOK, EmptySegment, listVars, watchdogVars
<1>5. ListWellFormed' /\ SegmentsSorted' /\ NextInRange' /\ RunningTaskLinked'
  BY <1>1, <1>2 DEF IndInv, ListWellFormed, SegmentsSorted, NextInRange, RunningTaskLinked,
     Linked, PriorityEnd
<1>6. NoneForgotten' /\ HistoryAgrees'
  BY <1>1, <1>2, <1>3 DEF IndInv, NoneForgotten, HistoryAgrees, Linked, EmptySegment
<1> QED
  BY <1>4, <1>5, <1>6 DEF IndInv

\* The steps that leave the list alone.
LEMMA OtherInv ==
  ASSUME IndInv,
         \/ \E t \in Task : SetRunnable(t)
         \/ Process \/ Yield \/ Run \/ LeaveSegment \/ Watchdog \/ HangCount \/ UNCHANGED vars
  PROVE  IndInv'
<1>1. CASE \E t \in Task : SetRunnable(t)
  <2>1. PICK t \in Task : SetRunnable(t)
    BY <1>1
  <2>2. TypeOK' /\ Linked' = Linked
    BY <2>1 DEF IndInv, TypeOK, SetRunnable, watchdogVars, Linked
  <2> QED
    BY <2>1, <2>2 DEF IndInv, TypeOK, ListWellFormed, SegmentsSorted, NextInRange, NoneForgotten,
       RunningTaskLinked, HistoryAgrees, SetRunnable, InPass, PriorityEnd
<1>2. CASE Yield \/ Watchdog \/ HangCount \/ UNCHANGED vars
  <2>1. UNCHANGED <<tasks, next, runnable, runningTask, pc, seg, current, due, ran>>
        /\ (pc = "leave" => yield' = yield)
    BY <1>2 DEF Yield, Watchdog, HangCount, vars, listVars, MayCall
  <2>2. TypeOK'
    <3>1. CASE Yield \/ UNCHANGED vars
      BY <3>1 DEF IndInv, TypeOK, Yield, vars, listVars, watchdogVars
    <3>2. CASE Watchdog
      BY <3>2 DEF IndInv, TypeOK, Watchdog, listVars
    <3>3. CASE HangCount
      BY <3>3 DEF IndInv, TypeOK, HangCount, listVars
    <3> QED
      BY <1>2, <3>1, <3>2, <3>3
  <2>3. ListWellFormed' /\ SegmentsSorted' /\ NextInRange' /\ RunningTaskLinked'
    BY <2>1 DEF IndInv, ListWellFormed, SegmentsSorted, NextInRange, RunningTaskLinked,
       Linked, PriorityEnd, InPass
  <2>4. NoneForgotten' /\ HistoryAgrees'
    BY <2>1 DEF IndInv, NoneForgotten, HistoryAgrees, Linked, InPass
  <2> QED
    BY <2>2, <2>3, <2>4 DEF IndInv
<1>3. CASE Run
  <2>1. UNCHANGED <<tasks, next, runnable, runningTask, current>> /\ ~InPass /\ ~InPass'
    BY <1>3 DEF Run, listVars, InPass
  <2>2. TypeOK'
    BY <1>3 DEF IndInv, TypeOK, Run, listVars, watchdogVars, Linked, Nodes, Node, Segment
  <2>3. ListWellFormed' /\ SegmentsSorted' /\ NextInRange' /\ RunningTaskLinked'
    BY <2>1 DEF IndInv, ListWellFormed, SegmentsSorted, NextInRange, RunningTaskLinked,
       Linked, PriorityEnd
  <2>4. NoneForgotten' /\ HistoryAgrees'
    BY <1>3, <2>1 DEF IndInv, NoneForgotten, HistoryAgrees, Linked, Run
  <2> QED
    BY <2>2, <2>3, <2>4 DEF IndInv
<1>4. CASE LeaveSegment
  <2>1. UNCHANGED <<tasks, next, runnable, runningTask, current, due>> /\ ~InPass /\ ~InPass'
    BY <1>4 DEF LeaveSegment, LeaveRun, listVars, InPass
  <2>2. TypeOK'
    BY <1>4 DEF IndInv, TypeOK, LeaveSegment, LeaveRun, listVars, watchdogVars, Segment
  <2>3. ListWellFormed' /\ SegmentsSorted' /\ NextInRange' /\ RunningTaskLinked'
    BY <2>1 DEF IndInv, ListWellFormed, SegmentsSorted, NextInRange, RunningTaskLinked,
       Linked, PriorityEnd
  <2>4. \A t \in due : Priority[t] \in Segment
    BY DEF IndInv, TypeOK
  <2>5. NoneForgotten'
    BY <1>4, <2>1, <2>4 DEF IndInv, NoneForgotten, Linked, LeaveSegment, LeaveRun, Segment
  <2>6. HistoryAgrees'
    BY <1>4, <2>1 DEF IndInv, HistoryAgrees, LeaveSegment, LeaveRun
  <2> QED
    BY <2>2, <2>3, <2>5, <2>6 DEF IndInv
<1>5. CASE Process
  <2>1. UNCHANGED <<tasks, next, runnable, runningTask, seg, current, due, ran>>
        /\ ~InPass /\ ~InPass'
    BY <1>5 DEF Process, listVars, InPass
  <2>2. TypeOK'
    BY <1>5 DEF IndInv, TypeOK, Process, listVars, watchdogVars
  <2>3. ListWellFormed' /\ SegmentsSorted' /\ NextInRange' /\ RunningTaskLinked'
    BY <2>1 DEF IndInv, ListWellFormed, SegmentsSorted, NextInRange, RunningTaskLinked,
       Linked, PriorityEnd
  <2>4. NoneForgotten' /\ HistoryAgrees'
    BY <1>5, <2>1 DEF IndInv, NoneForgotten, HistoryAgrees, Linked, Process
  <2> QED
    BY <2>2, <2>3, <2>4 DEF IndInv
<1> QED
  BY <1>1, <1>2, <1>3, <1>4, <1>5

\* IndInv is inductive.
LEMMA NextInv == IndInv /\ [Next]_vars => IndInv'
<1> SUFFICES ASSUME IndInv, [Next]_vars PROVE IndInv'
  OBVIOUS
<1>1. CASE RunStep
  BY <1>1, EmptySegmentInv, BeginSegmentInv, DispatchInv, SkipInv, EndSegmentInv,
     CallbackReturnInv, OtherInv DEF RunStep
<1>2. CASE CallbackThrow
  BY <1>2, CallbackThrowInv
<1>3. ASSUME NEW t \in Task, Enqueue(t) \/ Dequeue(t) \/ SetRunnable(t)
      PROVE  IndInv'
  BY <1>3, EnqueueInv, DequeueInv, OtherInv
<1>4. CASE Process \/ Yield \/ Watchdog \/ HangCount \/ UNCHANGED vars
  BY <1>4, OtherInv
<1> QED
  BY <1>1, <1>2, <1>3, <1>4 DEF Next

-----------------------------------------------------------------------------
(***************************************************************************)
(* The theorems.                                                           *)
(***************************************************************************)

\* The invariant holds in every reachable state.
THEOREM Invariance == Spec => []IndInv
BY InitInv, NextInv, PTL DEF Spec

\* The task queue keeps its types.
THEOREM TypeCorrect == Spec => []TypeOK
<1>1. IndInv => TypeOK
  BY DEF IndInv
<1> QED
  BY <1>1, Invariance, PTL

\* The list is never corrupted and tasks stay in the segment of their priority,
\* whatever the callbacks enable and disable during run().
THEOREM ListSafe == Spec => [](ListWellFormed /\ SegmentsSorted)
<1>1. IndInv => ListWellFormed /\ SegmentsSorted
  BY DEF IndInv
<1> QED
  BY <1>1, Invariance, PTL

\* The loop of run(f, l) never follows an erased node or passes its marker.
THEOREM IteratorSafe == Spec => []NextInRange
<1>1. IndInv => NextInRange
  BY DEF IndInv
<1> QED
  BY <1>1, Invariance, PTL

\* run() passes over no task that was runnable when it started.
THEOREM NothingForgotten == Spec => []NoneForgotten
<1>1. IndInv => NoneForgotten
  BY DEF IndInv
<1> QED
  BY <1>1, Invariance, PTL

\* The watchdog never reads the name of a removed task.
THEOREM WatchdogSafe == Spec => []RunningTaskLinked
<1>1. IndInv => RunningTaskLinked
  BY DEF IndInv
<1> QED
  BY <1>1, Invariance, PTL

\* run(f, l) calls no task twice.
THEOREM CalledOnce == Spec => OncePerPass
<1>1. ASSUME IndInv, [Next]_vars
      PROVE  [pc = "loop" /\ pc' = "callback" => current' \notin ran]_vars
  <2>1. CASE Dispatch
    BY <1>1, <2>1, DispatchInv DEF Dispatch
  <2>2. ASSUME pc = "loop", pc' = "callback"
        PROVE  Dispatch
    BY <1>1, <2>2 DEF Next, RunStep, Run, EmptySegment, BeginSegment, Skip, EndSegment,
       CallbackReturn, CallbackThrow, LeaveSegment, LeaveRun, Process, Yield, Enqueue, Dequeue, SetRunnable,
       Watchdog, HangCount, MayCall, vars
  <2> QED
    BY <2>1, <2>2
<1> QED
  BY <1>1, Invariance, PTL DEF Spec, OncePerPass

\* Linked after the two operations that change it.
LEMMA LinkedChange ==
  ASSUME IndInv, NEW t \in Task
  PROVE  /\ Enqueue(t) => Linked' = Linked \cup {t}
         /\ Dequeue(t) => Linked' = Linked \ {t}
<1>1. tasks \in Seq(Node) /\ NoRepeat(tasks) /\ t \in Node /\ t \notin Sentinel
      /\ PriorityEnd(Priority[t]) \in Nodes(tasks)
  BY ListOrder DEF IndInv, Node
<1>2. ASSUME Enqueue(t) PROVE Linked' = Linked \cup {t}
  <2>1. Nodes(tasks') = Nodes(tasks) \cup {t}
    BY <1>1, <1>2, InsertOrder DEF Enqueue, Linked
  <2> QED
    BY <1>1, <2>1 DEF Linked
<1>3. ASSUME Dequeue(t) PROVE Linked' = Linked \ {t}
  <2>1. Nodes(tasks') = Nodes(tasks) \ {t}
    BY <1>1, <1>3, EraseOrder DEF Dequeue, Linked
  <2> QED
    BY <2>1 DEF Linked
<1> QED
  BY <1>2, <1>3

\* The marker is not a task: run(f, l) registers nothing by inserting it.
LEMMA MarkerNotLinked ==
  ASSUME IndInv, BeginSegment
  PROVE  Linked' = Linked
<1>1. tasks \in Seq(Node) /\ NoRepeat(tasks) /\ QueueEnd \in Node
      /\ PriorityEnd(seg) \in Nodes(tasks)
  BY ListOrder DEF IndInv, TypeOK, Node, Sentinel
<1>2. QueueEnd \notin Nodes(tasks)
  BY DEF IndInv, ListWellFormed, InPass, BeginSegment
<1>3. Nodes(tasks') = Nodes(tasks) \cup {QueueEnd}
  BY <1>1, <1>2, InsertOrder DEF BeginSegment
<1> QED
  BY <1>3 DEF Linked, Sentinel

\* Every step of the list based runner is a step of the abstract one.
LEMMA StepSimulation ==
  ASSUME IndInv, [Next]_vars
  PROVE  [Runner!Next]_Runner!vars
<1> USE DEF Runner!Next, Runner!vars
<1>0. pc = "callback" <=> current # Null
  BY DEF IndInv, HistoryAgrees
<1>1. ASSUME NEW t \in Task, Enqueue(t)
      PROVE  Runner!Enable(t)
  BY <1>0, <1>1, LinkedChange DEF Runner!Enable, Runner!MayCall, Enqueue, MayCall
<1>2. ASSUME NEW t \in Task, Dequeue(t)
      PROVE  Runner!Disable(t)
  BY <1>0, <1>2, LinkedChange DEF Runner!Disable, Runner!MayCall, Dequeue, MayCall
<1>3. ASSUME NEW t \in Task, SetRunnable(t)
      PROVE  Runner!Signal({t}) /\ {t} \in SUBSET Linked
  BY <1>3 DEF Runner!Signal, SetRunnable, Linked, IndInv, TypeOK
<1>4. CASE Run
  BY <1>4 DEF Runner!Run, Run, Linked, listVars
<1>5. ASSUME Dispatch
      PROVE  next \in Task /\ Runner!Dispatch(next)
  BY <1>0, <1>5, DispatchInv, NextIsTask DEF Runner!Dispatch, Dispatch
<1>6. CASE CallbackReturn
  BY <1>0, <1>6, CallbackReturnInv DEF Runner!Return, CallbackReturn
<1>7. CASE CallbackThrow
  BY <1>0, <1>7, CallbackThrowInv DEF Runner!Throw, CallbackThrow
<1>8. CASE LeaveSegment
  <2>1. UNCHANGED <<Linked, runnable, current, due>> /\ pc = "leave"
    BY <1>8 DEF LeaveSegment, Linked, listVars
  <2>2. CASE pc' \notin {"idle", "poll"}
    BY <2>1, <2>2
  <2>3. CASE pc' \in {"idle", "poll"}
    <3>1. seg = "LOW" /\ ~yield /\ pc = "leave"
      BY <1>8, <2>3 DEF LeaveSegment, LeaveRun
    <3>2. \A t \in due : Priority[t] \in Segment /\ FALSE
      BY <3>1 DEF IndInv, NoneForgotten, TypeOK, Segment
    <3>3. Runner!Finish
      BY <1>0, <2>1, <2>3, <3>1, <3>2 DEF Runner!Finish
    <3> QED
      BY <3>3
  <2> QED
    BY <2>2, <2>3
<1>9. ASSUME EmptySegment \/ BeginSegment \/ Skip \/ EndSegment
      PROVE  UNCHANGED Runner!vars
  <2>1. Linked' = Linked
    BY <1>9, MarkerNotLinked, EndSegmentInv DEF EmptySegment, Skip, Linked, listVars
  <2> QED
    BY <1>9, <2>1 DEF EmptySegment, BeginSegment, Skip, EndSegment, listVars
<1>10. ASSUME Process \/ Yield \/ Watchdog \/ HangCount \/ UNCHANGED vars
       PROVE  UNCHANGED Runner!vars
  BY <1>10 DEF Process, Yield, Watchdog, HangCount, vars, listVars, Linked
<1> QED
  BY <1>1, <1>2, <1>3, <1>4, <1>5, <1>6, <1>7, <1>8, <1>9, <1>10 DEF Next, RunStep

\* FIFORunner implements the abstract task runner: one task at a time, only
\* registered and runnable ones, and no run() ends while it owes a call.
THEOREM Refinement == Spec => ImplementsTaskRunner
<1>1. Init => Runner!Init
  <2> SUFFICES ASSUME Init PROVE Runner!Init
    OBVIOUS
  <2>1. Nodes(tasks) = {HighPriorityEnd, NormalPriorityEnd, End}
    BY DEF Init, Nodes
  <2>2. Linked = {}
    BY <2>1 DEF Linked, Sentinel
  <2> QED
    BY <2>2 DEF Init, Runner!Init
<1>2. IndInv /\ [Next]_vars => [Runner!Next]_Runner!vars
  BY StepSimulation
<1> QED
  BY <1>1, <1>2, Invariance, PTL DEF Spec, ImplementsTaskRunner, Runner!Spec

=============================================================================
