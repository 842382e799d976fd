--------------------------- MODULE LinkedListProofs ---------------------------
(***************************************************************************)
(* Proofs about LinkedList and Letters.  What the library computes it      *)
(* computes by walking; the pointers that a walk meets are described by a  *)
(* sequence of nodes, and every operation by what it does to that.         *)
(***************************************************************************)
EXTENDS Letters, FiniteSetTheorems, WellFoundedInduction, TLAPS

\* The node at place i of s, and NULL off its ends.
Nth(s, i) == IF i \in 1 .. Len(s) THEN s[i] ELSE NULL

Distinct(s) == \A i, j \in 1 .. Len(s) : s[i] = s[j] => i = j

\* The pointers link leads from each node of s to the next, and off its end.
Leads(link, s) == \A i \in 1 .. Len(s) : link[s[i]] = Nth(s, i + 1)

\* The pointers link lead back, from place j of s on.
LeadsBack(link, s, j) == \A i \in j .. Len(s) : link[s[i]] = Nth(s, i - 1)

\* s is the sequence of the nodes of the list from p_head on.  While p_head
\* walks, its node may still point back to one that is gone.
IsList(s) == /\ s \in Seq(Node)
             /\ Distinct(s)
             /\ \A i \in 1 .. Len(s) : s[i] \in allocated
             /\ p_head = Nth(s, 1)
             /\ Leads(next, s)
             /\ LeadsBack(prev, s, IF walking THEN 2 ELSE 1)

PointersOK == /\ prev \in [Node -> Pointer]
              /\ next \in [Node -> Pointer]
              /\ allocated \subseteq Node
              /\ walking \in BOOLEAN

IInv == PointersOK /\ IsList(List)
------------------------------------------------------------------------------
\* Every nonempty set of natural numbers has a least element.
LEMMA Least ==
    ASSUME NEW T \in SUBSET Nat, T # {}
    PROVE  \E n \in T : \A i \in T : n <= i
<1> DEFINE R == OpToRel(<, Nat)
<1>1. \E n \in T : \A i \in T : ~ (<< i, n >> \in R)
  <2> HIDE DEF R
  <2>1. IsWellFoundedOn(R, Nat)
    BY NatLessThanWellFounded DEF R
  <2> QED
    BY <2>1, WFMin
<1>2. \A i \in T, n \in T : i < n => << i, n >> \in R
  BY DEF OpToRel
<1> HIDE DEF R
<1>3. PICK n \in T : \A i \in T : ~ (<< i, n >> \in R)
  BY <1>1
<1>4. ASSUME NEW i \in T PROVE n <= i
  <2>1. ~ (i < n)
    BY <1>2, <1>3
  <2>2. n \in Nat /\ i \in Nat
    OBVIOUS
  <2> QED
    BY <2>1, <2>2
<1> QED
  BY <1>4

\* The number of steps after which a walk stops.
Far == MaxOffset + Cardinality(Node)

LEMMA Sizes ==
    /\ Cardinality(Node) \in Nat /\ MaxOffset \in Nat
    /\ Far \in Nat /\ 0 .. Cardinality(Node) \subseteq 0 .. Far
    /\ 0 .. MaxOffset \subseteq 0 .. Far
    /\ NULL \notin Node
  BY LinkedListAssumption, FS_CardinalityType DEF Far

\* No list is longer than there are nodes.
LEMMA Short ==
    ASSUME NEW s \in Seq(Node), Distinct(s)
    PROVE  Len(s) <= Cardinality(Node)
<1>1. s \in [1 .. Len(s) -> Node] /\ Len(s) \in Nat
  OBVIOUS
<1>2. s \in Injection(1 .. Len(s), Node)
  BY <1>1 DEF Distinct, Injection, IsInjective
<1>3. Cardinality(1 .. Len(s)) <= Cardinality(Node)
  BY <1>2, FS_Injection, LinkedListAssumption
<1>4. Cardinality(1 .. Len(s)) = IF 1 > Len(s) THEN 0 ELSE Len(s) - 1 + 1
  <2>1. 1 \in Int /\ Len(s) \in Int
    BY <1>1
  <2> QED
    BY <2>1, FS_Interval
<1> QED
  BY <1>1, <1>3, <1>4
------------------------------------------------------------------------------
\* The walks.

\* There is only one function that starts at p and follows link.
Follows(w, link, p) ==
    /\ w = [k \in 0 .. Far |-> w[k]]
    /\ w[0] = p
    /\ \A k \in 1 .. Far : w[k] = IF w[k - 1] = NULL THEN NULL ELSE link[w[k - 1]]

LEMMA WalkIs ==
    ASSUME NEW link, NEW p, NEW w, Follows(w, link, p)
    PROVE  Walk(link, p) = w
<1> USE DEF Follows
<1> DEFINE Body(f) == [k \in 0 .. Far |-> IF k = 0 THEN p
                                          ELSE IF f[k - 1] = NULL THEN NULL ELSE link[f[k - 1]]]
           e == CHOOSE at : at = Body(at)
<1>1. Far \in Nat
  BY Sizes
<1>2. w = Body(w)
  <2>1. \A k \in 0 .. Far : w[k] = IF k = 0 THEN p
                                 ELSE IF w[k - 1] = NULL THEN NULL ELSE link[w[k - 1]]
    BY <1>1
  <2> QED
    BY <2>1
<1>3. Walk(link, p) = e
  BY DEF Walk, Far
<1>4. e = Body(e)
  <2> HIDE DEF Body
  <2> QED
    BY <1>2
<1> HIDE DEF e
<1>5. \A k \in 0 .. Far : e[k] = IF k = 0 THEN p
                               ELSE IF e[k - 1] = NULL THEN NULL ELSE link[e[k - 1]]
  BY <1>4
<1>6. \A k \in 0 .. Far : e[k] = w[k]
  <2> DEFINE T == {k \in 0 .. Far : e[k] # w[k]}
  <2>1. SUFFICES ASSUME T # {} PROVE FALSE
    OBVIOUS
  <2>2. PICK m \in T : \A k \in T : m <= k
    <3>1. T \in SUBSET Nat
      OBVIOUS
    <3> HIDE DEF T
    <3> QED
      BY <2>1, <3>1, Least
  <2>3. m \in 0 .. Far /\ e[m] # w[m]
    OBVIOUS
  <2>4. m # 0
    BY <2>3, <1>5
  <2>5. m - 1 \in 0 .. Far /\ ~ (m <= m - 1)
    BY <1>1, <2>3, <2>4
  <2>6. e[m - 1] = w[m - 1]
    BY <2>2, <2>5
  <2>7. w[m] = IF w[m - 1] = NULL THEN NULL ELSE link[w[m - 1]]
    <3>1. m \in 1 .. Far
      BY <1>1, <2>3, <2>4
    <3> QED
      BY <3>1, Zenon
  <2> QED
    BY <1>5, <2>3, <2>4, <2>6, <2>7
<1>7. e = [k \in 0 .. Far |-> e[k]]
  BY <1>4
<1>8. w = [k \in 0 .. Far |-> w[k]]
  OBVIOUS
<1> QED
  BY <1>3, <1>6, <1>7, <1>8

\* A walk along s, from place i or from its end.
LEMMA WalkAlong ==
    ASSUME NEW link, NEW s \in Seq(Node), Leads(link, s), NEW i \in 1 .. Len(s) + 1
    PROVE  \A k \in 0 .. Far :
               Walk(link, Nth(s, i))[k] = Nth(s, i + k)
<1> DEFINE w == [k \in 0 .. Far |-> Nth(s, i + k)]
<1>1. Far \in Nat /\ Len(s) \in Nat
  BY Sizes
<1>2. w[0] = Nth(s, i)
  BY <1>1
<1>3. ASSUME NEW k \in 1 .. Far
      PROVE  w[k] = IF w[k - 1] = NULL THEN NULL ELSE link[w[k - 1]]
  <2>1. k - 1 \in 0 .. Far /\ k \in 0 .. Far /\ i + (k - 1) \in Nat \ {0} /\ (i + (k - 1)) + 1 = i + k
    BY <1>1
  <2>2. w[k - 1] = Nth(s, i + (k - 1)) /\ w[k] = Nth(s, i + k)
    BY <2>1
  <2> HIDE DEF w
  <2>3. CASE i + (k - 1) \in 1 .. Len(s)
    <3>1. Nth(s, i + (k - 1)) = s[i + (k - 1)] /\ s[i + (k - 1)] \in Node
      BY <2>3 DEF Nth
    <3>2. link[s[i + (k - 1)]] = Nth(s, i + k)
      BY <2>1, <2>3 DEF Leads
    <3> QED
      BY <2>2, <3>1, <3>2, Sizes
  <2>4. CASE i + (k - 1) \notin 1 .. Len(s)
    <3>1. i + k \notin 1 .. Len(s)
      BY <1>1, <2>1, <2>4
    <3> QED
      BY <2>2, <2>4, <3>1 DEF Nth
  <2> QED
    BY <2>3, <2>4
<1>4. w = [k \in 0 .. Far |-> w[k]]
  OBVIOUS
<1>5. \A k \in 0 .. Far : w[k] = Nth(s, i + k)
  OBVIOUS
<1> HIDE DEF w
<1>6. \A k \in 1 .. Far : w[k] = IF w[k - 1] = NULL THEN NULL ELSE link[w[k - 1]]
  BY <1>3
<1>7. Follows(w, link, Nth(s, i))
  BY <1>2, <1>4, <1>6 DEF Follows
<1> QED
  BY <1>5, <1>7, WalkIs

\* The last node of a walk is the last of s.
LEMMA EndOfWalk ==
    ASSUME NEW link, NEW s \in Seq(Node), Distinct(s), Leads(link, s), NEW i \in 1 .. Len(s)
    PROVE  End(link, s[i]) = s[Len(s)]
<1>1. /\ Len(s) \in Nat /\ Len(s) <= Cardinality(Node)
      /\ 0 .. Cardinality(Node) \subseteq 0 .. Far
  BY Sizes, Short
<1>2. Nth(s, i) = s[i] /\ s[i] # NULL
  BY Sizes DEF Nth
<1> DEFINE Ends(n) == /\ link[n] = NULL
                      /\ \E k \in 0 .. Cardinality(Node) : Walk(link, s[i])[k] = n
<1>3. \A k \in 0 .. Cardinality(Node) : Walk(link, s[i])[k] = Nth(s, i + k)
  BY <1>1, <1>2, WalkAlong
<1>4. s[Len(s)] \in Node /\ Ends(s[Len(s)])
  <2>1. s[Len(s)] \in Node /\ link[s[Len(s)]] = NULL
    BY <1>1 DEF Leads, Nth
  <2>2. /\ Len(s) - i \in 0 .. Cardinality(Node)
        /\ Nth(s, i + (Len(s) - i)) = s[Len(s)]
    BY <1>1, Sizes DEF Nth
  <2> QED
    BY <1>3, <2>1, <2>2
<1>5. ASSUME NEW n \in Node, Ends(n) PROVE n = s[Len(s)]
  <2>1. PICK k \in 0 .. Cardinality(Node) : n = Nth(s, i + k)
    BY <1>3, <1>5
  <2>2. i + k \in 1 .. Len(s) /\ n = s[i + k]
    BY <2>1, Sizes DEF Nth
  <2>3. Nth(s, (i + k) + 1) = NULL
    BY <2>2, <1>5 DEF Leads
  <2>4. (i + k) + 1 \notin 1 .. Len(s)
    BY <2>2, <2>3, Sizes DEF Nth
  <2>5. i + k = Len(s)
    BY <1>1, <2>2, <2>4
  <2> QED
    BY <2>2, <2>5
<1>6. End(link, s[i]) = CHOOSE n \in Node : Ends(n)
  BY <1>2 DEF End
<1> HIDE DEF Ends
<1> QED
  BY <1>4, <1>5, <1>6

\* The number of nodes that a walk meets.
LEMMA LengthOfWalk ==
    ASSUME NEW link, NEW s \in Seq(Node), Distinct(s), Leads(link, s), NEW i \in 1 .. Len(s) + 1
    PROVE  Cardinality({k \in 0 .. Cardinality(Node) : Walk(link, Nth(s, i))[k] # NULL})
              = Len(s) - i + 1
<1>1. /\ Len(s) \in Nat /\ Len(s) <= Cardinality(Node) /\ Cardinality(Node) \in Nat
      /\ 0 .. Cardinality(Node) \subseteq 0 .. Far
  BY Sizes, Short
<1>2. \A k \in 0 .. Cardinality(Node) : Walk(link, Nth(s, i))[k] = Nth(s, i + k)
  BY <1>1, WalkAlong
<1>3. \A k \in 0 .. Cardinality(Node) : Nth(s, i + k) # NULL <=> k <= Len(s) - i
  BY <1>1, Sizes DEF Nth
<1>4. {k \in 0 .. Cardinality(Node) : Walk(link, Nth(s, i))[k] # NULL} = 0 .. Len(s) - i
  BY <1>1, <1>2, <1>3
<1>5. Cardinality(0 .. Len(s) - i) = Len(s) - i + 1
  <2>1. Len(s) - i \in Int /\ 0 \in Int /\ Len(s) - i + 1 >= 0
    BY <1>1
  <2>2. Cardinality(0 .. Len(s) - i) = IF 0 > Len(s) - i THEN 0 ELSE Len(s) - i - 0 + 1
    BY <2>1, FS_Interval
  <2> QED
    BY <2>1, <2>2
<1> QED
  BY <1>4, <1>5
------------------------------------------------------------------------------
\* The same backwards: s, from its end.
Backwards(s) == [j \in 1 .. Len(s) |-> s[Len(s) + 1 - j]]

LEMMA Reversed ==
    ASSUME NEW link, NEW s \in Seq(Node), Distinct(s), LeadsBack(link, s, 1)
    PROVE  /\ Backwards(s) \in Seq(Node) /\ Len(Backwards(s)) = Len(s)
           /\ \A i \in Int : Nth(Backwards(s), Len(s) + 1 - i) = Nth(s, i)
           /\ Distinct(Backwards(s))
           /\ Leads(link, Backwards(s))
<1> DEFINE t == Backwards(s)
<1>1. Len(s) \in Nat
  OBVIOUS
<1>2. t \in Seq(Node) /\ Len(t) = Len(s) /\ \A j \in 1 .. Len(s) : t[j] = s[Len(s) + 1 - j]
  BY <1>1 DEF Backwards
<1> HIDE DEF t
<1>3. ASSUME NEW i \in Int PROVE Nth(t, Len(s) + 1 - i) = Nth(s, i)
  <2>1. /\ i \in 1 .. Len(s) <=> Len(s) + 1 - i \in 1 .. Len(s)
        /\ Len(s) + 1 - (Len(s) + 1 - i) = i
    BY <1>1
  <2> QED
    BY <1>2, <2>1 DEF Nth
<1>4. Distinct(t)
  <2>1. SUFFICES ASSUME NEW i \in 1 .. Len(s), NEW j \in 1 .. Len(s), t[i] = t[j] PROVE i = j
    BY <1>2 DEF Distinct
  <2>2. s[Len(s) + 1 - i] = s[Len(s) + 1 - j]
    BY <1>2, <2>1
  <2>3. Len(s) + 1 - i \in 1 .. Len(s) /\ Len(s) + 1 - j \in 1 .. Len(s)
    BY <1>1
  <2>4. Len(s) + 1 - i = Len(s) + 1 - j
    BY <2>2, <2>3 DEF Distinct
  <2> QED
    BY <1>1, <2>4
<1>5. Leads(link, t)
  <2>1. SUFFICES ASSUME NEW j \in 1 .. Len(s) PROVE link[t[j]] = Nth(t, j + 1)
    BY <1>2 DEF Leads
  <2>2. PICK i \in 1 .. Len(s) : i = Len(s) + 1 - j
    <3>1. Len(s) + 1 - j \in 1 .. Len(s)
      BY <1>1
    <3> QED
      BY <3>1, Zenon
  <2>3. i - 1 \in Int /\ Len(s) + 1 - (i - 1) = j + 1
    BY <1>1, <2>2
  <2>4. link[s[i]] = Nth(s, i - 1)
    BY DEF LeadsBack
  <2>5. Nth(t, j + 1) = Nth(s, i - 1)
    BY <1>3, <2>3
  <2> QED
    BY <1>2, <2>2, <2>4, <2>5
<1> QED
  BY <1>2, <1>3, <1>4, <1>5 DEF t

LEMMA WalkBack ==
    ASSUME NEW link, NEW s \in Seq(Node), Distinct(s), LeadsBack(link, s, 1), NEW i \in 1 .. Len(s)
    PROVE  \A k \in 0 .. Far : Walk(link, s[i])[k] = Nth(s, i - k)
<1> DEFINE t == Backwards(s)
<1>1. /\ t \in Seq(Node) /\ Len(t) = Len(s) /\ Leads(link, t)
      /\ \A j \in Int : Nth(t, Len(s) + 1 - j) = Nth(s, j)
  BY Reversed
<1> HIDE DEF t
<1>2. Len(s) + 1 - i \in 1 .. Len(t) + 1 /\ Len(s) \in Nat /\ i \in Int
  BY <1>1
<1>3. Nth(t, Len(s) + 1 - i) = s[i]
  <2>1. Nth(s, i) = s[i]
    BY DEF Nth
  <2> QED
    BY <1>1, <1>2, <2>1
<1>4. \A k \in 0 .. Far : Walk(link, s[i])[k] = Nth(t, (Len(s) + 1 - i) + k)
  BY <1>1, <1>2, <1>3, WalkAlong, ZenonT(60)
<1>5. \A k \in 0 .. Far : (Len(s) + 1 - i) + k = Len(s) + 1 - (i - k) /\ i - k \in Int
  BY <1>2, Sizes
<1> QED
  BY <1>1, <1>4, <1>5

LEMMA HeadOfWalk ==
    ASSUME NEW link, NEW s \in Seq(Node), Distinct(s), LeadsBack(link, s, 1), NEW i \in 1 .. Len(s)
    PROVE  End(link, s[i]) = s[1]
<1> DEFINE t == Backwards(s)
<1>1. /\ t \in Seq(Node) /\ Len(t) = Len(s) /\ Distinct(t) /\ Leads(link, t)
  BY Reversed
<1>2. \A j \in 1 .. Len(s) : t[j] = s[Len(s) + 1 - j]
  BY DEF Backwards
<1> HIDE DEF t
<1>3. Len(s) \in Nat /\ Len(s) + 1 - i \in 1 .. Len(t) /\ Len(s) \in 1 .. Len(s)
  BY <1>1
<1>4. t[Len(s) + 1 - i] = s[i] /\ t[Len(s)] = s[1]
  BY <1>1, <1>2, <1>3
<1>5. End(link, t[Len(s) + 1 - i]) = t[Len(s)]
  BY <1>1, <1>3, EndOfWalk
<1> QED
  BY <1>4, <1>5
------------------------------------------------------------------------------
\* What InsertAt and RemoveAt make of a sequence.

LEMMA Concatenated ==
    ASSUME NEW S, NEW a \in Seq(S), NEW b \in Seq(S)
    PROVE  /\ a \o b \in Seq(S)
           /\ Len(a \o b) = Len(a) + Len(b)
           /\ \A i \in 1 .. Len(a) : (a \o b)[i] = a[i]
           /\ \A i \in Len(a) + 1 .. Len(a) + Len(b) : (a \o b)[i] = b[i - Len(a)]
  OBVIOUS

LEMMA Inserted ==
    ASSUME NEW S, NEW s \in Seq(S), NEW n \in S, NEW j \in 1 .. Len(s) + 1
    PROVE  /\ InsertAt(s, j, n) \in Seq(S)
           /\ Len(InsertAt(s, j, n)) = Len(s) + 1
           /\ \A i \in 1 .. j - 1 : InsertAt(s, j, n)[i] = s[i]
           /\ InsertAt(s, j, n)[j] = n
           /\ \A i \in j + 1 .. Len(s) + 1 : InsertAt(s, j, n)[i] = s[i - 1]
<1>1. /\ SubSeq(s, 1, j - 1) \in Seq(S) /\ Len(SubSeq(s, 1, j - 1)) = j - 1
      /\ \A i \in 1 .. j - 1 : SubSeq(s, 1, j - 1)[i] = s[i]
  OBVIOUS
<1>2. /\ SubSeq(s, j, Len(s)) \in Seq(S) /\ Len(SubSeq(s, j, Len(s))) = Len(s) - j + 1
      /\ \A i \in 1 .. Len(s) - j + 1 : SubSeq(s, j, Len(s))[i] = s[j + i - 1]
  OBVIOUS
<1> DEFINE a == SubSeq(s, 1, j - 1)
           b == SubSeq(s, j, Len(s))
<1>3. InsertAt(s, j, n) = (a \o << n >>) \o b
  BY DEF InsertAt
<1> HIDE DEF a, b
<1>4. /\ a \in Seq(S) /\ Len(a) = j - 1 /\ \A i \in 1 .. j - 1 : a[i] = s[i]
      /\ b \in Seq(S) /\ Len(b) = Len(s) - j + 1
      /\ \A i \in 1 .. Len(s) - j + 1 : b[i] = s[j + i - 1]
  BY <1>1, <1>2 DEF a, b
<1> DEFINE c == a \o << n >>
<1>5. /\ c \in Seq(S) /\ Len(c) = j /\ c[j] = n /\ \A i \in 1 .. j - 1 : c[i] = a[i]
  BY <1>4, SMTT(40)
<1> HIDE DEF c
<1>6. /\ c \o b \in Seq(S) /\ Len(c \o b) = Len(s) + 1
      /\ \A i \in 1 .. j : (c \o b)[i] = c[i]
      /\ \A i \in j + 1 .. Len(s) + 1 : (c \o b)[i] = b[i - j]
  <2>1. Len(c) + Len(b) = Len(s) + 1
    BY <1>4, <1>5
  <2> QED
    BY <1>4, <1>5, <2>1, Concatenated
<1>7. \A i \in j + 1 .. Len(s) + 1 : b[i - j] = s[i - 1]
  <2>1. \A i \in j + 1 .. Len(s) + 1 : i - j \in 1 .. Len(s) - j + 1 /\ j + (i - j) - 1 = i - 1
    OBVIOUS
  <2> QED
    BY <1>4, <2>1
<1>8. InsertAt(s, j, n) = c \o b
  BY <1>3 DEF c
<1> DEFINE t == c \o b
<1>9. \A i \in j + 1 .. Len(s) + 1 : t[i] = s[i - 1]
  BY <1>6, <1>7
<1>10. t[j] = n
  <2>1. j \in 1 .. j
    OBVIOUS
  <2> QED
    BY <1>5, <1>6, <2>1, Zenon
<1>11. \A i \in 1 .. j - 1 : t[i] = s[i]
  <2>1. \A i \in 1 .. j - 1 : i \in 1 .. j /\ c[i] = s[i]
    BY <1>4, <1>5
  <2> QED
    BY <1>6, <2>1
<1>12. t \in Seq(S) /\ Len(t) = Len(s) + 1
  BY <1>6
<1> HIDE DEF t
<1>13. InsertAt(s, j, n) = t
  BY <1>8 DEF t
<1> QED
  BY <1>9, <1>10, <1>11, <1>12, <1>13

LEMMA Removed ==
    ASSUME NEW S, NEW s \in Seq(S), NEW j \in 1 .. Len(s)
    PROVE  /\ RemoveAt(s, j) \in Seq(S)
           /\ Len(RemoveAt(s, j)) = Len(s) - 1
           /\ \A i \in 1 .. j - 1 : RemoveAt(s, j)[i] = s[i]
           /\ \A i \in j .. Len(s) - 1 : RemoveAt(s, j)[i] = s[i + 1]
<1>1. /\ SubSeq(s, 1, j - 1) \in Seq(S) /\ Len(SubSeq(s, 1, j - 1)) = j - 1
      /\ \A i \in 1 .. j - 1 : SubSeq(s, 1, j - 1)[i] = s[i]
  OBVIOUS
<1>2. /\ SubSeq(s, j + 1, Len(s)) \in Seq(S) /\ Len(SubSeq(s, j + 1, Len(s))) = Len(s) - j
      /\ \A i \in 1 .. Len(s) - j : SubSeq(s, j + 1, Len(s))[i] = s[j + 1 + i - 1]
  OBVIOUS
<1> DEFINE a == SubSeq(s, 1, j - 1)
           b == SubSeq(s, j + 1, Len(s))
<1>3. RemoveAt(s, j) = a \o b
  BY DEF RemoveAt
<1> HIDE DEF a, b
<1>4. /\ a \in Seq(S) /\ Len(a) = j - 1 /\ \A i \in 1 .. j - 1 : a[i] = s[i]
      /\ b \in Seq(S) /\ Len(b) = Len(s) - j
      /\ \A i \in 1 .. Len(s) - j : b[i] = s[j + 1 + i - 1]
  BY <1>1, <1>2 DEF a, b
<1>5. /\ a \o b \in Seq(S) /\ Len(a \o b) = Len(s) - 1
      /\ \A i \in 1 .. j - 1 : (a \o b)[i] = a[i]
      /\ \A i \in j .. Len(s) - 1 : (a \o b)[i] = b[i - (j - 1)]
  <2>1. Len(a) + Len(b) = Len(s) - 1 /\ Len(a) + 1 = j /\ Len(a) = j - 1
    BY <1>4
  <2>2. /\ a \o b \in Seq(S)
        /\ Len(a \o b) = Len(a) + Len(b)
        /\ \A i \in 1 .. Len(a) : (a \o b)[i] = a[i]
        /\ \A i \in Len(a) + 1 .. Len(a) + Len(b) : (a \o b)[i] = b[i - Len(a)]
    BY <1>4, Concatenated
  <2> QED
    BY <2>1, <2>2
<1>6. \A i \in j .. Len(s) - 1 : b[i - (j - 1)] = s[i + 1]
  <2>1. \A i \in j .. Len(s) - 1 : i - (j - 1) \in 1 .. Len(s) - j
                                 /\ j + 1 + (i - (j - 1)) - 1 = i + 1
    OBVIOUS
  <2> QED
    BY <1>4, <2>1
<1> QED
  BY <1>3, <1>4, <1>5, <1>6

\* The two ends.
LEMMA Ends ==
    ASSUME NEW S, NEW s \in Seq(S), NEW n \in S
    PROVE  /\ << n >> \o s = InsertAt(s, 1, n)
           /\ s \o << n >> = InsertAt(s, Len(s) + 1, n)
<1>1. SubSeq(s, 1, 0) = << >> /\ SubSeq(s, 1, Len(s)) = s /\ SubSeq(s, Len(s) + 1, Len(s)) = << >>
  OBVIOUS
<1>2. 1 - 1 = 0 /\ Len(s) + 1 - 1 = Len(s)
  OBVIOUS
<1>3. << n >> \o s = (<< >> \o << n >>) \o s /\ s \o << n >> = (s \o << n >>) \o << >>
  OBVIOUS
<1> QED
  BY <1>1, <1>2, <1>3 DEF InsertAt

LEMMA NothingRemoved == RemoveAt(<< >>, 0) = << >> /\ RemoveAt(<< >>, 1) = << >>
  BY DEF RemoveAt
------------------------------------------------------------------------------
\* Places and pointers.

LEMMA Places ==
    ASSUME NEW s \in Seq(Node)
    PROVE  \A i \in Int : /\ Nth(s, i) \in Pointer
                          /\ Nth(s, i) # NULL <=> i \in 1 .. Len(s)
                          /\ i \in 1 .. Len(s) => Nth(s, i) = s[i] /\ Nth(s, i) \in Node
  BY Sizes DEF Nth, Pointer

LEMMA OnePlace ==
    ASSUME NEW s \in Seq(Node), Distinct(s), NEW i \in 1 .. Len(s), NEW k \in Int,
           Nth(s, i) = Nth(s, k)
    PROVE  i = k
  BY Sizes DEF Nth, Distinct

LEMMA PlacesInserted ==
    ASSUME NEW s \in Seq(Node), NEW n \in Node, NEW j \in 1 .. Len(s) + 1
    PROVE  /\ \A i \in Int : i < j => Nth(InsertAt(s, j, n), i) = Nth(s, i)
           /\ Nth(InsertAt(s, j, n), j) = n
           /\ \A i \in Int : i > j => Nth(InsertAt(s, j, n), i) = Nth(s, i - 1)
<1> DEFINE t == InsertAt(s, j, n)
<1>1. /\ Len(t) = Len(s) + 1 /\ t[j] = n
      /\ \A k \in 1 .. j - 1 : t[k] = s[k]
      /\ \A k \in j + 1 .. Len(s) + 1 : t[k] = s[k - 1]
  BY Inserted
<1> HIDE DEF t
<1>2. Len(s) \in Nat /\ Len(t) = Len(s) + 1
  BY <1>1
<1>3. ASSUME NEW i \in Int, i < j PROVE Nth(t, i) = Nth(s, i)
  <2>1. i \in 1 .. Len(t) <=> i \in 1 .. Len(s)
    BY <1>2, <1>3
  <2>2. i \in 1 .. Len(s) => i \in 1 .. j - 1
    BY <1>3
  <2> QED
    BY <1>1, <2>1, <2>2 DEF Nth
<1>4. Nth(t, j) = n
  <2>1. j \in 1 .. Len(t)
    BY <1>2
  <2> QED
    BY <1>1, <2>1 DEF Nth
<1>5. ASSUME NEW i \in Int, i > j PROVE Nth(t, i) = Nth(s, i - 1)
  <2>1. i \in 1 .. Len(t) <=> i - 1 \in 1 .. Len(s)
    BY <1>2, <1>5
  <2>2. i \in 1 .. Len(t) => i \in j + 1 .. Len(s) + 1
    BY <1>2, <1>5
  <2> QED
    BY <1>1, <2>1, <2>2 DEF Nth
<1> QED
  BY <1>3, <1>4, <1>5 DEF t

LEMMA PlacesRemoved ==
    ASSUME NEW s \in Seq(Node), NEW j \in 1 .. Len(s)
    PROVE  /\ \A i \in Int : i < j => Nth(RemoveAt(s, j), i) = Nth(s, i)
           /\ \A i \in Int : i >= j => Nth(RemoveAt(s, j), i) = Nth(s, i + 1)
<1> DEFINE t == RemoveAt(s, j)
<1>1. /\ Len(t) = Len(s) - 1
      /\ \A k \in 1 .. j - 1 : t[k] = s[k]
      /\ \A k \in j .. Len(s) - 1 : t[k] = s[k + 1]
  BY Removed
<1> HIDE DEF t
<1>2. Len(s) \in Nat /\ Len(t) = Len(s) - 1
  BY <1>1
<1>3. ASSUME NEW i \in Int, i < j PROVE Nth(t, i) = Nth(s, i)
  <2>1. i \in 1 .. Len(t) <=> i \in 1 .. Len(s)
    BY <1>2, <1>3
  <2>2. i \in 1 .. Len(s) => i \in 1 .. j - 1
    BY <1>3
  <2> QED
    BY <1>1, <2>1, <2>2 DEF Nth
<1>4. ASSUME NEW i \in Int, i >= j PROVE Nth(t, i) = Nth(s, i + 1)
  <2>1. i \in 1 .. Len(t) <=> i + 1 \in 1 .. Len(s)
    BY <1>2, <1>4
  <2>2. i \in 1 .. Len(t) => i \in j .. Len(s) - 1
    BY <1>2, <1>4
  <2> QED
    BY <1>1, <2>1, <2>2 DEF Nth
<1> QED
  BY <1>3, <1>4 DEF t

\* g is link after an assignment of x to y's, if y is not NULL; ...
IsAssigned(g, link, y, x) ==
    /\ g \in [Node -> Pointer]
    /\ \A m \in Node : g[m] = IF m = y THEN x ELSE link[m]

\* ... and after one of x to n's, and then of n to y's.
IsLinkedIn(g, link, n, x, y) ==
    /\ g \in [Node -> Pointer]
    /\ \A m \in Node : g[m] = IF m = y THEN n ELSE IF m = n THEN x ELSE link[m]

LEMMA Assigned ==
    ASSUME NEW link \in [Node -> Pointer], NEW y \in Pointer, NEW x \in Pointer
    PROVE  IsAssigned(SetIf(link, y, x), link, y, x)
  BY Sizes DEF SetIf, Set, Pointer, IsAssigned

LEMMA AssignedTwice ==
    ASSUME NEW link \in [Node -> Pointer], NEW n \in Node, NEW x \in Pointer, NEW y \in Pointer
    PROVE  IsLinkedIn(SetIf(Set(link, n, x), y, n), link, n, x, y)
<1> DEFINE f == Set(link, n, x)
           g == SetIf(f, y, n)
<1>1. n \in Pointer
  BY DEF Pointer
<1>2. f \in [Node -> Pointer] /\ \A m \in Node : f[m] = IF m = n THEN x ELSE link[m]
  BY DEF Set
<1> HIDE DEF f
<1>3. IsAssigned(g, f, y, n)
  BY <1>1, <1>2, Assigned
<1> HIDE DEF g
<1>4. IsLinkedIn(g, link, n, x, y)
  BY <1>2, <1>3 DEF IsAssigned, IsLinkedIn
<1> QED
  BY <1>4 DEF f, g
------------------------------------------------------------------------------
\* The pointers of a list, and what becomes of them.

Chain(prv, nxt, s) == /\ s \in Seq(Node)
                      /\ Distinct(s)
                      /\ Leads(nxt, s)
                      /\ LeadsBack(prv, s, 1)

\* The same, from place to place.
LEMMA ChainPlaces ==
    ASSUME NEW prv, NEW nxt, NEW s \in Seq(Node)
    PROVE  Chain(prv, nxt, s) <=>
              /\ \A i \in 1 .. Len(s) : \A k \in 1 .. Len(s) : Nth(s, i) = Nth(s, k) => i = k
              /\ \A i \in 1 .. Len(s) : nxt[Nth(s, i)] = Nth(s, i + 1)
              /\ \A i \in 1 .. Len(s) : prv[Nth(s, i)] = Nth(s, i - 1)
<1>1. \A i \in 1 .. Len(s) : Nth(s, i) = s[i]
  BY DEF Nth
<1>2. Leads(nxt, s) <=> \A i \in 1 .. Len(s) : nxt[Nth(s, i)] = Nth(s, i + 1)
  BY <1>1 DEF Leads
<1>3. LeadsBack(prv, s, 1) <=> \A i \in 1 .. Len(s) : prv[Nth(s, i)] = Nth(s, i - 1)
  BY <1>1 DEF LeadsBack
<1>4. Distinct(s) <=> \A i \in 1 .. Len(s) : \A k \in 1 .. Len(s) : Nth(s, i) = Nth(s, k) => i = k
  BY <1>1 DEF Distinct
<1> QED
  BY <1>2, <1>3, <1>4 DEF Chain

\* A node is linked in before place j, or after the last one.
LEMMA InsertChain ==
    ASSUME NEW prv \in [Node -> Pointer], NEW nxt \in [Node -> Pointer], NEW s,
           Chain(prv, nxt, s),
           NEW n \in Node, \A i \in 1 .. Len(s) : s[i] # n,
           NEW j \in 1 .. Len(s) + 1
    PROVE  /\ SetIf(Set(prv, n, Nth(s, j - 1)), Nth(s, j), n) \in [Node -> Pointer]
           /\ SetIf(Set(nxt, n, Nth(s, j)), Nth(s, j - 1), n) \in [Node -> Pointer]
           /\ Chain(SetIf(Set(prv, n, Nth(s, j - 1)), Nth(s, j), n),
                    SetIf(Set(nxt, n, Nth(s, j)), Nth(s, j - 1), n),
                    InsertAt(s, j, n))
<1> DEFINE t == InsertAt(s, j, n)
           f == SetIf(Set(nxt, n, Nth(s, j)), Nth(s, j - 1), n)
           b == SetIf(Set(prv, n, Nth(s, j - 1)), Nth(s, j), n)
<1>1. s \in Seq(Node) /\ Len(s) \in Nat /\ Distinct(s)
  BY DEF Chain
<1>2. t \in Seq(Node) /\ Len(t) = Len(s) + 1
  BY <1>1, Inserted
<1>3. j \in Int /\ j - 1 \in Int /\ Nth(s, j) \in Pointer /\ Nth(s, j - 1) \in Pointer
  BY <1>1, Places
<1>4. IsLinkedIn(f, nxt, n, Nth(s, j), Nth(s, j - 1))
  BY <1>3, AssignedTwice
<1>5. IsLinkedIn(b, prv, n, Nth(s, j - 1), Nth(s, j))
  BY <1>3, AssignedTwice
<1>6. /\ \A i \in Int : i < j => Nth(t, i) = Nth(s, i)
      /\ Nth(t, j) = n
      /\ \A i \in Int : i > j => Nth(t, i) = Nth(s, i - 1)
  BY <1>1, PlacesInserted
<1> HIDE DEF t, f, b
<1> USE DEF IsLinkedIn
<1>7. \A i \in Int : Nth(s, i) # n
  <2>1. \A i \in Int : i \in 1 .. Len(s) => Nth(s, i) # n
    BY <1>1, Places
  <2>2. \A i \in Int : i \notin 1 .. Len(s) => Nth(s, i) = NULL
    BY DEF Nth
  <2> QED
    BY <2>1, <2>2, Sizes
<1>8. \A i \in 1 .. Len(s) : /\ Nth(s, i) \in Node
                             /\ nxt[Nth(s, i)] = Nth(s, i + 1)
                             /\ prv[Nth(s, i)] = Nth(s, i - 1)
  BY <1>1, Places, ChainPlaces
<1>9. \A i \in 1 .. Len(s) : \A k \in Int : Nth(s, i) = Nth(s, k) => i = k
  BY <1>1, OnePlace
<1>10. ASSUME NEW i \in 1 .. Len(t), NEW k \in 1 .. Len(t), Nth(t, i) = Nth(t, k) PROVE i = k
  <2>1. i \in Int /\ k \in Int
    OBVIOUS
  <2>2. CASE i = j
    BY <1>6, <1>7, <1>10, <2>1, <2>2
  <2>3. CASE i < j
    <3>1. i \in 1 .. Len(s) /\ Nth(t, i) = Nth(s, i)
      BY <1>1, <1>6, <2>3
    <3>2. k # j
      BY <1>6, <1>7, <1>10, <2>1, <3>1
    <3>3. CASE k < j
      BY <1>6, <1>9, <1>10, <2>1, <3>1, <3>3
    <3>4. CASE k > j
      <4>1. Nth(t, k) = Nth(s, k - 1) /\ k - 1 \in Int
        BY <1>6, <3>4
      <4>2. i = k - 1
        BY <1>9, <1>10, <3>1, <4>1
      <4> QED
        BY <1>3, <2>3, <3>4, <4>2
    <3> QED
      BY <3>2, <3>3, <3>4
  <2>4. CASE i > j
    <3>1. i - 1 \in 1 .. Len(s) /\ Nth(t, i) = Nth(s, i - 1)
      BY <1>1, <1>2, <1>6, <2>4
    <3>2. k # j
      <4>1. Nth(s, i - 1) # n
        BY <1>7, <3>1
      <4> QED
        BY <1>6, <1>10, <3>1, <4>1
    <3>3. CASE k < j
      <4>1. Nth(t, k) = Nth(s, k)
        BY <1>6, <3>3
      <4>2. i - 1 = k
        BY <1>9, <1>10, <2>1, <3>1, <4>1
      <4> QED
        BY <1>3, <2>4, <3>3, <4>2
    <3>4. CASE k > j
      <4>1. Nth(t, k) = Nth(s, k - 1) /\ k - 1 \in Int
        BY <1>6, <3>4
      <4>2. i - 1 = k - 1
        BY <1>9, <1>10, <3>1, <4>1
      <4> QED
        BY <4>2
    <3> QED
      BY <3>2, <3>3, <3>4
  <2> QED
    BY <1>3, <2>1, <2>2, <2>3, <2>4
<1>11. ASSUME NEW i \in 1 .. Len(t)
       PROVE  f[Nth(t, i)] = Nth(t, i + 1) /\ b[Nth(t, i)] = Nth(t, i - 1)
  <2>1. i \in Int /\ i + 1 \in Int /\ i - 1 \in Int /\ (i + 1) - 1 = i
    OBVIOUS
  <2>2. CASE i = j
    <3>1. Nth(t, i) = n /\ Nth(t, i + 1) = Nth(s, j) /\ Nth(t, i - 1) = Nth(s, j - 1)
      BY <1>6, <2>1, <2>2
    <3> QED
      BY <1>3, <1>4, <1>5, <1>7, <3>1
  <2>3. CASE i < j
    <3>1. /\ i \in 1 .. Len(s) /\ Nth(t, i) = Nth(s, i) /\ Nth(t, i - 1) = Nth(s, i - 1)
          /\ Nth(s, i) \in Node /\ Nth(s, i) # n
      BY <1>1, <1>6, <1>7, <1>8, <2>1, <2>3
    <3>2. Nth(s, i) # Nth(s, j)
      BY <1>3, <1>9, <2>3, <3>1
    <3>3. b[Nth(s, i)] = Nth(s, i - 1)
      BY <1>5, <1>8, <3>1, <3>2
    <3>4. CASE i = j - 1
      <4>1. i + 1 = j /\ Nth(t, i + 1) = n
        BY <1>3, <1>6, <3>4
      <4> QED
        BY <1>4, <3>1, <3>3, <3>4, <4>1
    <3>5. CASE i # j - 1
      <4>1. Nth(s, i) # Nth(s, j - 1)
        BY <1>3, <1>9, <3>1, <3>5
      <4>2. Nth(t, i + 1) = Nth(s, i + 1)
        BY <1>3, <1>6, <2>1, <2>3, <3>5
      <4> QED
        BY <1>4, <1>8, <3>1, <3>3, <4>1, <4>2
    <3> QED
      BY <3>4, <3>5
  <2>4. CASE i > j
    <3>1. /\ i - 1 \in 1 .. Len(s) /\ Nth(t, i) = Nth(s, i - 1) /\ Nth(t, i + 1) = Nth(s, i)
          /\ Nth(s, i - 1) \in Node /\ Nth(s, i - 1) # n /\ nxt[Nth(s, i - 1)] = Nth(s, i)
          /\ prv[Nth(s, i - 1)] = Nth(s, (i - 1) - 1)
      <4>1. i - 1 \in 1 .. Len(s) /\ Nth(t, i) = Nth(s, i - 1) /\ Nth(t, i + 1) = Nth(s, i)
        BY <1>1, <1>2, <1>3, <1>6, <2>1, <2>4
      <4>2. (i - 1) + 1 = i
        OBVIOUS
      <4> QED
        BY <1>7, <1>8, <4>1, <4>2
    <3>2. Nth(s, i - 1) # Nth(s, j - 1)
      BY <1>3, <1>9, <2>4, <3>1
    <3>3. f[Nth(s, i - 1)] = Nth(s, i)
      BY <1>4, <3>1, <3>2
    <3>4. CASE i - 1 = j
      <4>1. Nth(t, i - 1) = n
        BY <1>3, <1>6, <3>4
      <4> QED
        BY <1>5, <3>1, <3>3, <3>4, <4>1
    <3>5. CASE i - 1 # j
      <4>1. Nth(s, i - 1) # Nth(s, j)
        BY <1>3, <1>9, <3>1, <3>5
      <4>2. Nth(t, i - 1) = Nth(s, (i - 1) - 1)
        BY <1>3, <1>6, <2>1, <2>4, <3>5
      <4> QED
        BY <1>5, <3>1, <3>3, <4>1, <4>2
    <3> QED
      BY <3>4, <3>5
  <2> QED
    BY <1>3, <2>1, <2>2, <2>3, <2>4
<1>12. Chain(b, f, t)
  BY <1>2, <1>10, <1>11, ChainPlaces
<1> QED
  BY <1>4, <1>5, <1>12 DEF t, f, b

\* The node at place j is linked out.
LEMMA RemoveChain ==
    ASSUME NEW prv \in [Node -> Pointer], NEW nxt \in [Node -> Pointer], NEW s,
           Chain(prv, nxt, s), NEW j \in 1 .. Len(s)
    PROVE  /\ SetIf(prv, Nth(s, j + 1), Nth(s, j - 1)) \in [Node -> Pointer]
           /\ SetIf(nxt, Nth(s, j - 1), Nth(s, j + 1)) \in [Node -> Pointer]
           /\ Chain(SetIf(prv, Nth(s, j + 1), Nth(s, j - 1)),
                    SetIf(nxt, Nth(s, j - 1), Nth(s, j + 1)),
                    RemoveAt(s, j))
<1> DEFINE t == RemoveAt(s, j)
           f == SetIf(nxt, Nth(s, j - 1), Nth(s, j + 1))
           b == SetIf(prv, Nth(s, j + 1), Nth(s, j - 1))
<1>1. s \in Seq(Node) /\ Len(s) \in Nat /\ Distinct(s)
  BY DEF Chain
<1>2. t \in Seq(Node) /\ Len(t) = Len(s) - 1
  BY <1>1, Removed
<1>3. /\ j \in Int /\ j - 1 \in Int /\ j + 1 \in Int
      /\ Nth(s, j + 1) \in Pointer /\ Nth(s, j - 1) \in Pointer
  BY <1>1, Places
<1>4. IsAssigned(f, nxt, Nth(s, j - 1), Nth(s, j + 1))
  BY <1>3, Assigned
<1>5. IsAssigned(b, prv, Nth(s, j + 1), Nth(s, j - 1))
  BY <1>3, Assigned
<1>6. /\ \A i \in Int : i < j => Nth(t, i) = Nth(s, i)
      /\ \A i \in Int : i >= j => Nth(t, i) = Nth(s, i + 1)
  BY <1>1, PlacesRemoved
<1> HIDE DEF t, f, b
<1> USE DEF IsAssigned
<1>7. \A i \in 1 .. Len(s) : /\ Nth(s, i) \in Node
                             /\ nxt[Nth(s, i)] = Nth(s, i + 1)
                             /\ prv[Nth(s, i)] = Nth(s, i - 1)
  BY <1>1, Places, ChainPlaces
<1>8. \A i \in 1 .. Len(s) : \A k \in Int : Nth(s, i) = Nth(s, k) => i = k
  BY <1>1, OnePlace
<1>9. ASSUME NEW i \in 1 .. Len(t), NEW k \in 1 .. Len(t), Nth(t, i) = Nth(t, k) PROVE i = k
  <2>1. i \in Int /\ k \in Int /\ i + 1 \in Int /\ k + 1 \in Int
    OBVIOUS
  <2>2. i \in 1 .. Len(s) /\ i + 1 \in 1 .. Len(s)
    BY <1>1, <1>2
  <2>3. i < j => Nth(t, i) = Nth(s, i)
    BY <1>6, <2>1
  <2>4. i >= j => Nth(t, i) = Nth(s, i + 1)
    BY <1>6, <2>1
  <2>5. k < j => Nth(t, k) = Nth(s, k)
    BY <1>6, <2>1
  <2>6. k >= j => Nth(t, k) = Nth(s, k + 1)
    BY <1>6, <2>1
  <2>7. CASE i < j /\ k < j
    <3>1. Nth(s, i) = Nth(s, k)
      BY <1>9, <2>3, <2>5, <2>7
    <3>2. i = k
      BY <1>8, <2>1, <2>2, <3>1
    <3> QED
      BY <1>3, <2>1, <2>7, <3>2
  <2>8. CASE i < j /\ k >= j
    <3>1. Nth(s, i) = Nth(s, k + 1)
      BY <1>9, <2>3, <2>6, <2>8
    <3>2. i = k + 1
      BY <1>8, <2>1, <2>2, <3>1
    <3> QED
      BY <1>3, <2>1, <2>8, <3>2
  <2>9. CASE i >= j /\ k < j
    <3>1. Nth(s, i + 1) = Nth(s, k)
      BY <1>9, <2>4, <2>5, <2>9
    <3>2. i + 1 = k
      BY <1>8, <2>1, <2>2, <3>1
    <3> QED
      BY <1>3, <2>1, <2>9, <3>2
  <2>10. CASE i >= j /\ k >= j
    <3>1. Nth(s, i + 1) = Nth(s, k + 1)
      BY <1>9, <2>4, <2>6, <2>10
    <3>2. i + 1 = k + 1
      BY <1>8, <2>1, <2>2, <3>1
    <3> QED
      BY <1>3, <2>1, <2>10, <3>2
  <2> QED
    BY <1>3, <2>1, <2>7, <2>8, <2>9, <2>10
<1>10. ASSUME NEW i \in 1 .. Len(t)
       PROVE  f[Nth(t, i)] = Nth(t, i + 1) /\ b[Nth(t, i)] = Nth(t, i - 1)
  <2>1. /\ i \in Int /\ i + 1 \in Int /\ i - 1 \in Int /\ (i + 1) - 1 = i /\ (i - 1) + 1 = i
        /\ (i + 1) + 1 \in Int
    OBVIOUS
  <2>2. i \in 1 .. Len(s) /\ i + 1 \in 1 .. Len(s)
    BY <1>1, <1>2
  <2>3. CASE i < j
    <3>1. Nth(t, i) = Nth(s, i) /\ Nth(t, i - 1) = Nth(s, i - 1)
      BY <1>3, <1>6, <2>1, <2>3
    <3>2. Nth(s, i) # Nth(s, j + 1)
      BY <1>3, <1>8, <2>1, <2>2, <2>3
    <3>3. b[Nth(s, i)] = Nth(s, i - 1)
      BY <1>5, <1>7, <2>2, <3>2
    <3>4. CASE i = j - 1
      <4>1. Nth(t, i + 1) = Nth(s, j + 1)
        BY <1>3, <1>6, <2>1, <3>4
      <4> QED
        BY <1>4, <1>7, <2>2, <3>1, <3>3, <3>4, <4>1
    <3>5. CASE i # j - 1
      <4>1. Nth(s, i) # Nth(s, j - 1)
        BY <1>3, <1>8, <2>2, <3>5
      <4>2. Nth(t, i + 1) = Nth(s, i + 1)
        BY <1>3, <1>6, <2>1, <2>3, <3>5
      <4> QED
        BY <1>4, <1>7, <2>2, <3>1, <3>3, <4>1, <4>2
    <3> QED
      BY <3>4, <3>5
  <2>4. CASE i >= j
    <3>1. Nth(t, i) = Nth(s, i + 1) /\ Nth(t, i + 1) = Nth(s, (i + 1) + 1)
      BY <1>3, <1>6, <2>1, <2>4
    <3>2. Nth(s, i + 1) # Nth(s, j - 1)
      BY <1>3, <1>8, <2>1, <2>2, <2>4
    <3>3. f[Nth(s, i + 1)] = Nth(s, (i + 1) + 1)
      BY <1>4, <1>7, <2>2, <3>2
    <3>4. CASE i = j
      <4>1. Nth(t, i - 1) = Nth(s, j - 1)
        BY <1>3, <1>6, <2>1, <3>4
      <4> QED
        BY <1>5, <1>7, <2>2, <3>1, <3>3, <3>4, <4>1
    <3>5. CASE i # j
      <4>1. Nth(s, i + 1) # Nth(s, j + 1)
        <5>1. i + 1 # j + 1
          BY <1>3, <2>1, <3>5
        <5> QED
          BY <1>3, <1>8, <2>2, <5>1
      <4>2. Nth(t, i - 1) = Nth(s, i)
        BY <1>3, <1>6, <2>1, <2>4, <3>5
      <4>3. prv[Nth(s, i + 1)] = Nth(s, i)
        BY <1>7, <2>1, <2>2
      <4> QED
        BY <1>5, <1>7, <2>2, <3>1, <3>3, <4>1, <4>2, <4>3
    <3> QED
      BY <3>4, <3>5
  <2> QED
    BY <1>3, <2>1, <2>3, <2>4
<1>11. Chain(b, f, t)
  BY <1>2, <1>9, <1>10, ChainPlaces
<1> QED
  BY <1>4, <1>5, <1>11 DEF t, f, b
------------------------------------------------------------------------------
\* What the library finds in a list.

LEMMA Nowhere ==
    ASSUME NEW link
    PROVE  /\ \A k \in 0 .. Far : Walk(link, NULL)[k] = NULL
           /\ End(link, NULL) = NULL
<1> DEFINE e == << >>
<1>1. e \in Seq(Node) /\ Len(e) = 0
  OBVIOUS
<1> HIDE DEF e
<1>2. Leads(link, e) /\ 1 \in 1 .. Len(e) + 1
  BY <1>1 DEF Leads
<1>3. \A i \in Int : Nth(e, i) = NULL
  BY <1>1 DEF Nth
<1>4. \A k \in 0 .. Far : Walk(link, Nth(e, 1))[k] = Nth(e, 1 + k)
  <2>1. e \in Seq(Node)
    BY <1>1
  <2> QED
    BY <1>2, <2>1, WalkAlong
<1>5. \A k \in 0 .. Far : 1 + k \in Int
  BY Sizes
<1> QED
  BY <1>3, <1>4, <1>5 DEF End

LEMMA Found ==
    ASSUME NEW prv, NEW nxt, NEW s, Chain(prv, nxt, s), NEW i \in 1 .. Len(s)
    PROVE  /\ get_head(prv, s[i]) = s[1]
           /\ get_tail(nxt, s[i]) = s[Len(s)]
           /\ \A k \in Offset : get_offset(prv, nxt, s[i], k) = Nth(s, i + k)
<1>1. s \in Seq(Node) /\ Distinct(s) /\ Leads(nxt, s) /\ LeadsBack(prv, s, 1)
  BY DEF Chain
<1>2. get_head(prv, s[i]) = s[1]
  BY <1>1, HeadOfWalk DEF get_head
<1>3. get_tail(nxt, s[i]) = s[Len(s)]
  BY <1>1, EndOfWalk DEF get_tail
<1>4. ASSUME NEW k \in Offset PROVE get_offset(prv, nxt, s[i], k) = Nth(s, i + k)
  <2>1. k \in Int /\ i \in Int /\ i \in 1 .. Len(s) + 1 /\ Nth(s, i) = s[i]
    BY <1>1, Sizes DEF Offset, Nth
  <2>2. CASE k >= 0
    <3>1. k \in 0 .. Far
      BY <2>1, <2>2, Sizes DEF Offset
    <3>2. Walk(nxt, Nth(s, i))[k] = Nth(s, i + k)
      BY <1>1, <2>1, <3>1, WalkAlong
    <3> QED
      BY <2>1, <2>2, <3>2 DEF get_offset
  <2>3. CASE ~ k >= 0
    <3>1. -k \in 0 .. Far /\ i - (-k) = i + k
      BY <2>1, <2>3, Sizes DEF Offset
    <3>2. Walk(prv, s[i])[-k] = Nth(s, i - (-k))
      BY <1>1, <3>1, WalkBack
    <3> QED
      BY <2>1, <2>3, <3>1, <3>2 DEF get_offset
  <2> QED
    BY <2>2, <2>3
<1> QED
  BY <1>2, <1>3, <1>4

LEMMA FoundFromNull ==
    ASSUME NEW prv, NEW nxt, NEW k \in Offset
    PROVE  get_offset(prv, nxt, NULL, k) = NULL /\ get_head(prv, NULL) = NULL
<1>1. k >= 0 => k \in 0 .. Far
  BY Sizes DEF Offset
<1>2. ~ k >= 0 => -k \in 0 .. Far
  BY Sizes DEF Offset
<1> QED
  BY <1>1, <1>2, Nowhere DEF get_offset, get_head

\* The list that the client sees.
LEMMA ListOf ==
    ASSUME NEW nxt, NEW s \in Seq(Node), Distinct(s), Leads(nxt, s)
    PROVE  [i \in 1 .. Cardinality({k \in 0 .. Cardinality(Node) : Walk(nxt, Nth(s, 1))[k] # NULL})
               |-> Walk(nxt, Nth(s, 1))[i - 1]] = s
<1> DEFINE c == Cardinality({k \in 0 .. Cardinality(Node) : Walk(nxt, Nth(s, 1))[k] # NULL})
           w == Walk(nxt, Nth(s, 1))
<1>1. Len(s) \in Nat /\ 1 \in 1 .. Len(s) + 1 /\ Len(s) <= Cardinality(Node)
  BY Short
<1>2. c = Len(s)
  <2>1. c = Len(s) - 1 + 1
    BY <1>1, LengthOfWalk
  <2> QED
    BY <1>1, <2>1
<1>3. \A k \in 0 .. Far : w[k] = Nth(s, 1 + k)
  BY <1>1, WalkAlong
<1> HIDE DEF c, w
<1>4. \A i \in 1 .. Len(s) : w[i - 1] = s[i]
  <2>1. \A i \in 1 .. Len(s) : i - 1 \in 0 .. Far /\ 1 + (i - 1) = i
    BY <1>1, Sizes
  <2> QED
    BY <1>3, <2>1 DEF Nth
<1>5. s = [i \in 1 .. Len(s) |-> s[i]]
  OBVIOUS
<1>6. [i \in 1 .. c |-> w[i - 1]] = s
  BY <1>2, <1>4, <1>5
<1> QED
  BY <1>6 DEF c, w

LEMMA ListNow ==
    ASSUME NEW s, IsList(s)
    PROVE  List = s
<1>1. s \in Seq(Node) /\ Distinct(s) /\ Leads(next, s) /\ p_head = Nth(s, 1)
  BY DEF IsList
<1>2. List = [i \in 1 .. Cardinality({k \in 0 .. Cardinality(Node) : Walk(next, p_head)[k] # NULL})
                 |-> Walk(next, p_head)[i - 1]]
  BY DEF List, Steps
<1> QED
  BY <1>1, <1>2, ListOf

LEMMA ListNext ==
    ASSUME NEW s \in Seq(Node), Distinct(s), Leads(next', s), p_head' = Nth(s, 1)
    PROVE  List' = s
<1>1. List' = [i \in 1 .. Cardinality({k \in 0 .. Cardinality(Node) : Walk(next', p_head')[k] # NULL})
                  |-> Walk(next', p_head')[i - 1]]
  BY DEF List, Steps
<1> QED
  BY <1>1, ListOf
------------------------------------------------------------------------------
\* The operations.  Each makes the list that its lemma names.

\* t is the list after a call.
Becomes(t) == /\ prev' \in [Node -> Pointer] /\ next' \in [Node -> Pointer]
              /\ Chain(prev', next', t)
              /\ p_head' = Nth(t, 1)
              /\ \A i \in 1 .. Len(t) : t[i] \in allocated

LEMMA BecomesList == ASSUME NEW t, Becomes(t) PROVE List' = t
  BY ListNext DEF Becomes, Chain

LEMMA ListIs ==
    ASSUME PointersOK, ~ walking, NEW s, IsList(s)
    PROVE  /\ prev \in [Node -> Pointer] /\ next \in [Node -> Pointer]
           /\ Chain(prev, next, s)
           /\ p_head = Nth(s, 1)
           /\ \A i \in 1 .. Len(s) : s[i] \in allocated
           /\ s \in Seq(Node) /\ Len(s) \in Nat
           /\ List = s
<1>1. s \in Seq(Node) /\ Len(s) \in Nat /\ List = s
  BY ListNow DEF IsList
<1>2. Chain(prev, next, s)
  BY DEF IsList, Chain
<1> QED
  BY <1>1, <1>2 DEF IsList, PointersOK

LEMMA FreshNode ==
    ASSUME PointersOK, ~ walking, NEW s, IsList(s), NEW n \in Node, Fresh(n)
    PROVE  /\ n \in allocated
           /\ \A i \in 1 .. Len(s) : s[i] # n
           /\ \A j \in 1 .. Len(s) + 1 : \A i \in 1 .. Len(InsertAt(s, j, n)) :
                 InsertAt(s, j, n)[i] \in allocated
<1>1. /\ List = s /\ s \in Seq(Node) /\ Len(s) \in Nat
      /\ \A i \in 1 .. Len(s) : s[i] \in allocated
  BY ListIs
<1>2. n \in allocated /\ \A i \in 1 .. Len(s) : s[i] # n
  BY <1>1 DEF Fresh, InList
<1>3. \A i \in 1 .. Len(s) : s[i] \in allocated
  BY <1>1
<1>4. ASSUME NEW j \in 1 .. Len(s) + 1, NEW i \in 1 .. Len(InsertAt(s, j, n))
      PROVE  InsertAt(s, j, n)[i] \in allocated
  <2> DEFINE t == InsertAt(s, j, n)
  <2>1. /\ Len(t) = Len(s) + 1 /\ t[j] = n
        /\ \A k \in 1 .. j - 1 : t[k] = s[k]
        /\ \A k \in j + 1 .. Len(s) + 1 : t[k] = s[k - 1]
    <3>1. s \in Seq(Node)
      BY <1>1
    <3> HIDE DEF t
    <3> QED
      BY <3>1, Inserted DEF t
  <2>2. i \in 1 .. Len(s) + 1
    BY <2>1
  <2> HIDE DEF t
  <2>3. t[i] \in allocated
    <3>1. CASE i < j
      <4>1. i \in 1 .. j - 1 /\ i \in 1 .. Len(s)
        BY <1>1, <2>2, <3>1
      <4> QED
        BY <1>3, <2>1, <4>1
    <3>2. CASE i = j
      BY <1>2, <2>1, <3>2
    <3>3. CASE i > j
      <4>1. i \in j + 1 .. Len(s) + 1 /\ i - 1 \in 1 .. Len(s)
        BY <1>1, <2>2, <3>3
      <4> QED
        BY <1>3, <2>1, <4>1
    <3> QED
      BY <2>2, <3>1, <3>2, <3>3
  <2> QED
    BY <2>3 DEF t
<1> QED
  BY <1>2, <1>4

\* What the insertions have in common.
LEMMA Insertion ==
    ASSUME PointersOK, ~ walking, NEW s, IsList(s), NEW n \in Node, Fresh(n),
           NEW j \in 1 .. Len(s) + 1,
           prev' = SetIf(Set(prev, n, Nth(s, j - 1)), Nth(s, j), n),
           next' = SetIf(Set(next, n, Nth(s, j)), Nth(s, j - 1), n)
    PROVE  /\ get_head(prev', n) = Nth(InsertAt(s, j, n), 1)
           /\ p_head' = Nth(InsertAt(s, j, n), 1) => Becomes(InsertAt(s, j, n))
<1> DEFINE t == InsertAt(s, j, n)
<1>1. /\ prev \in [Node -> Pointer] /\ next \in [Node -> Pointer]
      /\ Chain(prev, next, s) /\ s \in Seq(Node) /\ Len(s) \in Nat
  BY ListIs
<1>2. /\ \A i \in 1 .. Len(s) : s[i] # n
      /\ \A i \in 1 .. Len(t) : t[i] \in allocated
  BY FreshNode
<1>3. prev' \in [Node -> Pointer] /\ next' \in [Node -> Pointer] /\ Chain(prev', next', t)
  BY <1>1, <1>2, InsertChain
<1>4. t \in Seq(Node) /\ Len(t) = Len(s) + 1 /\ t[j] = n
  <2>1. s \in Seq(Node)
    BY <1>1
  <2> QED
    BY <2>1, Inserted
<1> HIDE DEF t
<1>5. j \in 1 .. Len(t) /\ Nth(t, 1) = t[1]
  BY <1>1, <1>4 DEF Nth
<1>6. get_head(prev', t[j]) = t[1]
  BY <1>3, <1>5, Found
<1> QED
  BY <1>2, <1>3, <1>4, <1>5, <1>6 DEF t, Becomes

\* What the deletions have in common.
LEMMA Deletion ==
    ASSUME PointersOK, ~ walking, NEW s, IsList(s), NEW j \in 1 .. Len(s),
           prev' = SetIf(prev, Nth(s, j + 1), Nth(s, j - 1)),
           next' = SetIf(next, Nth(s, j - 1), Nth(s, j + 1))
    PROVE  /\ \A i \in 1 .. Len(s) - 1 :
                 get_head(prev', RemoveAt(s, j)[i]) = Nth(RemoveAt(s, j), 1)
           /\ p_head' = Nth(RemoveAt(s, j), 1) => Becomes(RemoveAt(s, j))
<1> DEFINE t == RemoveAt(s, j)
<1>1. /\ prev \in [Node -> Pointer] /\ next \in [Node -> Pointer]
      /\ Chain(prev, next, s) /\ s \in Seq(Node) /\ Len(s) \in Nat
  BY ListIs
<1>2. \A i \in 1 .. Len(s) : s[i] \in allocated
  BY ListIs
<1>3. prev' \in [Node -> Pointer] /\ next' \in [Node -> Pointer] /\ Chain(prev', next', t)
  BY <1>1, RemoveChain
<1>4. /\ t \in Seq(Node) /\ Len(t) = Len(s) - 1
      /\ \A i \in 1 .. j - 1 : t[i] = s[i]
      /\ \A i \in j .. Len(s) - 1 : t[i] = s[i + 1]
  <2>1. s \in Seq(Node)
    BY <1>1
  <2> QED
    BY <2>1, Removed
<1> HIDE DEF t
<1>5. ASSUME NEW i \in 1 .. Len(t) PROVE t[i] \in allocated
  <2>1. i \in 1 .. Len(s) - 1 /\ i \in 1 .. Len(s) /\ i + 1 \in 1 .. Len(s)
    BY <1>1, <1>4
  <2>2. CASE i < j
    BY <1>2, <1>4, <2>1, <2>2
  <2>3. CASE i >= j
    <3>1. i \in j .. Len(s) - 1
      BY <2>1, <2>3
    <3> QED
      BY <1>2, <1>4, <2>1, <3>1
  <2> QED
    BY <2>1, <2>2, <2>3
<1>6. ASSUME NEW i \in 1 .. Len(s) - 1 PROVE get_head(prev', t[i]) = Nth(t, 1)
  <2>1. i \in 1 .. Len(t) /\ Nth(t, 1) = t[1]
    BY <1>1, <1>4 DEF Nth
  <2> QED
    BY <1>3, <2>1, Found
<1> QED
  BY <1>3, <1>5, <1>6 DEF t, Becomes

LEMMA Unchanged ==
    ASSUME PointersOK, ~ walking, NEW s, IsList(s),
           UNCHANGED << prev, next >>, p_head' = Nth(s, 1)
    PROVE  Becomes(s)
  BY ListIs DEF Becomes

LEMMA InsertAtBeginning ==
    ASSUME PointersOK, ~ walking, NEW s, IsList(s), NEW n \in Node, insert_at_beginning(n)
    PROVE  Becomes(<< n >> \o s)
<1>1. s \in Seq(Node) /\ Len(s) \in Nat /\ p_head = Nth(s, 1)
  BY ListIs
<1>2. 1 \in 1 .. Len(s) + 1 /\ 1 - 1 = 0 /\ Nth(s, 0) = NULL
  BY <1>1 DEF Nth
<1>3. /\ Fresh(n) /\ p_head' = n
      /\ prev' = SetIf(Set(prev, n, Nth(s, 1 - 1)), Nth(s, 1), n)
      /\ next' = SetIf(Set(next, n, Nth(s, 1)), Nth(s, 1 - 1), n)
  BY <1>1, <1>2 DEF insert_at_beginning, SetIf
<1>4. Nth(InsertAt(s, 1, n), 1) = n
  BY <1>1, <1>2, PlacesInserted
<1>5. Becomes(InsertAt(s, 1, n))
  BY <1>2, <1>3, <1>4, Insertion
<1> QED
  BY <1>1, <1>5, Ends

LEMMA InsertAtEnd ==
    ASSUME PointersOK, ~ walking, NEW s, IsList(s), NEW n \in Node, insert_at_end(n)
    PROVE  Becomes(s \o << n >>)
<1>1. s \in Seq(Node) /\ Len(s) \in Nat /\ p_head = Nth(s, 1) /\ Chain(prev, next, s)
  BY ListIs
<1>2. get_tail(next, p_head) = Nth(s, Len(s))
  <2>1. CASE Len(s) = 0
    BY <1>1, <2>1, Nowhere DEF Nth, get_tail
  <2>2. CASE Len(s) > 0
    <3>1. 1 \in 1 .. Len(s) /\ p_head = s[1] /\ Nth(s, Len(s)) = s[Len(s)]
      BY <1>1, <2>2 DEF Nth
    <3> QED
      BY <1>1, <3>1, Found
  <2> QED
    BY <1>1, <2>1, <2>2
<1> DEFINE j == Len(s) + 1
<1>3. j \in 1 .. Len(s) + 1 /\ j - 1 = Len(s) /\ Nth(s, j) = NULL
  BY <1>1 DEF Nth
<1> HIDE DEF j
<1>4. /\ Fresh(n) /\ p_head' = get_head(prev', n)
      /\ prev' = SetIf(Set(prev, n, Nth(s, j - 1)), Nth(s, j), n)
      /\ next' = SetIf(Set(next, n, Nth(s, j)), Nth(s, j - 1), n)
  BY <1>2, <1>3 DEF insert_at_end, SetIf
<1>5. Becomes(InsertAt(s, j, n))
  BY <1>3, <1>4, Insertion
<1> QED
  BY <1>1, <1>5, Ends DEF j

\* p is the node at place i, or the list is empty.
LEMMA BaseIs ==
    ASSUME PointersOK, ~ walking, NEW s, IsList(s), NEW p \in Base
    PROVE  \/ p = NULL /\ s = << >>
           \/ \E i \in 1 .. Len(s) : p = s[i] /\ p # NULL /\ Index(p) = i
<1>1. s \in Seq(Node) /\ Len(s) \in Nat /\ p_head = Nth(s, 1) /\ List = s /\ Distinct(s)
  BY ListIs DEF Chain
<1>2. CASE p = NULL
  <2>1. Nth(s, 1) = NULL
    BY <1>1, <1>2 DEF Base
  <2>2. ~ 1 \in 1 .. Len(s)
    BY <1>1, <2>1, Places
  <2> QED
    BY <1>1, <1>2, <2>2
<1>3. CASE p # NULL
  <2>1. PICK i \in 1 .. Len(s) : s[i] = p
    BY <1>1, <1>3 DEF Base, InList
  <2>2. \A k \in 1 .. Len(s) : s[k] = p => k = i
    BY <1>1, <2>1 DEF Distinct
  <2>3. Index(p) = CHOOSE k \in 1 .. Len(s) : s[k] = p
    BY <1>1 DEF Index
  <2>4. Index(p) = i
    BY <2>1, <2>2, <2>3
  <2> QED
    BY <1>3, <2>1, <2>4
<1> QED
  BY <1>2, <1>3

LEMMA InsertAtPosition ==
    ASSUME PointersOK, ~ walking, NEW s, IsList(s),
           NEW n \in Node, NEW p \in Base, NEW k \in Offset, insert_at_position(p, n, k)
    PROVE  Becomes(IF p = NULL THEN << n >>
                   ELSE IF Index(p) + k \in 1 .. Len(s) THEN InsertAt(s, Index(p) + k, n) ELSE s)
<1>1. s \in Seq(Node) /\ Len(s) \in Nat /\ p_head = Nth(s, 1) /\ Chain(prev, next, s)
  BY ListIs
<1>2. Fresh(n) /\ k \in Int
  BY Sizes DEF insert_at_position, Offset
<1>3. CASE p = NULL /\ s = << >>
  <2>1. /\ 1 \in 1 .. Len(s) + 1 /\ 1 - 1 = 0
        /\ Nth(s, 0) = NULL /\ Nth(s, 1) = NULL
    BY <1>1, <1>3 DEF Nth
  <2>2. /\ prev' = SetIf(Set(prev, n, Nth(s, 1 - 1)), Nth(s, 1), n)
        /\ next' = SetIf(Set(next, n, Nth(s, 1)), Nth(s, 1 - 1), n)
        /\ p_head' = n
    BY <1>3, <2>1 DEF insert_at_position, SetIf
  <2>3. Nth(InsertAt(s, 1, n), 1) = n
    BY <1>1, <2>1, PlacesInserted
  <2>4. Becomes(InsertAt(s, 1, n))
    BY <1>2, <2>1, <2>2, <2>3, Insertion
  <2>5. InsertAt(s, 1, n) = << n >>
    <3>1. << n >> \o << >> = << n >>
      OBVIOUS
    <3> QED
      BY <1>1, <1>3, <3>1, Ends
  <2> QED
    BY <1>3, <2>4, <2>5
<1>4. ASSUME NEW i \in 1 .. Len(s), p = s[i], p # NULL, Index(p) = i
      PROVE  Becomes(IF i + k \in 1 .. Len(s) THEN InsertAt(s, i + k, n) ELSE s)
  <2>1. get_offset(prev, next, p, k) = Nth(s, i + k) /\ get_head(prev, p) = s[1]
    BY <1>1, <1>4, Found
  <2>2. i + k \in Int /\ s[1] = Nth(s, 1)
    BY <1>1, <1>2 DEF Nth
  <2>3. CASE i + k \in 1 .. Len(s)
    <3> DEFINE j == i + k
    <3>1. j \in 1 .. Len(s) /\ j \in 1 .. Len(s) + 1 /\ j - 1 \in Int
      BY <1>1, <2>3
    <3> HIDE DEF j
    <3>2. Nth(s, j) # NULL /\ Nth(s, j) \in Node /\ Nth(s, j) = s[j]
      BY <1>1, <3>1, Places
    <3>3. get_offset(prev, next, p, k) = Nth(s, j)
      BY <2>1 DEF j
    <3>4. prev[Nth(s, j)] = Nth(s, j - 1)
      BY <1>1, <3>1, ChainPlaces
    <3>5. /\ next' = SetIf(Set(next, n, Nth(s, j)), Nth(s, j - 1), n)
          /\ prev' = Set(Set(prev, n, Nth(s, j - 1)), Nth(s, j), n)
          /\ p_head' = get_head(prev', n)
      BY <1>4, <3>2, <3>3, <3>4 DEF insert_at_position
    <3>6. prev' = SetIf(Set(prev, n, Nth(s, j - 1)), Nth(s, j), n)
      BY <3>2, <3>5 DEF SetIf
    <3>7. Becomes(InsertAt(s, j, n))
      BY <1>2, <3>1, <3>5, <3>6, Insertion
    <3> QED
      BY <2>3, <3>7 DEF j
  <2>4. CASE i + k \notin 1 .. Len(s)
    <3>1. get_offset(prev, next, p, k) = NULL
      BY <2>1, <2>4 DEF Nth
    <3>2. UNCHANGED << prev, next >> /\ p_head' = Nth(s, 1)
      BY <1>4, <2>1, <2>2, <3>1 DEF insert_at_position
    <3>3. Becomes(s)
      BY <3>2, Unchanged
    <3> QED
      BY <2>4, <3>3
  <2> QED
    BY <2>3, <2>4
<1>5. CASE \E i \in 1 .. Len(s) : p = s[i] /\ p # NULL /\ Index(p) = i
  <2>1. PICK i \in 1 .. Len(s) : p = s[i] /\ p # NULL /\ Index(p) = i
    BY <1>5
  <2>2. Becomes(IF i + k \in 1 .. Len(s) THEN InsertAt(s, i + k, n) ELSE s)
    BY <1>4, <2>1
  <2> QED
    BY <2>1, <2>2
<1> QED
  BY <1>3, <1>5, BaseIs

\* A bad offset leaves the pointers alone.
LEMMA InsertNowhere ==
    ASSUME PointersOK, ~ walking, NEW s, IsList(s),
           NEW n \in Node, NEW p \in Base, NEW k \in Offset, insert_at_position(p, n, k),
           p # NULL, Index(p) + k \notin 1 .. Len(s)
    PROVE  UNCHANGED << prev, next >>
<1>1. Chain(prev, next, s)
  BY ListIs
<1>2. PICK i \in 1 .. Len(s) : p = s[i] /\ Index(p) = i
  BY BaseIs
<1>3. get_offset(prev, next, p, k) = Nth(s, i + k)
  BY <1>1, <1>2, Found
<1>4. get_offset(prev, next, p, k) = NULL
  BY <1>2, <1>3 DEF Nth
<1> QED
  BY <1>4 DEF insert_at_position

LEMMA DeleteFromBeginning ==
    ASSUME PointersOK, ~ walking, NEW s, IsList(s), delete_from_beginning
    PROVE  Becomes(RemoveAt(s, 1))
<1>1. s \in Seq(Node) /\ Len(s) \in Nat /\ p_head = Nth(s, 1) /\ Chain(prev, next, s)
  BY ListIs
<1>2. CASE p_head = NULL
  <2>1. ~ 1 \in 1 .. Len(s)
    BY <1>1, <1>2, Places
  <2>2. s = << >>
    BY <1>1, <2>1
  <2>3. UNCHANGED << prev, next >> /\ p_head' = Nth(s, 1)
    BY <1>1, <1>2 DEF delete_from_beginning, vars
  <2>4. Becomes(s)
    BY <2>3, Unchanged
  <2> QED
    BY <2>2, <2>4, NothingRemoved
<1>3. CASE p_head # NULL
  <2>1. 1 \in 1 .. Len(s)
    BY <1>1, <1>3, Places
  <2>2. /\ next[p_head] = Nth(s, 1 + 1) /\ Nth(s, 1 - 1) = NULL
        /\ Nth(RemoveAt(s, 1), 1) = Nth(s, 1 + 1)
    <3>1. Nth(s, 1 - 1) = NULL
      BY <1>1 DEF Nth
    <3>2. next[Nth(s, 1)] = Nth(s, 1 + 1)
      BY <1>1, <2>1, ChainPlaces
    <3>3. Nth(RemoveAt(s, 1), 1) = Nth(s, 1 + 1)
      BY <1>1, <2>1, PlacesRemoved
    <3> QED
      BY <1>1, <3>1, <3>2, <3>3
  <2>3. /\ prev' = SetIf(prev, Nth(s, 1 + 1), Nth(s, 1 - 1))
        /\ next' = SetIf(next, Nth(s, 1 - 1), Nth(s, 1 + 1))
        /\ p_head' = Nth(RemoveAt(s, 1), 1)
    BY <1>3, <2>2 DEF delete_from_beginning, SetIf
  <2> QED
    BY <2>1, <2>3, Deletion
<1> QED
  BY <1>2, <1>3

LEMMA DeleteFromEnd ==
    ASSUME PointersOK, ~ walking, NEW s, IsList(s), delete_from_end
    PROVE  Becomes(RemoveAt(s, Len(s)))
<1>1. s \in Seq(Node) /\ Len(s) \in Nat /\ p_head = Nth(s, 1) /\ Chain(prev, next, s)
  BY ListIs
<1>2. CASE Len(s) = 0
  <2>1. p_head = NULL /\ s = << >>
    BY <1>1, <1>2 DEF Nth
  <2>2. get_tail(next, p_head) = NULL
    BY <2>1, Nowhere DEF get_tail
  <2>3. UNCHANGED << prev, next >> /\ p_head' = Nth(s, 1)
    BY <1>1, <2>2 DEF delete_from_end, vars
  <2>4. Becomes(s)
    BY <2>3, Unchanged
  <2> QED
    BY <1>2, <2>1, <2>4, NothingRemoved
<1>3. CASE Len(s) > 0
  <2> DEFINE j == Len(s)
             p == s[j]
  <2>1. /\ j \in 1 .. Len(s) /\ 1 \in 1 .. Len(s) /\ j - 1 \in Int /\ p \in Node
        /\ Nth(s, j + 1) = NULL /\ Nth(s, j) = p /\ p_head = s[1] /\ p # NULL /\ Nth(s, 1) = s[1]
    BY <1>1, <1>3, Sizes DEF Nth
  <2> HIDE DEF j
  <2>2. get_tail(next, p_head) = p /\ get_head(prev, p) = s[1]
    BY <1>1, <2>1, Found DEF j
  <2>3. prev[p] = Nth(s, j - 1)
    <3>1. prev[Nth(s, j)] = Nth(s, j - 1)
      BY <1>1, <2>1, ChainPlaces
    <3> QED
      BY <2>1, <3>1
  <2> HIDE DEF p
  <2>4. /\ next' = SetIf(next, Nth(s, j - 1), Nth(s, j + 1))
        /\ prev' = SetIf(prev, Nth(s, j + 1), Nth(s, j - 1))
        /\ p_head' = IF Nth(s, j - 1) = NULL THEN NULL ELSE s[1]
    BY <2>1, <2>2, <2>3 DEF delete_from_end, SetIf
  <2>5. p_head' = Nth(RemoveAt(s, j), 1)
    <3>1. CASE j = 1
      <4>1. Nth(RemoveAt(s, j), 1) = Nth(s, j + 1)
        BY <1>1, <2>1, <3>1, PlacesRemoved
      <4>2. Nth(s, j - 1) = NULL
        BY <3>1 DEF Nth
      <4> QED
        BY <2>1, <2>4, <4>1, <4>2
    <3>2. CASE j # 1
      <4>1. 1 < j /\ j - 1 \in 1 .. Len(s)
        BY <1>1, <2>1, <3>2
      <4>2. Nth(RemoveAt(s, j), 1) = Nth(s, 1)
        BY <1>1, <2>1, <4>1, PlacesRemoved
      <4>3. Nth(s, j - 1) # NULL
        BY <1>1, <2>1, <4>1, Places
      <4> QED
        BY <2>1, <2>4, <4>2, <4>3
    <3> QED
      BY <3>1, <3>2
  <2>6. Becomes(RemoveAt(s, j))
    BY <2>1, <2>4, <2>5, Deletion
  <2> QED
    BY <2>6 DEF j
<1> QED
  BY <1>1, <1>2, <1>3

LEMMA DeleteFromPosition ==
    ASSUME PointersOK, ~ walking, NEW s, IsList(s),
           NEW p \in Base, NEW k \in Offset, delete_from_position(p, k)
    PROVE  Becomes(IF Len(s) > 1 /\ Index(p) + k \in 1 .. Len(s)
                   THEN RemoveAt(s, Index(p) + k) ELSE s)
<1>1. s \in Seq(Node) /\ Len(s) \in Nat /\ p_head = Nth(s, 1) /\ Chain(prev, next, s)
  BY ListIs
<1>2. k \in Int
  BY Sizes DEF Offset
<1>3. CASE p = NULL /\ s = << >>
  <2>1. get_offset(prev, next, p, k) = NULL /\ get_head(prev, p) = NULL
    BY <1>3, FoundFromNull
  <2>2. UNCHANGED << prev, next >> /\ p_head' = NULL
    BY <2>1 DEF delete_from_position
  <2>3. ~ Len(s) > 1 /\ Nth(s, 1) = NULL
    BY <1>3 DEF Nth
  <2>4. Becomes(s)
    BY <2>2, <2>3, Unchanged
  <2> QED
    BY <2>3, <2>4
<1>4. ASSUME NEW i \in 1 .. Len(s), p = s[i], p # NULL, Index(p) = i
      PROVE  Becomes(IF Len(s) > 1 /\ i + k \in 1 .. Len(s) THEN RemoveAt(s, i + k) ELSE s)
  <2>1. get_offset(prev, next, p, k) = Nth(s, i + k) /\ get_head(prev, p) = s[1]
    BY <1>1, <1>4, Found
  <2>2. i + k \in Int /\ s[1] = Nth(s, 1)
    BY <1>1, <1>2 DEF Nth
  <2>3. CASE i + k \in 1 .. Len(s)
    <3> DEFINE j == i + k
               a == Nth(s, j - 1)
               b == Nth(s, j + 1)
               t == RemoveAt(s, j)
    <3>1. j \in 1 .. Len(s) /\ j - 1 \in Int /\ j + 1 \in Int
      BY <1>1, <2>3
    <3> HIDE DEF j
    <3>2. Nth(s, j) # NULL
      BY <1>1, <3>1, Places
    <3>3. get_offset(prev, next, p, k) = Nth(s, j)
      BY <2>1 DEF j
    <3>4. prev[Nth(s, j)] = a /\ next[Nth(s, j)] = b
      BY <1>1, <3>1, ChainPlaces
    <3> HIDE DEF a, b
    <3>5. /\ next' = SetIf(next, a, b) /\ prev' = SetIf(prev, b, a)
          /\ p_head' = get_head(prev', IF b # NULL THEN b ELSE IF a # NULL THEN a ELSE p)
      BY <3>2, <3>3, <3>4 DEF delete_from_position
    <3>6. /\ \A m \in 1 .. Len(s) - 1 : get_head(prev', t[m]) = Nth(t, 1)
          /\ p_head' = Nth(t, 1) => Becomes(t)
      <4> HIDE DEF t
      <4> QED
        BY <3>1, <3>5, Deletion DEF a, b, t
    <3>7. /\ Len(t) = Len(s) - 1
          /\ \A m \in 1 .. j - 1 : t[m] = s[m]
          /\ \A m \in j .. Len(s) - 1 : t[m] = s[m + 1]
      <4>1. s \in Seq(Node)
        BY <1>1
      <4> QED
        BY <3>1, <4>1, Removed
    <3> HIDE DEF t
    <3>8. CASE b # NULL
      <4>1. j + 1 \in 1 .. Len(s) /\ b = s[j + 1]
        BY <3>1, <3>8 DEF b, Nth
      <4>2. j \in j .. Len(s) - 1 /\ j \in 1 .. Len(s) - 1 /\ Len(s) > 1
        BY <1>1, <3>1, <4>1
      <4>3. get_head(prev', b) = Nth(t, 1)
        BY <3>6, <3>7, <4>1, <4>2
      <4>4. Becomes(t)
        BY <3>5, <3>6, <3>8, <4>3
      <4> QED
        BY <2>3, <4>2, <4>4 DEF j, t
    <3>9. CASE b = NULL /\ a # NULL
      <4>1. j - 1 \in 1 .. Len(s) /\ a = s[j - 1]
        BY <3>1, <3>9 DEF a, Nth
      <4>2. j - 1 \in 1 .. j - 1 /\ j - 1 \in 1 .. Len(s) - 1 /\ Len(s) > 1
        BY <1>1, <3>1, <4>1
      <4>3. get_head(prev', a) = Nth(t, 1)
        BY <3>6, <3>7, <4>1, <4>2
      <4>4. Becomes(t)
        BY <3>5, <3>6, <3>9, <4>3
      <4> QED
        BY <2>3, <4>2, <4>4 DEF j, t
    <3>10. CASE b = NULL /\ a = NULL
      <4>1. j + 1 \notin 1 .. Len(s) /\ j - 1 \notin 1 .. Len(s)
        BY <1>1, <3>1, <3>10, Places DEF a, b
      <4>2. ~ Len(s) > 1
        BY <1>1, <3>1, <4>1
      <4>3. UNCHANGED << prev, next >>
        BY <3>5, <3>10 DEF SetIf
      <4>4. p_head' = Nth(s, 1)
        <5>1. p_head' = get_head(prev, p)
          BY <3>5, <3>10, <4>3
        <5> QED
          BY <2>1, <2>2, <5>1
      <4>5. Becomes(s)
        BY <4>3, <4>4, Unchanged
      <4> QED
        BY <4>2, <4>5
    <3> QED
      BY <3>8, <3>9, <3>10
  <2>4. CASE i + k \notin 1 .. Len(s)
    <3>1. get_offset(prev, next, p, k) = NULL
      BY <2>1, <2>4 DEF Nth
    <3>2. UNCHANGED << prev, next >> /\ p_head' = Nth(s, 1)
      BY <2>1, <2>2, <3>1 DEF delete_from_position
    <3>3. Becomes(s)
      BY <3>2, Unchanged
    <3> QED
      BY <2>4, <3>3
  <2> QED
    BY <2>3, <2>4
<1>5. CASE \E i \in 1 .. Len(s) : p = s[i] /\ p # NULL /\ Index(p) = i
  <2>1. PICK i \in 1 .. Len(s) : p = s[i] /\ p # NULL /\ Index(p) = i
    BY <1>5
  <2>2. Becomes(IF Len(s) > 1 /\ i + k \in 1 .. Len(s) THEN RemoveAt(s, i + k) ELSE s)
    BY <1>4, <2>1
  <2> QED
    BY <2>1, <2>2
<1> QED
  BY <1>3, <1>5, BaseIs
------------------------------------------------------------------------------
\* The invariant, and the steps between calls.

LEMMA Holds == ASSUME PointersOK, NEW s, IsList(s) PROVE IInv
  BY ListNow DEF IInv

LEMMA HoldsNext == ASSUME PointersOK', NEW s, IsList(s)' PROVE IInv' /\ List' = s
<1>1. s \in Seq(Node) /\ Distinct(s) /\ Leads(next', s) /\ p_head' = Nth(s, 1)
  BY DEF IsList
<1>2. List' = s
  BY <1>1, ListNext
<1> QED
  BY <1>2 DEF IInv

LEMMA Called ==
    ASSUME PointersOK, ~ walking, NEW t, Becomes(t), UNCHANGED memVars
    PROVE  IInv'
<1>1. PointersOK'
  BY DEF PointersOK, Becomes, memVars
<1>2. IsList(t)'
  BY DEF IsList, Becomes, Chain, memVars
<1> QED
  BY <1>1, <1>2, HoldsNext

LEMMA Allocation ==
    ASSUME PointersOK, ~ walking, NEW s, IsList(s), NEW n \in Node, Malloc(n)
    PROVE  IInv' /\ List' = List
<1>1. PICK p \in Pointer : prev' = Set(prev, n, p) /\ next' = Set(next, n, p)
  BY DEF Malloc
<1>2. PointersOK'
  BY <1>1 DEF Malloc, Set, PointersOK
<1>3. \A i \in 1 .. Len(s) : s[i] # n /\ s[i] \in Node
  BY DEF Malloc, IsList
<1>4. \A i \in 1 .. Len(s) : next'[s[i]] = next[s[i]] /\ prev'[s[i]] = prev[s[i]]
  BY <1>1, <1>3 DEF Set, PointersOK
<1>5. IsList(s)'
  BY <1>4 DEF Malloc, IsList, Leads, LeadsBack
<1> QED
  BY <1>2, <1>5, HoldsNext, ListNow

LEMMA Freeing ==
    ASSUME PointersOK, ~ walking, NEW s, IsList(s), NEW n \in Node, Free(n)
    PROVE  IInv' /\ List' = List
<1>1. /\ n \in allocated /\ allocated' = allocated \ {n}
      /\ prev' = Set(prev, n, NULL) /\ next' = Set(next, n, NULL)
      /\ p_head' = p_head /\ walking' = walking
  BY DEF Free, Fresh, Released
<1>2. PointersOK'
  BY <1>1 DEF Set, PointersOK, Pointer
<1>3. \A i \in 1 .. Len(s) : s[i] # n /\ s[i] \in Node
  BY FreshNode DEF Free, IsList
<1>4. \A i \in 1 .. Len(s) : next'[s[i]] = next[s[i]] /\ prev'[s[i]] = prev[s[i]]
  BY <1>1, <1>3 DEF Set, PointersOK
<1>5. IsList(s)'
  BY <1>1, <1>3, <1>4 DEF IsList, Leads, LeadsBack
<1> QED
  BY <1>2, <1>5, HoldsNext, ListNow

LEMMA Beginning ==
    ASSUME PointersOK, ~ walking, NEW s, IsList(s), walking' = TRUE,
           UNCHANGED << prev, next, p_head, allocated >>
    PROVE  IInv' /\ List' = List
<1>1. PointersOK'
  BY DEF PointersOK
<1>2. LeadsBack(prev', s, 2)
  BY DEF IsList, LeadsBack
<1>3. IsList(s)'
  BY <1>2 DEF IsList
<1> QED
  BY <1>1, <1>3, HoldsNext, ListNow

LEMMA Ending ==
    ASSUME PointersOK, walking, NEW s, IsList(s), EndDestroy
    PROVE  IInv' /\ List' = List
<1>1. PointersOK'
  BY DEF EndDestroy, PointersOK
<1>2. ~ 1 \in 1 .. Len(s)
  BY Places DEF EndDestroy, IsList
<1>3. LeadsBack(prev', s, 1)
  BY <1>2 DEF IsList, LeadsBack
<1>4. IsList(s)'
  BY <1>3 DEF IsList, EndDestroy
<1> QED
  BY <1>1, <1>4, HoldsNext, ListNow

\* p_head walks on, and the node that it leaves may be freed.
LEMMA WalkingOn ==
    ASSUME PointersOK, walking, NEW s, IsList(s), p_head # NULL, p_head' = next[p_head],
           walking' = walking, allocated' \in {allocated, allocated \ {p_head}},
           prev' \in {prev, Set(prev, p_head, NULL)}, next' \in {next, Set(next, p_head, NULL)}
    PROVE  IInv' /\ List' = RemoveAt(List, 1) /\ p_head = List[1]
<1> DEFINE t == RemoveAt(s, 1)
<1>1. s \in Seq(Node) /\ Len(s) \in Nat /\ Distinct(s) /\ p_head = Nth(s, 1)
  BY DEF IsList
<1>2. 1 \in 1 .. Len(s) /\ p_head = s[1] /\ p_head \in Node
  BY <1>1, Places
<1>3. PointersOK'
  BY <1>2 DEF PointersOK, Set, Pointer
<1>4. t \in Seq(Node) /\ Len(t) = Len(s) - 1 /\ \A i \in 1 .. Len(s) - 1 : t[i] = s[i + 1]
  <2>1. s \in Seq(Node)
    BY <1>1
  <2> QED
    BY <1>2, <2>1, Removed
<1>5. \A i \in Int : i >= 1 => Nth(t, i) = Nth(s, i + 1)
  BY <1>1, <1>2, PlacesRemoved
<1> HIDE DEF t
<1>6. \A i \in 1 .. Len(t) : /\ i + 1 \in 1 .. Len(s) /\ t[i] = s[i + 1]
                             /\ t[i] \in Node /\ t[i] # p_head
  <2>1. \A i \in 1 .. Len(t) : i + 1 \in 1 .. Len(s) /\ i + 1 # 1 /\ t[i] = s[i + 1]
    BY <1>1, <1>4
  <2> QED
    BY <1>1, <1>2, <2>1 DEF Distinct
<1>7. \A i \in 1 .. Len(t) : next'[t[i]] = next[t[i]] /\ prev'[t[i]] = prev[t[i]]
  BY <1>2, <1>6 DEF PointersOK, Set
<1>8. Distinct(t)
  <2>1. SUFFICES ASSUME NEW i \in 1 .. Len(t), NEW k \in 1 .. Len(t), t[i] = t[k] PROVE i = k
    BY DEF Distinct
  <2>2. s[i + 1] = s[k + 1] /\ i + 1 \in 1 .. Len(s) /\ k + 1 \in 1 .. Len(s)
    BY <1>6, <2>1
  <2>3. i + 1 = k + 1
    BY <1>1, <2>2 DEF Distinct
  <2> QED
    BY <2>3
<1>9. Leads(next', t)
  <2>1. SUFFICES ASSUME NEW i \in 1 .. Len(t) PROVE next'[t[i]] = Nth(t, i + 1)
    BY DEF Leads
  <2>2. next[s[i + 1]] = Nth(s, (i + 1) + 1)
    BY <1>6 DEF IsList, Leads
  <2>3. Nth(t, i + 1) = Nth(s, (i + 1) + 1)
    <3>1. i + 1 \in Int /\ i + 1 >= 1
      OBVIOUS
    <3> QED
      BY <1>5, <3>1
  <2> QED
    BY <1>6, <1>7, <2>2, <2>3
<1>10. LeadsBack(prev', t, 2)
  <2>1. SUFFICES ASSUME NEW i \in 2 .. Len(t) PROVE prev'[t[i]] = Nth(t, i - 1)
    BY DEF LeadsBack
  <2>2. i \in 1 .. Len(t) /\ i + 1 \in 2 .. Len(s) /\ (i + 1) - 1 = i /\ (i - 1) + 1 = i
        /\ i - 1 \in Int /\ i - 1 >= 1
    BY <1>1, <1>4
  <2>3. prev[s[i + 1]] = Nth(s, (i + 1) - 1)
    BY <2>2 DEF IsList, LeadsBack
  <2>4. Nth(t, i - 1) = Nth(s, i)
    BY <1>5, <2>2
  <2> QED
    BY <1>6, <1>7, <2>2, <2>3, <2>4
<1>11. p_head' = Nth(t, 1)
  <2>1. next[s[1]] = Nth(s, 1 + 1)
    BY <1>2 DEF IsList, Leads
  <2>2. Nth(t, 1) = Nth(s, 1 + 1)
    BY <1>5
  <2> QED
    BY <1>2, <2>1, <2>2
<1>12. \A i \in 1 .. Len(t) : t[i] \in allocated'
  BY <1>6 DEF IsList
<1>13. IsList(t)'
  BY <1>4, <1>8, <1>9, <1>10, <1>11, <1>12 DEF IsList
<1>14. IInv' /\ List' = t
  BY <1>3, <1>13, HoldsNext
<1>15. List = s
  BY ListNow
<1> QED
  BY <1>2, <1>14, <1>15 DEF t
------------------------------------------------------------------------------
\* What every step does.

LEMMA CallKeeps ==
    ASSUME IInv, ~ walking, UNCHANGED memVars,
           \/ \E n \in Node : insert_at_beginning(n) \/ insert_at_end(n)
           \/ \E n \in Node, p \in Base, k \in Offset : insert_at_position(p, n, k)
           \/ delete_from_beginning \/ delete_from_end
           \/ \E p \in Base, k \in Offset : delete_from_position(p, k)
    PROVE  IInv'
<1>1. PICK s : s = List
  OBVIOUS
<1>2. PointersOK /\ IsList(s)
  BY <1>1 DEF IInv
<1>3. ASSUME NEW t, Becomes(t) PROVE IInv'
  BY <1>2, <1>3, Called
<1>4. ASSUME NEW n \in Node, insert_at_beginning(n) PROVE IInv'
  BY <1>2, <1>3, <1>4, InsertAtBeginning
<1>5. ASSUME NEW n \in Node, insert_at_end(n) PROVE IInv'
  BY <1>2, <1>3, <1>5, InsertAtEnd
<1>6. ASSUME NEW n \in Node, NEW p \in Base, NEW k \in Offset, insert_at_position(p, n, k)
      PROVE  IInv'
  BY <1>2, <1>3, <1>6, InsertAtPosition
<1>7. CASE delete_from_beginning
  BY <1>2, <1>3, <1>7, DeleteFromBeginning
<1>8. CASE delete_from_end
  BY <1>2, <1>3, <1>8, DeleteFromEnd
<1>9. ASSUME NEW p \in Base, NEW k \in Offset, delete_from_position(p, k)
      PROVE  IInv'
  BY <1>2, <1>3, <1>9, DeleteFromPosition
<1> QED
  BY <1>4, <1>5, <1>6, <1>7, <1>8, <1>9

\* Between calls every operation has the meaning that SequenceStep gives it.
LEMMA CallDoes == ASSUME IInv, ~ walking PROVE SequenceStep
<1>1. PICK s : s = List
  OBVIOUS
<1>2. PointersOK /\ IsList(s)
  BY <1>1 DEF IInv
<1>3. ASSUME NEW n \in Node, insert_at_beginning(n) PROVE List' = << n >> \o List
  BY <1>1, <1>2, <1>3, InsertAtBeginning, BecomesList
<1>4. ASSUME NEW n \in Node, insert_at_end(n) PROVE List' = List \o << n >>
  BY <1>1, <1>2, <1>4, InsertAtEnd, BecomesList
<1>5. ASSUME NEW n \in Node, NEW p \in Base, NEW k \in Offset, insert_at_position(p, n, k)
      PROVE  IF p = NULL THEN List' = << n >>
             ELSE IF AtOffset(p, k) THEN List' = InsertAt(List, Index(p) + k, n)
             ELSE UNCHANGED << prev, next >>
  <2>1. List' = IF p = NULL THEN << n >>
                ELSE IF Index(p) + k \in 1 .. Len(List)
                THEN InsertAt(List, Index(p) + k, n) ELSE List
    BY <1>1, <1>2, <1>5, InsertAtPosition, BecomesList
  <2>2. p # NULL /\ ~ AtOffset(p, k) => UNCHANGED << prev, next >>
    BY <1>1, <1>2, <1>5, InsertNowhere DEF AtOffset
  <2> QED
    BY <2>1, <2>2 DEF AtOffset
<1>6. ASSUME delete_from_beginning PROVE List' = RemoveAt(List, 1)
  BY <1>1, <1>2, <1>6, DeleteFromBeginning, BecomesList
<1>7. ASSUME delete_from_end PROVE List' = RemoveAt(List, Len(List))
  BY <1>1, <1>2, <1>7, DeleteFromEnd, BecomesList
<1>8. ASSUME NEW p \in Base, NEW k \in Offset, delete_from_position(p, k)
      PROVE  IF ~ AtOffset(p, k) THEN List' = List
             ELSE Len(List) > 1 => List' = RemoveAt(List, Index(p) + k)
  <2>1. List' = IF Len(List) > 1 /\ Index(p) + k \in 1 .. Len(List)
                THEN RemoveAt(List, Index(p) + k) ELSE List
    BY <1>1, <1>2, <1>8, DeleteFromPosition, BecomesList
  <2>2. p = NULL => Len(List) = 0
    BY <1>1, <1>2, BaseIs
  <2> QED
    BY <2>1, <2>2 DEF AtOffset
<1> QED
  BY <1>3, <1>4, <1>5, <1>6, <1>7, <1>8 DEF SequenceStep

LEMMA InitHolds == ASSUME Init PROVE IInv /\ ~ walking
<1> DEFINE e == << >>
<1>1. e \in Seq(Node) /\ Len(e) = 0
  OBVIOUS
<1> HIDE DEF e
<1>2. IsList(e)
  BY <1>1 DEF Init, IsList, Distinct, Leads, LeadsBack, Nth
<1>3. PointersOK
  BY DEF Init, PointersOK, Pointer
<1> QED
  BY <1>2, <1>3, Holds DEF Init

LEMMA StepHolds == ASSUME IInv, [Next]_vars PROVE IInv' /\ SequenceStep
<1>1. PICK s : s = List
  OBVIOUS
<1>2. PointersOK /\ IsList(s)
  BY <1>1 DEF IInv
<1>3. CASE Call
  <2>1. IInv'
    BY <1>3, CallKeeps DEF Call
  <2> QED
    BY <1>3, <2>1, CallDoes DEF Call
<1>4. ASSUME NEW n \in Node, ~ walking, Malloc(n) \/ Free(n) PROVE IInv' /\ SequenceStep
  <2>1. IInv'
    BY <1>2, <1>4, Allocation, Freeing
  <2> QED
    BY <1>4, <2>1, CallDoes
<1>5. CASE BeginDestroy
  <2>1. IInv'
    BY <1>2, <1>5, Beginning DEF BeginDestroy
  <2> QED
    BY <1>5, <2>1, CallDoes DEF BeginDestroy
<1>6. CASE walking /\ DestroyNode
  <2>1. IInv' /\ List' = RemoveAt(List, 1) /\ p_head = List[1]
    BY <1>2, <1>6, WalkingOn DEF DestroyNode, Released
  <2> QED
    BY <1>6, <2>1 DEF DestroyNode, Released, SequenceStep
<1>7. CASE walking /\ EndDestroy
  <2>1. IInv'
    BY <1>2, <1>7, Ending
  <2> QED
    BY <1>7, <2>1 DEF EndDestroy, SequenceStep
<1>8. CASE UNCHANGED vars
  <2>1. UNCHANGED << prev, next, p_head, memVars >> /\ allocated' = allocated
    BY <1>8 DEF vars, memVars
  <2>2. PointersOK' /\ IsList(s)'
    BY <1>2, <2>1 DEF memVars, PointersOK, IsList
  <2>3. IInv'
    BY <2>2, HoldsNext
  <2>4. SequenceStep
    <3>1. CASE walking
      BY <2>1, <3>1 DEF SequenceStep
    <3>2. CASE ~ walking
      BY <3>2, CallDoes
    <3> QED
      BY <3>1, <3>2
  <2> QED
    BY <2>3, <2>4
<1> QED
  BY <1>3, <1>4, <1>5, <1>6, <1>7, <1>8 DEF Next, Memory

LEMMA TypeHolds == ASSUME IInv PROVE TypeOK
<1>1. PICK s : s = List
  OBVIOUS
<1>2. PointersOK /\ IsList(s)
  BY <1>1 DEF IInv
<1>3. s \in Seq(Node) /\ p_head = Nth(s, 1)
  BY <1>2 DEF IsList
<1>4. CASE 1 \in 1 .. Len(s)
  <2>1. p_head = s[1] /\ p_head \in allocated
    BY <1>2, <1>3, <1>4 DEF IsList, Nth
  <2>2. ~ walking => prev[p_head] = NULL
    <3>1. ASSUME ~ walking PROVE prev[s[1]] = Nth(s, 1 - 1)
      BY <1>2, <1>4, <3>1 DEF IsList, LeadsBack
    <3>2. Nth(s, 1 - 1) = NULL
      BY DEF Nth
    <3> QED
      BY <2>1, <3>1, <3>2
  <2> QED
    BY <1>2, <2>1, <2>2 DEF TypeOK, PointersOK
<1>5. CASE 1 \notin 1 .. Len(s)
  BY <1>2, <1>3, <1>5 DEF TypeOK, PointersOK, Nth
<1> QED
  BY <1>4, <1>5

LEMMA WellLinkedHolds == ASSUME IInv PROVE WellLinked
<1>1. PICK s : s = List
  OBVIOUS
<1>2. PointersOK /\ IsList(s)
  BY <1>1 DEF IInv
<1>3. \A i \in 1 .. Len(List) : List[i] \in allocated
  BY <1>1, <1>2 DEF IsList
<1>4. ASSUME ~ walking PROVE DoublyLinked /\ SameFromAnywhere
  <2>1. Chain(prev, next, s) /\ s \in Seq(Node) /\ Len(s) \in Nat
    BY <1>2, <1>4, ListIs
  <2>2. ASSUME NEW i \in 1 .. Len(s)
        PROVE  /\ prev[s[i]] = IF i = 1 THEN NULL ELSE s[i - 1]
               /\ next[s[i]] = IF i = Len(s) THEN NULL ELSE s[i + 1]
    <3>1. next[s[i]] = Nth(s, i + 1) /\ prev[s[i]] = Nth(s, i - 1)
      BY <2>1 DEF Chain, Leads, LeadsBack
    <3>2. Nth(s, i + 1) = IF i = Len(s) THEN NULL ELSE s[i + 1]
      BY <2>1 DEF Nth
    <3>3. Nth(s, i - 1) = IF i = 1 THEN NULL ELSE s[i - 1]
      BY <2>1 DEF Nth
    <3> QED
      BY <3>1, <3>2, <3>3
  <2>3. ASSUME NEW i \in 1 .. Len(s)
        PROVE  /\ get_head(prev, s[i]) = s[1]
               /\ get_tail(next, s[i]) = s[Len(s)]
               /\ size(s[i]) = Len(s)
               /\ \A k \in Offset : get_offset(prev, next, s[i], k) =
                                       IF i + k \in 1 .. Len(s) THEN s[i + k] ELSE NULL
    <3>1. /\ get_head(prev, s[i]) = s[1]
          /\ get_tail(next, s[i]) = s[Len(s)]
          /\ \A k \in Offset : get_offset(prev, next, s[i], k) = Nth(s, i + k)
      BY <2>1, Found
    <3>2. s[1] = Nth(s, 1) /\ 1 \in 1 .. Len(s) + 1
      BY <2>1 DEF Nth
    <3>3. Steps(s[1]) = Len(s) - 1 + 1
      <4>1. Distinct(s) /\ Leads(next, s) /\ s \in Seq(Node)
        BY <2>1 DEF Chain
      <4>2. Cardinality({k \in 0 .. Cardinality(Node) : Walk(next, Nth(s, 1))[k] # NULL})
               = Len(s) - 1 + 1
        BY <3>2, <4>1, LengthOfWalk
      <4> QED
        BY <3>2, <4>2 DEF Steps
    <3>4. size(s[i]) = Len(s)
      BY <2>1, <3>1, <3>3 DEF size
    <3>5. \A k \in Offset : Nth(s, i + k) = IF i + k \in 1 .. Len(s) THEN s[i + k] ELSE NULL
      BY DEF Nth
    <3> QED
      BY <3>1, <3>4, <3>5
  <2>4. DoublyLinked
    BY <1>1, <2>2 DEF DoublyLinked
  <2>5. SameFromAnywhere
    BY <1>1, <2>3 DEF SameFromAnywhere
  <2> QED
    BY <2>4, <2>5
<1> QED
  BY <1>3, <1>4 DEF WellLinked

LEMMA Invariance == Spec => []IInv
<1>1. Init => IInv
  BY InitHolds
<1>2. IInv /\ [Next]_vars => IInv'
  BY StepHolds
<1> QED
  BY <1>1, <1>2, PTL DEF Spec

\* Pointers point to nodes or are NULL, the client's p_head points to memory that
\* is allocated, and between calls at the first node (linked_list.c:8-16).
THEOREM TypeCorrect == Spec => []TypeOK
<1>1. IInv => TypeOK
  BY TypeHolds
<1> QED
  BY <1>1, Invariance, PTL

\* Whatever the client calls, from whichever node and with whichever offset,
\* the pointers are those of one doubly-linked list of allocated nodes, and
\* every walk of the library finds in it what it looks for
\* (linked_list.c:22-210), for any number of nodes.
THEOREM ListSound == Spec => []WellLinked
<1>1. IInv => WellLinked
  BY WellLinkedHolds
<1> QED
  BY <1>1, Invariance, PTL

\* Every function makes of the sequence of nodes what its description says
\* (linked_list.h:66-117), for any number of nodes and any offsets, in all cases
\* but two: nothing is claimed of the head that insert_at_position() returns if
\* the offset is bad, nor of delete_from_position() of the only node, in which
\* the code and its description disagree (see Returns).  DESTROY frees the nodes
\* in order (38-54).
THEOREM Sequences == Spec => SequenceSemantics
<1>1. IInv /\ [Next]_vars => [SequenceStep]_vars
  BY StepHolds
<1> QED
  BY <1>1, Invariance, PTL DEF Spec, SequenceSemantics
------------------------------------------------------------------------------
\* The letter counter is a client of the library too: it walks down its list
\* while it reports, and never before.

CounterInv == /\ IInv
              /\ pc \in {"open", "allocate", "insert", "read"} => ~ walking
              /\ pc = "report" => walking

LEMMA CounterInitHolds == ASSUME LettersInit PROVE CounterInv
<1>1. Init /\ pc = "open"
  BY DEF LettersInit, CounterInit
<1> QED
  BY <1>1, InitHolds DEF CounterInv

LEMMA CounterSteps ==
    ASSUME CounterInv, [LettersNext]_<< vars, counterVars >>
    PROVE  CounterInv' /\ (allocated' # allocated => ~ walking)
<1> USE DEF CounterInv
<1>1. PICK s : s = List
  OBVIOUS
<1>2. PointersOK /\ IsList(s)
  BY <1>1 DEF IInv
<1>3. ASSUME UNCHANGED << prev, next, p_head, walking, allocated >> PROVE IInv'
  <2>1. PointersOK' /\ IsList(s)'
    BY <1>2, <1>3 DEF PointersOK, IsList
  <2> QED
    BY <2>1, HoldsNext
<1>4. CASE OpenFile
  BY <1>3, <1>4 DEF OpenFile, vars, memVars
<1>5. CASE AllocateCount
  <2>1. PICK n \in Node : Malloc(n)
    BY <1>5 DEF AllocateCount
  <2>2. ~ walking /\ pc' = "insert"
    BY <1>5 DEF AllocateCount
  <2>3. IInv'
    BY <1>2, <2>1, <2>2, Allocation
  <2>4. walking' = walking
    BY <2>1 DEF Malloc
  <2> QED
    BY <2>2, <2>3, <2>4
<1>6. CASE InsertCount
  <2>1. ~ walking /\ insert_at_beginning(p_count) /\ UNCHANGED memVars /\ pc' = "allocate"
    BY <1>6 DEF InsertCount
  <2>2. p_count \in Node
    BY <1>2, <2>1 DEF insert_at_beginning, Fresh, PointersOK
  <2>3. Becomes(<< p_count >> \o s)
    BY <1>2, <2>1, <2>2, InsertAtBeginning
  <2>4. IInv'
    BY <1>2, <2>1, <2>3, Called
  <2> QED
    BY <2>1, <2>4 DEF memVars
<1>7. CASE ListBuilt
  BY <1>3, <1>7 DEF ListBuilt, vars, memVars
<1>8. CASE CountChar
  BY <1>3, <1>8 DEF CountChar, vars, memVars
<1>9. CASE EndOfFile
  <2>1. ~ walking /\ walking' = TRUE /\ UNCHANGED << prev, next, p_head, allocated >>
        /\ pc' = "report"
    BY <1>9 DEF EndOfFile
  <2>2. IInv'
    BY <1>2, <2>1, Beginning
  <2> QED
    BY <2>1, <2>2
<1>10. CASE ReportCount
  <2>1. /\ walking /\ p_head # NULL /\ p_head' = next[p_head] /\ pc' = pc
        /\ UNCHANGED << prev, next, allocated, walking >>
    BY <1>10 DEF ReportCount, memVars
  <2>2. IInv'
    BY <1>2, <2>1, WalkingOn
  <2> QED
    BY <1>10, <2>1, <2>2 DEF ReportCount
<1>11. CASE Return
  BY <1>3, <1>11 DEF Return, vars, memVars
<1>12. CASE UNCHANGED << vars, counterVars >>
  BY <1>3, <1>12 DEF vars, memVars, counterVars
<1> QED
  BY <1>4, <1>5, <1>6, <1>7, <1>8, <1>9, <1>10, <1>11, <1>12 DEF LettersNext

LEMMA CounterInvariance == LettersSpec => []CounterInv
<1>1. LettersInit => CounterInv
  BY CounterInitHolds
<1>2. CounterInv /\ [LettersNext]_<< vars, counterVars >> => CounterInv'
  BY CounterSteps
<1> QED
  BY <1>1, <1>2, PTL DEF LettersSpec

\* The letter counter passes to insert_at_beginning() only what it may, and the
\* list that it searches and walks is sound (letters.c:24-63), for any alphabet.
THEOREM CounterListSound == LettersSpec => [](TypeOK /\ WellLinked)
<1>1. CounterInv => TypeOK /\ WellLinked
  BY TypeHolds, WellLinkedHolds DEF CounterInv
<1> QED
  BY <1>1, CounterInvariance, PTL

\* The library does for the letter counter, which calls insert_at_beginning()
\* only (letters.c:40-45), what the description of that says.
THEOREM CounterSequences == LettersSpec => SequenceSemantics
<1>1. CounterInv /\ [LettersNext]_<< vars, counterVars >> => [SequenceStep]_vars
  <2>1. SUFFICES ASSUME CounterInv, [LettersNext]_<< vars, counterVars >> PROVE SequenceStep
    OBVIOUS
  <2>2. CASE walking
    BY <2>1, <2>2, CounterSteps DEF SequenceStep
  <2>3. CASE ~ walking
    BY <2>1, <2>3, CallDoes DEF CounterInv
  <2> QED
    BY <2>2, <2>3
<1> QED
  BY <1>1, CounterInvariance, PTL DEF LettersSpec, SequenceSemantics
------------------------------------------------------------------------------
\* What the letter counter reports.  Its list always ends with the last letter,
\* and each node has the count of its letter in the file so far.
Lettered == /\ Len(List) <= LastLetter - 64
            /\ \A i \in 1 .. Len(List) :
                  /\ letter[List[i]] = LastLetter - Len(List) + i
                  /\ count[List[i]] = Occurrences(LastLetter - Len(List) + i)

\* The letters before the first one of the list that have the target count.
Hits(last) == {l \in FirstLetter .. last : Occurrences(l) = LETTER_COUNT_TARGET}

Ascending(s) == \A i \in 2 .. Len(s) : s[i - 1] < s[i]
Members(s)   == {s[i] : i \in 1 .. Len(s)}

CounterTypes == /\ letter \in [Node -> Nat]
                /\ count \in [Node -> Nat]
                /\ file \in Seq(Character)
                /\ reported \in Seq(Nat)
                /\ pc \in {"open", "allocate", "insert", "read", "report", "return"}

Building == /\ ch = LastLetter - Len(List)
            /\ file = << >>
            /\ pc = "insert" => /\ p_count \in Node /\ ch >= FirstLetter
                                /\ letter[p_count] = ch /\ count[p_count] = 0

CountsInv == /\ CounterInv /\ CounterTypes /\ Lettered
             /\ pc \in {"open", "allocate", "insert"} => Building
             /\ pc = "open" => Len(List) = 0
             /\ pc = "read" => Len(List) = LastLetter - 64
             /\ pc \in {"open", "allocate", "insert", "read"} => reported = << >>
             /\ pc = "report" => /\ Ascending(reported)
                                 /\ Members(reported) = Hits(LastLetter - Len(List))
             /\ ReportsExact

\* Counting over a file.
LEMMA NoOccurrences == ASSUME file = << >>, NEW l \in Int PROVE Occurrences(l) = 0
<1>1. {i \in 1 .. Len(file) : file[i] \in {l, l + 32}} = {}
  OBVIOUS
<1> QED
  BY <1>1, FS_EmptySet DEF Occurrences

\* A character that is read is counted for one letter at most.
LEMMA OneMore ==
    ASSUME file \in Seq(Character), NEW c \in Character, file' = Append(file, c), NEW l \in Int
    PROVE  /\ Occurrences(l) \in Nat
           /\ Occurrences(l)' = Occurrences(l) + IF c \in {l, l + 32} THEN 1 ELSE 0
<1> DEFINE S == {i \in 1 .. Len(file) : file[i] \in {l, l + 32}}
           T == {i \in 1 .. Len(file') : file'[i] \in {l, l + 32}}
<1>1. Len(file) \in Nat /\ Len(file') = Len(file) + 1 /\ file'[Len(file) + 1] = c
      /\ \A i \in 1 .. Len(file) : file'[i] = file[i]
  OBVIOUS
<1>2. IsFiniteSet(S)
  <2>1. IsFiniteSet(1 .. Len(file))
    BY <1>1, FS_Interval
  <2> QED
    BY <2>1, FS_Subset
<1>3. T = IF c \in {l, l + 32} THEN S \cup {Len(file) + 1} ELSE S
  <2>1. T \subseteq S \cup {Len(file) + 1}
    BY <1>1
  <2>2. S \subseteq T
    BY <1>1
  <2>3. Len(file) + 1 \in T <=> c \in {l, l + 32}
    BY <1>1
  <2> QED
    BY <2>1, <2>2, <2>3
<1>4. Len(file) + 1 \notin S
  BY <1>1
<1>5. Occurrences(l) = Cardinality(S) /\ Occurrences(l)' = Cardinality(T)
  BY DEF Occurrences
<1> HIDE DEF S, T
<1>6. Cardinality(S) \in Nat
  BY <1>2, FS_CardinalityType
<1>7. Cardinality(S \cup {Len(file) + 1}) = Cardinality(S) + 1
  BY <1>2, <1>4, FS_AddElement
<1> QED
  BY <1>3, <1>5, <1>6, <1>7

\* Clearing bit 5 makes a letter of its lower case, and of nothing else.
LEMMA UpperIs ==
    ASSUME NEW c \in 0 .. 255, NEW l \in Alphabet
    PROVE  Upper(c) = l <=> c \in {l, l + 32}
<1>1. l \in 65 .. 90
  BY LettersAssumption DEF Alphabet, FirstLetter
<1>2. c = l => c \div 32 = 2
  BY <1>1
<1>3. c = l + 32 => c \div 32 = 3
  BY <1>1
<1>4. 2 % 2 = 0 /\ 3 % 2 = 1
  OBVIOUS
<1> QED
  BY <1>1, <1>2, <1>3, <1>4 DEF Upper

LEMMA LetterBounds ==
    /\ LastLetter \in 66 .. 90 /\ FirstLetter = 65 /\ Alphabet = 65 .. LastLetter
    /\ LastLetter - 64 <= MaxOffset /\ MaxOffset \in Nat
    /\ LETTER_COUNT_TARGET \in Nat /\ LETTER_COUNT_TARGET # 0
    /\ Character \subseteq 0 .. 255
<1>1. LastLetter \in 66 .. 90 /\ FirstLetter = 65 /\ Alphabet = 65 .. LastLetter
  BY LettersAssumption DEF Alphabet, FirstLetter
<1>2. Cardinality(65 .. LastLetter) = LastLetter - 65 + 1
  BY <1>1, FS_Interval
<1> QED
  BY <1>1, <1>2, LettersAssumption, LinkedListAssumption


\* What is said of the list and the file is so still if they are the same.
LEMMA SameFile ==
    ASSUME file' = file
    PROVE  \A l : Occurrences(l)' = Occurrences(l)
  BY DEF Occurrences

LEMMA SameList == ASSUME UNCHANGED << next, p_head >> PROVE List' = List
  BY DEF List, Steps

LEMMA ListTyped == ASSUME IInv PROVE /\ List \in Seq(Node) /\ Len(List) \in Nat
                                     /\ \A i \in 1 .. Len(List) : List[i] \in Node
<1>1. List \in Seq(Node)
  BY DEF IInv, IsList
<1> QED
  BY <1>1

LEMMA Carried ==
    ASSUME CountsInv, CounterInv', CounterTypes',
           UNCHANGED << letter, count, file, reported >>, List' = List,
           pc' \in {"open", "allocate", "insert"} => Building',
           pc' = "open" => pc = "open",
           pc' = "read" => Len(List) = LastLetter - 64,
           pc' \in {"allocate", "insert", "read"} => pc \in {"allocate", "insert", "read", "open"},
           pc' = "report" => /\ Ascending(reported)
                             /\ Members(reported) = Hits(LastLetter - Len(List)),
           pc' = "return" => /\ Ascending(reported)
                             /\ Members(reported) = Hits(LastLetter)
    PROVE  CountsInv'
<1>1. \A l : Occurrences(l)' = Occurrences(l)
  BY SameFile
<1>2. Lettered'
  BY <1>1 DEF CountsInv, Lettered
<1>3. \A l \in Int : Hits(l)' = Hits(l)
  BY <1>1 DEF Hits
<1>4. Ascending(reported)' <=> Ascending(reported)
  BY DEF Ascending
<1>5. Members(reported)' = Members(reported)
  BY DEF Members
<1>6. ReportsExact'
  BY <1>1, LetterBounds DEF ReportsExact, Ascending, Members, Hits
<1>7. (pc = "report" => /\ Ascending(reported)
                        /\ Members(reported) = Hits(LastLetter - Len(List)))'
  BY <1>3, <1>4, <1>5, <1>1 DEF Hits
<1> QED
  BY <1>2, <1>6, <1>7 DEF CountsInv

LEMMA NoHits ==
    ASSUME \A l \in Int : Occurrences(l) = 0, NEW n \in Int
    PROVE  Hits(n) = {}
  BY LetterBounds DEF Hits

LEMMA NothingReported ==
    /\ Ascending(<< >>) /\ Members(<< >>) = {} /\ Hits(64) = {}
  BY LetterBounds DEF Ascending, Members, Hits

LEMMA CountsOpen == ASSUME CountsInv, CounterInv', OpenFile PROVE CountsInv'
<1>1. /\ pc = "open" /\ pc' \in {"allocate", "return"}
      /\ UNCHANGED << vars, ch, p_count, letter, count, file, reported >>
  BY DEF OpenFile
<1>2. List' = List
  BY <1>1, SameList DEF vars
<1>3. CounterTypes'
  BY <1>1 DEF CountsInv, CounterTypes
<1>4. Building /\ reported = << >>
  BY <1>1 DEF CountsInv
<1>5. pc' = "allocate" => Building'
  BY <1>1, <1>2, <1>4 DEF Building
<1>6. Ascending(reported) /\ Members(reported) = Hits(LastLetter)
  <2>1. \A l \in Int : Occurrences(l) = 0
    BY <1>4, NoOccurrences DEF Building
  <2>2. Hits(LastLetter) = {}
    BY <2>1, NoHits, LetterBounds
  <2> QED
    BY <1>4, <2>2, NothingReported
<1> QED
  BY <1>1, <1>2, <1>3, <1>5, <1>6, Carried

LEMMA CountsBuilt == ASSUME CountsInv, CounterInv', ListBuilt PROVE CountsInv'
<1>1. /\ pc = "allocate" /\ ch < FirstLetter /\ pc' = "read"
      /\ UNCHANGED << vars, ch, p_count, letter, count, file, reported >>
  BY DEF ListBuilt
<1>2. List' = List
  BY <1>1, SameList DEF vars
<1>3. CounterTypes'
  BY <1>1 DEF CountsInv, CounterTypes
<1>4. Len(List) = LastLetter - 64
  <2>1. Len(List) \in Nat
    BY ListTyped DEF CountsInv, CounterInv
  <2> QED
    BY <1>1, <2>1, LetterBounds DEF CountsInv, Building, Lettered
<1> QED
  BY <1>1, <1>2, <1>3, <1>4, Carried

LEMMA CountsEnd == ASSUME CountsInv, CounterInv', EndOfFile PROVE CountsInv'
<1>1. /\ pc = "read" /\ pc' = "report"
      /\ UNCHANGED << prev, next, p_head, letter, count, file, reported >>
  BY DEF EndOfFile
<1>2. List' = List
  BY <1>1, SameList
<1>3. CounterTypes'
  BY <1>1 DEF CountsInv, CounterTypes
<1>4. LastLetter - Len(List) = 64 /\ reported = << >>
  BY <1>1, LetterBounds DEF CountsInv
<1>5. Ascending(reported) /\ Members(reported) = Hits(LastLetter - Len(List))
  BY <1>4, NothingReported
<1> QED
  BY <1>1, <1>2, <1>3, <1>5, Carried

LEMMA CountsReturn == ASSUME CountsInv, CounterInv', Return PROVE CountsInv'
<1>1. /\ pc = "report" /\ p_head = NULL /\ pc' = "return"
      /\ UNCHANGED << vars, ch, p_count, letter, count, file, reported >>
  BY DEF Return
<1>2. List' = List
  BY <1>1, SameList DEF vars
<1>3. CounterTypes'
  BY <1>1 DEF CountsInv, CounterTypes
<1>4. Len(List) = 0
  <2>1. IsList(List) /\ List \in Seq(Node) /\ Len(List) \in Nat
    BY ListTyped DEF CountsInv, CounterInv, IInv
  <2>2. ~ 1 \in 1 .. Len(List)
    BY <1>1, <2>1, Places DEF IsList
  <2> QED
    BY <2>1, <2>2
<1>5. Ascending(reported) /\ Members(reported) = Hits(LastLetter)
  <2>1. LastLetter - 0 = LastLetter
    BY LetterBounds
  <2> QED
    BY <1>1, <1>4, <2>1 DEF CountsInv
<1> QED
  BY <1>1, <1>2, <1>3, <1>5, Carried

LEMMA CountsIdle ==
    ASSUME CountsInv, CounterInv', UNCHANGED << vars, counterVars >> PROVE CountsInv'
<1>1. UNCHANGED << prev, next, p_head, pc, ch, p_count, letter, count, file, reported >>
  BY DEF vars, counterVars
<1>2. List' = List
  BY <1>1, SameList
<1>3. CounterTypes'
  BY <1>1 DEF CountsInv, CounterTypes
<1>4. Building => Building'
  BY <1>1, <1>2 DEF Building
<1>5. pc = "return" => Ascending(reported) /\ Members(reported) = Hits(LastLetter)
  BY LetterBounds DEF CountsInv, ReportsExact, Ascending, Members, Hits
<1> QED
  BY <1>1, <1>2, <1>3, <1>4, <1>5, Carried DEF CountsInv

LEMMA CountsAllocate == ASSUME CountsInv, CounterInv', AllocateCount PROVE CountsInv'
<1>1. PICK n \in Node : /\ Malloc(n) /\ p_count' = n
                        /\ letter' = [letter EXCEPT ![n] = ch]
                        /\ count' = [count EXCEPT ![n] = 0]
  BY DEF AllocateCount
<1>2. /\ pc = "allocate" /\ ch >= FirstLetter /\ pc' = "insert"
      /\ UNCHANGED << ch, file, reported >>
  BY DEF AllocateCount
<1>3. /\ PointersOK /\ ~ walking /\ IsList(List)
      /\ Len(List) \in Nat /\ \A i \in 1 .. Len(List) : List[i] \in Node /\ List[i] # n
  BY <1>1, <1>2, ListTyped DEF CountsInv, CounterInv, IInv, Malloc, IsList
<1>4. List' = List
  BY <1>1, <1>3, Allocation
<1>5. ch = LastLetter - Len(List) /\ file = << >> /\ ch \in Nat /\ reported = << >>
  <2>1. ch = LastLetter - Len(List) /\ file = << >> /\ reported = << >>
    BY <1>2 DEF CountsInv, Building
  <2>2. LastLetter - Len(List) \in Int /\ (LastLetter - Len(List) >= 65 => LastLetter - Len(List) \in Nat)
    BY <1>3, LetterBounds
  <2> QED
    BY <1>2, <2>1, <2>2, LetterBounds
<1>6. CounterTypes'
  BY <1>1, <1>2, <1>5 DEF CountsInv, CounterTypes
<1>7. \A i \in 1 .. Len(List) : letter'[List[i]] = letter[List[i]] /\ count'[List[i]] = count[List[i]]
  BY <1>1, <1>3 DEF CountsInv, CounterTypes
<1>8. \A l : Occurrences(l)' = Occurrences(l)
  BY <1>2, SameFile
<1>9. Lettered'
  BY <1>4, <1>7, <1>8 DEF CountsInv, Lettered
<1>10. Building'
  <2>1. letter'[n] = ch /\ count'[n] = 0
    BY <1>1 DEF CountsInv, CounterTypes
  <2> QED
    BY <1>1, <1>2, <1>4, <1>5, <2>1 DEF Building
<1> QED
  BY <1>2, <1>5, <1>6, <1>9, <1>10 DEF CountsInv, ReportsExact

LEMMA CountsInsert == ASSUME CountsInv, CounterInv', InsertCount PROVE CountsInv'
<1>1. /\ pc = "insert" /\ insert_at_beginning(p_count) /\ ch' = ch - 1 /\ pc' = "allocate"
      /\ UNCHANGED << memVars, p_count, letter, count, file, reported >>
  BY DEF InsertCount
<1>2. /\ Building /\ p_count \in Node /\ ch >= FirstLetter
      /\ letter[p_count] = ch /\ count[p_count] = 0 /\ reported = << >>
  BY <1>1 DEF CountsInv, Building
<1>3. PointersOK /\ ~ walking /\ IsList(List) /\ List \in Seq(Node) /\ Len(List) \in Nat
  BY <1>1, ListTyped DEF CountsInv, CounterInv, IInv
<1>4. List' = << p_count >> \o List
  BY <1>1, <1>2, <1>3, InsertAtBeginning, BecomesList
<1>5. /\ Len(List') = Len(List) + 1 /\ List'[1] = p_count
      /\ \A i \in 2 .. Len(List') : i - 1 \in 1 .. Len(List) /\ List'[i] = List[i - 1]
  BY <1>2, <1>3, <1>4
<1>6. \A l : Occurrences(l)' = Occurrences(l)
  BY <1>1, SameFile
<1>7. ch = LastLetter - Len(List) /\ ch \in Int /\ Occurrences(ch) = 0 /\ file = << >>
  BY <1>2, <1>3, NoOccurrences, LetterBounds DEF Building
<1>8. Lettered'
  <2>1. Len(List') <= LastLetter - 64
    BY <1>2, <1>3, <1>5, <1>7, LetterBounds
  <2>2. ASSUME NEW i \in 1 .. Len(List')
        PROVE  /\ letter[List'[i]] = LastLetter - Len(List') + i
               /\ count[List'[i]] = Occurrences(LastLetter - Len(List') + i)
    <3>1. CASE i = 1
      <4>1. LastLetter - Len(List') + i = ch
        BY <1>3, <1>5, <1>7, <3>1, LetterBounds
      <4> QED
        BY <1>2, <1>5, <1>7, <3>1, <4>1
    <3>2. CASE i # 1
      <4>1. i - 1 \in 1 .. Len(List) /\ List'[i] = List[i - 1]
        BY <1>3, <1>5, <3>2
      <4>2. LastLetter - Len(List') + i = LastLetter - Len(List) + (i - 1)
        BY <1>3, <1>5, LetterBounds
      <4> QED
        BY <4>1, <4>2 DEF CountsInv, Lettered
    <3> QED
      BY <3>1, <3>2
  <2> QED
    BY <1>1, <1>6, <2>1, <2>2 DEF Lettered
<1>9. ch' = LastLetter - Len(List')
  BY <1>1, <1>3, <1>5, <1>7, LetterBounds
<1>10. CounterTypes'
  BY <1>1 DEF CountsInv, CounterTypes
<1> QED
  BY <1>1, <1>2, <1>7, <1>8, <1>9, <1>10 DEF CountsInv, ReportsExact, Building

\* A letter is found where it stands, and only its count grows.
LEMMA CountsChar == ASSUME CountsInv, CounterInv', CountChar PROVE CountsInv'
<1>1. PICK c \in Character :
         /\ file' = Append(file, c)
         /\ IF Upper(c) \in Alphabet
            THEN LET n == get_offset(prev, next, p_head, Upper(c) - FirstLetter)
                 IN  p_count' = n /\ count' = [count EXCEPT ![n] = @ + 1]
            ELSE UNCHANGED << p_count, count >>
  BY DEF CountChar
<1>2. pc = "read" /\ UNCHANGED << vars, pc, ch, letter, reported >>
  BY DEF CountChar
<1>3. List' = List
  BY <1>2, SameList DEF vars
<1>4. /\ PointersOK /\ ~ walking /\ IsList(List) /\ List \in Seq(Node)
      /\ Len(List) = LastLetter - 64 /\ Len(List) \in 2 .. 26
      /\ \A i \in 1 .. Len(List) : List[i] \in Node
  <2>1. PointersOK /\ ~ walking /\ IsList(List) /\ Len(List) = LastLetter - 64
    BY <1>2 DEF CountsInv, CounterInv, IInv
  <2>2. List \in Seq(Node) /\ \A i \in 1 .. Len(List) : List[i] \in Node
    BY ListTyped DEF CountsInv, CounterInv
  <2>3. LastLetter - 64 \in 2 .. 26
    BY LetterBounds
  <2> QED
    BY <2>1, <2>2, <2>3
<1>5. \A i \in 1 .. Len(List) : /\ letter[List[i]] = 64 + i
                                /\ count[List[i]] = Occurrences(64 + i)
  <2>1. \A i \in 1 .. Len(List) : LastLetter - Len(List) + i = 64 + i
    BY <1>4, LetterBounds
  <2> QED
    BY <2>1 DEF CountsInv, Lettered
<1>6. \A l \in Int : /\ Occurrences(l) \in Nat
                     /\ Occurrences(l)' = Occurrences(l) + IF c \in {l, l + 32} THEN 1 ELSE 0
  BY <1>1, OneMore DEF CountsInv, CounterTypes
<1>7. \A l \in Alphabet : Upper(c) = l <=> c \in {l, l + 32}
  BY UpperIs, LetterBounds
<1>8. /\ count' \in [Node -> Nat]
      /\ \A i \in 1 .. Len(List) :
            count'[List[i]] = count[List[i]] + IF Upper(c) = 64 + i THEN 1 ELSE 0
  <2>1. CASE Upper(c) \in Alphabet
    <3> DEFINE k == Upper(c) - 64
    <3>1. k \in 1 .. Len(List) /\ Upper(c) = 64 + k /\ Upper(c) - FirstLetter \in Offset
          /\ 1 + (Upper(c) - FirstLetter) = k /\ 1 \in 1 .. Len(List)
      BY <1>4, <2>1, LetterBounds DEF Offset
    <3> HIDE DEF k
    <3>2. get_offset(prev, next, List[1], Upper(c) - FirstLetter) = Nth(List, k)
      <4>1. Chain(prev, next, List)
        BY <1>4, ListIs
      <4> QED
        BY <3>1, <4>1, Found
    <3>3. p_head = List[1] /\ Nth(List, k) = List[k] /\ Distinct(List)
      BY <1>4, <3>1 DEF IsList, Nth
    <3>4. count' = [count EXCEPT ![List[k]] = @ + 1]
      BY <1>1, <2>1, <3>2, <3>3
    <3>5. count \in [Node -> Nat] /\ List[k] \in Node
      BY <1>4, <3>1 DEF CountsInv, CounterTypes
    <3>6. \A i \in 1 .. Len(List) : List[i] = List[k] <=> i = k
      BY <3>1, <3>3 DEF Distinct
    <3>7. \A i \in 1 .. Len(List) : Upper(c) = 64 + i <=> i = k
      BY <3>1
    <3>8. count' \in [Node -> Nat]
      BY <3>4, <3>5
    <3>9. \A i \in 1 .. Len(List) :
             count'[List[i]] = count[List[i]] + IF i = k THEN 1 ELSE 0
      BY <1>4, <3>4, <3>5, <3>6
    <3> QED
      BY <3>7, <3>8, <3>9
  <2>2. CASE Upper(c) \notin Alphabet
    <3>1. \A i \in 1 .. Len(List) : 64 + i \in Alphabet
      BY <1>4, LetterBounds
    <3>2. count' = count /\ count \in [Node -> Nat]
      BY <1>1, <2>2 DEF CountsInv, CounterTypes
    <3>3. \A i \in 1 .. Len(List) : Upper(c) # 64 + i /\ count[List[i]] \in Nat
      BY <1>4, <2>2, <3>1, <3>2
    <3> QED
      BY <3>2, <3>3
  <2> QED
    BY <2>1, <2>2
<1>9. Lettered'
  <2>1. ASSUME NEW i \in 1 .. Len(List)
        PROVE  /\ letter[List[i]] = LastLetter - Len(List) + i
               /\ count'[List[i]] = Occurrences(LastLetter - Len(List) + i)'
    <3>1. LastLetter - Len(List) + i = 64 + i /\ 64 + i \in Alphabet /\ 64 + i \in Int
      BY <1>4, LetterBounds
    <3>2. Occurrences(64 + i)' = Occurrences(64 + i) + IF Upper(c) = 64 + i THEN 1 ELSE 0
      BY <1>6, <1>7, <3>1
    <3>3. /\ count'[List[i]] = count[List[i]] + IF Upper(c) = 64 + i THEN 1 ELSE 0
          /\ count[List[i]] = Occurrences(64 + i) /\ letter[List[i]] = 64 + i
      BY <1>5, <1>8
    <3>4. Occurrences(64 + i)' = Occurrences(LastLetter - Len(List) + i)'
      BY <1>2, <1>3, <3>1
    <3> QED
      BY <3>1, <3>2, <3>3, <3>4
  <2> QED
    BY <1>2, <1>3, <1>4, <2>1 DEF Lettered
<1>10. CounterTypes'
  BY <1>1, <1>2, <1>8 DEF CountsInv, CounterTypes
<1> QED
  BY <1>2, <1>3, <1>4, <1>9, <1>10 DEF CountsInv, ReportsExact

LEMMA CountsReport == ASSUME CountsInv, CounterInv', ReportCount PROVE CountsInv'
<1>1. /\ pc = "report" /\ pc' = pc /\ p_head # NULL /\ p_head' = next[p_head]
      /\ reported' = IF count[p_head] = LETTER_COUNT_TARGET
                     THEN Append(reported, letter[p_head]) ELSE reported
      /\ UNCHANGED << prev, next, memVars, letter, count, file >>
  BY DEF ReportCount
<1>2. PointersOK /\ walking /\ IsList(List) /\ List \in Seq(Node) /\ Len(List) \in Nat
  BY <1>1, ListTyped DEF CountsInv, CounterInv, IInv
<1>3. List' = RemoveAt(List, 1) /\ p_head = List[1]
  BY <1>1, <1>2, WalkingOn DEF memVars
<1>4. 1 \in 1 .. Len(List)
  BY <1>1, <1>2, Places DEF IsList
<1>5. Len(List') = Len(List) - 1 /\ \A i \in 1 .. Len(List') : List'[i] = List[i + 1]
  BY <1>2, <1>3, <1>4, Removed
<1> DEFINE l == LastLetter - Len(List) + 1
<1>6. /\ l \in FirstLetter .. LastLetter /\ LastLetter - Len(List) = l - 1
      /\ LastLetter - Len(List') = l
  BY <1>2, <1>4, <1>5, LetterBounds DEF CountsInv, Lettered
<1>7. letter[p_head] = l /\ count[p_head] = Occurrences(l)
  BY <1>3, <1>4 DEF CountsInv, Lettered
<1>8. \A k : Occurrences(k)' = Occurrences(k)
  BY <1>1, SameFile
<1>9. Lettered'
  <2>1. Len(List') <= LastLetter - 64
    BY <1>2, <1>5, LetterBounds DEF CountsInv, Lettered
  <2>2. ASSUME NEW i \in 1 .. Len(List')
        PROVE  /\ letter[List'[i]] = LastLetter - Len(List') + i
               /\ count[List'[i]] = Occurrences(LastLetter - Len(List') + i)
    <3>1. i + 1 \in 1 .. Len(List) /\ List'[i] = List[i + 1]
          /\ LastLetter - Len(List') + i = LastLetter - Len(List) + (i + 1)
      BY <1>2, <1>5, LetterBounds
    <3> QED
      BY <3>1 DEF CountsInv, Lettered
  <2> QED
    BY <1>1, <1>8, <2>1, <2>2 DEF Lettered
<1>10. Ascending(reported) /\ Members(reported) = Hits(l - 1) /\ reported \in Seq(Nat)
  BY <1>1, <1>6 DEF CountsInv, CounterTypes
<1>11. \A k \in Int : Hits(k)' = Hits(k)
  BY <1>8 DEF Hits
<1> HIDE DEF l
<1>12. l \in Nat /\ l >= 65
  BY <1>6, LetterBounds
<1>13. Hits(l) = Hits(l - 1) \cup {k \in {l} : Occurrences(k) = LETTER_COUNT_TARGET}
  BY <1>12, LetterBounds DEF Hits
<1>14. reported' \in Seq(Nat) /\ Ascending(reported') /\ Members(reported') = Hits(l)
  <2>1. CASE Occurrences(l) = LETTER_COUNT_TARGET
    <3>1. reported' = Append(reported, l)
      BY <1>1, <1>7, <2>1
    <3>2. /\ Len(reported) \in Nat /\ Len(reported') = Len(reported) + 1
          /\ reported'[Len(reported) + 1] = l
          /\ \A i \in 1 .. Len(reported) : reported'[i] = reported[i]
      BY <1>10, <1>12, <3>1
    <3>3. \A i \in 1 .. Len(reported) : reported[i] < l
      <4>1. \A i \in 1 .. Len(reported) : reported[i] \in Hits(l - 1)
        BY <1>10 DEF Members
      <4> QED
        BY <1>12, <4>1, LetterBounds DEF Hits
    <3>4. Ascending(reported')
      BY <1>10, <3>2, <3>3 DEF Ascending
    <3>5. Members(reported') = Members(reported) \cup {l}
      BY <3>2 DEF Members
    <3>6. Hits(l) = Hits(l - 1) \cup {l}
      BY <1>13, <2>1
    <3> QED
      BY <1>10, <1>12, <3>1, <3>4, <3>5, <3>6
  <2>2. CASE Occurrences(l) # LETTER_COUNT_TARGET
    <3>1. reported' = reported
      BY <1>1, <1>7, <2>2
    <3>2. Hits(l) = Hits(l - 1)
      BY <1>13, <2>2
    <3> QED
      BY <1>10, <3>1, <3>2
  <2> QED
    BY <2>1, <2>2
<1>15. CounterTypes'
  BY <1>1, <1>14 DEF CountsInv, CounterTypes
<1>16. (Ascending(reported) /\ Members(reported) = Hits(LastLetter - Len(List)))'
  BY <1>6, <1>8, <1>12, <1>14 DEF Ascending, Members, Hits
<1> QED
  BY <1>1, <1>9, <1>15, <1>16 DEF CountsInv, ReportsExact

LEMMA CountsInitHolds == ASSUME LettersInit PROVE CountsInv
<1>1. /\ pc = "open" /\ Init /\ ch = LastLetter /\ file = << >> /\ reported = << >>
      /\ letter = [n \in Node |-> 0] /\ count = [n \in Node |-> 0]
  BY DEF LettersInit, CounterInit
<1>2. CounterInv
  BY CounterInitHolds
<1>3. Len(List) = 0
  <2>1. IsList(List) /\ List \in Seq(Node) /\ Len(List) \in Nat
    BY <1>2, ListTyped DEF CounterInv, IInv
  <2>2. p_head = NULL
    BY <1>1 DEF Init
  <2>3. ~ 1 \in 1 .. Len(List)
    BY <2>1, <2>2, Places DEF IsList
  <2> QED
    BY <2>1, <2>3
<1>4. Building
  BY <1>1, <1>3, LetterBounds DEF Building
<1>5. Lettered
  <2>1. \A i \in 1 .. 0 : FALSE
    OBVIOUS
  <2>2. 0 <= LastLetter - 64
    BY LetterBounds
  <2> QED
    BY <1>3, <2>1, <2>2 DEF Lettered
<1>6. CounterTypes
  BY <1>1 DEF CounterTypes
<1> QED
  BY <1>1, <1>2, <1>3, <1>4, <1>5, <1>6 DEF CountsInv, ReportsExact

\* When the counter returns it has reported the letters that occur as often as
\* LETTER_COUNT_TARGET says, and no others, in their order (letters.c:41-63): for
\* every alphabet, every file of characters, and whichever node malloc() returns.
THEOREM Reports == LettersSpec => []ReportsExact
<1>1. LettersInit => CountsInv
  BY CountsInitHolds
<1>2. CountsInv /\ [LettersNext]_<< vars, counterVars >> => CountsInv'
  <2>1. SUFFICES ASSUME CountsInv, [LettersNext]_<< vars, counterVars >> PROVE CountsInv'
    OBVIOUS
  <2>2. CounterInv'
    BY <2>1, CounterSteps DEF CountsInv
  <2> QED
    BY <2>1, <2>2, CountsOpen, CountsAllocate, CountsInsert, CountsBuilt, CountsChar,
       CountsEnd, CountsReport, CountsReturn, CountsIdle DEF LettersNext
<1>3. CountsInv => ReportsExact
  BY DEF CountsInv
<1> QED
  BY <1>1, <1>2, <1>3, PTL DEF LettersSpec
==============================================================================
