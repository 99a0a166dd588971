--------------------------- MODULE MenuTreeProofs ---------------------------
(***************************************************************************)
(* Proofs about the tree of a menu, for every limit and every number of     *)
(* items: the page's items always are a tree within the limits, whose rows  *)
(* are numbered through (MenuIsATree), and every move keeps the tree and     *)
(* lands where it was dropped (MovesAreSound).                              *)
(*                                                                         *)
(* The recursion of the code is the least set closed under children, so     *)
(* what would be an induction over the tree is here a closed set that is    *)
(* exhibited (BelowLeast).  The argument: what is under a node is described  *)
(* from above and from below (BelowTop, BelowBottom); in a tree nothing is  *)
(* under itself (NoCycles) and two nodes above a third are one above the    *)
(* other (Chain), hence the order of the rows is a strict total order       *)
(* (Before...).  Indent, outdent, swap and drop all are moves of one item to *)
(* another list that keep the order of everything else (Reparents), from    *)
(* which the rest follows once for all of them (Moved...).                  *)
(***************************************************************************)
EXTENDS MenuTree, FiniteSetTheorems, SequenceTheorems, TLAPS

TreeLists == [Nodes -> Seq(Keys)]

\* i is at a place of its own.
OnePlace(c) ==
    \A p, q \in Nodes : \A i \in DOMAIN c[p], j \in DOMAIN c[q] : c[p][i] = c[q][j] => p = q /\ i = j

-----------------------------------------------------------------------------
(* What is under a node. *)

LEMMA NodeFacts == Menu \notin Keys /\ Keys \subseteq Nodes /\ Menu \in Nodes /\ Keys \subseteq Nat
BY DEF Menu, Keys, Nodes

\* Membership of a list, by its places.
LEMMA InRange ==
  ASSUME NEW c \in TreeLists, NEW p \in Nodes
  PROVE  /\ Range(c[p]) \subseteq Keys
         /\ \A k : k \in Range(c[p]) <=> \E i \in DOMAIN c[p] : c[p][i] = k
         /\ \A i \in DOMAIN c[p] : c[p][i] \in Keys
         /\ DOMAIN c[p] = 1 .. Len(c[p]) /\ Len(c[p]) \in Nat
<1>1. c[p] \in Seq(Keys)
  BY DEF TreeLists
<1>2. \A i \in DOMAIN c[p] : c[p][i] \in Keys
  BY <1>1, LenProperties, ElementOfSeq
<1>. QED  BY <1>1, <1>2, LenProperties DEF Range

LEMMA ListElements ==
  ASSUME NEW S, NEW s \in Seq(S)
  PROVE  \A i \in 1 .. Len(s) : s[i] \in S
BY ElementOfSeq

LEMMA ListOver ==
  ASSUME NEW c \in TreeLists, NEW p \in Nodes, NEW S \in SUBSET Keys
  PROVE  c[p] \in Seq(S) <=> Range(c[p]) \subseteq S
<1>1. c[p] \in Seq(Keys)
  BY DEF TreeLists
<1>2. ASSUME c[p] \in Seq(S)  PROVE Range(c[p]) \subseteq S
  <2>1. PICK s : s = c[p]
    OBVIOUS
  <2>2. \A i \in 1 .. Len(s) : s[i] \in S
    <3>1. s \in Seq(S)
      BY <1>2, <2>1
    <3>. QED  BY <3>1, ListElements
  <2>3. \A k \in Range(c[p]) : \E i \in 1 .. Len(c[p]) : c[p][i] = k
    BY <1>1, LenProperties DEF Range
  <2>. QED  BY <2>1, <2>2, <2>3
<1>3. ASSUME Range(c[p]) \subseteq S  PROVE c[p] \in Seq(S)
  <2>1. Len(c[p]) \in Nat /\ c[p] = [i \in 1 .. Len(c[p]) |-> c[p][i]]
    BY <1>1, LenProperties, SeqDef
  <2>2. \A i \in 1 .. Len(c[p]) : c[p][i] \in S
    BY <1>3, InRange
  <2>3. c[p] \in [1 .. Len(c[p]) -> S]
    BY <2>1, <2>2
  <2>. QED  BY <2>1, <2>3, SeqDef
<1>. QED  BY <1>2, <1>3

LEMMA BelowClosed ==
  ASSUME NEW c \in TreeLists, NEW k \in Nodes
  PROVE  /\ Below(c, k) \subseteq Keys
         /\ Range(c[k]) \subseteq Below(c, k)
         /\ \A p \in Below(c, k) : Range(c[p]) \subseteq Below(c, k)
<1>1. Below(c, k) \subseteq Keys
  BY DEF Below
<1>2. ASSUME NEW p \in Below(c, k) \union {k}, NEW j \in Range(c[p])  PROVE j \in Below(c, k)
  <2>1. p \in Nodes /\ j \in Keys
    BY <1>1, <1>2, InRange, NodeFacts
  <2>2. ASSUME NEW S \in SUBSET Keys, \A q \in S \union {k} : c[q] \in Seq(S)  PROVE j \in S
    <3>1. p \in S \union {k}
      BY <1>2, <2>2 DEF Below
    <3>2. Range(c[p]) \subseteq S
      BY <2>1, <2>2, <3>1, ListOver
    <3>. QED  BY <1>2, <3>2
  <2>. QED  BY <2>1, <2>2 DEF Below
<1>. QED  BY <1>1, <1>2

\* Induction over what is under a node.
LEMMA BelowLeast ==
  ASSUME NEW c \in TreeLists, NEW k \in Nodes, NEW S \in SUBSET Keys, Range(c[k]) \subseteq S,
         \A p \in S : Range(c[p]) \subseteq S
  PROVE  Below(c, k) \subseteq S
<1>1. \A p \in S \union {k} : c[p] \in Seq(S)
  BY ListOver, NodeFacts
<1>. QED  BY <1>1 DEF Below

LEMMA BelowTransitive ==
  ASSUME NEW c \in TreeLists, NEW k \in Nodes, NEW p \in Below(c, k)
  PROVE  Below(c, p) \subseteq Below(c, k)
<1>. DEFINE S == Below(c, k)
<1>1. p \in Nodes /\ S \in SUBSET Keys /\ Range(c[p]) \subseteq S /\ \A q \in S : Range(c[q]) \subseteq S
  BY BelowClosed, NodeFacts
<1>. HIDE DEF S
<1>2. Below(c, p) \subseteq S
  BY <1>1, BelowLeast
<1>. QED  BY <1>2 DEF S

\* From above: it is in the subtree of a child.
LEMMA BelowTop ==
  ASSUME NEW c \in TreeLists, NEW k \in Nodes, NEW j \in Below(c, k)
  PROVE  \E a \in DOMAIN c[k] : j \in Subtree(c, c[k][a])
<1>1. PICK S : S = {x \in Keys : \E a \in DOMAIN c[k] : x \in Subtree(c, c[k][a])}
  OBVIOUS
<1>2. ASSUME NEW x \in Range(c[k])  PROVE x \in S
  <2>1. x \in Keys /\ \E a \in DOMAIN c[k] : c[k][a] = x
    BY InRange DEF Range
  <2>2. x \in Subtree(c, x)
    BY DEF Subtree
  <2>. QED  BY <1>1, <2>1, <2>2
<1>3. ASSUME NEW p \in S  PROVE Range(c[p]) \subseteq S
  <2>1. PICK a \in DOMAIN c[k] : p \in Subtree(c, c[k][a])
    BY <1>1, <1>3
  <2>2. p \in Nodes /\ c[k][a] \in Nodes
    BY <1>1, <1>3, InRange, NodeFacts
  <2>3. Range(c[p]) \subseteq Subtree(c, c[k][a])
    BY <2>1, <2>2, BelowClosed DEF Subtree
  <2>. QED  BY <1>1, <2>2, <2>3, InRange
<1>4. S \in SUBSET Keys
  BY <1>1
<1>5. Below(c, k) \subseteq S
  BY <1>2, <1>3, <1>4, BelowLeast
<1>. QED  BY <1>1, <1>5

\* From below: it is the child of the node or of something under it.
LEMMA BelowBottom ==
  ASSUME NEW c \in TreeLists, NEW k \in Nodes, NEW j \in Below(c, k)
  PROVE  \E p \in Subtree(c, k) : p \in Nodes /\ j \in Range(c[p])
<1>1. PICK S : S = {x \in Keys : x \in Below(c, k) /\ \E p \in Subtree(c, k) : p \in Nodes /\ x \in Range(c[p])}
  OBVIOUS
<1>2. Range(c[k]) \subseteq S
  BY <1>1, InRange, BelowClosed DEF Subtree
<1>3. ASSUME NEW p \in S  PROVE Range(c[p]) \subseteq S
  <2>1. p \in Nodes /\ p \in Below(c, k) /\ p \in Subtree(c, k)
    BY <1>1, <1>3, NodeFacts DEF Subtree
  <2>2. Range(c[p]) \subseteq Below(c, k) /\ Range(c[p]) \subseteq Keys
    BY <2>1, BelowClosed, InRange
  <2>. QED  BY <1>1, <2>1, <2>2
<1>4. S \in SUBSET Keys
  BY <1>1
<1>5. Below(c, k) \subseteq S
  BY <1>2, <1>3, <1>4, BelowLeast
<1>. QED  BY <1>1, <1>5

\* A forest: every item has one place, and nothing is under itself.
Forest(c) == c \in TreeLists /\ OnePlace(c) /\ \A k \in Keys : k \notin Below(c, k)

LEMMA OneParent ==
  ASSUME NEW c \in TreeLists, OnePlace(c), NEW p \in Nodes, NEW q \in Nodes, NEW k,
         k \in Range(c[p]), k \in Range(c[q])
  PROVE  p = q
<1>1. PICK i \in DOMAIN c[p] : c[p][i] = k
  BY DEF Range
<1>2. PICK j \in DOMAIN c[q] : c[q][j] = k
  BY DEF Range
<1>. QED  BY <1>1, <1>2 DEF OnePlace

\* In a tree nothing is under itself.
LEMMA NoCycles ==
  ASSUME NEW c, IsTree(c)
  PROVE  Forest(c)
<1>1. c \in TreeLists /\ OnePlace(c)
  BY DEF IsTree, TreeLists, OnePlace
<1>2. PICK S : S = {k \in Keys : k \notin Below(c, k)}
  OBVIOUS
<1>3. \A x \in Keys, p \in Nodes : x \in Range(c[p]) /\ x \in Below(c, x) => p \in Subtree(c, x)
  <2>1. SUFFICES ASSUME NEW x \in Keys, NEW p \in Nodes, x \in Range(c[p]), x \in Below(c, x)
                 PROVE  p \in Subtree(c, x)
    OBVIOUS
  <2>2. PICK q \in Subtree(c, x) : q \in Nodes /\ x \in Range(c[q])
    BY <1>1, <2>1, BelowBottom, NodeFacts
  <2>3. p = q
    BY <1>1, <2>1, <2>2, OneParent
  <2>. QED  BY <2>2, <2>3
<1>4. Range(c[Menu]) \subseteq S
  <2>1. ASSUME NEW x \in Range(c[Menu]), x \in Below(c, x)  PROVE FALSE
    <3>1. x \in Keys
      BY <1>1, <2>1, InRange, NodeFacts
    <3>2. Menu \in Subtree(c, x) /\ Below(c, x) \subseteq Keys
      BY <1>1, <1>3, <2>1, <3>1, NodeFacts, BelowClosed
    <3>. QED  BY <3>1, <3>2, NodeFacts DEF Subtree
  <2>. QED  BY <1>1, <1>2, <2>1, InRange, NodeFacts
<1>5. ASSUME NEW p \in S  PROVE Range(c[p]) \subseteq S
  <2>1. p \in Keys /\ p \in Nodes /\ p \notin Below(c, p)
    BY <1>2, <1>5, NodeFacts
  <2>2. ASSUME NEW x \in Range(c[p]), x \in Below(c, x)  PROVE FALSE
    <3>1. x \in Keys /\ x \in Nodes /\ x \in Below(c, p)
      BY <1>1, <2>1, <2>2, InRange, BelowClosed, NodeFacts
    <3>2. p \in Subtree(c, x)
      BY <1>3, <2>1, <2>2, <3>1
    <3>3. p # x
      BY <2>1, <3>1
    <3>4. p \in Below(c, p)
      BY <1>1, <2>1, <3>1, <3>2, <3>3, BelowTransitive DEF Subtree
    <3>. QED  BY <2>1, <3>4
  <2>. QED  BY <1>1, <1>2, <2>1, <2>2, InRange
<1>6. Items(c) \subseteq S
  BY <1>1, <1>2, <1>4, <1>5, BelowLeast, NodeFacts DEF Items
<1>7. ASSUME NEW k \in Keys, k \in Below(c, k)  PROVE FALSE
  <2>1. k \in Items(c)
    <3>1. SUFFICES ASSUME k \notin Items(c)  PROVE FALSE
      OBVIOUS
    <3>2. c[k] = <<>>
      BY <1>7, <3>1 DEF IsTree
    <3>3. PICK a \in DOMAIN c[k] : k \in Subtree(c, c[k][a])
      BY <1>1, <1>7, BelowTop, NodeFacts
    <3>4. DOMAIN c[k] = 1 .. Len(c[k]) /\ Len(c[k]) = 0
      BY <1>1, <3>2, InRange, NodeFacts
    <3>. QED  BY <3>3, <3>4
  <2>. QED  BY <1>2, <1>6, <1>7, <2>1
<1>. QED  BY <1>1, <1>7 DEF Forest

\* Two nodes above a third are one above the other.
LEMMA Chain ==
  ASSUME NEW c, Forest(c), NEW p \in Nodes, NEW q \in Nodes, NEW j,
         j \in Subtree(c, p), j \in Subtree(c, q)
  PROVE  p = q \/ p \in Below(c, q) \/ q \in Below(c, p)
<1>. USE DEF Forest
<1>1. PICK S : S = {x \in Keys : x \in Subtree(c, q) => p = q \/ p \in Below(c, q) \/ q \in Below(c, p)}
  OBVIOUS
<1>2. ASSUME NEW r \in Nodes, r \in Subtree(c, p), r \in S \/ r = p, NEW x \in Range(c[r])
      PROVE  x \in S
  <2>0. x \in Keys /\ x \in Below(c, p)
    BY <1>2, InRange, BelowClosed DEF Subtree
  <2>1. SUFFICES ASSUME x \in Subtree(c, q)
                 PROVE  p = q \/ p \in Below(c, q) \/ q \in Below(c, p)
    BY <1>1, <2>0
  <2>2. CASE x = q
    BY <2>0, <2>2
  <2>3. CASE x \in Below(c, q)
    <3>1. r \in Subtree(c, q)
      BY <1>2, <2>3, BelowBottom, OneParent
    <3>. QED  BY <1>1, <1>2, <3>1 DEF Subtree
  <2>. QED  BY <2>1, <2>2, <2>3 DEF Subtree
<1>3. PICK T : T = {x \in S : x \in Below(c, p)}
  OBVIOUS
<1>4. T \in SUBSET Keys
  BY <1>1, <1>3
<1>5. Range(c[p]) \subseteq T
  BY <1>2, <1>3, BelowClosed DEF Subtree
<1>6. \A r \in T : Range(c[r]) \subseteq T
  BY <1>1, <1>2, <1>3, BelowClosed, NodeFacts DEF Subtree
<1>7. Below(c, p) \subseteq T
  BY <1>4, <1>5, <1>6, BelowLeast
<1>8. CASE j = p
  BY <1>8 DEF Subtree
<1>9. CASE j \in Below(c, p)
  BY <1>1, <1>3, <1>7, <1>9
<1>. QED  BY <1>8, <1>9 DEF Subtree

-----------------------------------------------------------------------------
(* The order of the rows. *)

\* i is shown above j: j is under it, or under a sibling after it.
MetBefore(c, i, j) ==
    \/ j \in Below(c, i)
    \/ \E p \in Nodes : \E a, b \in DOMAIN c[p] :
         a < b /\ i \in Subtree(c, c[p][a]) /\ j \in Subtree(c, c[p][b])

LEMMA OrderIsBefore ==
  ASSUME NEW c \in TreeLists
  PROVE  \A i, j \in Items(c) : <<i, j>> \in Order(c) <=> MetBefore(c, i, j)
<1>. SUFFICES ASSUME NEW i \in Items(c), NEW j \in Items(c)
              PROVE  <<i, j>> \in Order(c) <=> MetBefore(c, i, j)
  OBVIOUS
<1>1. i \in Keys /\ j \in Keys /\ i \in Nodes
  BY BelowClosed, NodeFacts DEF Items
<1>. DEFINE apart(p)  == {pair \in (DOMAIN c[p]) \X (DOMAIN c[p]) : pair[1] < pair[2]}
            across(p) == UNION {Subtree(c, c[p][pair[1]]) \X Subtree(c, c[p][pair[2]]) : pair \in apart(p)}
<1>2. \A p \in Nodes : <<i, j>> \in across(p) <=>
        \E a, b \in DOMAIN c[p] : a < b /\ i \in Subtree(c, c[p][a]) /\ j \in Subtree(c, c[p][b])
  <2>1. ASSUME NEW p \in Nodes, NEW a \in DOMAIN c[p], NEW b \in DOMAIN c[p], a < b,
               i \in Subtree(c, c[p][a]), j \in Subtree(c, c[p][b])
        PROVE  <<i, j>> \in across(p)
    <3>1. <<a, b>> \in apart(p)
      BY <2>1
    <3>2. <<i, j>> \in Subtree(c, c[p][<<a, b>>[1]]) \X Subtree(c, c[p][<<a, b>>[2]])
      BY <2>1
    <3>. QED  BY <3>1, <3>2
  <2>2. ASSUME NEW p \in Nodes, <<i, j>> \in across(p)
        PROVE  \E a, b \in DOMAIN c[p] : a < b /\ i \in Subtree(c, c[p][a]) /\ j \in Subtree(c, c[p][b])
    <3>1. PICK pair \in apart(p) : <<i, j>> \in Subtree(c, c[p][pair[1]]) \X Subtree(c, c[p][pair[2]])
      BY <2>2
    <3>2. pair[1] \in DOMAIN c[p] /\ pair[2] \in DOMAIN c[p] /\ pair[1] < pair[2]
      BY <3>1
    <3>. QED  BY <3>1, <3>2
  <2>. QED  BY <2>1, <2>2
<1>3. <<i, j>> \in Order(c) <=> \E p \in Nodes : <<i, j>> \in {p} \X Below(c, p) \/ <<i, j>> \in across(p)
  BY DEF Order
<1>. HIDE DEF across
<1>4. (\E p \in Nodes : <<i, j>> \in {p} \X Below(c, p)) <=> j \in Below(c, i)
  BY <1>1
<1>. QED  BY <1>2, <1>3, <1>4 DEF MetBefore

\* The parent of what is under a node is in the node's subtree.
LEMMA ParentUnder ==
  ASSUME NEW c, c \in TreeLists, OnePlace(c), NEW k \in Nodes, NEW p \in Nodes, NEW j,
         j \in Below(c, k), j \in Range(c[p])
  PROVE  p \in Subtree(c, k)
BY BelowBottom, OneParent

\* What is in one sibling's subtree is in no other's.
LEMMA SiblingsApart ==
  ASSUME NEW c, Forest(c), NEW p \in Nodes, NEW a \in DOMAIN c[p], NEW b \in DOMAIN c[p], NEW j,
         j \in Subtree(c, c[p][a]), j \in Subtree(c, c[p][b])
  PROVE  a = b
<1>1. c \in TreeLists /\ OnePlace(c)
  BY DEF Forest
<1>2. c[p][a] \in Keys /\ c[p][b] \in Keys /\ c[p][a] \in Nodes /\ c[p][b] \in Nodes
      /\ c[p][a] \in Range(c[p]) /\ c[p][b] \in Range(c[p])
  BY <1>1, InRange, NodeFacts DEF Range
<1>3. ASSUME NEW x \in Range(c[p]), NEW y \in Range(c[p]), x \in Below(c, y)  PROVE FALSE
  <2>1. x \in Keys /\ y \in Keys /\ y \in Nodes
    BY <1>1, InRange, NodeFacts
  <2>2. p \in Subtree(c, y)
    BY <1>1, <1>3, <2>1, ParentUnder
  <2>3. p \in Keys
    BY <1>1, <2>1, <2>2, BelowClosed DEF Subtree
  <2>4. y \in Below(c, p)
    BY <1>1, BelowClosed
  <2>5. y \in Below(c, y)
    BY <1>1, <2>1, <2>2, <2>4, BelowTransitive DEF Subtree
  <2>. QED  BY <2>1, <2>5 DEF Forest
<1>4. c[p][a] = c[p][b]
  BY <1>2, <1>3, Chain
<1>. QED  BY <1>1, <1>4 DEF OnePlace

LEMMA SubtreeFacts ==
  ASSUME NEW c \in TreeLists, NEW k \in Keys
  PROVE  /\ Subtree(c, k) \subseteq Keys /\ k \in Subtree(c, k)
         /\ \A p \in Subtree(c, k) : Below(c, p) \subseteq Subtree(c, k) /\ Subtree(c, p) \subseteq Subtree(c, k)
         /\ \A p \in Subtree(c, k) : Range(c[p]) \subseteq Below(c, k)
<1>1. k \in Nodes /\ Below(c, k) \subseteq Keys
  BY NodeFacts, BelowClosed
<1>. QED  BY <1>1, BelowTransitive, BelowClosed DEF Subtree

\* A node with a list in a subtree, or all of it in one.
LEMMA Nested ==
  ASSUME NEW c, Forest(c), NEW p \in Nodes, NEW a \in DOMAIN c[p], NEW y \in Keys, NEW j,
         j \in Subtree(c, c[p][a]), j \in Subtree(c, y)
  PROVE  \/ y = c[p][a]
         \/ y \in Below(c, c[p][a])
         \/ p = y
         \/ p \in Below(c, y)
<1>1. c \in TreeLists /\ OnePlace(c)
  BY DEF Forest
<1>2. c[p][a] \in Nodes /\ c[p][a] \in Range(c[p]) /\ y \in Nodes
  BY <1>1, InRange, NodeFacts DEF Range
<1>3. \/ y = c[p][a] \/ y \in Below(c, c[p][a]) \/ c[p][a] \in Below(c, y)
  BY <1>2, Chain
<1>4. c[p][a] \in Below(c, y) => p \in Subtree(c, y)
  BY <1>1, <1>2, ParentUnder
<1>. QED  BY <1>3, <1>4 DEF Subtree

LEMMA BeforeAsymmetric ==
  ASSUME NEW c, Forest(c), NEW x \in Keys, NEW y \in Keys, MetBefore(c, x, y), MetBefore(c, y, x)
  PROVE  FALSE
<1>1. c \in TreeLists /\ OnePlace(c) /\ x \in Nodes /\ y \in Nodes
  BY NodeFacts DEF Forest
<1>2. ASSUME NEW u \in Keys, NEW v \in Keys, v \in Below(c, u), MetBefore(c, v, u)  PROVE FALSE
  <2>1. CASE u \in Below(c, v)
    <3>1. u \in Below(c, u)
      BY <1>1, <1>2, <2>1, BelowTransitive, NodeFacts
    <3>. QED  BY <3>1 DEF Forest
  <2>2. ASSUME NEW p \in Nodes, NEW a \in DOMAIN c[p], NEW b \in DOMAIN c[p],
               a < b, v \in Subtree(c, c[p][a]), u \in Subtree(c, c[p][b])
        PROVE  FALSE
    <3>1. c[p][b] \in Keys
      BY <1>1, InRange
    <3>2. v \in Subtree(c, c[p][b])
      BY <1>1, <1>2, <2>2, <3>1, SubtreeFacts
    <3>3. a = b
      BY <2>2, <3>2, SiblingsApart
    <3>. QED  BY <1>1, <2>2, <3>3, InRange
  <2>. QED  BY <1>2, <2>1, <2>2 DEF MetBefore
<1>3. ASSUME NEW p \in Nodes, NEW a \in DOMAIN c[p], NEW b \in DOMAIN c[p],
             a < b, x \in Subtree(c, c[p][a]), y \in Subtree(c, c[p][b]),
             NEW q \in Nodes, NEW d \in DOMAIN c[q], NEW e \in DOMAIN c[q],
             d < e, y \in Subtree(c, c[q][d]), x \in Subtree(c, c[q][e])
      PROVE  FALSE
  <2>1. c[p][a] \in Keys /\ c[p][b] \in Keys /\ c[q][d] \in Keys /\ c[q][e] \in Keys /\ a \in Int /\ b \in Int /\ d \in Int /\ e \in Int
    BY <1>1, InRange
  <2>2. \/ c[q][e] = c[p][a] \/ c[q][e] \in Below(c, c[p][a]) \/ p \in Subtree(c, c[q][e])
    BY <1>3, <2>1, Nested DEF Subtree
  <2>3. CASE c[q][e] = c[p][a]
    <3>1. p = q /\ e = a
      BY <1>1, <2>3 DEF OnePlace
    <3>2. b = d
      BY <1>3, <3>1, SiblingsApart
    <3>. QED  BY <1>3, <2>1, <3>1, <3>2
  <2>4. CASE c[q][e] \in Below(c, c[p][a])
    <3>1. q \in Subtree(c, c[p][a])
      BY <1>1, <2>1, <2>4, ParentUnder, NodeFacts DEF Range
    <3>2. y \in Below(c, q)
      <4>1. c[q][d] \in Below(c, q)
        BY <1>1, BelowClosed DEF Range
      <4>. QED  BY <1>1, <1>3, <4>1, BelowTransitive DEF Subtree
    <3>3. y \in Subtree(c, c[p][a])
      BY <1>1, <2>1, <3>1, <3>2, SubtreeFacts
    <3>4. a = b
      BY <1>3, <3>3, SiblingsApart
    <3>. QED  BY <1>3, <2>1, <3>4
  <2>5. CASE p \in Subtree(c, c[q][e])
    <3>2. y \in Below(c, p)
      <4>1. c[p][b] \in Below(c, p)
        BY <1>1, BelowClosed DEF Range
      <4>. QED  BY <1>1, <1>3, <4>1, BelowTransitive DEF Subtree
    <3>3. y \in Subtree(c, c[q][e])
      BY <1>1, <2>1, <2>5, <3>2, SubtreeFacts
    <3>4. d = e
      BY <1>3, <3>3, SiblingsApart
    <3>. QED  BY <1>3, <2>1, <3>4
  <2>. QED  BY <2>2, <2>3, <2>4, <2>5
<1>. QED  BY <1>2, <1>3 DEF MetBefore

\* What a node's list leads to is under the node.
LEMMA ChildSubtree ==
  ASSUME NEW c \in TreeLists, NEW p \in Nodes, NEW a \in DOMAIN c[p]
  PROVE  c[p][a] \in Keys /\ Subtree(c, c[p][a]) \subseteq Below(c, p) /\ c[p][a] \in Range(c[p]) /\ a \in Int
<1>1. c[p][a] \in Keys /\ c[p][a] \in Range(c[p]) /\ a \in Int
  BY InRange DEF Range
<1>2. c[p][a] \in Below(c, p)
  BY <1>1, BelowClosed
<1>. QED  BY <1>1, <1>2, BelowTransitive DEF Subtree

LEMMA BeforeTransitive ==
  ASSUME NEW c, Forest(c), NEW x \in Keys, NEW y \in Keys, NEW z \in Keys,
         MetBefore(c, x, y), MetBefore(c, y, z)
  PROVE  MetBefore(c, x, z)
<1>1. c \in TreeLists /\ OnePlace(c) /\ x \in Nodes /\ y \in Nodes
  BY NodeFacts DEF Forest
<1>2. CASE y \in Below(c, x) /\ z \in Below(c, y)
  BY <1>1, <1>2, BelowTransitive DEF MetBefore
<1>3. ASSUME y \in Below(c, x), NEW p \in Nodes, NEW a \in DOMAIN c[p], NEW b \in DOMAIN c[p],
             a < b, y \in Subtree(c, c[p][a]), z \in Subtree(c, c[p][b])
      PROVE  MetBefore(c, x, z)
  <2>1. x \in Subtree(c, c[p][a]) \/ p \in Subtree(c, x)
    <3>1. y \in Subtree(c, x)
      BY <1>3 DEF Subtree
    <3>. QED  BY <1>3, <3>1, Nested DEF Subtree
  <2>2. CASE x \in Subtree(c, c[p][a])
    BY <1>3, <2>2 DEF MetBefore
  <2>3. CASE p \in Subtree(c, x)
    <3>1. z \in Below(c, p)
      BY <1>1, <1>3, ChildSubtree
    <3>2. z \in Below(c, x)
      BY <1>1, <2>3, <3>1, BelowTransitive DEF Subtree
    <3>. QED  BY <3>2 DEF MetBefore
  <2>. QED  BY <2>1, <2>2, <2>3
<1>4. ASSUME NEW p \in Nodes, NEW a \in DOMAIN c[p], NEW b \in DOMAIN c[p],
             a < b, x \in Subtree(c, c[p][a]), y \in Subtree(c, c[p][b]), z \in Below(c, y)
      PROVE  MetBefore(c, x, z)
  <2>1. z \in Subtree(c, c[p][b])
    BY <1>1, <1>4, ChildSubtree, SubtreeFacts
  <2>. QED  BY <1>4, <2>1 DEF MetBefore
<1>5. ASSUME NEW p \in Nodes, NEW a \in DOMAIN c[p], NEW b \in DOMAIN c[p],
             a < b, x \in Subtree(c, c[p][a]), y \in Subtree(c, c[p][b]),
             NEW q \in Nodes, NEW d \in DOMAIN c[q], NEW e \in DOMAIN c[q],
             d < e, y \in Subtree(c, c[q][d]), z \in Subtree(c, c[q][e])
      PROVE  MetBefore(c, x, z)
  <2>1. c[p][b] \in Keys /\ c[q][d] \in Keys /\ a \in Int /\ b \in Int /\ d \in Int /\ e \in Int
    BY <1>1, ChildSubtree
  <2>2. \/ c[q][d] = c[p][b] \/ c[q][d] \in Below(c, c[p][b]) \/ p \in Subtree(c, c[q][d])
    BY <1>5, <2>1, Nested DEF Subtree
  <2>3. CASE c[q][d] = c[p][b]
    <3>1. p = q /\ d = b
      BY <1>1, <2>3 DEF OnePlace
    <3>2. a < e
      BY <1>5, <2>1, <3>1
    <3>. QED  BY <1>5, <3>1, <3>2 DEF MetBefore
  <2>4. CASE c[q][d] \in Below(c, c[p][b])
    <3>1. q \in Subtree(c, c[p][b])
      BY <1>1, <2>1, <2>4, ParentUnder, ChildSubtree, NodeFacts
    <3>2. z \in Below(c, q)
      BY <1>1, <1>5, ChildSubtree
    <3>3. z \in Subtree(c, c[p][b])
      BY <1>1, <2>1, <3>1, <3>2, SubtreeFacts
    <3>. QED  BY <1>5, <3>3 DEF MetBefore
  <2>5. CASE p \in Subtree(c, c[q][d])
    <3>1. x \in Below(c, p)
      BY <1>1, <1>5, ChildSubtree
    <3>2. x \in Subtree(c, c[q][d])
      BY <1>1, <2>1, <2>5, <3>1, SubtreeFacts
    <3>. QED  BY <1>5, <3>2 DEF MetBefore
  <2>. QED  BY <2>2, <2>3, <2>4, <2>5
<1>. QED  BY <1>2, <1>3, <1>4, <1>5 DEF MetBefore

LEMMA BeforeTotal ==
  ASSUME NEW c, Forest(c), NEW x \in Items(c), NEW y \in Items(c), x # y
  PROVE  MetBefore(c, x, y) \/ MetBefore(c, y, x)
<1>1. c \in TreeLists /\ OnePlace(c) /\ Items(c) \subseteq Keys /\ Menu \in Nodes
  BY BelowClosed, NodeFacts DEF Forest, Items
<1>2. PICK S : S = {u \in Keys : \A v \in Items(c) : u # v => MetBefore(c, u, v) \/ MetBefore(c, v, u)}
  OBVIOUS
<1>3. ASSUME NEW u \in Range(c[Menu])  PROVE u \in S
  <2>1. PICK a \in DOMAIN c[Menu] : u = c[Menu][a]
    BY <1>3 DEF Range
  <2>2. u \in Keys /\ u \in Subtree(c, u) /\ a \in Int
    BY <1>1, <2>1, ChildSubtree DEF Subtree
  <2>3. SUFFICES ASSUME NEW v \in Items(c), u # v  PROVE MetBefore(c, u, v) \/ MetBefore(c, v, u)
    BY <1>2, <2>2
  <2>4. PICK b \in DOMAIN c[Menu] : v \in Subtree(c, c[Menu][b])
    BY <1>1, BelowTop DEF Items
  <2>5. b \in Int
    BY <1>1, ChildSubtree
  <2>6. CASE a = b
    BY <2>1, <2>3, <2>4, <2>6 DEF MetBefore, Subtree
  <2>7. CASE a < b
    BY <1>1, <2>1, <2>2, <2>4, <2>7 DEF MetBefore
  <2>8. CASE b < a
    BY <1>1, <2>1, <2>2, <2>4, <2>8 DEF MetBefore
  <2>. QED  BY <2>2, <2>5, <2>6, <2>7, <2>8
<1>4. ASSUME NEW p \in S, NEW u \in Range(c[p])  PROVE u \in S
  <2>0. p \in Keys /\ p \in Nodes
    BY <1>2, <1>4, NodeFacts
  <2>1. PICK a \in DOMAIN c[p] : u = c[p][a]
    BY <1>4 DEF Range
  <2>2. u \in Keys /\ u \in Subtree(c, u) /\ a \in Int /\ u \in Below(c, p)
    BY <1>1, <2>0, <2>1, ChildSubtree DEF Subtree
  <2>3. SUFFICES ASSUME NEW v \in Items(c), u # v  PROVE MetBefore(c, u, v) \/ MetBefore(c, v, u)
    BY <1>2, <2>2
  <2>4. CASE v = p
    BY <2>2, <2>4 DEF MetBefore
  <2>5. CASE v \in Below(c, p)
    <3>1. PICK b \in DOMAIN c[p] : v \in Subtree(c, c[p][b])
      BY <1>1, <2>0, <2>5, BelowTop
    <3>2. b \in Int
      BY <1>1, <2>0, ChildSubtree
    <3>3. CASE a = b
      BY <2>1, <2>3, <3>1, <3>3 DEF MetBefore, Subtree
    <3>4. CASE a < b
      BY <2>0, <2>1, <2>2, <3>1, <3>4 DEF MetBefore
    <3>5. CASE b < a
      BY <2>0, <2>1, <2>2, <3>1, <3>5 DEF MetBefore
    <3>. QED  BY <2>2, <3>2, <3>3, <3>4, <3>5
  <2>6. CASE p \in Below(c, v)
    BY <1>1, <2>2, <2>6, BelowTransitive, NodeFacts DEF MetBefore
  <2>7. ASSUME NEW q \in Nodes, NEW d \in DOMAIN c[q], p \in Subtree(c, c[q][d])
        PROVE  u \in Subtree(c, c[q][d])
    BY <1>1, <2>2, <2>7, ChildSubtree, SubtreeFacts
  <2>8. v # p => MetBefore(c, p, v) \/ MetBefore(c, v, p)
    BY <1>2, <1>4
  <2>. QED  BY <2>4, <2>5, <2>6, <2>7, <2>8 DEF MetBefore
<1>5. Items(c) \subseteq S
  <2>1. S \in SUBSET Keys /\ Range(c[Menu]) \subseteq S /\ \A p \in S : Range(c[p]) \subseteq S
    BY <1>2, <1>3, <1>4
  <2>. QED  BY <1>1, <2>1, BelowLeast, NodeFacts DEF Items
<1>. QED  BY <1>2, <1>5

\* What is between an item and something under it is under it too.
LEMMA BeforeUnder ==
  ASSUME NEW c, Forest(c), NEW k \in Keys, NEW y \in Keys, NEW x \in Below(c, k),
         MetBefore(c, k, y), MetBefore(c, y, x)
  PROVE  y \in Below(c, k)
<1>1. c \in TreeLists /\ OnePlace(c) /\ k \in Nodes /\ x \in Keys
  BY NodeFacts, BelowClosed DEF Forest
<1>2. SUFFICES ASSUME NEW p \in Nodes, NEW a \in DOMAIN c[p], NEW b \in DOMAIN c[p],
                      a < b, k \in Subtree(c, c[p][a]), y \in Subtree(c, c[p][b])
               PROVE  FALSE
  BY DEF MetBefore
<1>3. x \in Subtree(c, c[p][a])
  BY <1>1, <1>2, ChildSubtree, SubtreeFacts
<1>4. MetBefore(c, x, y)
  BY <1>2, <1>3 DEF MetBefore
<1>. QED  BY <1>1, <1>4, BeforeAsymmetric

-----------------------------------------------------------------------------
(* The numbers of the rows. *)

\* A strict total order of a finite set numbers it from nought.
LEMMA Ranks ==
  ASSUME NEW S, IsFiniteSet(S), NEW R,
         \A x \in S : <<x, x>> \notin R,
         \A x, y, z \in S : <<x, y>> \in R /\ <<y, z>> \in R => <<x, z>> \in R,
         \A x, y \in S : x # y => <<x, y>> \in R \/ <<y, x>> \in R
  PROVE  /\ \A x \in S : Cardinality({y \in S : <<y, x>> \in R}) \in 0 .. Cardinality(S) - 1
         /\ \A x, y \in S : <<x, y>> \in R <=>
              Cardinality({z \in S : <<z, x>> \in R}) < Cardinality({z \in S : <<z, y>> \in R})
         /\ \A n \in 0 .. Cardinality(S) - 1 : \E x \in S : Cardinality({y \in S : <<y, x>> \in R}) = n
<1>0. PICK P : P = [x \in S |-> {y \in S : <<y, x>> \in R}]
  OBVIOUS
<1>1. PICK N \in Nat : N = Cardinality(S)
  BY FS_CardinalityType
<1>2. ASSUME NEW x \in S  PROVE P[x] \subseteq S /\ Cardinality(P[x]) \in 0 .. N - 1
  <2>1. P[x] \in SUBSET (S \ {x}) /\ P[x] \subseteq S
    BY <1>0
  <2>2. IsFiniteSet(S \ {x}) /\ Cardinality(S \ {x}) = N - 1
    BY <1>1, FS_RemoveElement
  <2>3. IsFiniteSet(P[x]) /\ Cardinality(P[x]) <= N - 1
    BY <2>1, <2>2, FS_Subset
  <2>4. Cardinality(P[x]) \in Nat
    BY <2>3, FS_CardinalityType
  <2>. QED  BY <1>1, <2>1, <2>3, <2>4
<1>3. ASSUME NEW x \in S, NEW y \in S, <<x, y>> \in R
      PROVE  Cardinality(P[x]) < Cardinality(P[y])
  <2>1. P[x] \in SUBSET (P[y] \ {x})
    BY <1>0, <1>3
  <2>2. x \in P[y] /\ P[y] \in SUBSET S
    BY <1>0, <1>3
  <2>3. IsFiniteSet(P[y])
    BY <2>2, FS_Subset
  <2>4. IsFiniteSet(P[y] \ {x}) /\ Cardinality(P[y] \ {x}) = Cardinality(P[y]) - 1
    BY <2>2, <2>3, FS_RemoveElement
  <2>5. Cardinality(P[x]) <= Cardinality(P[y]) - 1
    BY <2>1, <2>4, FS_Subset
  <2>6. Cardinality(P[x]) \in 0 .. N - 1 /\ Cardinality(P[y]) \in 0 .. N - 1
    BY <1>2
  <2>. QED  BY <1>1, <2>5, <2>6
<1>4. PICK f : f = [x \in S |-> Cardinality(P[x])]
  OBVIOUS
<1>5. PICK I : I = 0 .. N - 1
  OBVIOUS
<1>6. f \in Injection(S, I)
  <2>1. f \in [S -> I]
    BY <1>2, <1>4, <1>5
  <2>2. ASSUME NEW x \in S, NEW y \in S, f[x] = f[y]  PROVE x = y
    <3>1. Cardinality(P[x]) = Cardinality(P[y]) /\ Cardinality(P[y]) \in Int
      BY <1>1, <1>2, <1>4, <2>2
    <3>2. ~(<<x, y>> \in R) /\ ~(<<y, x>> \in R)
      BY <1>3, <3>1
    <3>. QED  BY <3>2
  <2>3. DOMAIN f = S
    BY <2>1
  <2>. QED  BY <2>1, <2>2, <2>3 DEF Injection, IsInjective
<1>7. IsFiniteSet(I) /\ Cardinality(I) = N
  BY <1>1, <1>5, FS_Interval
<1>8. f \in Surjection(S, I)
  BY <1>1, <1>6, <1>7, FS_Injection
<1>9. \A n \in 0 .. N - 1 : \E x \in S : Cardinality(P[x]) = n
  BY <1>4, <1>5, <1>8 DEF Surjection
<1>10. ASSUME NEW x \in S, NEW y \in S, Cardinality(P[x]) < Cardinality(P[y])
      PROVE  <<x, y>> \in R
  <2>1. Cardinality(P[x]) \in Int /\ Cardinality(P[y]) \in Int
    BY <1>1, <1>2
  <2>2. x # y
    BY <1>10, <2>1
  <2>3. ~(<<y, x>> \in R)
    BY <1>3, <1>10, <2>1
  <2>. QED  BY <2>2, <2>3
<1>11. \A x \in S : {y \in S : <<y, x>> \in R} = P[x]
  BY <1>0
<1>12. /\ \A x \in S : Cardinality({y \in S : <<y, x>> \in R}) \in 0 .. Cardinality(S) - 1
       /\ \A n \in 0 .. Cardinality(S) - 1 : \E x \in S : Cardinality({y \in S : <<y, x>> \in R}) = n
  BY <1>1, <1>2, <1>9, <1>11
<1>13. \A x, y \in S : <<x, y>> \in R <=>
              Cardinality({z \in S : <<z, x>> \in R}) < Cardinality({z \in S : <<z, y>> \in R})
  <2>1. SUFFICES ASSUME NEW x \in S, NEW y \in S
                 PROVE  <<x, y>> \in R <=>
              Cardinality({z \in S : <<z, x>> \in R}) < Cardinality({z \in S : <<z, y>> \in R})
    OBVIOUS
  <2>2. {z \in S : <<z, x>> \in R} = P[x] /\ {z \in S : <<z, y>> \in R} = P[y]
    BY <1>11
  <2>3. <<x, y>> \in R <=> Cardinality(P[x]) < Cardinality(P[y])
    BY <1>3, <1>10
  <2>. QED  BY <2>2, <2>3, Zenon
<1>. QED  BY <1>12, <1>13

LEMMA KeysFinite == ASSUME MaxKeys \in Nat  PROVE IsFiniteSet(Keys) /\ \A S \in SUBSET Keys : IsFiniteSet(S) /\ Cardinality(S) \in Nat
<1>1. IsFiniteSet(Keys)
  BY FS_Interval DEF Keys
<1>. QED  BY <1>1, FS_Subset, FS_CardinalityType

LEMMA MenuBounds == MaxDepth \in Nat \ {0} /\ MaxItems \in Nat \ {0} /\ MaxKeys \in Nat \ {0}
BY MenuAssumption

\* The rows of a tree are numbered through, in their order.
LEMMA RowsAreNumbered ==
  ASSUME NEW c, Forest(c)
  PROVE  /\ \A x \in Items(c) : RowOf(c, x) \in 1 .. Cardinality(Items(c))
         /\ \A x, y \in Items(c) : MetBefore(c, x, y) <=> RowOf(c, x) < RowOf(c, y)
         /\ \A n \in 1 .. Cardinality(Items(c)) : \E x \in Items(c) : RowOf(c, x) = n
         /\ \A x \in Items(c) : RowOf(c, x) = Cardinality({y \in Items(c) : MetBefore(c, y, x)}) + 1
<1>. DEFINE S == Items(c)
            R == Order(c)
            Above1(x) == Cardinality({y \in S : <<y, x>> \in R})
<1>1. c \in TreeLists /\ S \subseteq Keys
  BY BelowClosed, NodeFacts DEF Forest, Items
<1>2. IsFiniteSet(S) /\ Cardinality(S) \in Nat
  BY <1>1, MenuBounds, KeysFinite
<1>3. \A x, y \in S : <<x, y>> \in R <=> MetBefore(c, x, y)
  BY <1>1, OrderIsBefore
<1>4. \A x \in S : RowOf(c, x) = Above1(x) + 1
  BY DEF RowOf, RowIn
<1>. HIDE DEF S, R
<1>5. /\ \A x \in S : <<x, x>> \notin R
      /\ \A x, y, z \in S : <<x, y>> \in R /\ <<y, z>> \in R => <<x, z>> \in R
      /\ \A x, y \in S : x # y => <<x, y>> \in R \/ <<y, x>> \in R
  <2>1. \A x \in S : ~MetBefore(c, x, x)
    BY <1>1, BeforeAsymmetric
  <2>2. \A x, y, z \in S : MetBefore(c, x, y) /\ MetBefore(c, y, z) => MetBefore(c, x, z)
    BY <1>1, BeforeTransitive
  <2>3. \A x, y \in S : x # y => MetBefore(c, x, y) \/ MetBefore(c, y, x)
    BY BeforeTotal DEF S
  <2>. QED  BY <1>3, <2>1, <2>2, <2>3
<1>6. /\ \A x \in S : Above1(x) \in 0 .. Cardinality(S) - 1
      /\ \A x, y \in S : <<x, y>> \in R <=> Above1(x) < Above1(y)
      /\ \A n \in 0 .. Cardinality(S) - 1 : \E x \in S : Above1(x) = n
  BY <1>2, <1>5, Ranks
<1>7. \A x \in S : {y \in S : <<y, x>> \in R} = {y \in S : MetBefore(c, y, x)}
  BY <1>3
<1>8. \A x \in S : Above1(x) = Cardinality({y \in S : MetBefore(c, y, x)})
  BY <1>7
<1>. HIDE DEF Above1
<1>9. \A x \in S : RowOf(c, x) \in 1 .. Cardinality(S)
  BY <1>2, <1>4, <1>6
<1>10. \A x, y \in S : MetBefore(c, x, y) <=> RowOf(c, x) < RowOf(c, y)
  <2>1. SUFFICES ASSUME NEW x \in S, NEW y \in S  PROVE MetBefore(c, x, y) <=> RowOf(c, x) < RowOf(c, y)
    OBVIOUS
  <2>2. Above1(x) < Above1(y) <=> RowOf(c, x) < RowOf(c, y)
    BY <1>2, <1>4, <1>6
  <2>. QED  BY <1>3, <1>6, <2>2
<1>11. ASSUME NEW n \in 1 .. Cardinality(S)  PROVE \E x \in S : RowOf(c, x) = n
  <2>1. n - 1 \in 0 .. Cardinality(S) - 1
    BY <1>2
  <2>2. PICK x \in S : Above1(x) = n - 1
    BY <1>6, <2>1
  <2>. QED  BY <1>4, <2>2
<1>12. \A x \in S : RowOf(c, x) = Cardinality({y \in S : MetBefore(c, y, x)}) + 1
  BY <1>4, <1>8
<1>. QED  BY <1>9, <1>10, <1>11, <1>12 DEF S

-----------------------------------------------------------------------------
(* A move of one item. *)

\* Two items of a list that are not k are in the other list, in the same order.
Keeps(s, t, k) ==
    \A a, b \in DOMAIN s :
        a < b /\ s[a] # k /\ s[b] # k => \E d, e \in DOMAIN t : d < e /\ t[d] = s[a] /\ t[e] = s[b]

SameBut(c, d, k) ==
    \A q \in Nodes :
        /\ Range(c[q]) \ {k} = Range(d[q]) \ {k}
        /\ Keeps(c[q], d[q], k) /\ Keeps(d[q], c[q], k)

\* In d, k is in the list of p; all else is as in c.
Reparents(c, d, k, p) == d \in TreeLists /\ OnePlace(d) /\ k \in Range(d[p]) /\ SameBut(c, d, k)

\* A move changes nothing under the item, and nothing under the others but for the item.
LEMMA ApartBelow ==
  ASSUME NEW c, Forest(c), NEW k \in Keys, NEW d \in TreeLists, OnePlace(d), SameBut(c, d, k),
         \A q \in Subtree(c, k) : k \notin Range(d[q])
  PROVE  /\ \A q \in Subtree(c, k) : Range(d[q]) = Range(c[q])
         /\ \A j \in Subtree(c, k) : Below(d, j) = Below(c, j) /\ Subtree(d, j) = Subtree(c, j)
         /\ \A j \in Nodes \ Subtree(c, k) : \A x \in Keys \ Subtree(c, k) : x \in Below(d, j) <=> x \in Below(c, j)
         /\ Forest(d)
<1>1. PICK U : U = Subtree(c, k)
  OBVIOUS
<1>2. c \in TreeLists /\ d \in TreeLists /\ OnePlace(c) /\ OnePlace(d) /\ k \in Nodes /\ k \notin Below(c, k)
  BY NodeFacts DEF Forest
<1>3. U \subseteq Keys /\ U \subseteq Nodes /\ k \in U /\ \A q \in U : Range(c[q]) \subseteq U /\ k \notin Range(c[q])
                                     /\ Below(c, q) \subseteq U
  <2>1. U \subseteq Keys /\ k \in U /\ \A q \in U : Range(c[q]) \subseteq Below(c, k) /\ Below(c, q) \subseteq U
    BY <1>1, <1>2, SubtreeFacts
  <2>2. Below(c, k) \subseteq U
    BY <1>1 DEF Subtree
  <2>. QED  BY <1>2, <2>1, <2>2, NodeFacts
<1>4. ASSUME NEW q \in U  PROVE Range(d[q]) = Range(c[q])
  <2>1. Range(c[q]) \ {k} = Range(d[q]) \ {k} /\ k \notin Range(c[q]) /\ k \notin Range(d[q])
    BY <1>1, <1>3 DEF SameBut
  <2>. QED  BY <2>1
<1>5. ASSUME NEW j \in U  PROVE Below(d, j) = Below(c, j)
  <2>1. Below(d, j) \subseteq Below(c, j)
    <3>1. PICK S : S = Below(c, j)
      OBVIOUS
    <3>2. S \in SUBSET Keys /\ Range(c[j]) \subseteq S /\ \A q \in S : Range(c[q]) \subseteq S /\ q \in U
      BY <1>2, <1>3, <3>1, BelowClosed
    <3>3. Range(d[j]) \subseteq S /\ \A q \in S : Range(d[q]) \subseteq S
      BY <1>4, <3>2
    <3>. QED  BY <1>2, <1>3, <3>1, <3>2, <3>3, BelowLeast
  <2>2. Below(c, j) \subseteq Below(d, j)
    <3>1. PICK S : S = Below(d, j) \cap U
      OBVIOUS
    <3>2. j \in Nodes /\ Range(d[j]) \subseteq Below(d, j) /\ (\A q \in Below(d, j) : Range(d[q]) \subseteq Below(d, j))
      BY <1>2, <1>3, BelowClosed
    <3>3. S \in SUBSET Keys /\ Range(c[j]) \subseteq S /\ \A q \in S : Range(c[q]) \subseteq S
      BY <1>3, <1>4, <3>1, <3>2
    <3>4. Below(c, j) \subseteq S
      BY <1>2, <3>2, <3>3, BelowLeast
    <3>. QED  BY <3>1, <3>4
  <2>. QED  BY <2>1, <2>2
<1>6. ASSUME NEW j \in Nodes \ U, NEW x \in Keys \ U  PROVE x \in Below(d, j) <=> x \in Below(c, j)
  <2>0. \A q \in Nodes : Range(c[q]) \ {k} = Range(d[q]) \ {k}
    BY DEF SameBut
  <2>1. ASSUME x \in Below(d, j)  PROVE x \in Below(c, j)
    <3>1. PICK S : S = U \union Below(c, j)
      OBVIOUS
    <3>2. Below(c, j) \subseteq Keys /\ Range(c[j]) \subseteq S /\ \A q \in S : q \in Nodes /\ Range(c[q]) \subseteq S
      BY <1>2, <1>3, <3>1, BelowClosed, NodeFacts
    <3>3. S \in SUBSET Keys /\ Range(d[j]) \subseteq S /\ \A q \in S : Range(d[q]) \subseteq S
      BY <1>3, <2>0, <3>1, <3>2
    <3>4. Below(d, j) \subseteq S
      BY <1>2, <3>3, BelowLeast
    <3>. QED  BY <2>1, <3>1, <3>4
  <2>2. ASSUME x \in Below(c, j)  PROVE x \in Below(d, j)
    <3>1. PICK S : S = U \union Below(d, j)
      OBVIOUS
    <3>2. Below(d, j) \subseteq Keys /\ Range(d[j]) \subseteq S /\ \A q \in Below(d, j) : q \in Nodes /\ Range(d[q]) \subseteq S
      BY <1>2, <3>1, BelowClosed, NodeFacts
    <3>3. S \in SUBSET Keys /\ Range(c[j]) \subseteq S /\ \A q \in S : Range(c[q]) \subseteq S
      BY <1>3, <2>0, <3>1, <3>2
    <3>4. Below(c, j) \subseteq S
      BY <1>2, <3>3, BelowLeast
    <3>. QED  BY <2>2, <3>1, <3>4
  <2>. QED  BY <2>1, <2>2
<1>7. Forest(d)
  <2>1. ASSUME NEW x \in Keys  PROVE x \notin Below(d, x)
    <3>1. x \notin Below(c, x) /\ x \in Nodes
      BY NodeFacts DEF Forest
    <3>. QED  BY <1>5, <1>6, <3>1
  <2>. QED  BY <1>2, <2>1 DEF Forest
<1>8. \A j \in U : Below(d, j) = Below(c, j) /\ Subtree(d, j) = Subtree(c, j)
  BY <1>5 DEF Subtree
<1>. QED  BY <1>1, <1>4, <1>6, <1>7, <1>8

LEMMA MovedBelow ==
  ASSUME NEW c, Forest(c), NEW k \in Keys, NEW p \in Nodes, p \notin Subtree(c, k),
         NEW d, Reparents(c, d, k, p)
  PROVE  /\ \A q \in Subtree(c, k) : Range(d[q]) = Range(c[q])
         /\ \A j \in Subtree(c, k) : Below(d, j) = Below(c, j) /\ Subtree(d, j) = Subtree(c, j)
         /\ \A j \in Nodes \ Subtree(c, k) : \A x \in Keys \ Subtree(c, k) : x \in Below(d, j) <=> x \in Below(c, j)
         /\ \A j \in Nodes \ Subtree(c, k) : k \in Below(d, j) <=> j = p \/ p \in Below(c, j)
         /\ Forest(d)
<1>1. PICK U : U = Subtree(c, k)
  OBVIOUS
<1>2. c \in TreeLists /\ d \in TreeLists /\ OnePlace(c) /\ OnePlace(d) /\ k \in Nodes /\ k \notin Below(c, k)
  BY NodeFacts DEF Forest, Reparents
<1>3. ASSUME NEW q \in U  PROVE k \notin Range(d[q])
  <2>1. U \subseteq Nodes
    BY <1>1, <1>2, SubtreeFacts, NodeFacts
  <2>2. ASSUME k \in Range(d[q])  PROVE q = p
    BY <1>2, <2>1, <2>2, OneParent DEF Reparents
  <2>. QED  BY <1>1, <2>2
<1>4. /\ \A q \in U : Range(d[q]) = Range(c[q])
      /\ \A j \in U : Below(d, j) = Below(c, j) /\ Subtree(d, j) = Subtree(c, j)
      /\ \A j \in Nodes \ U : \A x \in Keys \ U : x \in Below(d, j) <=> x \in Below(c, j)
      /\ Forest(d)
  BY <1>1, <1>2, <1>3, ApartBelow DEF Reparents
<1>5. ASSUME NEW j \in Nodes \ U  PROVE k \in Below(d, j) <=> j = p \/ p \in Below(c, j)
  <2>1. ASSUME k \in Below(d, j)  PROVE j = p \/ p \in Below(c, j)
    <3>1. PICK q \in Subtree(d, j) : q \in Nodes /\ k \in Range(d[q])
      BY <1>2, <2>1, BelowBottom
    <3>2. q = p
      BY <1>2, <3>1, OneParent DEF Reparents
    <3>3. p # j => p \in Below(d, j) /\ p \in Keys \ U
      BY <1>1, <1>2, <3>1, <3>2, BelowClosed DEF Subtree
    <3>. QED  BY <1>4, <3>3
  <2>2. ASSUME j = p \/ p \in Below(c, j)  PROVE k \in Below(d, j)
    <3>1. CASE j = p
      BY <1>2, <3>1, BelowClosed DEF Reparents
    <3>2. CASE p \in Below(c, j)
      <4>1. p \in Keys \ U
        BY <1>1, <1>2, <3>2, BelowClosed
      <4>2. p \in Below(d, j)
        BY <1>4, <3>2, <4>1
      <4>. QED  BY <1>2, <4>2, BelowClosed DEF Reparents
    <3>. QED  BY <2>2, <3>1, <3>2
  <2>. QED  BY <2>1, <2>2
<1>. QED  BY <1>1, <1>4, <1>5

LEMMA MovedItems ==
  ASSUME NEW c, IsTree(c), NEW k \in Keys, NEW p \in Items(c) \union {Menu}, p \notin Subtree(c, k),
         NEW d, Reparents(c, d, k, p)
  PROVE  /\ Items(d) = Items(c) \union Subtree(c, k)
         /\ IsTree(d)
<1>1. PICK U : U = Subtree(c, k)
  OBVIOUS
<1>2. Forest(c) /\ c \in TreeLists /\ d \in TreeLists /\ OnePlace(d) /\ Items(c) \subseteq Keys /\ Items(d) \subseteq Keys /\ p \in Nodes
  <2>1. Forest(c) /\ c \in TreeLists /\ d \in TreeLists /\ OnePlace(d)
    BY NoCycles DEF Forest, Reparents
  <2>. QED  BY <2>1, BelowClosed, NodeFacts DEF Items
<1>3. U \subseteq Keys /\ k \in U /\ Menu \in Nodes \ U
  BY <1>1, <1>2, SubtreeFacts, NodeFacts
<1>4. /\ \A j \in U : Below(d, j) = Below(c, j)
      /\ \A j \in Nodes \ U : \A x \in Keys \ U : x \in Below(d, j) <=> x \in Below(c, j)
      /\ \A j \in Nodes \ U : k \in Below(d, j) <=> j = p \/ p \in Below(c, j)
  BY <1>1, <1>2, MovedBelow
<1>5. k \in Items(d)
  BY <1>3, <1>4 DEF Items
<1>6. U \subseteq Items(d)
  <2>1. Below(d, k) \subseteq Items(d)
    BY <1>2, <1>3, <1>5, BelowTransitive DEF Items
  <2>2. Below(d, k) = Below(c, k)
    BY <1>3, <1>4
  <2>. QED  BY <1>1, <1>5, <2>1, <2>2 DEF Subtree
<1>7. \A x \in Keys \ U : x \in Items(d) <=> x \in Items(c)
  BY <1>3, <1>4 DEF Items
<1>8. Items(d) = Items(c) \union U
  BY <1>2, <1>3, <1>6, <1>7
<1>9. ASSUME NEW q \in Keys \ Items(d)  PROVE d[q] = <<>>
  <2>1. q \notin Items(c) /\ q \in Nodes /\ q # p
    BY <1>8, <1>9, NodeFacts
    \* p is not q: if p is an item of c it is one of d.
  <2>2. c[q] = <<>> /\ c[q] \in Seq(Keys) /\ d[q] \in Seq(Keys)
    BY <1>2, <1>9, <2>1 DEF IsTree, TreeLists
  <2>3. Range(c[q]) = {}
    BY <2>2 DEF Range
  <2>4. k \notin Range(d[q])
    BY <1>2, <2>1, OneParent DEF Reparents
  <2>5. Range(c[q]) \ {k} = Range(d[q]) \ {k}
    BY <2>1 DEF Reparents, SameBut
  <2>6. Range(d[q]) = {}
    BY <2>3, <2>4, <2>5
  <2>7. Len(d[q]) = 0
    <3>1. Len(d[q]) \in Nat /\ DOMAIN d[q] = 1 .. Len(d[q])
      BY <2>2, LenProperties
    <3>2. ASSUME Len(d[q]) # 0  PROVE FALSE
      <4>1. 1 \in DOMAIN d[q]
        BY <3>1, <3>2
      <4>. QED  BY <2>6, <4>1 DEF Range
    <3>. QED  BY <3>2
  <2>. QED  BY <2>2, <2>7, EmptySeq
<1>10. d \in [Nodes -> Seq(Keys)]
  BY <1>2 DEF TreeLists
<1>. QED  BY <1>1, <1>2, <1>8, <1>9, <1>10 DEF IsTree, OnePlace

LEMMA MovedOrder ==
  ASSUME NEW c, Forest(c), NEW k \in Keys, NEW p \in Nodes, p \notin Subtree(c, k),
         NEW d, Reparents(c, d, k, p), NEW x \in Keys, NEW y \in Keys,
         x \in Subtree(c, k) <=> y \in Subtree(c, k)
  PROVE  /\ MetBefore(c, x, y) => MetBefore(d, x, y)
         /\ x \notin Subtree(c, k) => (MetBefore(d, x, y) => MetBefore(c, x, y))
<1>1. PICK U : U = Subtree(c, k)
  OBVIOUS
<1>2. Forest(d) /\ c \in TreeLists /\ d \in TreeLists /\ U \subseteq Keys /\ k \in U /\ x \in Nodes /\ y \in Nodes
  BY <1>1, MovedBelow, SubtreeFacts, NodeFacts DEF Forest
<1>3. /\ \A j \in U : Below(d, j) = Below(c, j)
      /\ \A j \in Nodes \ U : \A z \in Keys \ U : z \in Below(d, j) <=> z \in Below(c, j)
  BY <1>1, MovedBelow
<1>4. x \in Below(c, y) <=> x \in Below(d, y)
  BY <1>1, <1>2, <1>3
<1>5. y \in Below(c, x) <=> y \in Below(d, x)
  BY <1>1, <1>2, <1>3
<1>6. ASSUME NEW s, NEW t, Forest(s), Forest(t), s \in TreeLists, t \in TreeLists,
             \A q \in Nodes : Keeps(s[q], t[q], k),
             \A j \in Nodes \ U : \A z \in Keys \ U : z \in Below(t, j) <=> z \in Below(s, j),
             Subtree(s, k) = U, x \notin U, y \notin U,
             NEW q \in Nodes, NEW a \in DOMAIN s[q], NEW b \in DOMAIN s[q],
             a < b, x \in Subtree(s, s[q][a]), y \in Subtree(s, s[q][b])
      PROVE  MetBefore(t, x, y)
  <2>1. /\ s[q][a] \in Keys \ U /\ s[q][b] \in Keys \ U /\ s[q][a] # k /\ s[q][b] # k
    <3>1. s[q][a] \in Keys /\ s[q][b] \in Keys
      BY <1>6, ChildSubtree
    <3>2. s[q][a] \notin U
      BY <1>6, SubtreeFacts
    <3>3. s[q][b] \notin U
      BY <1>6, SubtreeFacts
    <3>. QED  BY <1>2, <3>1, <3>2, <3>3
  <2>2. PICK a2 \in DOMAIN t[q], b2 \in DOMAIN t[q] : a2 < b2 /\ t[q][a2] = s[q][a] /\ t[q][b2] = s[q][b]
    BY <1>6, <2>1 DEF Keeps
  <2>3. \A j \in Keys \ U : \A z \in Keys \ U : z \in Subtree(s, j) => z \in Subtree(t, j)
    BY <1>6, NodeFacts DEF Subtree
  <2>4. x \in Subtree(t, t[q][a2]) /\ y \in Subtree(t, t[q][b2])
    BY <1>6, <2>1, <2>2, <2>3
  <2>. QED  BY <2>2, <2>4 DEF MetBefore
<1>7. Subtree(d, k) = U
  BY <1>1, <1>2, <1>3 DEF Subtree
<1>8. (\A q \in Nodes : Keeps(c[q], d[q], k)) /\ (\A q \in Nodes : Keeps(d[q], c[q], k))
  BY DEF Reparents, SameBut
<1>9. CASE x \notin U /\ y \notin U
  <2>1. ASSUME MetBefore(c, x, y)  PROVE MetBefore(d, x, y)
    BY <1>1, <1>2, <1>3, <1>5, <1>6, <1>8, <1>9, <2>1 DEF MetBefore
  <2>2. ASSUME MetBefore(d, x, y)  PROVE MetBefore(c, x, y)
    BY <1>1, <1>2, <1>3, <1>5, <1>6, <1>7, <1>8, <1>9, <2>2 DEF MetBefore
  <2>. QED  BY <2>1, <2>2
<1>10. CASE x \in U /\ y \in U
  <2>1. ASSUME NEW q \in Nodes, NEW a \in DOMAIN c[q], NEW b \in DOMAIN c[q],
               a < b, x \in Subtree(c, c[q][a]), y \in Subtree(c, c[q][b])
        PROVE  MetBefore(d, x, y)
    <3>1. c[q][a] \in Keys /\ c[q][b] \in Keys /\ a \in Int /\ b \in Int
      BY <1>2, <2>1, ChildSubtree
    <3>2. k # c[q][a] /\ k \notin Below(c, c[q][a])
      <4>1. SUFFICES ASSUME k \in Subtree(c, c[q][a])  PROVE FALSE
        BY DEF Subtree
      <4>2. y \in Subtree(c, c[q][a])
        BY <1>1, <1>2, <1>10, <3>1, <4>1, SubtreeFacts
      <4>3. a = b
        BY <2>1, <4>2, SiblingsApart
      <4>. QED  BY <2>1, <3>1, <4>3
    <3>3. q \in U
      <4>1. q = k \/ q \in Below(c, k)
        BY <1>1, <1>10, <2>1, <3>2, Nested
      <4>. QED  BY <1>1, <4>1 DEF Subtree
    <3>4. c[q][a] \in U /\ c[q][b] \in U /\ c[q][a] # k /\ c[q][b] # k
      <4>1. c[q][a] \in Below(c, k) /\ c[q][b] \in Below(c, k)
        BY <1>1, <1>2, <2>1, <3>3, ChildSubtree, SubtreeFacts
      <4>. QED  BY <1>1, <4>1 DEF Subtree, Forest
    <3>5. PICK a2 \in DOMAIN d[q], b2 \in DOMAIN d[q] : a2 < b2 /\ d[q][a2] = c[q][a] /\ d[q][b2] = c[q][b]
      BY <1>8, <2>1, <3>4 DEF Keeps
    <3>6. x \in Subtree(d, d[q][a2]) /\ y \in Subtree(d, d[q][b2])
      BY <1>3, <2>1, <3>4, <3>5 DEF Subtree
    <3>. QED  BY <3>5, <3>6 DEF MetBefore
  <2>. QED  BY <1>1, <1>5, <1>10, <2>1 DEF MetBefore
<1>. QED  BY <1>1, <1>9, <1>10

-----------------------------------------------------------------------------
(* Depths. *)

LEMMA HighestOf ==
  ASSUME NEW S \in SUBSET Int, IsFiniteSet(S), S # {}
  PROVE  Max(S) \in S /\ \A y \in S : y <= Max(S)
<1>1. PICK R : R = {pair \in S \X S : pair[1] < pair[2]}
  OBVIOUS
<1>2. \A x, y \in S : <<x, y>> \in R <=> x < y
  BY <1>1
<1>3. /\ \A x \in S : <<x, x>> \notin R
      /\ \A x, y, z \in S : <<x, y>> \in R /\ <<y, z>> \in R => <<x, z>> \in R
      /\ \A x, y \in S : x # y => <<x, y>> \in R \/ <<y, x>> \in R
  BY <1>2
<1>4. Cardinality(S) \in Nat \ {0}
  BY FS_CardinalityType, FS_EmptySet
<1>5. PICK rank : rank = [x \in S |-> Cardinality({y \in S : <<y, x>> \in R})]
  OBVIOUS
<1>6. /\ \A x \in S : rank[x] \in 0 .. Cardinality(S) - 1
      /\ \A x, y \in S : <<x, y>> \in R <=> rank[x] < rank[y]
      /\ \A n \in 0 .. Cardinality(S) - 1 : \E x \in S : rank[x] = n
  <2>1. /\ \A x \in S : Cardinality({y \in S : <<y, x>> \in R}) \in 0 .. Cardinality(S) - 1
        /\ \A x, y \in S : <<x, y>> \in R <=>
              Cardinality({z \in S : <<z, x>> \in R}) < Cardinality({z \in S : <<z, y>> \in R})
        /\ \A n \in 0 .. Cardinality(S) - 1 : \E x \in S : Cardinality({y \in S : <<y, x>> \in R}) = n
    BY <1>3, Ranks
  <2>2. \A x \in S : rank[x] = Cardinality({y \in S : <<y, x>> \in R})
    BY <1>5
  <2>. QED  BY <2>1, <2>2
<1>7. PICK m \in S : rank[m] = Cardinality(S) - 1
  BY <1>4, <1>6
<1>8. ASSUME NEW y \in S  PROVE m >= y
  <2>1. ~(<<m, y>> \in R)
    BY <1>4, <1>6, <1>7
  <2>. QED  BY <1>2, <2>1
<1>. QED  BY <1>7, <1>8 DEF Max

LEMMA DepthType ==
  ASSUME NEW c \in TreeLists, NEW k
  PROVE  Depth(c, k) \in 0 .. MaxKeys
<1>1. IsFiniteSet(Keys) /\ Cardinality(Keys) = MaxKeys /\ MaxKeys \in Nat
  BY MenuBounds, FS_Interval DEF Keys
<1>2. PICK A : A = {p \in Keys : k \in Subtree(c, p)}
  OBVIOUS
<1>3. A \in SUBSET Keys
  BY <1>2
<1>4. Cardinality(A) \in Nat /\ Cardinality(A) <= MaxKeys
  BY <1>1, <1>3, FS_Subset, FS_CardinalityType
<1>. QED  BY <1>1, <1>2, <1>4 DEF Depth

\* A child is one deeper than its parent.
LEMMA ChildDepth ==
  ASSUME NEW c, Forest(c), NEW p \in Nodes, NEW k \in Range(c[p])
  PROVE  Depth(c, k) = Depth(c, p) + 1
<1>1. c \in TreeLists /\ OnePlace(c) /\ k \in Keys /\ k \in Nodes /\ k \in Below(c, p)
  BY InRange, NodeFacts, BelowClosed DEF Forest
<1>2. PICK A : A = {q \in Keys : k \in Subtree(c, q)}
  OBVIOUS
<1>3. PICK B : B = {q \in Keys : p \in Subtree(c, q)}
  OBVIOUS
<1>4. B \in SUBSET Keys
  BY <1>3
<1>5. k \notin B
  <2>1. ASSUME p \in Subtree(c, k)  PROVE FALSE
    <3>1. p \in Keys /\ Below(c, p) \subseteq Subtree(c, k) /\ Range(c[p]) \subseteq Below(c, k)
      BY <1>1, <2>1, SubtreeFacts
    <3>. QED  BY <1>1, <3>1 DEF Forest
  <2>. QED  BY <1>3, <2>1
<1>6. ASSUME NEW q \in Keys  PROVE k \in Subtree(c, q) <=> q = k \/ p \in Subtree(c, q)
  <2>1. q \in Nodes
    BY NodeFacts
  <2>2. k \in Below(c, q) => p \in Subtree(c, q)
    BY <1>1, <2>1, ParentUnder
  <2>3. p \in Subtree(c, q) => k \in Below(c, q)
    BY <1>1, SubtreeFacts
  <2>. QED  BY <2>2, <2>3 DEF Subtree
<1>7. A = B \union {k}
  BY <1>1, <1>2, <1>3, <1>6
<1>8. IsFiniteSet(B)
  BY <1>4, MenuBounds, KeysFinite
<1>9. Cardinality(A) = Cardinality(B) + 1
  BY <1>5, <1>7, <1>8, FS_AddElement
<1>. QED  BY <1>2, <1>3, <1>9 DEF Depth

\* The depth of what is in a subtree, from that of the parent of its root.
LEMMA DepthWithin ==
  ASSUME NEW c, Forest(c), NEW p \in Nodes, NEW k \in Range(c[p]), NEW j \in Subtree(c, k)
  PROVE  Depth(c, j) = Cardinality({q \in Subtree(c, k) : j \in Subtree(c, q)}) + Depth(c, p)
<1>1. c \in TreeLists /\ OnePlace(c) /\ k \in Keys /\ k \in Nodes /\ k \in Below(c, p)
  BY InRange, NodeFacts, BelowClosed DEF Forest
<1>2. Subtree(c, k) \subseteq Keys
  BY <1>1, SubtreeFacts
<1>3. PICK A : A = {q \in Keys : j \in Subtree(c, q)}
  OBVIOUS
<1>4. PICK B : B = {q \in Keys : p \in Subtree(c, q)}
  OBVIOUS
<1>5. PICK W : W = {q \in Subtree(c, k) : j \in Subtree(c, q)}
  OBVIOUS
<1>6. B \in SUBSET Keys /\ W \in SUBSET Keys
  BY <1>2, <1>4, <1>5
<1>7. ASSUME NEW q \in Keys, q \in Subtree(c, k)  PROVE p \notin Subtree(c, q)
  <2>1. ASSUME p \in Subtree(c, q)  PROVE FALSE
    <3>1. p \in Subtree(c, k)
      BY <1>1, <1>7, <2>1, SubtreeFacts
    <3>2. k \in Below(c, k)
      BY <1>1, <3>1, SubtreeFacts
    <3>. QED  BY <1>1, <3>2 DEF Forest
  <2>. QED  BY <2>1
<1>8. ASSUME NEW q \in Keys, q \notin Subtree(c, k)  PROVE j \in Subtree(c, q) <=> p \in Subtree(c, q)
  <2>1. q \in Nodes
    BY NodeFacts
  <2>2. ASSUME j \in Subtree(c, q)  PROVE p \in Subtree(c, q)
    <3>1. k \in Below(c, q)
      BY <1>1, <1>8, <2>1, <2>2, Chain DEF Subtree
    <3>. QED  BY <1>1, <2>1, <3>1, ParentUnder
  <2>3. ASSUME p \in Subtree(c, q)  PROVE j \in Subtree(c, q)
    <3>1. k \in Subtree(c, q)
      BY <1>1, <2>3, SubtreeFacts DEF Subtree
    <3>. QED  BY <1>1, <3>1, SubtreeFacts
  <2>. QED  BY <2>2, <2>3
<1>9. A = W \union B /\ W \cap B = {}
  BY <1>2, <1>3, <1>4, <1>5, <1>7, <1>8
<1>10. IsFiniteSet(W) /\ IsFiniteSet(B) /\ Cardinality(W) \in Nat /\ Cardinality(B) \in Nat
  BY <1>6, MenuBounds, KeysFinite
<1>11. Cardinality(A) = Cardinality(W) + Cardinality(B) - Cardinality({})
  BY <1>9, <1>10, FS_Union
<1>12. Cardinality({}) = 0
  BY FS_EmptySet
<1>13. Cardinality(A) = Cardinality(W) + Cardinality(B)
  BY <1>10, <1>11, <1>12
<1>. QED  BY <1>3, <1>4, <1>5, <1>13 DEF Depth

\* The depth of what does not move.
LEMMA ApartDepth ==
  ASSUME NEW c, Forest(c), NEW k \in Keys, NEW d \in TreeLists, OnePlace(d), SameBut(c, d, k),
         \A q \in Subtree(c, k) : k \notin Range(d[q])
  PROVE  \A j \in Nodes \ Subtree(c, k) : Depth(d, j) = Depth(c, j)
<1>1. PICK U : U = Subtree(c, k)
  OBVIOUS
<1>2. /\ \A j \in U : Below(d, j) = Below(c, j) /\ Subtree(d, j) = Subtree(c, j)
      /\ \A j \in Nodes \ U : \A x \in Keys \ U : x \in Below(d, j) <=> x \in Below(c, j)
      /\ c \in TreeLists
  BY <1>1, ApartBelow DEF Forest
<1>3. ASSUME NEW j \in Nodes \ U  PROVE Depth(d, j) = Depth(c, j)
  <2>1. ASSUME NEW q \in Keys  PROVE j \in Subtree(d, q) <=> j \in Subtree(c, q)
    <3>1. CASE q \in U
      BY <1>2, <3>1
    <3>2. CASE q \notin U
      <4>1. q \in Nodes
        BY NodeFacts
      <4>2. Below(c, q) \subseteq Keys /\ Below(d, q) \subseteq Keys
        BY <1>2, <4>1, BelowClosed
      <4>. QED  BY <1>2, <3>2, <4>1, <4>2 DEF Subtree
    <3>. QED  BY <3>1, <3>2
  <2>2. {q \in Keys : j \in Subtree(d, q)} = {q \in Keys : j \in Subtree(c, q)}
    BY <2>1
  <2>. QED  BY <2>2 DEF Depth
<1>. QED  BY <1>1, <1>3

\* A move changes no depth but those in the subtree, which all change alike.
LEMMA MovedDepth ==
  ASSUME NEW c, Forest(c), NEW k \in Keys, NEW p \in Nodes, p \notin Subtree(c, k),
         NEW d, Reparents(c, d, k, p)
  PROVE  /\ \A j \in Nodes \ Subtree(c, k) : Depth(d, j) = Depth(c, j)
         /\ \A j \in Subtree(c, k) :
              Depth(d, j) = Cardinality({q \in Subtree(c, k) : j \in Subtree(c, q)}) + Depth(c, p)
<1>1. PICK U : U = Subtree(c, k)
  OBVIOUS
<1>2. /\ \A j \in U : Below(d, j) = Below(c, j) /\ Subtree(d, j) = Subtree(c, j)
      /\ \A j \in Nodes \ U : \A x \in Keys \ U : x \in Below(d, j) <=> x \in Below(c, j)
      /\ Forest(d) /\ c \in TreeLists /\ d \in TreeLists /\ k \in Range(d[p])
  BY <1>1, MovedBelow DEF Forest, Reparents
<1>3. U \subseteq Keys /\ k \in U /\ \A q \in U : Subtree(c, q) \subseteq U
  BY <1>1, <1>2, SubtreeFacts
<1>4. ASSUME NEW j \in Nodes \ U  PROVE Depth(d, j) = Depth(c, j)
  <2>1. ASSUME NEW q \in Keys  PROVE j \in Subtree(d, q) <=> j \in Subtree(c, q)
    <3>1. CASE q \in U
      BY <1>2, <3>1
    <3>2. CASE q \notin U
      <4>1. q \in Nodes
        BY NodeFacts
      <4>2. Below(c, q) \subseteq Keys /\ Below(d, q) \subseteq Keys
        BY <1>2, <4>1, BelowClosed
      <4>. QED  BY <1>2, <3>2, <4>1, <4>2 DEF Subtree
    <3>. QED  BY <3>1, <3>2
  <2>2. {q \in Keys : j \in Subtree(d, q)} = {q \in Keys : j \in Subtree(c, q)}
    BY <2>1
  <2>. QED  BY <2>2 DEF Depth
<1>5. Depth(d, p) = Depth(c, p)
  BY <1>1, <1>4
<1>6. ASSUME NEW j \in U
      PROVE  Depth(d, j) = Cardinality({q \in U : j \in Subtree(c, q)}) + Depth(c, p)
  <2>1. Subtree(d, k) = U
    BY <1>1, <1>2, <1>3
  <2>2. Depth(d, j) = Cardinality({q \in Subtree(d, k) : j \in Subtree(d, q)}) + Depth(d, p)
    BY <1>2, <2>1, DepthWithin
  <2>3. {q \in Subtree(d, k) : j \in Subtree(d, q)} = {q \in U : j \in Subtree(c, q)}
    BY <1>2, <2>1
  <2>. QED  BY <1>5, <2>2, <2>3
<1>. QED  BY <1>1, <1>4, <1>6

\* The limit, as the code checks it.
LEMMA FitsBelow ==
  ASSUME NEW c, Forest(c), NEW k \in Keys, NEW j \in Subtree(c, k)
  PROVE  Depth(c, j) - Depth(c, k) + 1 <= Height(c, k) /\ Height(c, k) \in Int
<1>1. PICK H : H = {Depth(c, i) - Depth(c, k) + 1 : i \in Subtree(c, k)}
  OBVIOUS
<1>2. \A i : Depth(c, i) \in 0 .. MaxKeys
  BY DepthType DEF Forest
<1>3. MaxKeys \in Nat
  BY MenuBounds
<1>4. H \in SUBSET ((1 - MaxKeys) .. (MaxKeys + 1))
  BY <1>1, <1>2, <1>3
<1>5. IsFiniteSet(H) /\ H \in SUBSET Int /\ Depth(c, j) - Depth(c, k) + 1 \in H
  <2>1. IsFiniteSet((1 - MaxKeys) .. (MaxKeys + 1))
    BY <1>3, FS_Interval
  <2>2. IsFiniteSet(H)
    BY <1>4, <2>1, FS_Subset
  <2>. QED  BY <1>1, <1>3, <1>4, <2>2
<1>6. Max(H) \in H /\ \A y \in H : y <= Max(H)
  BY <1>5, HighestOf
<1>. QED  BY <1>1, <1>5, <1>6 DEF Height

LEMMA MovedFits ==
  ASSUME NEW c, Forest(c), NEW p0 \in Nodes, NEW k \in Range(c[p0]), NEW p \in Nodes, p \notin Subtree(c, k),
         NEW d, Reparents(c, d, k, p), NEW j \in Subtree(c, k)
  PROVE  /\ Depth(d, j) = Depth(c, j) - Depth(c, k) + 1 + Depth(c, p)
         /\ Depth(d, j) <= Depth(c, p) + Height(c, k)
         /\ Depth(c, k) = Depth(c, p0) + 1
<1>1. k \in Keys /\ c \in TreeLists /\ d \in TreeLists
  BY InRange DEF Forest, Reparents
<1>2. PICK w : w = Cardinality({q \in Subtree(c, k) : j \in Subtree(c, q)})
  OBVIOUS
<1>3. Depth(d, j) = w + Depth(c, p) /\ Depth(c, j) = w + Depth(c, p0)
  BY <1>1, <1>2, MovedDepth, DepthWithin
<1>4. Depth(c, k) = Depth(c, p0) + 1
  BY ChildDepth
<1>5. Depth(c, j) - Depth(c, k) + 1 <= Height(c, k) /\ Height(c, k) \in Int
  BY <1>1, FitsBelow
<1>6. Depth(c, p) \in Int /\ Depth(c, p0) \in Int /\ Depth(c, j) \in Int /\ Depth(d, j) \in Int
  BY <1>1, DepthType, MenuBounds
<1>7. w \in Int
  <2>1. {q \in Subtree(c, k) : j \in Subtree(c, q)} \in SUBSET Keys
    BY <1>1, SubtreeFacts
  <2>. QED  BY <1>2, <2>1, MenuBounds, KeysFinite
<1>. QED  BY <1>3, <1>4, <1>5, <1>6, <1>7

-----------------------------------------------------------------------------
(* Splices, and the lists of a tree after them. *)

LEMMA RemoveAtIs ==
  ASSUME NEW s \in Seq(Keys), NEW i \in 1 .. Len(s)
  PROVE  /\ RemoveAt(s, i) \in Seq(Keys) /\ Len(RemoveAt(s, i)) = Len(s) - 1
         /\ \A j \in 1 .. Len(s) - 1 : RemoveAt(s, i)[j] = IF j < i THEN s[j] ELSE s[j + 1]
<1>1. Len(s) \in Nat /\ i \in Int /\ \A j \in 1 .. Len(s) : s[j] \in Keys
  BY LenProperties, ElementOfSeq
<1>2. PICK u : u = SubSeq(s, 1, i - 1)
  OBVIOUS
<1>3. PICK v : v = SubSeq(s, i + 1, Len(s))
  OBVIOUS
<1>4. u \in Seq(Keys) /\ Len(u) = i - 1 /\ \A j \in 1 .. i - 1 : u[j] = s[j]
  <2>1. \A j \in 1 .. i - 1 : s[j] \in Keys
    BY <1>1
  <2>2. /\ SubSeq(s, 1, i - 1) \in Seq(Keys)
        /\ Len(SubSeq(s, 1, i - 1)) = IF 1 <= i - 1 THEN i - 1 - 1 + 1 ELSE 0
        /\ \A j \in 1 .. i - 1 - 1 + 1 : SubSeq(s, 1, i - 1)[j] = s[1 + j - 1]
    BY <1>1, <2>1, SubSeqProperties
  <2>. QED  BY <1>1, <1>2, <2>2
<1>5. v \in Seq(Keys) /\ Len(v) = Len(s) - i /\ \A j \in 1 .. Len(s) - i : v[j] = s[i + j]
  <2>1. \A j \in i + 1 .. Len(s) : s[j] \in Keys
    BY <1>1
  <2>2. /\ SubSeq(s, i + 1, Len(s)) \in Seq(Keys)
        /\ Len(SubSeq(s, i + 1, Len(s))) = IF i + 1 <= Len(s) THEN Len(s) - (i + 1) + 1 ELSE 0
        /\ \A j \in 1 .. Len(s) - (i + 1) + 1 : SubSeq(s, i + 1, Len(s))[j] = s[i + 1 + j - 1]
    BY <1>1, <2>1, SubSeqProperties
  <2>. QED  BY <1>1, <1>3, <2>2
<1>6. /\ u \o v \in Seq(Keys) /\ Len(u \o v) = Len(u) + Len(v)
      /\ \A j \in 1 .. Len(u) + Len(v) : (u \o v)[j] = IF j <= Len(u) THEN u[j] ELSE v[j - Len(u)]
  BY <1>4, <1>5, ConcatProperties
<1>7. RemoveAt(s, i) = u \o v
  BY <1>2, <1>3 DEF RemoveAt
<1>8. ASSUME NEW j \in 1 .. Len(s) - 1  PROVE (u \o v)[j] = IF j < i THEN s[j] ELSE s[j + 1]
  <2>1. CASE j < i
    BY <1>1, <1>4, <1>5, <1>6, <2>1
  <2>2. CASE ~(j < i)
    <3>1. (u \o v)[j] = v[j - Len(u)] /\ j - Len(u) \in 1 .. Len(s) - i
      BY <1>1, <1>4, <1>5, <1>6, <2>2
    <3>2. i + (j - Len(u)) = j + 1
      BY <1>1, <1>4
    <3>. QED  BY <1>5, <2>2, <3>1, <3>2
  <2>. QED  BY <2>1, <2>2
<1>9. Len(u \o v) = Len(s) - 1
  BY <1>1, <1>4, <1>5, <1>6
<1>. QED  BY <1>6, <1>7, <1>8, <1>9

LEMMA InsertAtIs ==
  ASSUME NEW s \in Seq(Keys), NEW i \in 1 .. Len(s) + 1, NEW k \in Keys
  PROVE  /\ InsertAt(s, i, k) \in Seq(Keys) /\ Len(InsertAt(s, i, k)) = Len(s) + 1
         /\ \A j \in 1 .. Len(s) + 1 : j < i => InsertAt(s, i, k)[j] = s[j]
         /\ InsertAt(s, i, k)[i] = k
         /\ \A j \in 1 .. Len(s) + 1 : j > i => InsertAt(s, i, k)[j] = s[j - 1]
<1>1. Len(s) \in Nat /\ i \in Int /\ \A j \in 1 .. Len(s) : s[j] \in Keys
  BY LenProperties, ElementOfSeq
<1>2. PICK u : u = SubSeq(s, 1, i - 1)
  OBVIOUS
<1>3. PICK v : v = SubSeq(s, i, Len(s))
  OBVIOUS
<1>4. u \in Seq(Keys) /\ Len(u) = i - 1 /\ \A j \in 1 .. i - 1 : u[j] = s[j]
  <2>1. \A j \in 1 .. i - 1 : s[j] \in Keys
    BY <1>1
  <2>2. /\ SubSeq(s, 1, i - 1) \in Seq(Keys)
        /\ Len(SubSeq(s, 1, i - 1)) = IF 1 <= i - 1 THEN i - 1 - 1 + 1 ELSE 0
        /\ \A j \in 1 .. i - 1 - 1 + 1 : SubSeq(s, 1, i - 1)[j] = s[1 + j - 1]
    BY <1>1, <2>1, SubSeqProperties
  <2>. QED  BY <1>1, <1>2, <2>2
<1>5. v \in Seq(Keys) /\ Len(v) = Len(s) - i + 1 /\ \A j \in 1 .. Len(s) - i + 1 : v[j] = s[i + j - 1]
  <2>1. \A j \in i .. Len(s) : s[j] \in Keys
    BY <1>1
  <2>2. /\ SubSeq(s, i, Len(s)) \in Seq(Keys)
        /\ Len(SubSeq(s, i, Len(s))) = IF i <= Len(s) THEN Len(s) - i + 1 ELSE 0
        /\ \A j \in 1 .. Len(s) - i + 1 : SubSeq(s, i, Len(s))[j] = s[i + j - 1]
    BY <1>1, <2>1, SubSeqProperties
  <2>. QED  BY <1>1, <1>3, <2>2
<1>6. PICK w : w = <<k>>
  OBVIOUS
<1>7. w \in Seq(Keys) /\ Len(w) = 1 /\ w[1] = k
  BY <1>6
<1>8. /\ u \o w \in Seq(Keys) /\ Len(u \o w) = Len(u) + Len(w)
      /\ \A j \in 1 .. Len(u) + Len(w) : (u \o w)[j] = IF j <= Len(u) THEN u[j] ELSE w[j - Len(u)]
  BY <1>4, <1>7, ConcatProperties
<1>9. PICK x : x = u \o w
  OBVIOUS
<1>10. x \in Seq(Keys) /\ Len(x) = i /\ (\A j \in 1 .. i - 1 : x[j] = s[j]) /\ x[i] = k
  <2>1. x \in Seq(Keys) /\ Len(x) = i
    BY <1>1, <1>4, <1>7, <1>8, <1>9
  <2>2. x[i] = k
    <3>1. x[i] = w[i - Len(u)] /\ i - Len(u) = 1
      BY <1>1, <1>4, <1>7, <1>8, <1>9
    <3>. QED  BY <1>7, <3>1
  <2>3. \A j \in 1 .. i - 1 : x[j] = s[j]
    BY <1>1, <1>4, <1>7, <1>8, <1>9
  <2>. QED  BY <2>1, <2>2, <2>3
<1>11. /\ x \o v \in Seq(Keys) /\ Len(x \o v) = Len(x) + Len(v)
       /\ \A j \in 1 .. Len(x) + Len(v) : (x \o v)[j] = IF j <= Len(x) THEN x[j] ELSE v[j - Len(x)]
  BY <1>5, <1>10, ConcatProperties
<1>12. InsertAt(s, i, k) = x \o v
  BY <1>2, <1>3, <1>6, <1>9 DEF InsertAt
<1>13. ASSUME NEW j \in 1 .. Len(s) + 1, j < i  PROVE (x \o v)[j] = s[j]
  <2>1. j \in 1 .. i - 1 /\ j <= Len(x) /\ j \in 1 .. Len(x) + Len(v)
    BY <1>1, <1>5, <1>10, <1>13
  <2>2. (x \o v)[j] = x[j]
    BY <1>11, <2>1
  <2>. QED  BY <1>10, <2>1, <2>2
<1>15. (x \o v)[i] = k
  BY <1>1, <1>5, <1>10, <1>11
<1>16. ASSUME NEW j \in 1 .. Len(s) + 1, j > i  PROVE (x \o v)[j] = s[j - 1]
  <2>1. (x \o v)[j] = v[j - i] /\ j - i \in 1 .. Len(s) - i + 1
    BY <1>1, <1>5, <1>10, <1>11, <1>16
  <2>2. i + (j - i) - 1 = j - 1
    BY <1>1
  <2>. QED  BY <1>5, <2>1, <2>2
<1>14. Len(x \o v) = Len(s) + 1
  BY <1>1, <1>5, <1>10, <1>11
<1>. QED  BY <1>11, <1>12, <1>13, <1>14, <1>15, <1>16

LEMMA AppendInserts ==
  ASSUME NEW s \in Seq(Keys), NEW k \in Keys
  PROVE  Append(s, k) = InsertAt(s, Len(s) + 1, k)
<1>1. Len(s) \in Nat /\ Len(s) + 1 \in 1 .. Len(s) + 1
  BY LenProperties
<1>2. /\ Append(s, k) \in Seq(Keys) /\ Len(Append(s, k)) = Len(s) + 1
      /\ \A i \in 1 .. Len(s) : Append(s, k)[i] = s[i]
      /\ Append(s, k)[Len(s) + 1] = k
  BY AppendProperties
<1>3. PICK t : t = InsertAt(s, Len(s) + 1, k)
  OBVIOUS
<1>4. /\ t \in Seq(Keys) /\ Len(t) = Len(s) + 1
      /\ (\A j \in 1 .. Len(s) : t[j] = s[j]) /\ t[Len(s) + 1] = k
  <2>1. PICK n \in 1 .. Len(s) + 1 : n = Len(s) + 1
    BY <1>1
  <2>2. t = InsertAt(s, n, k)
    BY <1>3, <2>1
  <2>3. t \in Seq(Keys) /\ Len(t) = Len(s) + 1
    <3>1. InsertAt(s, n, k) \in Seq(Keys) /\ Len(InsertAt(s, n, k)) = Len(s) + 1
      BY InsertAtIs
    <3>. QED  BY <2>2, <3>1
  <2>4. (\A j \in 1 .. Len(s) + 1 : j < n => t[j] = s[j]) /\ t[n] = k
    <3>1. ASSUME NEW j \in 1 .. Len(s) + 1, j < n  PROVE InsertAt(s, n, k)[j] = s[j]
      BY <3>1, InsertAtIs
    <3>2. InsertAt(s, n, k)[n] = k
      BY InsertAtIs
    <3>. QED  BY <2>2, <3>1, <3>2
  <2>. QED  BY <1>1, <2>1, <2>3, <2>4
<1>5. ASSUME NEW j \in 1 .. Len(s) + 1  PROVE Append(s, k)[j] = t[j]
  BY <1>1, <1>2, <1>4
<1>6. Append(s, k) = t
  BY <1>1, <1>2, <1>4, <1>5, SeqEqual
<1>. QED  BY <1>3, <1>6

LEMMA ParentIs ==
  ASSUME NEW c \in TreeLists, OnePlace(c), NEW p \in Nodes, NEW i \in DOMAIN c[p]
  PROVE  Parent(c, c[p][i]) = p /\ PlaceOf(c, c[p][i]) = i
<1>1. PICK k : k = c[p][i]
  OBVIOUS
<1>2. k \in Range(c[p])
  BY <1>1 DEF Range
<1>3. Parent(c, k) \in Nodes /\ k \in Range(c[Parent(c, k)])
  BY <1>2 DEF Parent
<1>4. Parent(c, k) = p
  BY <1>2, <1>3, OneParent
<1>5. \E j \in DOMAIN c[p] : c[p][j] = k
  BY <1>1
<1>6. PlaceOf(c, k) \in DOMAIN c[p] /\ c[p][PlaceOf(c, k)] = k
  BY <1>4, <1>5 DEF PlaceOf
<1>. QED  BY <1>1, <1>4, <1>6 DEF OnePlace

\* An item has a parent and a place.
LEMMA HasPlace ==
  ASSUME NEW c, IsTree(c), NEW k \in Items(c)
  PROVE  /\ k \in Keys /\ Parent(c, k) \in Items(c) \union {Menu} /\ Parent(c, k) \in Nodes
         /\ k \in Range(c[Parent(c, k)]) /\ Parent(c, k) \notin Subtree(c, k)
         /\ PlaceOf(c, k) \in DOMAIN c[Parent(c, k)] /\ c[Parent(c, k)][PlaceOf(c, k)] = k
<1>1. Forest(c) /\ c \in TreeLists /\ OnePlace(c) /\ Menu \in Nodes
  BY NoCycles, NodeFacts DEF Forest
<1>2. PICK p \in Subtree(c, Menu) : p \in Nodes /\ k \in Range(c[p])
  BY <1>1, BelowBottom DEF Items
<1>3. PICK i \in DOMAIN c[p] : c[p][i] = k
  BY <1>2 DEF Range
<1>4. Parent(c, k) = p /\ PlaceOf(c, k) = i
  BY <1>1, <1>2, <1>3, ParentIs
<1>5. k \in Keys
  BY <1>1, BelowClosed DEF Items
<1>6. p \notin Subtree(c, k)
  <2>1. ASSUME p \in Subtree(c, k)  PROVE k \in Below(c, k)
    BY <1>1, <1>2, <1>5, <2>1, SubtreeFacts
  <2>. QED  BY <1>5, <2>1, <1>1 DEF Forest
<1>. QED  BY <1>2, <1>3, <1>4, <1>5, <1>6 DEF Subtree, Items

LEMMA SameButTransitive ==
  ASSUME NEW c, NEW d, NEW e, NEW k, SameBut(c, d, k), SameBut(d, e, k)
  PROVE  SameBut(c, e, k)
<1>1. ASSUME NEW q \in Nodes  PROVE Range(c[q]) \ {k} = Range(e[q]) \ {k}
  BY DEF SameBut
<1>2. ASSUME NEW s, NEW t, NEW u, Keeps(s, t, k), Keeps(t, u, k)  PROVE Keeps(s, u, k)
  BY <1>2 DEF Keeps
<1>. QED  BY <1>1, <1>2 DEF SameBut

LEMMA TakenIs ==
  ASSUME NEW c \in TreeLists, OnePlace(c), NEW p \in Nodes, NEW i \in DOMAIN c[p], NEW k, k = c[p][i]
  PROVE  /\ Taken(c, k) \in TreeLists /\ OnePlace(Taken(c, k)) /\ SameBut(c, Taken(c, k), k)
         /\ \A q \in Nodes : k \notin Range(Taken(c, k)[q])
         /\ \A q \in Nodes \ {p} : Taken(c, k)[q] = c[q]
         /\ Taken(c, k)[p] = RemoveAt(c[p], i)
<1>1. Parent(c, k) = p /\ PlaceOf(c, k) = i
  BY ParentIs
<1>2. PICK r : r = Taken(c, k)
  OBVIOUS
<1>3. r = [c EXCEPT ![p] = RemoveAt(c[p], i)]
  BY <1>1, <1>2 DEF Taken
<1>4. PICK s : s = c[p]
  OBVIOUS
<1>5. PICK t : t = RemoveAt(s, i)
  OBVIOUS
<1>6. s \in Seq(Keys) /\ i \in 1 .. Len(s) /\ Len(s) \in Nat /\ DOMAIN s = 1 .. Len(s)
  BY <1>4, InRange DEF TreeLists
<1>7. /\ t \in Seq(Keys) /\ Len(t) = Len(s) - 1 /\ DOMAIN t = 1 .. Len(s) - 1
      /\ \A j \in 1 .. Len(s) - 1 : t[j] = IF j < i THEN s[j] ELSE s[j + 1]
  BY <1>5, <1>6, RemoveAtIs, LenProperties
<1>8. r \in TreeLists /\ r[p] = t /\ \A q \in Nodes \ {p} : r[q] = c[q]
  BY <1>3, <1>4, <1>5, <1>7 DEF TreeLists
<1>9. PICK f : f = [j \in 1 .. Len(s) - 1 |-> IF j < i THEN j ELSE j + 1]
  OBVIOUS
<1>10. \A j \in DOMAIN t : f[j] \in DOMAIN s /\ f[j] # i /\ t[j] = s[f[j]] /\ f[j] \in Int
  BY <1>6, <1>7, <1>9
<1>11. \A j, l \in DOMAIN t : j < l <=> f[j] < f[l]
  BY <1>6, <1>7, <1>9
<1>12. \A j \in DOMAIN s \ {i} : \E l \in DOMAIN t : f[l] = j
  <2>1. ASSUME NEW j \in DOMAIN s \ {i}  PROVE \E l \in DOMAIN t : f[l] = j
    <3>1. CASE j < i
      <4>1. j \in DOMAIN t /\ f[j] = j
        BY <1>6, <1>7, <1>9, <3>1
      <4>. QED  BY <4>1
    <3>2. CASE ~(j < i)
      <4>1. j - 1 \in DOMAIN t /\ f[j - 1] = j
        BY <1>6, <1>7, <1>9, <2>1, <3>2
      <4>. QED  BY <4>1
    <3>. QED  BY <3>1, <3>2
  <2>. QED  BY <2>1
<1>13. \A j \in DOMAIN s : s[j] = k => j = i
  BY <1>4 DEF OnePlace
<1>14. Keeps(s, t, k) /\ Keeps(t, s, k)
  <2>1. ASSUME NEW a \in DOMAIN s, NEW b \in DOMAIN s, a < b, s[a] # k, s[b] # k
        PROVE  \E d, e \in DOMAIN t : d < e /\ t[d] = s[a] /\ t[e] = s[b]
    <3>1. a # i /\ b # i
      BY <1>4, <2>1
    <3>2. PICK d \in DOMAIN t : f[d] = a
      BY <1>12, <3>1
    <3>3. PICK e \in DOMAIN t : f[e] = b
      BY <1>12, <3>1
    <3>4. d < e
      BY <1>11, <2>1, <3>2, <3>3
    <3>. QED  BY <1>10, <3>2, <3>3, <3>4
  <2>2. ASSUME NEW a \in DOMAIN t, NEW b \in DOMAIN t, a < b
        PROVE  \E d, e \in DOMAIN s : d < e /\ s[d] = t[a] /\ s[e] = t[b]
    BY <1>10, <1>11, <2>2
  <2>. QED  BY <2>1, <2>2 DEF Keeps
<1>15. Range(s) \ {k} = Range(t) /\ k \notin Range(t)
  <2>1. ASSUME NEW x \in Range(t)  PROVE x \in Range(s) /\ x # k
    <3>1. PICK j \in DOMAIN t : x = t[j]
      BY <2>1 DEF Range
    <3>2. f[j] \in DOMAIN s /\ x = s[f[j]] /\ f[j] # i
      BY <1>10, <3>1
    <3>. QED  BY <1>13, <3>2 DEF Range
  <2>2. ASSUME NEW x \in Range(s), x # k  PROVE x \in Range(t)
    <3>1. PICK j \in DOMAIN s : x = s[j]
      BY <2>2 DEF Range
    <3>2. j # i
      BY <1>4, <2>2, <3>1
    <3>3. PICK l \in DOMAIN t : f[l] = j
      BY <1>12, <3>2
    <3>4. t[l] = x
      BY <1>10, <3>1, <3>3
    <3>. QED  BY <3>4 DEF Range
  <2>. QED  BY <2>1, <2>2
<1>16. SameBut(c, r, k)
  <2>1. ASSUME NEW q \in Nodes \ {p}  PROVE Keeps(c[q], c[q], k)
    BY DEF Keeps
  <2>. QED  BY <1>4, <1>8, <1>14, <1>15, <2>1 DEF SameBut
<1>17. ASSUME NEW q \in Nodes  PROVE k \notin Range(r[q])
  <2>1. CASE q = p
    BY <1>8, <1>15, <2>1
  <2>2. CASE q # p
    <3>1. k \in Range(c[p])
      BY DEF Range
    <3>. QED  BY <1>8, <2>2, <3>1, OneParent
  <2>. QED  BY <2>1, <2>2
<1>18. OnePlace(r)
  <2>1. ASSUME NEW q1 \in Nodes, NEW q2 \in Nodes, NEW a \in DOMAIN r[q1], NEW b \in DOMAIN r[q2], r[q1][a] = r[q2][b]
        PROVE  q1 = q2 /\ a = b
    <3>1. PICK a2 \in DOMAIN c[q1] : c[q1][a2] = r[q1][a] /\ (q1 = p => a2 = f[a]) /\ (q1 # p => a2 = a)
      BY <1>4, <1>8, <1>10
    <3>2. PICK b2 \in DOMAIN c[q2] : c[q2][b2] = r[q2][b] /\ (q2 = p => b2 = f[b]) /\ (q2 # p => b2 = b)
      BY <1>4, <1>8, <1>10
    <3>3. q1 = q2 /\ a2 = b2
      BY <2>1, <3>1, <3>2 DEF OnePlace
    <3>4. CASE q1 = p
      <4>1. f[a] = f[b] /\ a \in DOMAIN t /\ b \in DOMAIN t
        BY <1>8, <3>1, <3>2, <3>3, <3>4
      <4>. QED  BY <1>7, <1>6, <1>10, <1>11, <3>3, <4>1
    <3>. QED  BY <3>1, <3>2, <3>3, <3>4
  <2>. QED  BY <2>1 DEF OnePlace
<1>. QED  BY <1>2, <1>4, <1>5, <1>8, <1>16, <1>17, <1>18

LEMMA PutIs ==
  ASSUME NEW r \in TreeLists, OnePlace(r), NEW k \in Keys, \A q \in Nodes : k \notin Range(r[q]),
         NEW p \in Nodes, NEW i \in 1 .. Len(r[p]) + 1
  PROVE  /\ Put(r, p, i, k) \in TreeLists /\ OnePlace(Put(r, p, i, k)) /\ SameBut(r, Put(r, p, i, k), k)
         /\ \A q \in Nodes \ {p} : Put(r, p, i, k)[q] = r[q]
         /\ Put(r, p, i, k)[p] = InsertAt(r[p], i, k)
         /\ i \in DOMAIN Put(r, p, i, k)[p] /\ Put(r, p, i, k)[p][i] = k /\ k \in Range(Put(r, p, i, k)[p])
<1>2. PICK d : d = Put(r, p, i, k)
  OBVIOUS
<1>4. PICK s : s = r[p]
  OBVIOUS
<1>5. PICK t : t = InsertAt(s, i, k)
  OBVIOUS
<1>3. d = [r EXCEPT ![p] = t]
  BY <1>2, <1>4, <1>5 DEF Put
<1>6. s \in Seq(Keys) /\ i \in 1 .. Len(s) + 1 /\ Len(s) \in Nat /\ DOMAIN s = 1 .. Len(s)
  BY <1>4, InRange DEF TreeLists
<1>7. /\ t \in Seq(Keys) /\ Len(t) = Len(s) + 1 /\ DOMAIN t = 1 .. Len(s) + 1
      /\ \A j \in 1 .. Len(s) + 1 : j < i => t[j] = s[j]
      /\ t[i] = k
      /\ \A j \in 1 .. Len(s) + 1 : j > i => t[j] = s[j - 1]
  <2>1. t \in Seq(Keys) /\ Len(t) = Len(s) + 1
    BY <1>5, <1>6, InsertAtIs
  <2>2. DOMAIN t = 1 .. Len(s) + 1
    BY <2>1, LenProperties
  <2>3. ASSUME NEW j \in 1 .. Len(s) + 1, j < i  PROVE t[j] = s[j]
    <3>1. InsertAt(s, i, k)[j] = s[j]
      BY <1>6, <2>3, InsertAtIs
    <3>. QED  BY <1>5, <3>1
  <2>4. t[i] = k
    BY <1>5, <1>6, InsertAtIs
  <2>5. ASSUME NEW j \in 1 .. Len(s) + 1, j > i  PROVE t[j] = s[j - 1]
    <3>1. InsertAt(s, i, k)[j] = s[j - 1]
      BY <1>6, <2>5, InsertAtIs
    <3>. QED  BY <1>5, <3>1
  <2>. QED  BY <2>1, <2>2, <2>3, <2>4, <2>5
<1>8. d \in TreeLists /\ d[p] = t /\ \A q \in Nodes \ {p} : d[q] = r[q]
  BY <1>3, <1>7 DEF TreeLists
<1>9. PICK f : f = [j \in 1 .. Len(s) + 1 |-> IF j < i THEN j ELSE j - 1]
  OBVIOUS
<1>10. \A j \in DOMAIN t \ {i} : f[j] \in DOMAIN s /\ t[j] = s[f[j]] /\ f[j] \in Int
  <2>1. ASSUME NEW j \in DOMAIN t \ {i}  PROVE f[j] \in DOMAIN s /\ t[j] = s[f[j]] /\ f[j] \in Int
    <3>1. CASE j < i
      BY <1>6, <1>7, <1>9, <3>1
    <3>2. CASE j > i
      BY <1>6, <1>7, <1>9, <3>2
    <3>3. j < i \/ j > i
      BY <1>6, <1>7, <2>1
    <3>. QED  BY <3>1, <3>2, <3>3
  <2>. QED  BY <2>1
<1>11. \A j, l \in DOMAIN t \ {i} : j < l <=> f[j] < f[l]
  BY <1>6, <1>7, <1>9
<1>12. \A j \in DOMAIN s : \E l \in DOMAIN t \ {i} : f[l] = j
  <2>1. ASSUME NEW j \in DOMAIN s  PROVE \E l \in DOMAIN t \ {i} : f[l] = j
    <3>1. CASE j < i
      <4>1. j \in DOMAIN t \ {i} /\ f[j] = j
        BY <1>6, <1>7, <1>9, <3>1
      <4>. QED  BY <4>1
    <3>2. CASE ~(j < i)
      <4>1. j + 1 \in DOMAIN t \ {i} /\ f[j + 1] = j
        BY <1>6, <1>7, <1>9, <2>1, <3>2
      <4>. QED  BY <4>1
    <3>. QED  BY <3>1, <3>2
  <2>. QED  BY <2>1
<1>13. \A q \in Nodes : \A j \in DOMAIN r[q] : r[q][j] # k
  BY DEF Range
<1>14. Keeps(s, t, k) /\ Keeps(t, s, k)
  <2>1. ASSUME NEW a \in DOMAIN s, NEW b \in DOMAIN s, a < b
        PROVE  \E d1, e1 \in DOMAIN t : d1 < e1 /\ t[d1] = s[a] /\ t[e1] = s[b]
    <3>2. PICK d1 \in DOMAIN t \ {i} : f[d1] = a
      BY <1>12
    <3>3. PICK e1 \in DOMAIN t \ {i} : f[e1] = b
      BY <1>12
    <3>4. d1 < e1
      BY <1>11, <2>1, <3>2, <3>3
    <3>. QED  BY <1>10, <3>2, <3>3, <3>4
  <2>2. ASSUME NEW a \in DOMAIN t, NEW b \in DOMAIN t, a < b, t[a] # k, t[b] # k
        PROVE  \E d1, e1 \in DOMAIN s : d1 < e1 /\ s[d1] = t[a] /\ s[e1] = t[b]
    <3>1. a \in DOMAIN t \ {i} /\ b \in DOMAIN t \ {i}
      BY <1>7, <2>2
    <3>. QED  BY <1>10, <1>11, <2>2, <3>1
  <2>. QED  BY <2>1, <2>2 DEF Keeps
<1>15. Range(s) = Range(t) \ {k} /\ k \in Range(t) /\ k \notin Range(s) /\ i \in DOMAIN t
  <2>1. ASSUME NEW x \in Range(t), x # k  PROVE x \in Range(s)
    <3>1. PICK j \in DOMAIN t : x = t[j]
      BY <2>1 DEF Range
    <3>2. f[j] \in DOMAIN s /\ x = s[f[j]]
      BY <1>7, <1>10, <2>1, <3>1
    <3>. QED  BY <3>2 DEF Range
  <2>2. ASSUME NEW x \in Range(s)  PROVE x \in Range(t)
    <3>1. PICK j \in DOMAIN s : x = s[j]
      BY <2>2 DEF Range
    <3>3. PICK l \in DOMAIN t \ {i} : f[l] = j
      BY <1>12
    <3>4. t[l] = x
      BY <1>10, <3>1, <3>3
    <3>. QED  BY <3>4 DEF Range
  <2>3. i \in DOMAIN t /\ k \in Range(t)
    BY <1>6, <1>7 DEF Range
  <2>4. k \notin Range(s)
    BY <1>4
  <2>. QED  BY <2>1, <2>2, <2>3, <2>4
<1>16. SameBut(r, d, k)
  <2>1. ASSUME NEW q \in Nodes \ {p}  PROVE Keeps(r[q], r[q], k)
    BY DEF Keeps
  <2>. QED  BY <1>4, <1>8, <1>14, <1>15, <2>1 DEF SameBut
<1>18. OnePlace(d)
  <2>1. ASSUME NEW q1 \in Nodes, NEW q2 \in Nodes, NEW a \in DOMAIN d[q1], NEW b \in DOMAIN d[q2], d[q1][a] = d[q2][b]
        PROVE  q1 = q2 /\ a = b
    <3>0. ASSUME NEW q \in Nodes, NEW e \in DOMAIN d[q], ~(q = p /\ e = i)
          PROVE  \E e2 \in DOMAIN r[q] : r[q][e2] = d[q][e] /\ (q = p => e2 = f[e]) /\ (q # p => e2 = e)
      BY <1>4, <1>8, <1>10, <3>0
    <3>1. d[q1][a] = k <=> q1 = p /\ a = i
      BY <1>7, <1>8, <1>13, <3>0
    <3>2. d[q2][b] = k <=> q2 = p /\ b = i
      BY <1>7, <1>8, <1>13, <3>0
    <3>3. CASE d[q1][a] = k
      BY <2>1, <3>1, <3>2, <3>3
    <3>4. CASE d[q1][a] # k
      <4>1. PICK a2 \in DOMAIN r[q1] : r[q1][a2] = d[q1][a] /\ (q1 = p => a2 = f[a]) /\ (q1 # p => a2 = a)
        BY <3>0, <3>1, <3>4
      <4>2. PICK b2 \in DOMAIN r[q2] : r[q2][b2] = d[q2][b] /\ (q2 = p => b2 = f[b]) /\ (q2 # p => b2 = b)
        BY <2>1, <3>0, <3>2, <3>4
      <4>3. q1 = q2 /\ a2 = b2
        BY <2>1, <4>1, <4>2 DEF OnePlace
      <4>4. CASE q1 = p
        <5>1. f[a] = f[b] /\ a \in DOMAIN t \ {i} /\ b \in DOMAIN t \ {i}
          BY <1>8, <2>1, <3>1, <3>2, <3>4, <4>1, <4>2, <4>3, <4>4
        <5>2. a \in Int /\ b \in Int /\ f[a] \in Int /\ f[b] \in Int /\ ~(a < b) /\ ~(b < a)
          BY <1>6, <1>7, <1>10, <1>11, <5>1
        <5>. QED  BY <4>3, <5>2
      <4>. QED  BY <4>1, <4>2, <4>3, <4>4
    <3>. QED  BY <3>3, <3>4
  <2>. QED  BY <2>1 DEF OnePlace
<1>. QED  BY <1>2, <1>4, <1>5, <1>7, <1>8, <1>15, <1>16, <1>18

\* A push is an insertion at the end.
LEMMA PushIs ==
  ASSUME NEW r \in TreeLists, NEW k \in Keys, NEW p \in Nodes
  PROVE  /\ [r EXCEPT ![p] = Append(@, k)] = Put(r, p, Len(r[p]) + 1, k)
         /\ Len(r[p]) + 1 \in 1 .. Len(r[p]) + 1
<1>1. r[p] \in Seq(Keys) /\ Len(r[p]) \in Nat
  BY InRange DEF TreeLists
<1>2. Append(r[p], k) = InsertAt(r[p], Len(r[p]) + 1, k)
  BY <1>1, AppendInserts
<1>. QED  BY <1>1, <1>2 DEF Put

\* Taken from one list and put in another.
LEMMA TakenAndPut ==
  ASSUME NEW c, IsTree(c), NEW k \in Items(c), NEW p \in Nodes, NEW i \in 1 .. Len(Taken(c, k)[p]) + 1
  PROVE  Reparents(c, Put(Taken(c, k), p, i, k), k, p)
<1>1. c \in TreeLists /\ OnePlace(c)
  BY NoCycles DEF Forest
<1>2. k \in Keys /\ Parent(c, k) \in Nodes /\ PlaceOf(c, k) \in DOMAIN c[Parent(c, k)] /\ c[Parent(c, k)][PlaceOf(c, k)] = k
  BY HasPlace
<1>3. PICK r : r = Taken(c, k)
  OBVIOUS
<1>4. r \in TreeLists /\ OnePlace(r) /\ SameBut(c, r, k) /\ \A q \in Nodes : k \notin Range(r[q])
  BY <1>1, <1>2, <1>3, TakenIs
<1>5. PICK d : d = Put(r, p, i, k)
  OBVIOUS
<1>6. d \in TreeLists /\ OnePlace(d) /\ SameBut(r, d, k) /\ k \in Range(d[p])
  BY <1>2, <1>3, <1>4, <1>5, PutIs
<1>7. SameBut(c, d, k)
  BY <1>4, <1>6, SameButTransitive
<1>. QED  BY <1>3, <1>5, <1>6, <1>7 DEF Reparents

\* A swap of two neighbours.
LEMMA SwapIs ==
  ASSUME NEW c, IsTree(c), NEW k \in Items(c), NEW delta \in {-1, 1}, MoveNode(c, k, delta) # NotPossible
  PROVE  Reparents(c, MoveNode(c, k, delta), k, Parent(c, k))
<1>1. c \in TreeLists /\ OnePlace(c)
  BY NoCycles DEF Forest
<1>2. PICK p \in Nodes : p = Parent(c, k)
  BY HasPlace
<1>3. PICK from \in DOMAIN c[p] : from = PlaceOf(c, k) /\ c[p][from] = k
  BY <1>2, HasPlace
<1>4. PICK s : s = c[p]
  OBVIOUS
<1>5. s \in Seq(Keys) /\ DOMAIN s = 1 .. Len(s) /\ Len(s) \in Nat /\ from \in DOMAIN s /\ s[from] = k /\ from \in Int
      /\ k \in Keys
  BY <1>1, <1>3, <1>4, InRange, HasPlace DEF TreeLists
<1>6. PICK to \in DOMAIN s : to = from + delta
  BY <1>2, <1>3, <1>4 DEF MoveNode
<1>7. PICK t : t = [s EXCEPT ![from] = s[to], ![to] = k]
  OBVIOUS
<1>8. PICK d : d = MoveNode(c, k, delta)
  OBVIOUS
<1>9. d = [c EXCEPT ![p] = t]
  BY <1>2, <1>3, <1>4, <1>6, <1>7, <1>8 DEF MoveNode
<1>10. from # to /\ to \in Int /\ s[to] \in Keys /\ (to = from + 1 \/ to = from - 1)
  BY <1>1, <1>4, <1>5, <1>6, InRange
<1>11. /\ t \in Seq(Keys) /\ DOMAIN t = DOMAIN s
       /\ t[from] = s[to] /\ t[to] = k /\ \A j \in DOMAIN s \ {from, to} : t[j] = s[j]
  <2>1. t \in [1 .. Len(s) -> Keys]
    BY <1>5, <1>7, <1>10, LenProperties
  <2>2. t \in Seq(Keys)
    BY <1>5, <2>1
  <2>. QED  BY <1>5, <1>7, <1>10, <2>1, <2>2
<1>12. d \in TreeLists /\ d[p] = t /\ \A q \in Nodes \ {p} : d[q] = c[q]
  BY <1>1, <1>9, <1>11 DEF TreeLists
<1>13. PICK f : f = [j \in DOMAIN s |-> IF j = from THEN to ELSE IF j = to THEN from ELSE j]
  OBVIOUS
<1>14. \A j \in DOMAIN s : f[j] \in DOMAIN s /\ t[j] = s[f[j]] /\ s[j] = t[f[j]] /\ f[f[j]] = j
  BY <1>5, <1>6, <1>10, <1>11, <1>13
<1>15. \A a, b \in DOMAIN s : a < b /\ a # from /\ b # from => f[a] < f[b]
  BY <1>5, <1>6, <1>10, <1>13
<1>16. \A a, b \in DOMAIN s : a < b /\ a # to /\ b # to => f[a] < f[b]
  BY <1>5, <1>6, <1>10, <1>13
<1>17. Keeps(s, t, k) /\ Keeps(t, s, k)
  <2>1. ASSUME NEW a \in DOMAIN s, NEW b \in DOMAIN s, a < b, s[a] # k, s[b] # k
        PROVE  \E d1, e1 \in DOMAIN t : d1 < e1 /\ t[d1] = s[a] /\ t[e1] = s[b]
    <3>1. a # from /\ b # from
      BY <1>5, <2>1
    <3>2. f[a] < f[b] /\ f[a] \in DOMAIN t /\ f[b] \in DOMAIN t /\ t[f[a]] = s[a] /\ t[f[b]] = s[b]
      BY <1>11, <1>14, <1>15, <2>1, <3>1
    <3>. QED  BY <3>2
  <2>2. ASSUME NEW a \in DOMAIN t, NEW b \in DOMAIN t, a < b, t[a] # k, t[b] # k
        PROVE  \E d1, e1 \in DOMAIN s : d1 < e1 /\ s[d1] = t[a] /\ s[e1] = t[b]
    <3>1. a # to /\ b # to
      BY <1>11, <2>2
    <3>2. f[a] < f[b] /\ f[a] \in DOMAIN s /\ f[b] \in DOMAIN s /\ s[f[a]] = t[a] /\ s[f[b]] = t[b]
      BY <1>11, <1>14, <1>16, <2>2, <3>1
    <3>. QED  BY <3>2
  <2>. QED  BY <2>1, <2>2 DEF Keeps
<1>18. Range(s) = Range(t) /\ k \in Range(t)
  <2>1. ASSUME NEW x \in Range(t)  PROVE x \in Range(s)
    <3>1. PICK j \in DOMAIN t : t[j] = x
      BY <2>1 DEF Range
    <3>2. j \in DOMAIN s /\ f[j] \in DOMAIN s /\ s[f[j]] = x
      BY <1>11, <1>14, <3>1
    <3>. QED  BY <3>2 DEF Range
  <2>2. ASSUME NEW x \in Range(s)  PROVE x \in Range(t)
    <3>1. PICK j \in DOMAIN s : s[j] = x
      BY <2>2 DEF Range
    <3>2. f[j] \in DOMAIN t /\ t[f[j]] = x
      BY <1>11, <1>14, <3>1
    <3>. QED  BY <3>2 DEF Range
  <2>3. k \in Range(t)
    BY <1>11 DEF Range
  <2>. QED  BY <2>1, <2>2, <2>3
<1>19. SameBut(c, d, k)
  <2>1. ASSUME NEW q \in Nodes \ {p}  PROVE Keeps(c[q], c[q], k)
    BY DEF Keeps
  <2>. QED  BY <1>4, <1>12, <1>17, <1>18, <2>1 DEF SameBut
<1>20. OnePlace(d)
  <2>1. ASSUME NEW q1 \in Nodes, NEW q2 \in Nodes, NEW a \in DOMAIN d[q1], NEW b \in DOMAIN d[q2], d[q1][a] = d[q2][b]
        PROVE  q1 = q2 /\ a = b
    <3>0. ASSUME NEW q \in Nodes, NEW e \in DOMAIN d[q]
          PROVE  \E e2 \in DOMAIN c[q] : c[q][e2] = d[q][e] /\ (q = p => e2 = f[e] /\ f[e2] = e) /\ (q # p => e2 = e)
      <4>1. CASE q = p
        <5>1. e \in DOMAIN s
          BY <1>11, <1>12, <3>0, <4>1
        <5>2. f[e] \in DOMAIN s /\ t[e] = s[f[e]] /\ f[f[e]] = e
          BY <1>14, <5>1
        <5>. QED  BY <1>4, <1>12, <4>1, <5>2
      <4>2. CASE q # p
        BY <1>12, <3>0, <4>2
      <4>. QED  BY <4>1, <4>2
    <3>1. PICK a2 \in DOMAIN c[q1] : c[q1][a2] = d[q1][a] /\ (q1 = p => a2 = f[a] /\ f[a2] = a) /\ (q1 # p => a2 = a)
      BY <2>1, <3>0
    <3>2. PICK b2 \in DOMAIN c[q2] : c[q2][b2] = d[q2][b] /\ (q2 = p => b2 = f[b] /\ f[b2] = b) /\ (q2 # p => b2 = b)
      BY <2>1, <3>0
    <3>3. q1 = q2 /\ a2 = b2
      BY <1>1, <2>1, <3>1, <3>2 DEF OnePlace
    <3>. QED  BY <3>1, <3>2, <3>3
  <2>. QED  BY <2>1 DEF OnePlace
<1>. QED  BY <1>2, <1>8, <1>12, <1>18, <1>19, <1>20 DEF Reparents

-----------------------------------------------------------------------------
(* A tree without one item. *)

\* What is under a node depends on the lists there only.
LEMMA SameBelow ==
  ASSUME NEW c \in TreeLists, NEW d \in TreeLists, NEW j \in Nodes, d[j] = c[j], \A q \in Below(c, j) : d[q] = c[q]
  PROVE  Below(d, j) = Below(c, j)
<1>1. Below(d, j) \subseteq Below(c, j)
  <2>1. PICK S : S = Below(c, j)
    OBVIOUS
  <2>2. S \in SUBSET Keys /\ Range(d[j]) \subseteq S /\ \A q \in S : Range(d[q]) \subseteq S
    BY <2>1, BelowClosed
  <2>. QED  BY <2>1, <2>2, BelowLeast
<1>2. Below(c, j) \subseteq Below(d, j)
  <2>1. PICK S : S = Below(d, j)
    OBVIOUS
  <2>2. \A q \in S : Range(d[q]) \subseteq S /\ d[q] = c[q]
    BY <1>1, <2>1, BelowClosed
  <2>3. S \in SUBSET Keys /\ Range(c[j]) \subseteq S /\ \A q \in S : Range(c[q]) \subseteq S
    BY <2>1, <2>2, BelowClosed
  <2>. QED  BY <2>1, <2>3, BelowLeast
<1>. QED  BY <1>1, <1>2

\* The tree without an item's subtree.
LEMMA TakenTree ==
  ASSUME NEW c, IsTree(c), NEW k \in Items(c), NEW r, r = Taken(c, k)
  PROVE  /\ r \in TreeLists /\ OnePlace(r) /\ SameBut(c, r, k) /\ \A q \in Nodes : k \notin Range(r[q])
         /\ \A q \in Nodes \ {Parent(c, k)} : r[q] = c[q]
         /\ \A j \in Nodes \ Subtree(c, k) : Depth(r, j) = Depth(c, j)
         /\ \A j \in Nodes \ Subtree(c, k) : Below(r, j) = Below(c, j) \ Subtree(c, k)
<1>1. Forest(c) /\ c \in TreeLists /\ OnePlace(c)
  BY NoCycles DEF Forest
<1>2. k \in Keys /\ Parent(c, k) \in Nodes /\ PlaceOf(c, k) \in DOMAIN c[Parent(c, k)] /\ c[Parent(c, k)][PlaceOf(c, k)] = k
  BY HasPlace
<1>3. /\ r \in TreeLists /\ OnePlace(r) /\ SameBut(c, r, k) /\ \A q \in Nodes : k \notin Range(r[q])
      /\ \A q \in Nodes \ {Parent(c, k)} : r[q] = c[q]
  BY <1>1, <1>2, TakenIs
<1>4. PICK U : U = Subtree(c, k)
  OBVIOUS
<1>5. U \subseteq Keys /\ U \subseteq Nodes /\ k \in U
  BY <1>1, <1>2, <1>4, SubtreeFacts, NodeFacts
<1>6. \A q \in U : k \notin Range(r[q])
  BY <1>3, <1>5
<1>7. \A j \in Nodes \ U : Depth(r, j) = Depth(c, j)
  BY <1>1, <1>2, <1>3, <1>4, <1>6, ApartDepth
<1>8. /\ \A j \in Nodes \ U : \A x \in Keys \ U : x \in Below(r, j) <=> x \in Below(c, j)
      /\ \A q \in U : Range(r[q]) = Range(c[q])
      /\ Forest(r)
  BY <1>1, <1>2, <1>3, <1>4, <1>6, ApartBelow
<1>9. ASSUME NEW j \in Nodes \ U, NEW x \in Below(r, j), x \in U  PROVE FALSE
  <2>1. PICK S : S = Below(r, j) \ U
    OBVIOUS
  <2>2. S \in SUBSET Keys
    BY <1>3, <2>1, BelowClosed
  <2>3. ASSUME NEW q \in Nodes \ U, NEW y \in Range(r[q])  PROVE y \notin U
    <3>1. y # k /\ y \in Keys
      BY <1>3, <2>3, InRange
    <3>2. y \in Range(c[q])
      BY <1>3, <2>3, <3>1 DEF SameBut
    <3>3. ASSUME y \in U  PROVE q \in U
      BY <1>1, <1>2, <1>4, <2>3, <3>1, <3>2, <3>3, ParentUnder, NodeFacts DEF Subtree
    <3>. QED  BY <2>3, <3>3
  <2>4. Range(r[j]) \subseteq S /\ \A q \in S : Range(r[q]) \subseteq S
    BY <1>3, <2>1, <2>2, <2>3, BelowClosed, NodeFacts
  <2>. QED  BY <1>3, <1>9, <2>1, <2>2, <2>4, BelowLeast
<1>10. ASSUME NEW j \in Nodes \ U  PROVE Below(r, j) = Below(c, j) \ U
  <2>1. Below(r, j) \subseteq Keys /\ Below(c, j) \subseteq Keys
    BY <1>1, <1>3, BelowClosed
  <2>. QED  BY <1>8, <1>9, <2>1
<1>. QED  BY <1>3, <1>4, <1>7, <1>10

\* Removing an item removes its subtree.
LEMMA RemovedTree ==
  ASSUME NEW c, IsTree(c), NEW k \in Items(c), NEW e, e = RemoveNode(c, k)
  PROVE  /\ IsTree(e) /\ Items(e) = Items(c) \ Subtree(c, k)
         /\ \A j \in Items(e) : Depth(e, j) = Depth(c, j)
<1>1. Forest(c) /\ c \in TreeLists /\ OnePlace(c) /\ k \in Keys /\ Parent(c, k) \in Items(c) \union {Menu}
  BY NoCycles, HasPlace DEF Forest
<1>2. PICK r : r = Taken(c, k)
  OBVIOUS
<1>3. PICK U : U = Subtree(c, k)
  OBVIOUS
<1>4. /\ r \in TreeLists /\ OnePlace(r)
      /\ \A q \in Nodes \ {Parent(c, k)} : r[q] = c[q]
      /\ \A j \in Nodes \ U : Depth(r, j) = Depth(c, j)
      /\ \A j \in Nodes \ U : Below(r, j) = Below(c, j) \ U
  BY <1>2, <1>3, TakenTree
<1>5. U \subseteq Keys /\ U \subseteq Nodes /\ k \in U /\ Menu \in Nodes \ U /\ \A q \in U : Subtree(c, q) \subseteq U
  BY <1>1, <1>3, SubtreeFacts, NodeFacts
<1>6. e = [p \in Nodes |-> IF p \in U THEN <<>> ELSE r[p]]
  BY <1>2, <1>3 DEF RemoveNode
<1>7. e \in TreeLists /\ (\A q \in U : e[q] = <<>>) /\ \A q \in Nodes \ U : e[q] = r[q]
  <2>1. \A q \in Nodes : e[q] \in Seq(Keys)
    BY <1>4, <1>6 DEF TreeLists
  <2>. QED  BY <1>5, <1>6, <2>1 DEF TreeLists
<1>8. ASSUME NEW j \in Nodes \ U  PROVE Below(e, j) = Below(c, j) \ U
  <2>1. Below(r, j) \subseteq Nodes \ U
    BY <1>1, <1>4, BelowClosed, NodeFacts
  <2>2. Below(e, j) = Below(r, j)
    BY <1>4, <1>7, <2>1, SameBelow
  <2>. QED  BY <1>4, <2>2
<1>9. Items(e) = Items(c) \ U
  BY <1>5, <1>8 DEF Items
<1>10. ASSUME NEW q \in U  PROVE Below(e, q) = {}
  <2>1. Range(e[q]) = {} /\ q \in Nodes
    BY <1>5, <1>7 DEF Range
  <2>. QED  BY <1>7, <2>1, BelowLeast
<1>11. ASSUME NEW j \in Items(e)  PROVE Depth(e, j) = Depth(c, j)
  <2>1. j \in Keys \ U
    BY <1>1, <1>9, BelowClosed, NodeFacts DEF Items
  <2>2. ASSUME NEW q \in Keys  PROVE j \in Subtree(e, q) <=> j \in Subtree(c, q)
    <3>1. CASE q \in U
      <4>1. Subtree(e, q) \subseteq U /\ Subtree(c, q) \subseteq U
        BY <1>5, <1>10, <3>1 DEF Subtree
      <4>. QED  BY <2>1, <4>1
    <3>2. CASE q \notin U
      <4>1. Below(e, q) = Below(c, q) \ U
        BY <1>8, <3>2, NodeFacts
      <4>. QED  BY <2>1, <4>1 DEF Subtree
    <3>. QED  BY <3>1, <3>2
  <2>3. {q \in Keys : j \in Subtree(e, q)} = {q \in Keys : j \in Subtree(c, q)}
    BY <2>2
  <2>. QED  BY <2>3 DEF Depth
<1>12. OnePlace(e)
  <2>1. ASSUME NEW q \in Nodes, NEW a \in DOMAIN e[q]  PROVE e[q] = r[q]
    <3>1. Len(<<>>) = 0 /\ Len(e[q]) \in Nat /\ DOMAIN e[q] = 1 .. Len(e[q])
      BY <1>7, InRange
    <3>2. q \notin U
      BY <1>7, <2>1, <3>1
    <3>. QED  BY <1>7, <3>2
  <2>. QED  BY <1>4, <2>1 DEF OnePlace
<1>13. ASSUME NEW q \in Keys \ Items(e)  PROVE e[q] = <<>>
  <2>1. CASE q \in U
    BY <1>7, <2>1
  <2>2. CASE q \notin U
    <3>1. q \in Nodes \ U /\ q \notin Items(c) /\ q # Menu
      BY <1>9, <2>2, NodeFacts
    <3>2. e[q] = r[q] /\ r[q] = c[q] /\ c[q] = <<>>
      BY <1>1, <1>4, <1>7, <3>1 DEF IsTree
    <3>. QED  BY <3>2
  <2>. QED  BY <2>1, <2>2
<1>14. IsTree(e)
  BY <1>7, <1>12, <1>13 DEF IsTree, OnePlace, TreeLists
<1>. QED  BY <1>3, <1>9, <1>11, <1>14


-----------------------------------------------------------------------------
(* What any move keeps. *)

WithinDepth(c) == \A j \in Items(c) : Depth(c, j) <= MaxDepth

\* A move of k under p that nests nothing too deep.
Moves(c, d, k, p) ==
    /\ p \in Items(c) \union {Menu} /\ p \notin Subtree(c, k)
    /\ Reparents(c, d, k, p)
    /\ \A j \in Subtree(c, k) : Depth(c, j) - Depth(c, k) + 1 + Depth(c, p) <= MaxDepth

\* MovesOnly, said of a tree.
MovedOnly(c, d, k) ==
    /\ IsTree(d) /\ Items(d) = Items(c) /\ Subtree(d, k) = Subtree(c, k)
    /\ WithinDepth(d)
    /\ \A j \in Items(d) \ {k} : Parent(d, j) = Parent(c, j)
    /\ \A i, j \in Items(d) :
         (i \in Subtree(c, k) <=> j \in Subtree(c, k)) => (<<i, j>> \in Order(d) <=> <<i, j>> \in Order(c))

LEMMA ItemFacts ==
  ASSUME NEW c, IsTree(c), NEW k \in Items(c)
  PROVE  /\ Forest(c) /\ c \in TreeLists /\ OnePlace(c) /\ Items(c) \subseteq Keys /\ k \in Keys /\ k \in Nodes
         /\ Subtree(c, k) \subseteq Items(c) /\ Below(c, k) \subseteq Items(c) /\ k \in Subtree(c, k)
         /\ Menu \notin Subtree(c, k)
<1>1. Forest(c) /\ c \in TreeLists /\ OnePlace(c)
  BY NoCycles DEF Forest
<1>2. Items(c) \subseteq Keys /\ Menu \in Nodes
  BY <1>1, BelowClosed, NodeFacts DEF Items
<1>3. Below(c, k) \subseteq Items(c)
  BY <1>1, <1>2, BelowTransitive DEF Items
<1>. QED  BY <1>1, <1>2, <1>3, NodeFacts DEF Subtree

LEMMA MovesKeep ==
  ASSUME NEW c, IsTree(c), WithinDepth(c), NEW k \in Items(c), NEW p, NEW d, Moves(c, d, k, p)
  PROVE  MovedOnly(c, d, k)
<1>1. PICK U : U = Subtree(c, k)
  OBVIOUS
<1>2. Forest(c) /\ c \in TreeLists /\ OnePlace(c) /\ Items(c) \subseteq Keys /\ k \in Keys /\ U \subseteq Items(c) /\ k \in U
  BY <1>1, ItemFacts
<1>3. p \in Items(c) \union {Menu} /\ p \in Nodes /\ p \notin U /\ Reparents(c, d, k, p) /\ d \in TreeLists /\ OnePlace(d)
      /\ SameBut(c, d, k)
  BY <1>1, <1>2, NodeFacts DEF Moves, Reparents
<1>4. IsTree(d) /\ Items(d) = Items(c)
  <2>1. IsTree(d) /\ Items(d) = Items(c) \union U
    BY <1>1, <1>2, <1>3, MovedItems
  <2>. QED  BY <1>2, <2>1
<1>5. Subtree(d, k) = U /\ Forest(d)
  BY <1>1, <1>2, <1>3, MovedBelow
<1>6. ASSUME NEW j \in Items(d)  PROVE Depth(d, j) <= MaxDepth
  <2>1. CASE j \in U
    <3>1. PICK p0 \in Nodes : k \in Range(c[p0])
      BY HasPlace
    <3>2. Depth(d, j) = Depth(c, j) - Depth(c, k) + 1 + Depth(c, p)
      BY <1>1, <1>2, <1>3, <2>1, <3>1, MovedFits
    <3>. QED  BY <1>1, <2>1, <3>2 DEF Moves
  <2>2. CASE j \notin U
    <3>1. j \in Nodes \ U
      BY <1>2, <1>4, <2>2, NodeFacts
    <3>2. Depth(d, j) = Depth(c, j)
      BY <1>1, <1>2, <1>3, <3>1, MovedDepth
    <3>. QED  BY <1>4, <3>2 DEF WithinDepth
  <2>. QED  BY <2>1, <2>2
<1>7. ASSUME NEW j \in Items(d), j # k  PROVE Parent(d, j) = Parent(c, j)
  <2>1. Parent(d, j) \in Nodes /\ j \in Range(d[Parent(d, j)])
    BY <1>4, HasPlace
  <2>2. Parent(c, j) \in Nodes /\ j \in Range(c[Parent(c, j)])
    BY <1>4, HasPlace
  <2>3. j \in Range(c[Parent(d, j)])
    BY <1>3, <1>7, <2>1 DEF SameBut
  <2>. QED  BY <1>2, <2>1, <2>2, <2>3, OneParent
<1>8. ASSUME NEW x \in Items(c), NEW y \in Items(c), x \in U <=> y \in U
      PROVE  MetBefore(d, x, y) <=> MetBefore(c, x, y)
  <2>1. x \in Keys /\ y \in Keys
    BY <1>2
  <2>2. MetBefore(c, x, y) => MetBefore(d, x, y)
    BY <1>1, <1>2, <1>3, <1>8, <2>1, MovedOrder
  <2>3. MetBefore(c, y, x) => MetBefore(d, y, x)
    BY <1>1, <1>2, <1>3, <1>8, <2>1, MovedOrder
  <2>4. ASSUME MetBefore(d, x, y)  PROVE MetBefore(c, x, y)
    <3>1. ~MetBefore(d, y, x) /\ x # y
      BY <1>5, <2>1, <2>4, BeforeAsymmetric
    <3>. QED  BY <1>2, <2>3, <3>1, BeforeTotal
  <2>. QED  BY <2>2, <2>4
<1>9. ASSUME NEW x \in Items(d), NEW y \in Items(d), x \in U <=> y \in U
      PROVE  <<x, y>> \in Order(d) <=> <<x, y>> \in Order(c)
  <2>1. <<x, y>> \in Order(d) <=> MetBefore(d, x, y)
    BY <1>3, OrderIsBefore
  <2>2. <<x, y>> \in Order(c) <=> MetBefore(c, x, y)
    BY <1>2, <1>4, OrderIsBefore
  <2>. QED  BY <1>4, <1>8, <1>9, <2>1, <2>2
<1>. QED  BY <1>1, <1>4, <1>5, <1>6, <1>7, <1>9 DEF MovedOnly, WithinDepth

-----------------------------------------------------------------------------
(* Each operation is such a move. *)

\* The depth of an item's parent, and of what is in its subtree.
LEMMA DepthFacts ==
  ASSUME NEW c, IsTree(c), WithinDepth(c), NEW k \in Items(c)
  PROVE  /\ Depth(c, k) = Depth(c, Parent(c, k)) + 1
         /\ \A j : Depth(c, j) \in Int
         /\ \A j \in Subtree(c, k) : Depth(c, j) <= MaxDepth
         /\ \A j \in Subtree(c, k) : Depth(c, j) - Depth(c, k) + 1 <= Height(c, k)
         /\ Height(c, k) \in Int /\ MaxDepth \in Int
<1>1. Forest(c) /\ c \in TreeLists /\ k \in Keys /\ Subtree(c, k) \subseteq Items(c)
  BY ItemFacts
<1>2. Depth(c, k) = Depth(c, Parent(c, k)) + 1
  BY <1>1, HasPlace, ChildDepth
<1>3. \A j : Depth(c, j) \in Int
  BY <1>1, DepthType, MenuBounds
<1>4. \A j \in Subtree(c, k) : Depth(c, j) - Depth(c, k) + 1 <= Height(c, k)
  BY <1>1, FitsBelow
<1>5. Height(c, k) \in Int
  BY <1>1, FitsBelow, ItemFacts
<1>. QED  BY <1>1, <1>2, <1>3, <1>4, <1>5, MenuBounds DEF WithinDepth

LEMMA IndentMoves ==
  ASSUME NEW c, IsTree(c), WithinDepth(c), NEW k \in Items(c), Indent(c, k) # NotPossible
  PROVE  \E p : Moves(c, Indent(c, k), k, p)
<1>1. CanIndent(c, k)
  BY DEF Indent
<1>2. Forest(c) /\ c \in TreeLists /\ OnePlace(c) /\ Items(c) \subseteq Keys /\ k \in Keys
  BY ItemFacts
<1>3. PICK q \in Nodes : q = Parent(c, k) /\ q \in Items(c) \union {Menu}
  BY HasPlace
<1>4. PICK i \in DOMAIN c[q] : i = PlaceOf(c, k) /\ c[q][i] = k
  BY <1>3, HasPlace
<1>5. i > 1 /\ Depth(c, k) + Height(c, k) <= MaxDepth
  BY <1>1, <1>4 DEF CanIndent
<1>6. PICK s : s = c[q][i - 1]
  OBVIOUS
<1>7. i - 1 \in DOMAIN c[q] /\ i # i - 1
  BY <1>2, <1>5, InRange
<1>8. s \in Keys /\ s \in Range(c[q]) /\ s \in Below(c, q) /\ s \in Subtree(c, s) /\ s \in Nodes
  <2>1. s \in Keys /\ s \in Range(c[q])
    BY <1>2, <1>6, <1>7, ChildSubtree
  <2>. QED  BY <1>2, <2>1, BelowClosed, NodeFacts DEF Subtree
<1>9. s \notin Subtree(c, k)
  BY <1>2, <1>4, <1>6, <1>7, <1>8, SiblingsApart
<1>10. s \in Items(c)
  <2>1. CASE q = Menu
    BY <1>8, <2>1 DEF Items
  <2>2. CASE q \in Items(c)
    BY <1>8, <2>2, ItemFacts
  <2>. QED  BY <1>3, <2>1, <2>2
<1>11. PICK r : r = Taken(c, k)
  OBVIOUS
<1>12. Indent(c, k) = [r EXCEPT ![s] = Append(@, k)]
  BY <1>1, <1>3, <1>4, <1>6, <1>11 DEF Indent
<1>13. r \in TreeLists
  BY <1>11, TakenTree
<1>14. Indent(c, k) = Put(r, s, Len(r[s]) + 1, k) /\ Len(r[s]) + 1 \in 1 .. Len(r[s]) + 1
  BY <1>2, <1>8, <1>12, <1>13, PushIs
<1>15. PICK n : n = Len(r[s]) + 1
  OBVIOUS
<1>16. Reparents(c, Indent(c, k), k, s)
  BY <1>8, <1>11, <1>14, <1>15, TakenAndPut
<1>17. Depth(c, s) = Depth(c, q) + 1 /\ Depth(c, k) = Depth(c, q) + 1
  BY <1>2, <1>3, <1>8, ChildDepth, DepthFacts
<1>18. ASSUME NEW j \in Subtree(c, k)  PROVE Depth(c, j) - Depth(c, k) + 1 + Depth(c, s) <= MaxDepth
  <2>1. Depth(c, j) - Depth(c, k) + 1 <= Height(c, k) /\ Height(c, k) \in Int /\ MaxDepth \in Int
        /\ Depth(c, j) \in Int /\ Depth(c, k) \in Int
    BY DepthFacts
  <2>. QED  BY <1>5, <1>17, <2>1
<1>19. Moves(c, Indent(c, k), k, s)
  BY <1>9, <1>10, <1>16, <1>18 DEF Moves
<1>. QED  BY <1>19

LEMMA OutdentMoves ==
  ASSUME NEW c, IsTree(c), WithinDepth(c), NEW k \in Items(c), Outdent(c, k) # NotPossible
  PROVE  \E p : Moves(c, Outdent(c, k), k, p)
<1>1. CanOutdent(c, k)
  BY DEF Outdent
<1>2. Forest(c) /\ c \in TreeLists /\ OnePlace(c) /\ Items(c) \subseteq Keys /\ k \in Keys
  BY ItemFacts
<1>3. PICK p : p = Parent(c, k)
  OBVIOUS
<1>4. p \in Items(c) /\ p \in Nodes /\ p \notin Subtree(c, k)
  BY <1>1, <1>3, HasPlace DEF CanOutdent
<1>5. PICK q \in Nodes : q = Parent(c, p) /\ q \in Items(c) \union {Menu} /\ p \in Range(c[q]) /\ q \notin Subtree(c, p)
  BY <1>4, HasPlace
<1>6. PICK i \in DOMAIN c[q] : i = PlaceOf(c, p)
  BY <1>4, <1>5, HasPlace
<1>7. q # p /\ q \notin Subtree(c, k)
  <2>1. q # p
    BY <1>5 DEF Subtree
  <2>2. q \in Subtree(c, k) => p \in Subtree(c, k)
    BY <1>2, <1>5, SubtreeFacts DEF Subtree
  <2>. QED  BY <1>4, <2>1, <2>2
<1>8. PICK r : r = Taken(c, k)
  OBVIOUS
<1>9. r[q] = c[q]
  BY <1>3, <1>7, <1>8, TakenTree
<1>10. PICK n : n = i + 1
  OBVIOUS
<1>11. n \in 1 .. Len(r[q]) + 1
  BY <1>2, <1>6, <1>9, <1>10, InRange
<1>12. Outdent(c, k) = Put(r, q, n, k)
  BY <1>1, <1>3, <1>5, <1>6, <1>8, <1>10 DEF Outdent
<1>13. Reparents(c, Outdent(c, k), k, q)
  BY <1>8, <1>11, <1>12, TakenAndPut
<1>14. Depth(c, p) = Depth(c, q) + 1 /\ Depth(c, k) = Depth(c, p) + 1
  BY <1>3, <1>4, <1>5, DepthFacts
<1>15. ASSUME NEW j \in Subtree(c, k)  PROVE Depth(c, j) - Depth(c, k) + 1 + Depth(c, q) <= MaxDepth
  <2>1. Depth(c, j) <= MaxDepth /\ MaxDepth \in Int /\ Depth(c, j) \in Int /\ Depth(c, k) \in Int /\ Depth(c, q) \in Int
    BY DepthFacts
  <2>. QED  BY <1>14, <2>1
<1>16. Moves(c, Outdent(c, k), k, q)
  BY <1>5, <1>7, <1>13, <1>15 DEF Moves
<1>. QED  BY <1>16

LEMMA MoveNodeMoves ==
  ASSUME NEW c, IsTree(c), WithinDepth(c), NEW k \in Items(c), NEW delta \in {-1, 1},
         MoveNode(c, k, delta) # NotPossible
  PROVE  \E p : Moves(c, MoveNode(c, k, delta), k, p)
<1>1. PICK p : p = Parent(c, k)
  OBVIOUS
<1>2. p \in Items(c) \union {Menu} /\ p \notin Subtree(c, k)
  BY <1>1, HasPlace
<1>3. Reparents(c, MoveNode(c, k, delta), k, p)
  BY <1>1, SwapIs
<1>4. ASSUME NEW j \in Subtree(c, k)  PROVE Depth(c, j) - Depth(c, k) + 1 + Depth(c, p) <= MaxDepth
  <2>1. Depth(c, j) <= MaxDepth /\ MaxDepth \in Int /\ Depth(c, j) \in Int /\ Depth(c, k) = Depth(c, p) + 1
        /\ Depth(c, p) \in Int
    BY <1>1, DepthFacts
  <2>. QED  BY <2>1
<1>5. Moves(c, MoveNode(c, k, delta), k, p)
  BY <1>2, <1>3, <1>4 DEF Moves
<1>. QED  BY <1>5


-----------------------------------------------------------------------------
(* A drop. *)

\* The rows under an item follow it.
LEMMA RowWithin ==
  ASSUME NEW c, IsTree(c), NEW k \in Items(c), NEW j \in Below(c, k)
  PROVE  RowOf(c, j) \in RowOf(c, k) + 1 .. RowOf(c, k) + Cardinality(Subtree(c, k)) - 1
<1>1. Forest(c) /\ c \in TreeLists /\ Items(c) \subseteq Keys /\ k \in Keys /\ k \in Nodes /\ Subtree(c, k) \subseteq Items(c)
      /\ k \in Subtree(c, k)
  BY ItemFacts
<1>2. j \in Items(c) /\ j \in Keys /\ j \in Subtree(c, k) /\ MetBefore(c, k, j)
  BY <1>1, ItemFacts DEF MetBefore, Subtree
<1>3. PICK U : U = Subtree(c, k)
  OBVIOUS
<1>4. PICK A : A = {y \in Items(c) : MetBefore(c, y, k)}
  OBVIOUS
<1>5. PICK B : B = {y \in Items(c) : MetBefore(c, y, j)}
  OBVIOUS
<1>6. PICK W : W = {y \in U : MetBefore(c, y, j)}
  OBVIOUS
<1>7. B = A \union W /\ A \cap W = {}
  <2>1. ASSUME NEW y \in Items(c), MetBefore(c, y, j), ~MetBefore(c, y, k)  PROVE y \in U
    <3>1. CASE y = k
      BY <1>1, <1>3, <3>1
    <3>2. CASE y # k
      <4>1. MetBefore(c, k, y)
        BY <1>1, <2>1, <3>2, BeforeTotal
      <4>2. y \in Below(c, k)
        BY <1>1, <2>1, <4>1, BeforeUnder
      <4>. QED  BY <1>3, <4>2 DEF Subtree
    <3>. QED  BY <3>1, <3>2
  <2>2. ASSUME NEW y \in Items(c), MetBefore(c, y, k)  PROVE MetBefore(c, y, j) /\ y \notin U
    <3>1. MetBefore(c, y, j)
      BY <1>1, <1>2, <2>2, BeforeTransitive
    <3>2. y # k
      BY <1>1, <2>2, BeforeAsymmetric
    <3>3. y \in Below(c, k) => MetBefore(c, k, y)
      BY DEF MetBefore
    <3>4. y \notin Below(c, k)
      BY <1>1, <2>2, <3>3, BeforeAsymmetric
    <3>. QED  BY <1>3, <3>1, <3>2, <3>4 DEF Subtree
  <2>. QED  BY <1>1, <1>3, <1>4, <1>5, <1>6, <2>1, <2>2
<1>8. k \in W /\ j \in U /\ j \notin W /\ W \subseteq U
  <2>1. ~MetBefore(c, j, j)
    BY <1>2, <1>1, BeforeAsymmetric
  <2>. QED  BY <1>1, <1>2, <1>3, <1>6, <2>1
<1>9. A \in SUBSET Keys /\ W \in SUBSET Keys /\ U \in SUBSET Keys /\ B \in SUBSET Keys
  BY <1>1, <1>3, <1>4, <1>5, <1>6
<1>10. /\ IsFiniteSet(A) /\ IsFiniteSet(W) /\ IsFiniteSet(U)
       /\ Cardinality(A) \in Nat /\ Cardinality(W) \in Nat /\ Cardinality(U) \in Nat
  BY <1>9, MenuBounds, KeysFinite
<1>11. Cardinality(B) = Cardinality(A) + Cardinality(W)
  <2>1. Cardinality(B) = Cardinality(A) + Cardinality(W) - Cardinality({})
    BY <1>7, <1>10, FS_Union
  <2>. QED  BY <1>10, <2>1, FS_EmptySet
<1>12. Cardinality(W) # 0
  <2>1. W # {}
    BY <1>8
  <2>. QED  BY <1>10, <2>1, FS_EmptySet
<1>13. Cardinality(W) < Cardinality(U)
  <2>1. W \in SUBSET U /\ W # U
    BY <1>8
  <2>2. Cardinality(W) <= Cardinality(U) /\ (Cardinality(W) = Cardinality(U) => W = U)
    BY <1>10, <2>1, FS_Subset
  <2>. QED  BY <1>10, <2>1, <2>2
<1>14. RowOf(c, k) = Cardinality(A) + 1 /\ RowOf(c, j) = Cardinality(B) + 1
  BY <1>1, <1>2, <1>4, <1>5, RowsAreNumbered
<1>. QED  BY <1>3, <1>10, <1>11, <1>12, <1>13, <1>14

\* What a drop does: the item becomes the sibling before the target, or the one after a
\* target without children, or the first child of the target.
LEMMA DropIs ==
  ASSUME NEW c, IsTree(c), WithinDepth(c), NEW k \in Items(c), NEW t \in Items(c), NEW d,
         d = MoveRow(c, k, t), d # NotPossible
  PROVE  \E p \in Nodes, i \in Nat :
           /\ Moves(c, d, k, p) /\ t \notin Subtree(c, k) /\ i \in DOMAIN d[p] /\ d[p][i] = k
           /\ \/ /\ RowOf(c, t) < RowOf(c, k)
                 /\ i + 1 \in DOMAIN d[p] /\ d[p][i + 1] = t
              \/ /\ RowOf(c, k) < RowOf(c, t)
                 /\ i - 1 \in DOMAIN d[p] /\ d[p][i - 1] = t /\ d[t] = <<>>
              \/ /\ RowOf(c, k) < RowOf(c, t)
                 /\ p = t /\ i = 1
<1>1. Forest(c) /\ c \in TreeLists /\ OnePlace(c) /\ Items(c) \subseteq Keys /\ k \in Keys /\ t \in Keys /\ t \in Nodes
  BY ItemFacts
<1>2. PICK from : from = RowOf(c, k)
  OBVIOUS
<1>3. PICK to : to = RowOf(c, t)
  OBVIOUS
<1>4. from \in Int /\ to \in Int
  BY <1>1, <1>2, <1>3, RowsAreNumbered
<1>5. PICK r : r = Taken(c, k)
  OBVIOUS
<1>6. PICK q : q = Parent(r, t)
  OBVIOUS
<1>7. PICK pl : pl = PlaceOf(r, t)
  OBVIOUS
<1>8. from # to /\ to \notin from + 1 .. from + Cardinality(Subtree(c, k)) - 1
  BY <1>2, <1>3 DEF MoveRow, RowOf
<1>9. t \notin Subtree(c, k)
  <2>1. t # k
    BY <1>2, <1>3, <1>8
  <2>2. t \notin Below(c, k)
    BY <1>2, <1>3, <1>8, RowWithin
  <2>. QED  BY <2>1, <2>2 DEF Subtree
<1>10. /\ r \in TreeLists /\ OnePlace(r) /\ SameBut(c, r, k) /\ \A y \in Nodes : k \notin Range(r[y])
       /\ Depth(r, t) = Depth(c, t)
  BY <1>1, <1>5, <1>9, TakenTree
<1>11. q \in Nodes /\ q = Parent(c, t) /\ pl \in DOMAIN r[q] /\ r[q][pl] = t
  <2>1. Parent(c, t) \in Nodes /\ t \in Range(c[Parent(c, t)]) /\ t # k
    BY <1>2, <1>3, <1>8, HasPlace
  <2>2. t \in Range(r[Parent(c, t)])
    BY <1>10, <2>1 DEF SameBut
  <2>3. PICK i \in DOMAIN r[Parent(c, t)] : r[Parent(c, t)][i] = t
    BY <2>2 DEF Range
  <2>4. Parent(r, t) = Parent(c, t) /\ PlaceOf(r, t) = i
    BY <1>10, <2>1, <2>3, ParentIs
  <2>. QED  BY <1>6, <1>7, <2>1, <2>3, <2>4
<1>12. q \in Items(c) \union {Menu} /\ t \in Range(c[q]) /\ q # t
  <2>1. q \notin Subtree(c, t)
    BY <1>11, HasPlace
  <2>. QED  BY <1>11, <2>1, HasPlace DEF Subtree
<1>13. q \notin Subtree(c, k)
  BY <1>1, <1>9, <1>12, SubtreeFacts DEF Subtree
<1>14. Depth(c, t) = Depth(c, q) + 1 /\ Depth(c, t) \in Int /\ Depth(c, q) \in Int
  BY <1>11, DepthFacts
<1>15. pl \in 1 .. Len(r[q]) /\ Len(r[q]) \in Nat /\ DOMAIN r[q] = 1 .. Len(r[q]) /\ Len(r[t]) \in Nat
  BY <1>1, <1>10, <1>11, InRange
\* Where the item goes, whatever the case.
<1>16. ASSUME NEW p \in {q, t}, NEW i \in 1 .. Len(r[p]) + 1, d = Put(r, p, i, k),
              NEW depth, depth = Depth(c, p), Fits(c, k, depth)
       PROVE  /\ Moves(c, d, k, p) /\ p \in Nodes /\ i \in Nat /\ i \in DOMAIN d[p] /\ d[p][i] = k
              /\ d[p] = InsertAt(r[p], i, k) /\ \A y \in Nodes \ {p} : d[y] = r[y]
  <2>1. p \in Nodes /\ p \in Items(c) \union {Menu} /\ p \notin Subtree(c, k) /\ i \in Nat
    BY <1>1, <1>9, <1>10, <1>11, <1>12, <1>13, <1>16, InRange
  <2>2. Reparents(c, d, k, p)
    BY <1>5, <1>16, <2>1, TakenAndPut
  <2>3. /\ i \in DOMAIN d[p] /\ d[p][i] = k /\ d[p] = InsertAt(r[p], i, k)
        /\ \A y \in Nodes \ {p} : d[y] = r[y]
    BY <1>1, <1>10, <1>16, <2>1, PutIs
  <2>4. ASSUME NEW j \in Subtree(c, k)  PROVE Depth(c, j) - Depth(c, k) + 1 + Depth(c, p) <= MaxDepth
    <3>1. Depth(c, j) - Depth(c, k) + 1 <= Height(c, k) /\ Height(c, k) \in Int /\ MaxDepth \in Int
          /\ Depth(c, j) \in Int /\ Depth(c, k) \in Int /\ Depth(c, p) \in Int
      BY DepthFacts
    <3>. QED  BY <1>16, <3>1 DEF Fits
  <2>. QED  BY <2>1, <2>2, <2>3, <2>4 DEF Moves
<1>17. CASE from < to /\ r[t] # <<>>
  <2>1. d = Put(r, t, 1, k) /\ Fits(c, k, Depth(r, t))
    BY <1>2, <1>3, <1>5, <1>8, <1>17 DEF MoveRow, RowOf
  <2>2. 1 \in 1 .. Len(r[t]) + 1
    BY <1>15
  <2>3. Moves(c, d, k, t) /\ 1 \in Nat /\ 1 \in DOMAIN d[t] /\ d[t][1] = k
    BY <1>10, <1>16, <2>1, <2>2
  <2>. QED  BY <1>1, <1>2, <1>3, <1>9, <1>17, <2>3
<1>18. CASE from < to /\ r[t] = <<>>
  <2>1. d = Put(r, q, pl + 1, k) /\ Fits(c, k, Depth(r, t) - 1)
    BY <1>2, <1>3, <1>5, <1>6, <1>7, <1>8, <1>18 DEF MoveRow, RowOf
  <2>2. PICK i : i = pl + 1
    OBVIOUS
  <2>3. i \in 1 .. Len(r[q]) + 1 /\ Depth(r, t) - 1 = Depth(c, q)
    BY <1>10, <1>14, <1>15, <2>2
  <2>4. /\ Moves(c, d, k, q) /\ i \in Nat /\ i \in DOMAIN d[q] /\ d[q][i] = k
        /\ d[q] = InsertAt(r[q], i, k) /\ \A y \in Nodes \ {q} : d[y] = r[y]
    BY <1>16, <2>1, <2>2, <2>3
  <2>5. pl \in 1 .. Len(r[q]) + 1 /\ pl < i /\ r[q] \in Seq(Keys)
    BY <1>10, <1>11, <1>15, <2>2 DEF TreeLists
  <2>6. d[q][pl] = t
    <3>1. PICK s : s = r[q]
      OBVIOUS
    <3>2. InsertAt(s, i, k)[pl] = s[pl]
      BY <1>1, <2>3, <2>5, <3>1, InsertAtIs
    <3>. QED  BY <1>11, <2>4, <3>1, <3>2
  <2>7. i - 1 = pl /\ pl \in DOMAIN d[q]
    <3>1. d \in TreeLists
      BY <2>4 DEF Moves, Reparents
    <3>. QED  BY <1>11, <1>15, <2>2, <2>4, <3>1, InRange
  <2>8. d[t] = <<>>
    BY <1>1, <1>12, <1>18, <2>4
  <2>. QED  BY <1>2, <1>3, <1>9, <1>11, <1>18, <2>4, <2>6, <2>7, <2>8
<1>19. CASE ~(from < to)
  <2>1. d = Put(r, q, pl + 0, k) /\ Fits(c, k, Depth(r, t) - 1)
    BY <1>2, <1>3, <1>5, <1>6, <1>7, <1>8, <1>19 DEF MoveRow, RowOf
  <2>3. pl + 0 = pl /\ pl \in 1 .. Len(r[q]) + 1 /\ Depth(r, t) - 1 = Depth(c, q)
    BY <1>10, <1>14, <1>15
  <2>4. /\ Moves(c, d, k, q) /\ pl \in Nat /\ pl \in DOMAIN d[q] /\ d[q][pl] = k
        /\ d[q] = InsertAt(r[q], pl, k)
    BY <1>16, <2>1, <2>3
  <2>5. pl + 1 \in 1 .. Len(r[q]) + 1 /\ pl + 1 > pl /\ r[q] \in Seq(Keys) /\ pl + 1 - 1 = pl
    BY <1>10, <1>11, <1>15 DEF TreeLists
  <2>6. d[q][pl + 1] = t /\ pl + 1 \in DOMAIN d[q]
    <3>1. PICK s : s = r[q]
      OBVIOUS
    <3>2. PICK j : j = pl + 1
      OBVIOUS
    <3>3. j \in 1 .. Len(s) + 1 /\ j > pl /\ s \in Seq(Keys) /\ j - 1 = pl /\ pl \in 1 .. Len(s) + 1
      BY <2>3, <2>5, <3>1, <3>2
    <3>4. InsertAt(s, pl, k)[j] = s[j - 1] /\ Len(InsertAt(s, pl, k)) = Len(s) + 1 /\ InsertAt(s, pl, k) \in Seq(Keys)
      BY <1>1, <3>3, InsertAtIs
    <3>5. j \in DOMAIN InsertAt(s, pl, k)
      BY <3>3, <3>4, LenProperties
    <3>. QED  BY <1>11, <2>4, <3>1, <3>2, <3>3, <3>4, <3>5
  <2>7. to < from
    BY <1>4, <1>8, <1>19
  <2>. QED  BY <1>2, <1>3, <1>9, <1>11, <2>4, <2>6, <2>7
<1>. QED  BY <1>17, <1>18, <1>19


\* What is shown between two neighbours is under the first.
LEMMA BetweenNeighbours ==
  ASSUME NEW c, Forest(c), NEW p \in Items(c) \union {Menu}, NEW i \in DOMAIN c[p], i + 1 \in DOMAIN c[p],
         NEW y \in Items(c), MetBefore(c, c[p][i], y), MetBefore(c, y, c[p][i + 1])
  PROVE  y \in Below(c, c[p][i])
<1>1. c \in TreeLists /\ Items(c) \subseteq Keys /\ p \in Nodes
  <2>1. c \in TreeLists
    BY DEF Forest
  <2>. QED  BY <2>1, BelowClosed, NodeFacts DEF Items
<1>2. PICK x : x = c[p][i]
  OBVIOUS
<1>3. PICK z : z = c[p][i + 1]
  OBVIOUS
<1>4. x \in Keys /\ z \in Keys /\ y \in Keys /\ i \in Int /\ x \in Subtree(c, x) /\ z \in Subtree(c, z)
      /\ x \in Below(c, p) /\ z \in Below(c, p)
  BY <1>1, <1>2, <1>3, ChildSubtree, BelowClosed DEF Subtree
<1>5. y \in Below(c, p)
  <2>1. CASE p = Menu
    BY <2>1 DEF Items
  <2>2. CASE p # Menu
    <3>1. p \in Keys /\ MetBefore(c, p, x)
      BY <1>1, <1>4, <2>2 DEF MetBefore
    <3>2. MetBefore(c, p, y)
      BY <1>2, <1>4, <3>1, BeforeTransitive
    <3>. QED  BY <1>3, <1>4, <3>1, <3>2, BeforeUnder
  <2>. QED  BY <2>1, <2>2
<1>6. PICK b \in DOMAIN c[p] : y \in Subtree(c, c[p][b])
  BY <1>1, <1>5, BelowTop
<1>7. b \in Int
  BY <1>1, ChildSubtree
<1>8. ~MetBefore(c, y, x) /\ ~MetBefore(c, z, y) /\ y # x /\ y # z
  BY <1>2, <1>3, <1>4, BeforeAsymmetric
<1>9. CASE b < i
  BY <1>1, <1>2, <1>4, <1>6, <1>8, <1>9 DEF MetBefore
<1>10. CASE b = i
  BY <1>2, <1>6, <1>8, <1>10 DEF Subtree
<1>11. CASE b = i + 1
  BY <1>3, <1>6, <1>8, <1>11 DEF MetBefore, Subtree
<1>12. CASE b > i + 1
  BY <1>1, <1>3, <1>4, <1>6, <1>8, <1>12 DEF MetBefore
<1>. QED  BY <1>4, <1>7, <1>9, <1>10, <1>11, <1>12

\* LandsAt, said of a tree.
Lands(c, d, k, t) ==
    RowOf(c, t) =
        IF RowOf(c, t) < RowOf(c, k) THEN RowOf(d, k)
        ELSE RowOf(d, k) + Cardinality(Subtree(d, k)) - 1

LEMMA DropLands ==
  ASSUME NEW c, IsTree(c), WithinDepth(c), NEW k \in Items(c), NEW t \in Items(c), NEW d,
         d = MoveRow(c, k, t), d # NotPossible
  PROVE  /\ \E p : Moves(c, d, k, p)
         /\ Lands(c, d, k, t)
<1>1. Forest(c) /\ c \in TreeLists /\ OnePlace(c) /\ Items(c) \subseteq Keys /\ k \in Keys /\ t \in Keys /\ t \in Nodes
  BY ItemFacts
<1>2. PICK p \in Nodes, i \in Nat :
           /\ Moves(c, d, k, p) /\ t \notin Subtree(c, k) /\ i \in DOMAIN d[p] /\ d[p][i] = k
           /\ \/ /\ RowOf(c, t) < RowOf(c, k)
                 /\ i + 1 \in DOMAIN d[p] /\ d[p][i + 1] = t
              \/ /\ RowOf(c, k) < RowOf(c, t)
                 /\ i - 1 \in DOMAIN d[p] /\ d[p][i - 1] = t /\ d[t] = <<>>
              \/ /\ RowOf(c, k) < RowOf(c, t)
                 /\ p = t /\ i = 1
  BY DropIs
<1>3. PICK U : U = Subtree(c, k)
  OBVIOUS
<1>4. IsTree(d) /\ Items(d) = Items(c) /\ Subtree(d, k) = U
  BY <1>2, <1>3, MovesKeep DEF MovedOnly
<1>5. p \in Items(d) \union {Menu} /\ Forest(d) /\ d \in TreeLists /\ k \in U /\ U \subseteq Items(c) /\ p \notin U /\ t \notin U
      /\ Reparents(c, d, k, p)
  BY <1>2, <1>3, <1>4, ItemFacts DEF Moves
\* The order of the others does not change.
<1>6. ASSUME NEW y \in Items(c), y \notin U  PROVE MetBefore(d, y, t) <=> MetBefore(c, y, t)
  BY <1>1, <1>2, <1>3, <1>5, <1>6, MovedOrder
<1>7. PICK A : A = {y \in Items(c) : MetBefore(c, y, t)}
  OBVIOUS
<1>8. PICK B : B = {y \in Items(d) : MetBefore(d, y, k)}
  OBVIOUS
<1>9. RowOf(c, t) = Cardinality(A) + 1 /\ RowOf(d, k) = Cardinality(B) + 1
  BY <1>1, <1>4, <1>5, <1>7, <1>8, RowsAreNumbered
<1>10. A \in SUBSET Keys /\ B \in SUBSET Keys /\ U \in SUBSET Keys
  BY <1>1, <1>4, <1>5, <1>7, <1>8
<1>11. /\ IsFiniteSet(A) /\ IsFiniteSet(B) /\ IsFiniteSet(U)
       /\ Cardinality(A) \in Nat /\ Cardinality(B) \in Nat /\ Cardinality(U) \in Nat
  BY <1>10, MenuBounds, KeysFinite
<1>12. ASSUME NEW y \in U  PROVE y \notin B
  <2>1. CASE y = k
    BY <1>1, <1>5, <1>8, <2>1, BeforeAsymmetric
  <2>2. CASE y # k
    <3>1. MetBefore(d, k, y) /\ y \in Keys
      BY <1>4, <1>10, <2>2 DEF MetBefore, Subtree
    <3>. QED  BY <1>1, <1>5, <1>8, <3>1, BeforeAsymmetric
  <2>. QED  BY <2>1, <2>2
<1>13. RowOf(c, k) \in Int /\ RowOf(c, t) \in Int /\ (MetBefore(c, k, t) <=> RowOf(c, k) < RowOf(c, t))
       /\ (MetBefore(c, t, k) <=> RowOf(c, t) < RowOf(c, k))
  BY <1>1, RowsAreNumbered
<1>14. ASSUME RowOf(c, t) < RowOf(c, k)  PROVE Lands(c, d, k, t)
  <2>1. i + 1 \in DOMAIN d[p] /\ d[p][i + 1] = t
    BY <1>2, <1>13, <1>14
  <2>2. MetBefore(d, k, t)
    <3>1. k \in Subtree(d, d[p][i]) /\ t \in Subtree(d, d[p][i + 1]) /\ i < i + 1
      BY <1>2, <2>1 DEF Subtree
    <3>. QED  BY <1>2, <2>1, <3>1 DEF MetBefore
  <2>3. ASSUME NEW y \in U  PROVE y \notin A
    <3>1. MetBefore(c, t, k) /\ y \in Keys
      BY <1>10, <1>13, <1>14
    <3>2. y # k => MetBefore(c, k, y)
      BY <1>3 DEF MetBefore, Subtree
    <3>3. MetBefore(c, t, y)
      BY <1>1, <3>1, <3>2, BeforeTransitive
    <3>. QED  BY <1>1, <1>7, <3>1, <3>3, BeforeAsymmetric
  <2>4. ASSUME NEW y \in Items(c), y \notin U  PROVE y \in B <=> y \in A
    <3>1. y \in Keys /\ y # k
      BY <1>1, <1>5, <2>4
    <3>2. MetBefore(d, y, k) => MetBefore(d, y, t)
      BY <1>1, <1>5, <2>2, <3>1, BeforeTransitive
    <3>3. ASSUME MetBefore(d, y, t)  PROVE MetBefore(d, y, k)
      <4>1. ~MetBefore(d, k, y)
        <5>1. ASSUME MetBefore(d, k, y)  PROVE y \in Below(d, k)
          BY <1>2, <1>4, <1>5, <2>1, <3>3, <5>1, BetweenNeighbours
        <5>. QED  BY <1>4, <2>4, <5>1 DEF Subtree
      <4>. QED  BY <1>4, <1>5, <3>1, <4>1, BeforeTotal
    <3>. QED  BY <1>4, <1>6, <1>7, <1>8, <2>4, <3>2, <3>3
  <2>5. A = B
    BY <1>4, <1>7, <1>8, <1>12, <2>3, <2>4
  <2>. QED  BY <1>2, <1>9, <1>14, <2>5 DEF Lands
<1>15. ASSUME RowOf(c, k) < RowOf(c, t)  PROVE Lands(c, d, k, t)
  <2>1. MetBefore(c, k, t)
    BY <1>13, <1>15
  <2>2. U \subseteq A
    <3>1. ASSUME NEW y \in Below(c, k)  PROVE MetBefore(c, y, t)
      <4>1. y \in Items(c) /\ y \in Keys /\ y # t
        BY <1>1, <1>3, <1>5, <3>1 DEF Subtree
      <4>2. ~MetBefore(c, t, y)
        <5>1. ASSUME MetBefore(c, t, y)  PROVE t \in Below(c, k)
          BY <1>1, <2>1, <3>1, <5>1, BeforeUnder
        <5>. QED  BY <1>3, <1>5, <5>1 DEF Subtree
      <4>. QED  BY <1>1, <4>1, <4>2, BeforeTotal
    <3>. QED  BY <1>3, <1>5, <1>7, <2>1, <3>1 DEF Subtree
  <2>3. t \notin A
    BY <1>1, <1>7, BeforeAsymmetric
  <2>4. MetBefore(d, t, k) /\ \A y \in Items(c) \ U : y # t /\ MetBefore(d, y, k) => MetBefore(d, y, t)
    <3>1. ASSUME i - 1 \in DOMAIN d[p], d[p][i - 1] = t, d[t] = <<>>
          PROVE  MetBefore(d, t, k) /\ \A y \in Items(c) \ U : y # t /\ MetBefore(d, y, k) => MetBefore(d, y, t)
      <4>1. PICK j \in DOMAIN d[p] : j = i - 1 /\ j + 1 = i
        BY <3>1
      <4>2. MetBefore(d, t, k)
        <5>1. t \in Subtree(d, d[p][j]) /\ k \in Subtree(d, d[p][i]) /\ j < i
          BY <1>2, <3>1, <4>1 DEF Subtree
        <5>. QED  BY <1>2, <4>1, <5>1 DEF MetBefore
      <4>3. Below(d, t) = {}
        <5>1. Len(d[t]) = 0 /\ DOMAIN d[t] = 1 .. Len(d[t])
          BY <1>1, <1>5, <3>1, InRange
        <5>2. Range(d[t]) = {}
          BY <5>1 DEF Range
        <5>. QED  BY <1>1, <1>5, <3>1, <5>2, BelowLeast, NodeFacts
      <4>4. ASSUME NEW y \in Items(c) \ U, y # t, MetBefore(d, y, k)  PROVE MetBefore(d, y, t)
        <5>1. ASSUME MetBefore(d, t, y)  PROVE y \in Below(d, t)
          <6>1. Forest(d) /\ p \in Items(d) \union {Menu} /\ y \in Items(d)
            BY <1>4, <1>5, <4>4
          <6>2. j + 1 \in DOMAIN d[p] /\ d[p][j] = t /\ d[p][j + 1] = k
            BY <1>2, <3>1, <4>1
          <6>. QED  BY <4>1, <4>4, <5>1, <6>1, <6>2, BetweenNeighbours
        <5>2. ~MetBefore(d, t, y)
          BY <4>3, <5>1
        <5>. QED  BY <1>4, <1>5, <4>4, <5>2, BeforeTotal
      <4>. QED  BY <4>2, <4>4
    <3>2. ASSUME p = t, i = 1
          PROVE  MetBefore(d, t, k) /\ \A y \in Items(c) \ U : y # t /\ MetBefore(d, y, k) => MetBefore(d, y, t)
      <4>1. k \in Below(d, t) /\ d[t][1] = k /\ 1 \in DOMAIN d[t]
        BY <1>1, <1>2, <1>5, <3>2, BelowClosed DEF Reparents
      <4>2. MetBefore(d, t, k)
        BY <4>1 DEF MetBefore
      <4>3. ASSUME NEW y \in Items(c) \ U, y # t, MetBefore(d, y, k)  PROVE MetBefore(d, y, t)
        <5>1. ASSUME MetBefore(d, t, y)  PROVE FALSE
          <6>1. y \in Below(d, t) /\ y \in Keys
            BY <1>1, <1>5, <4>1, <4>3, <5>1, BeforeUnder
          <6>2. PICK b \in DOMAIN d[t] : y \in Subtree(d, d[t][b])
            BY <1>1, <1>5, <6>1, BelowTop
          <6>3. b # 1
            BY <1>4, <4>1, <4>3, <6>2
          <6>4. 1 < b
            BY <1>1, <1>5, <6>3, InRange
          <6>5. MetBefore(d, k, y)
            <7>1. k \in Subtree(d, d[t][1])
              BY <4>1 DEF Subtree
            <7>. QED  BY <1>1, <4>1, <6>2, <6>4, <7>1 DEF MetBefore
          <6>. QED  BY <1>1, <1>5, <4>3, <6>1, <6>5, BeforeAsymmetric
        <5>. QED  BY <1>4, <1>5, <4>3, <5>1, BeforeTotal
      <4>. QED  BY <4>2, <4>3
    <3>. QED  BY <1>2, <1>13, <1>15, <3>1, <3>2
  <2>5. ASSUME NEW y \in Items(c), y \notin U  PROVE y \in B <=> y \in A \/ y = t
    <3>1. y \in Keys
      BY <1>1
    <3>2. MetBefore(d, y, t) => MetBefore(d, y, k)
      BY <1>1, <1>5, <2>4, <3>1, BeforeTransitive
    <3>3. y # t /\ MetBefore(d, y, k) => MetBefore(d, y, t)
      BY <2>4, <2>5
    <3>. QED  BY <1>4, <1>6, <1>7, <1>8, <2>4, <2>5, <3>2, <3>3
  <2>6. PICK W : W = A \ U
    OBVIOUS
  <2>7. B = W \union {t} /\ t \notin W /\ A = W \union U /\ W \cap U = {}
    BY <1>4, <1>5, <1>7, <1>8, <1>12, <2>2, <2>3, <2>5, <2>6
  <2>8. IsFiniteSet(W) /\ Cardinality(W) \in Nat
    <3>1. W \in SUBSET Keys
      BY <1>10, <2>6
    <3>. QED  BY <3>1, MenuBounds, KeysFinite
  <2>9. Cardinality(B) = Cardinality(W) + 1
    BY <2>7, <2>8, FS_AddElement
  <2>10. Cardinality(A) = Cardinality(W) + Cardinality(U)
    <3>1. Cardinality(A) = Cardinality(W) + Cardinality(U) - Cardinality({})
      BY <1>11, <2>7, <2>8, FS_Union
    <3>. QED  BY <1>11, <2>8, <3>1, FS_EmptySet
  <2>11. ~(RowOf(c, t) < RowOf(c, k))
    BY <1>13, <1>15
  <2>12. RowOf(c, t) = RowOf(d, k) + Cardinality(U) - 1
    BY <1>9, <1>11, <2>8, <2>9, <2>10
  <2>. QED  BY <1>4, <2>11, <2>12 DEF Lands
<1>16. RowOf(c, t) < RowOf(c, k) \/ RowOf(c, k) < RowOf(c, t)
  BY <1>2
<1>17. \E q : Moves(c, d, k, q)
  BY <1>2
<1>. QED  BY <1>14, <1>15, <1>16, <1>17


-----------------------------------------------------------------------------
(* The trees the page starts with. *)

LEMMA LeastOf ==
  ASSUME NEW S \in SUBSET Int, IsFiniteSet(S), S # {}
  PROVE  \E m \in S : \A y \in S : m <= y
<1>1. PICK R : R = {pair \in S \X S : pair[1] < pair[2]}
  OBVIOUS
<1>2. \A x, y \in S : <<x, y>> \in R <=> x < y
  BY <1>1
<1>3. /\ \A x \in S : <<x, x>> \notin R
      /\ \A x, y, z \in S : <<x, y>> \in R /\ <<y, z>> \in R => <<x, z>> \in R
      /\ \A x, y \in S : x # y => <<x, y>> \in R \/ <<y, x>> \in R
  BY <1>2
<1>4. 0 \in 0 .. Cardinality(S) - 1
  <2>1. Cardinality(S) \in Nat \ {0}
    BY FS_CardinalityType, FS_EmptySet
  <2>. QED  BY <2>1
<1>5. \A n \in 0 .. Cardinality(S) - 1 : \E x \in S : Cardinality({y \in S : <<y, x>> \in R}) = n
  BY <1>3, Ranks
<1>6. PICK m \in S : Cardinality({y \in S : <<y, m>> \in R}) = 0
  BY <1>4, <1>5
<1>7. {y \in S : <<y, m>> \in R} = {}
  <2>1. IsFiniteSet({y \in S : <<y, m>> \in R})
    BY FS_Subset
  <2>. QED  BY <1>6, <2>1, FS_EmptySet
<1>8. ASSUME NEW z \in S  PROVE m <= z
  <2>1. ~(<<z, m>> \in R)
    BY <1>7
  <2>. QED  BY <1>2, <2>1
<1>. QED  BY <1>8

\* A set of rows, as a list.
LEMMA InOrderIs ==
  ASSUME NEW n \in Nat, NEW S \in SUBSET (1 .. n)
  PROVE  /\ InOrder(S) \in Seq(S) /\ Range(InOrder(S)) = S
         /\ \A a, b \in DOMAIN InOrder(S) : InOrder(S)[a] = InOrder(S)[b] => a = b
<1>1. IsFiniteSet(S) /\ Cardinality(S) \in Nat
  <2>1. IsFiniteSet(1 .. n)
    BY FS_Interval
  <2>. QED  BY <2>1, FS_Subset, FS_CardinalityType
<1>2. PICK R : R = {pair \in S \X S : pair[1] < pair[2]}
  OBVIOUS
<1>3. \A x, y \in S : <<x, y>> \in R <=> x < y
  BY <1>2
<1>4. /\ \A x \in S : <<x, x>> \notin R
      /\ \A x, y, z \in S : <<x, y>> \in R /\ <<y, z>> \in R => <<x, z>> \in R
      /\ \A x, y \in S : x # y => <<x, y>> \in R \/ <<y, x>> \in R
  BY <1>3
<1>5. PICK rank : rank = [x \in S |-> Cardinality({j \in S : j < x})]
  OBVIOUS
<1>6. ASSUME NEW x \in S  PROVE rank[x] = Cardinality({y \in S : <<y, x>> \in R})
  <2>1. {j \in S : j < x} = {y \in S : <<y, x>> \in R}
    BY <1>3
  <2>. QED  BY <1>5, <2>1
<1>7. /\ \A x \in S : rank[x] \in 0 .. Cardinality(S) - 1
      /\ \A x, y \in S : <<x, y>> \in R <=> rank[x] < rank[y]
      /\ \A r \in 0 .. Cardinality(S) - 1 : \E x \in S : rank[x] = r
  <2>1. /\ \A x \in S : Cardinality({y \in S : <<y, x>> \in R}) \in 0 .. Cardinality(S) - 1
        /\ \A x, y \in S : <<x, y>> \in R <=>
              Cardinality({z \in S : <<z, x>> \in R}) < Cardinality({z \in S : <<z, y>> \in R})
        /\ \A r \in 0 .. Cardinality(S) - 1 : \E x \in S : Cardinality({y \in S : <<y, x>> \in R}) = r
    BY <1>1, <1>4, Ranks
  <2>. QED  BY <1>6, <2>1
<1>8. \A x, y \in S : rank[x] = rank[y] => x = y
  BY <1>1, <1>4, <1>7
<1>9. PICK f : f = InOrder(S)
  OBVIOUS
<1>10. f = [m \in 1 .. Cardinality(S) |-> CHOOSE i \in S : Cardinality({j \in S : j < i}) = m - 1]
  BY <1>9 DEF InOrder
<1>11. ASSUME NEW m \in 1 .. Cardinality(S)  PROVE f[m] \in S /\ rank[f[m]] = m - 1
  <2>1. m - 1 \in 0 .. Cardinality(S) - 1
    BY <1>1
  <2>2. PICK q : q = m - 1
    OBVIOUS
  <2>3. PICK i \in S : rank[i] = q
    BY <1>7, <2>1, <2>2
  <2>4. Cardinality({j \in S : j < i}) = q
    BY <1>5, <2>3
  <2>5. f[m] = CHOOSE x \in S : Cardinality({j \in S : j < x}) = q
    BY <1>10, <2>2
  <2>6. f[m] \in S /\ Cardinality({j \in S : j < f[m]}) = q
    BY <2>4, <2>5
  <2>. QED  BY <1>5, <2>2, <2>6
<1>12. f \in Seq(S) /\ DOMAIN f = 1 .. Cardinality(S)
  <2>1. f \in [1 .. Cardinality(S) -> S]
    BY <1>10, <1>11
  <2>. QED  BY <1>1, <2>1
<1>13. \A a, b \in DOMAIN f : f[a] = f[b] => a = b
  BY <1>1, <1>11, <1>12
<1>14. ASSUME NEW x \in S  PROVE x \in Range(f)
  <2>1. PICK m \in 1 .. Cardinality(S) : m - 1 = rank[x]
    <3>1. rank[x] \in 0 .. Cardinality(S) - 1
      BY <1>7
    <3>2. PICK r : r = rank[x]
      OBVIOUS
    <3>3. PICK m : m = r + 1
      OBVIOUS
    <3>4. m \in 1 .. Cardinality(S) /\ m - 1 = r
      BY <1>1, <3>1, <3>2, <3>3
    <3>. QED  BY <3>2, <3>4
  <2>2. f[m] = x
    BY <1>8, <1>11, <2>1
  <2>. QED  BY <1>12, <2>2 DEF Range
<1>15. \A x \in Range(f) : x \in S
  BY <1>11, <1>12 DEF Range
<1>. QED  BY <1>9, <1>12, <1>13, <1>14, <1>15

\* The depths of n rows.
Shape(d, n) ==
    d \in [1 .. n -> 1 .. MaxDepth] /\ \A i \in 1 .. n : d[i] <= IF i = 1 THEN 1 ELSE d[i - 1] + 1

\* The row a row is under is before it, and one level up.
LEMMA AboveIs ==
  ASSUME NEW n \in Nat, NEW d, Shape(d, n), NEW i \in 1 .. n, d[i] # 1
  PROVE  Above(d, i) \in 1 .. i - 1 /\ d[Above(d, i)] = d[i] - 1
<1>0. MaxDepth \in Nat /\ \A j \in 1 .. n : d[j] \in Int /\ d[j] >= 1
  BY MenuBounds DEF Shape
<1>1. i # 1 /\ i - 1 \in 1 .. n /\ d[1] = 1
  BY <1>0 DEF Shape
<1>2. PICK S : S = {j \in 1 .. i - 1 : d[j] <= d[i] - 1}
  OBVIOUS
<1>3. IsFiniteSet(1 .. i - 1)
  BY FS_Interval
<1>4. S \in SUBSET (1 .. i - 1) /\ S \in SUBSET Int /\ IsFiniteSet(S) /\ 1 \in S
  <2>1. S \in SUBSET (1 .. i - 1)
    BY <1>2
  <2>. QED  BY <1>0, <1>1, <1>2, <1>3, <2>1, FS_Subset
<1>5. PICK m \in S : \A y \in S : y <= m
  BY <1>4, HighestOf
<1>6. d[m] = d[i] - 1
  <2>1. m \in 1 .. i - 1 /\ m + 1 \in 1 .. n /\ m + 1 # 1 /\ m + 1 - 1 = m /\ m \in 1 .. n
    BY <1>1, <1>4
  <2>2. d[m + 1] <= d[m] + 1
    BY <2>1 DEF Shape
  <2>3. d[m + 1] > d[i] - 1
    <3>1. CASE m + 1 = i
      BY <1>0, <3>1
    <3>2. CASE m + 1 # i
      <4>1. m + 1 \in 1 .. i - 1 /\ m + 1 \notin S
        BY <1>5, <2>1, <3>2
      <4>. QED  BY <1>0, <1>2, <2>1, <4>1
    <3>. QED  BY <3>1, <3>2
  <2>. QED  BY <1>0, <1>2, <1>5, <2>1, <2>2, <2>3
<1>7. PICK T : T = {j \in 1 .. i - 1 : d[j] = d[i] - 1}
  OBVIOUS
<1>8. T \in SUBSET Int /\ IsFiniteSet(T) /\ T # {}
  <2>1. T \in SUBSET (1 .. i - 1)
    BY <1>7
  <2>2. m \in T
    BY <1>4, <1>6, <1>7
  <2>3. IsFiniteSet(T)
    BY <1>3, <2>1, FS_Subset
  <2>4. T \in SUBSET Int
    BY <1>7
  <2>. QED  BY <2>2, <2>3, <2>4
<1>9. Max(T) \in T
  BY <1>8, HighestOf
<1>10. Above(d, i) = Max(T)
  BY <1>7 DEF Above
<1>. QED  BY <1>7, <1>9, <1>10

\* The children of the rows are a tree of all the rows, as deep as they say.
LEMMA StartIsTree ==
  ASSUME NEW n \in Nat, n <= MaxKeys, NEW d, Shape(d, n), NEW c,
         c = [p \in Nodes |-> InOrder({i \in DOMAIN d : Above(d, i) = p})]
  PROVE  IsTree(c) /\ Items(c) = 1 .. n /\ WithinDepth(c)
<1>1. DOMAIN d = 1 .. n /\ 1 .. n \subseteq Keys /\ \A j \in 1 .. n : d[j] \in 1 .. MaxDepth /\ d[j] \in Int
  BY MenuBounds DEF Shape, Keys
<1>2. ASSUME NEW i \in 1 .. n
      PROVE  \/ Above(d, i) = Menu /\ d[i] = 1
             \/ Above(d, i) \in 1 .. n /\ Above(d, i) < i /\ d[Above(d, i)] = d[i] - 1
  <2>1. CASE d[i] = 1
    BY <2>1 DEF Above
  <2>2. CASE d[i] # 1
    BY <2>2, AboveIs
  <2>. QED  BY <2>1, <2>2
<1>3. ASSUME NEW p \in Nodes
      PROVE  /\ c[p] \in Seq(1 .. n) /\ c[p] \in Seq(Keys) /\ Range(c[p]) = {i \in 1 .. n : Above(d, i) = p}
             /\ \A a, b \in DOMAIN c[p] : c[p][a] = c[p][b] => a = b
             /\ Range(c[p]) = {} => c[p] = <<>>
  <2>1. PICK S : S = {i \in 1 .. n : Above(d, i) = p}
    OBVIOUS
  <2>2. S \in SUBSET (1 .. n)
    BY <2>1
  <2>3. c[p] = InOrder(S)
    BY <1>1, <2>1
  <2>4. c[p] \in Seq(S) /\ Range(c[p]) = S /\ \A a, b \in DOMAIN c[p] : c[p][a] = c[p][b] => a = b
    <3>1. /\ InOrder(S) \in Seq(S) /\ Range(InOrder(S)) = S
          /\ \A a, b \in DOMAIN InOrder(S) : InOrder(S)[a] = InOrder(S)[b] => a = b
      BY <2>2, InOrderIs
    <3>. QED  BY <2>3, <3>1, SMTT(20)
  <2>5. c[p] \in Seq(1 .. n) /\ c[p] \in Seq(Keys)
    <3>1. \A i \in 1 .. Len(c[p]) : c[p][i] \in S
      BY <2>4, ElementOfSeq
    <3>2. Len(c[p]) \in Nat /\ c[p] \in [1 .. Len(c[p]) -> S]
      BY <2>4, LenProperties
    <3>3. S \subseteq 1 .. n /\ S \subseteq Keys
      BY <1>1, <2>2
    <3>4. c[p] \in [1 .. Len(c[p]) -> 1 .. n] /\ c[p] \in [1 .. Len(c[p]) -> Keys]
      BY <3>2, <3>3
    <3>. QED  BY <3>2, <3>4
  <2>6. ASSUME Range(c[p]) = {}  PROVE c[p] = <<>>
    <3>1. Len(c[p]) \in Nat /\ DOMAIN c[p] = 1 .. Len(c[p])
      BY <2>5, LenProperties
    <3>2. Len(c[p]) = 0
      <4>1. ASSUME Len(c[p]) # 0  PROVE FALSE
        <5>1. 1 \in DOMAIN c[p]
          BY <3>1, <4>1
        <5>. QED  BY <2>6, <5>1 DEF Range
      <4>. QED  BY <4>1
    <3>. QED  BY <2>5, <3>2, EmptySeq
  <2>. QED  BY <2>1, <2>4, <2>5, <2>6
<1>4. c \in TreeLists
  BY <1>3 DEF TreeLists
<1>5. OnePlace(c)
  <2>1. ASSUME NEW p \in Nodes, NEW q \in Nodes, NEW a \in DOMAIN c[p], NEW b \in DOMAIN c[q], c[p][a] = c[q][b]
        PROVE  p = q /\ a = b
    <3>1. c[p][a] \in Range(c[p]) /\ c[q][b] \in Range(c[q])
      BY DEF Range
    <3>2. PICK x : x = c[p][a]
      OBVIOUS
    <3>3. x \in {i \in 1 .. n : Above(d, i) = p} /\ x \in {i \in 1 .. n : Above(d, i) = q}
      <4>1. x \in Range(c[p]) /\ x \in Range(c[q])
        BY <2>1, <3>1, <3>2
      <4>. QED  BY <1>3, <4>1
    <3>4. p = q
      BY <3>3
    <3>. QED  BY <1>3, <2>1, <3>4
  <2>. QED  BY <2>1 DEF OnePlace
<1>6. Items(c) \subseteq 1 .. n
  <2>1. PICK S : S = 1 .. n
    OBVIOUS
  <2>2. S \in SUBSET Keys /\ Range(c[Menu]) \subseteq S /\ \A p \in S : Range(c[p]) \subseteq S
    BY <1>1, <1>3, <2>1, NodeFacts
  <2>. QED  BY <1>4, <2>1, <2>2, BelowLeast, NodeFacts DEF Items
<1>7. 1 .. n \subseteq Items(c)
  <2>1. PICK S : S = (1 .. n) \ Items(c)
    OBVIOUS
  <2>2. SUFFICES ASSUME S # {}  PROVE FALSE
    BY <2>1
  <2>3. S \in SUBSET (1 .. n) /\ IsFiniteSet(1 .. n)
    BY <2>1, FS_Interval
  <2>4. S \in SUBSET Int /\ IsFiniteSet(S)
    <3>1. IsFiniteSet(S)
      BY <2>3, FS_Subset
    <3>2. S \in SUBSET Int
      BY <2>3
    <3>. QED  BY <3>1, <3>2
  <2>5. PICK m \in S : \A y \in S : m <= y
    BY <2>2, <2>4, LeastOf
  <2>6. m \in 1 .. n /\ m \notin Items(c)
    BY <2>1, <2>5
  <2>7. CASE Above(d, m) = Menu
    <3>1. m \in Range(c[Menu])
      BY <1>3, <2>6, <2>7, NodeFacts
    <3>. QED  BY <1>4, <2>6, <3>1, BelowClosed, NodeFacts DEF Items
  <2>8. CASE Above(d, m) \in 1 .. n /\ Above(d, m) < m
    <3>1. Above(d, m) \in Items(c) /\ Above(d, m) \in Nodes
      BY <1>1, <2>1, <2>5, <2>6, <2>8, NodeFacts, SMTT(20)
    <3>2. m \in Range(c[Above(d, m)])
      BY <1>3, <2>6, <3>1, SMTT(20)
    <3>. QED  BY <1>4, <2>6, <3>1, <3>2, BelowClosed, NodeFacts DEF Items
  <2>. QED  BY <1>2, <2>6, <2>7, <2>8
<1>8. Items(c) = 1 .. n
  BY <1>6, <1>7
<1>9. IsTree(c)
  <2>1. ASSUME NEW p \in Keys \ Items(c)  PROVE c[p] = <<>>
    <3>1. p \in Nodes /\ p # Menu
      BY NodeFacts
    <3>2. Range(c[p]) = {}
      <4>1. ASSUME NEW i \in 1 .. n, Above(d, i) = p  PROVE FALSE
        BY <1>2, <1>8, <2>1, <3>1, <4>1
      <4>. QED  BY <1>3, <3>1, <4>1
    <3>. QED  BY <1>3, <3>1, <3>2
  <2>. QED  BY <1>4, <1>5, <2>1 DEF IsTree, OnePlace, TreeLists
<1>10. Forest(c)
  BY <1>9, NoCycles
<1>11. Depth(c, Menu) = 0
  <2>1. {q \in Keys : Menu \in Subtree(c, q)} = {}
    BY <1>4, SubtreeFacts, NodeFacts
  <2>. QED  BY <2>1, FS_EmptySet DEF Depth
<1>12. \A i \in 1 .. n : Depth(c, i) = d[i]
  <2>1. PICK S : S = {i \in 1 .. n : Depth(c, i) # d[i]}
    OBVIOUS
  <2>2. SUFFICES ASSUME S # {}  PROVE FALSE
    BY <2>1
  <2>3. S \in SUBSET (1 .. n) /\ IsFiniteSet(1 .. n)
    BY <2>1, FS_Interval
  <2>4. S \in SUBSET Int /\ IsFiniteSet(S)
    <3>1. IsFiniteSet(S)
      BY <2>3, FS_Subset
    <3>2. S \in SUBSET Int
      BY <2>3
    <3>. QED  BY <3>1, <3>2
  <2>5. PICK m \in S : \A y \in S : m <= y
    BY <2>2, <2>4, LeastOf
  <2>6. m \in 1 .. n /\ Depth(c, m) # d[m] /\ m \in Int /\ d[m] \in Int
    BY <1>1, <2>1, <2>5
  <2>7. PICK p : p = Above(d, m)
    OBVIOUS
  <2>8. p \in Nodes /\ m \in Range(c[p])
    <3>1. p \in Nodes
      BY <1>1, <1>2, <2>6, <2>7, NodeFacts
    <3>2. Range(c[p]) = {i \in 1 .. n : Above(d, i) = p}
      BY <1>3, <3>1
    <3>. QED  BY <2>6, <2>7, <3>1, <3>2
  <2>9. Depth(c, m) = Depth(c, p) + 1
    BY <1>10, <2>8, ChildDepth
  <2>10. CASE p = Menu /\ d[m] = 1
    BY <1>11, <2>6, <2>9, <2>10
  <2>11. CASE p \in 1 .. n /\ p < m /\ d[p] = d[m] - 1
    <3>1. ~(m <= p)
      BY <2>6, <2>11
    <3>2. Depth(c, p) = d[p]
      BY <2>1, <2>5, <2>11, <3>1
    <3>. QED  BY <2>6, <2>9, <2>11, <3>2
  <2>. QED  BY <1>2, <2>6, <2>7, <2>10, <2>11
<1>13. WithinDepth(c)
  BY <1>1, <1>8, <1>12, MenuBounds DEF WithinDepth
<1>. QED  BY <1>8, <1>9, <1>13


-----------------------------------------------------------------------------
(* The page. *)

LEMMA MinOfTwo ==
  ASSUME NEW a \in Int, NEW b \in Int
  PROVE  Min({a, b}) \in {a, b} /\ Min({a, b}) <= a /\ Min({a, b}) <= b
<1>1. \E x \in {a, b} : \A y \in {a, b} : x =< y
  <2>1. CASE a <= b
    BY <2>1
  <2>2. CASE b <= a
    BY <2>2
  <2>. QED  BY <2>1, <2>2
<1>. QED  BY <1>1 DEF Min

LEMMA RowsThrough ==
  ASSUME NEW c, IsTree(c)
  PROVE  {RowOf(c, k) : k \in Items(c)} = 1 .. Cardinality(Items(c))
<1>1. Forest(c)
  BY NoCycles
<1>2. PICK N : N = 1 .. Cardinality(Items(c))
  OBVIOUS
<1>3. /\ \A x \in Items(c) : RowOf(c, x) \in N
      /\ \A n \in N : \E x \in Items(c) : RowOf(c, x) = n
  BY <1>1, <1>2, RowsAreNumbered
<1>. QED  BY <1>2, <1>3

\* A tree within the limits, of the first n keys.
WithinLimits(c, n) ==
    IsTree(c) /\ Items(c) \subseteq 1 .. n /\ Cardinality(Items(c)) <= MaxItems /\ WithinDepth(c)

LEMMA TypeSplit ==
  MenuTypeOK <=> /\ WithinLimits(children, counter) /\ counter \in 0 .. MaxKeys
                 /\ selectedKey \in Items(children) \union {Menu}
<1>1. IsTree(children) => {RowOf(children, k) : k \in Items(children)} = 1 .. Cardinality(Items(children))
  BY RowsThrough
<1>. QED  BY <1>1 DEF MenuTypeOK, WithinLimits, WithinDepth

LEMMA ItemsFinite ==
  ASSUME NEW c, IsTree(c)
  PROVE  IsFiniteSet(Items(c)) /\ Cardinality(Items(c)) \in Nat /\ Items(c) \subseteq Keys
<1>1. c \in TreeLists
  BY DEF IsTree, TreeLists
<1>2. Items(c) \in SUBSET Keys
  BY <1>1, BelowClosed, NodeFacts DEF Items
<1>. QED  BY <1>2, MenuBounds, KeysFinite

LEMMA NoRowsIsAMenu == <<>> \in Shapes
<1>1. PICK m : m = Min({MaxItems, MaxKeys})
  OBVIOUS
<1>2. MaxItems \in Nat /\ MaxKeys \in Nat
  BY MenuBounds
<1>3. m \in Nat
  <2>1. Min({MaxItems, MaxKeys}) \in {MaxItems, MaxKeys}
    BY <1>2, MinOfTwo
  <2>. QED  BY <1>1, <1>2, <2>1
<1>4. 0 \in 0 .. m
  BY <1>3
<1>5. <<>> \in {d \in [1 .. 0 -> 1 .. MaxDepth] :
                  \A i \in 1 .. 0 : d[i] <= IF i = 1 THEN 1 ELSE d[i - 1] + 1}
  OBVIOUS
<1>. QED  BY <1>1, <1>4, <1>5 DEF Shapes

LEMMA StartIsTyped == MenuInit => MenuTypeOK
<1>1. SUFFICES ASSUME NEW d \in Shapes, Starts(d)  PROVE MenuTypeOK
  BY DEF MenuInit
<1>2. PICK n \in 0 .. Min({MaxItems, MaxKeys}) :
        d \in {e \in [1 .. n -> 1 .. MaxDepth] : \A i \in 1 .. n : e[i] <= IF i = 1 THEN 1 ELSE e[i - 1] + 1}
  BY <1>1 DEF Shapes
<1>3. n \in Nat /\ n <= MaxItems /\ n <= MaxKeys
  <2>1. PICK m : m = Min({MaxItems, MaxKeys})
    OBVIOUS
  <2>2. MaxItems \in Nat /\ MaxKeys \in Nat
    BY MenuBounds
  <2>3. m \in Int /\ m <= MaxItems /\ m <= MaxKeys
    BY <2>1, <2>2, MinOfTwo
  <2>4. n \in 0 .. m
    BY <1>2, <2>1
  <2>. QED  BY <2>2, <2>3, <2>4
<1>4. Shape(d, n) /\ DOMAIN d = 1 .. n
  BY <1>2 DEF Shape
<1>5. IsTree(children) /\ Items(children) = 1 .. n /\ WithinDepth(children)
  BY <1>1, <1>3, <1>4, StartIsTree DEF Starts
<1>6. d \in Seq(1 .. MaxDepth) /\ Len(d) = n /\ counter = n
  <2>1. PICK T : T = 1 .. MaxDepth
    OBVIOUS
  <2>2. d \in Seq(1 .. MaxDepth)
    <3>1. d \in [1 .. n -> T] /\ n \in Nat
      BY <1>3, <1>4, <2>1 DEF Shape
    <3>2. d \in Seq(T)
      BY <3>1
    <3>. QED  BY <2>1, <3>2
  <2>3. DOMAIN d = 1 .. Len(d) /\ Len(d) \in Nat
    BY <2>2, LenProperties
  <2>4. Len(d) = n
    BY <1>3, <1>4, <2>3
  <2>. QED  BY <1>1, <2>2, <2>4 DEF Starts
<1>7. Cardinality(Items(children)) = n
  BY <1>3, <1>5, FS_Interval
<1>8. selectedKey \in Items(children) \union {Menu}
  <2>1. CASE d = <<>>
    BY <1>1, <2>1 DEF Starts
  <2>2. CASE d # <<>>
    <3>1. n # 0
      BY <1>6, <2>2, EmptySeq
    <3>. QED  BY <1>1, <1>3, <1>5, <2>2, <3>1 DEF Starts
  <2>. QED  BY <2>1, <2>2
<1>. QED  BY <1>3, <1>5, <1>6, <1>7, <1>8, MenuBounds, TypeSplit DEF WithinLimits

\* A new item under p.
LEMMA AddedTree ==
  ASSUME NEW c, NEW n \in 0 .. MaxKeys, WithinLimits(c, n), n < MaxKeys, NEW p \in Items(c) \union {Menu},
         NEW d, d = AddNode(c, p, n + 1), d # NotPossible
  PROVE  WithinLimits(d, n + 1) /\ Items(d) = Items(c) \union {n + 1}
<1>1. PICK k : k = n + 1
  OBVIOUS
<1>2. IsTree(c) /\ Forest(c) /\ c \in TreeLists /\ OnePlace(c) /\ WithinDepth(c)
  BY NoCycles DEF WithinLimits, Forest
<1>3. k \in Keys /\ k \notin Items(c) /\ p \in Nodes /\ k \in Nodes /\ p # k
  <2>1. k \in Keys /\ k \notin 1 .. n
    BY <1>1, MenuBounds DEF Keys
  <2>2. Items(c) \subseteq Keys /\ Items(c) \subseteq 1 .. n
    BY <1>2, ItemsFinite DEF WithinLimits
  <2>. QED  BY <2>1, <2>2, NodeFacts
<1>4. Cardinality(Items(c)) + 1 <= MaxItems /\ (p # Menu => Depth(c, p) + 1 <= MaxDepth)
      /\ d = [c EXCEPT ![p] = Append(@, k)]
  <2>1. Cardinality(Items(c)) \in Int /\ MaxItems \in Int /\ MaxDepth \in Int /\ Depth(c, p) \in Int
    BY <1>2, ItemsFinite, DepthType, MenuBounds
  <2>. QED  BY <1>1, <2>1 DEF AddNode
<1>5. c[k] = <<>> /\ Subtree(c, k) = {k}
  <2>1. c[k] = <<>>
    BY <1>2, <1>3 DEF IsTree
  <2>2. Range(c[k]) = {}
    BY <2>1 DEF Range
  <2>3. Below(c, k) = {}
    BY <1>2, <1>3, <2>2, BelowLeast
  <2>. QED  BY <2>1, <2>3 DEF Subtree
<1>6. \A q \in Nodes : k \notin Range(c[q])
  <2>1. ASSUME NEW q \in Nodes, k \in Range(c[q])  PROVE FALSE
    <3>1. CASE q \in Items(c) \union {Menu}
      BY <1>2, <1>3, <2>1, <3>1, BelowClosed, NodeFacts DEF Items
    <3>2. CASE q \notin Items(c) \union {Menu}
      <4>1. c[q] = <<>>
        BY <1>2, <3>2 DEF IsTree, Nodes
      <4>. QED  BY <2>1, <4>1 DEF Range
    <3>. QED  BY <3>1, <3>2
  <2>. QED  BY <2>1
<1>7. PICK i : i = Len(c[p]) + 1
  OBVIOUS
<1>8. d = Put(c, p, i, k) /\ i \in 1 .. Len(c[p]) + 1
  BY <1>2, <1>3, <1>4, <1>7, PushIs
<1>9. Reparents(c, d, k, p)
  BY <1>2, <1>3, <1>6, <1>8, PutIs DEF Reparents
<1>10. p \notin Subtree(c, k)
  BY <1>3, <1>5
<1>11. IsTree(d) /\ Items(d) = Items(c) \union {k}
  BY <1>2, <1>3, <1>5, <1>9, <1>10, MovedItems
<1>12. Forest(d) /\ k \in Range(d[p]) /\ \A j \in Nodes \ {k} : Depth(d, j) = Depth(c, j)
  BY <1>2, <1>3, <1>5, <1>9, <1>10, MovedBelow, MovedDepth DEF Reparents
<1>13. Depth(d, k) <= MaxDepth
  <2>1. Depth(d, k) = Depth(c, p) + 1
    BY <1>3, <1>12, ChildDepth
  <2>2. CASE p = Menu
    <3>1. {q \in Keys : Menu \in Subtree(c, q)} = {}
      BY <1>2, SubtreeFacts, NodeFacts
    <3>2. Depth(c, p) = 0
      BY <2>2, <3>1, FS_EmptySet DEF Depth
    <3>. QED  BY <2>1, <3>2, MenuBounds
  <2>3. CASE p # Menu
    BY <1>4, <2>1, <2>3
  <2>. QED  BY <2>2, <2>3
<1>14. WithinDepth(d)
  <2>1. ASSUME NEW j \in Items(d), j # k  PROVE Depth(d, j) <= MaxDepth
    <3>1. j \in Items(c) /\ j \in Nodes
      BY <1>2, <1>11, <2>1, ItemsFinite, NodeFacts
    <3>. QED  BY <1>2, <1>12, <2>1, <3>1 DEF WithinDepth
  <2>. QED  BY <1>13, <2>1 DEF WithinDepth
<1>15. Cardinality(Items(d)) <= MaxItems
  <2>1. Cardinality(Items(d)) = Cardinality(Items(c)) + 1
    BY <1>2, <1>3, <1>11, ItemsFinite, FS_AddElement
  <2>. QED  BY <1>4, <2>1
<1>16. Items(d) \subseteq 1 .. n + 1
  <2>1. Items(c) \subseteq 1 .. n
    BY DEF WithinLimits
  <2>. QED  BY <1>1, <1>11, <2>1
<1>. QED  BY <1>1, <1>11, <1>14, <1>15, <1>16 DEF WithinLimits

\* What the operations make of a tree within the limits.
LEMMA OperationsMove ==
  ASSUME NEW c, IsTree(c), WithinDepth(c), NEW k \in Items(c)
  PROVE  /\ Indent(c, k) # NotPossible => MovedOnly(c, Indent(c, k), k)
         /\ Outdent(c, k) # NotPossible => MovedOnly(c, Outdent(c, k), k)
         /\ MoveNode(c, k, 1) # NotPossible => MovedOnly(c, MoveNode(c, k, 1), k)
         /\ MoveNode(c, k, -1) # NotPossible => MovedOnly(c, MoveNode(c, k, -1), k)
         /\ \A t \in Items(c) : MoveRow(c, k, t) # NotPossible =>
              MovedOnly(c, MoveRow(c, k, t), k) /\ Lands(c, MoveRow(c, k, t), k, t)
<1>1. ASSUME NEW d, \E p : Moves(c, d, k, p)  PROVE MovedOnly(c, d, k)
  BY <1>1, MovesKeep
<1>2. Indent(c, k) # NotPossible => MovedOnly(c, Indent(c, k), k)
  BY <1>1, IndentMoves
<1>3. Outdent(c, k) # NotPossible => MovedOnly(c, Outdent(c, k), k)
  BY <1>1, OutdentMoves
<1>4. ASSUME NEW delta \in {-1, 1}, MoveNode(c, k, delta) # NotPossible
      PROVE  MovedOnly(c, MoveNode(c, k, delta), k)
  BY <1>1, <1>4, MoveNodeMoves
<1>5. ASSUME NEW t \in Items(c), MoveRow(c, k, t) # NotPossible
      PROVE  MovedOnly(c, MoveRow(c, k, t), k) /\ Lands(c, MoveRow(c, k, t), k, t)
  BY <1>1, <1>5, DropLands
<1>. QED  BY <1>2, <1>3, <1>4, <1>5

LEMMA CommitIsTyped ==
  ASSUME MenuTypeOK, NEW k \in Items(children), NEW d, MovedOnly(children, d, k), Commits(d)
  PROVE  MenuTypeOK'
<1>1. children' = d /\ selectedKey' = selectedKey /\ counter' = counter
  BY DEF Commits
<1>2. WithinLimits(d, counter) /\ Items(d) = Items(children)
  BY TypeSplit DEF MovedOnly, WithinLimits
<1>3. counter \in 0 .. MaxKeys /\ selectedKey \in Items(children) \union {Menu}
  BY TypeSplit
<1>4. (MenuTypeOK <=> /\ WithinLimits(children, counter) /\ counter \in 0 .. MaxKeys
                      /\ selectedKey \in Items(children) \union {Menu})'
  BY TypeSplit, PTL
<1>5. (WithinLimits(children, counter) /\ counter \in 0 .. MaxKeys /\ selectedKey \in Items(children) \union {Menu})'
  BY <1>1, <1>2, <1>3
<1>. QED  BY <1>4, <1>5

LEMMA RemoveIsTyped ==
  ASSUME MenuTypeOK, NEW k \in Keys, RemoveItem(k)
  PROVE  MenuTypeOK'
<1>1. PICK e : e = RemoveNode(children, k)
  OBVIOUS
<1>2. k \in Items(children) /\ children' = e /\ counter' = counter
  BY <1>1 DEF RemoveItem
<1>3. WithinLimits(children, counter) /\ counter \in 0 .. MaxKeys /\ IsTree(children) /\ WithinDepth(children)
      /\ selectedKey \in Items(children) \union {Menu}
  BY TypeSplit DEF WithinLimits
<1>4. IsTree(e) /\ Items(e) \subseteq Items(children) /\ \A j \in Items(e) : Depth(e, j) = Depth(children, j)
  <2>1. Items(e) = Items(children) \ Subtree(children, k)
    BY <1>1, <1>2, <1>3, RemovedTree
  <2>. QED  BY <1>1, <1>2, <1>3, <2>1, RemovedTree
<1>5. IsFiniteSet(Items(e)) /\ Cardinality(Items(e)) \in Nat /\ Cardinality(Items(children)) \in Nat
      /\ Cardinality(Items(e)) <= Cardinality(Items(children))
  <2>1. Items(e) \in SUBSET Items(children) /\ IsFiniteSet(Items(children))
    BY <1>3, <1>4, ItemsFinite
  <2>. QED  BY <1>3, <1>4, <2>1, ItemsFinite, FS_Subset
<1>6. WithinLimits(e, counter)
  BY <1>3, <1>4, <1>5, MenuBounds DEF WithinLimits, WithinDepth
<1>7. selectedKey' \in Items(e) \union {Menu}
  <2>1. PICK nth : nth = Min({RowOf(children, k), Cardinality(Items(e))})
    OBVIOUS
  <2>2. selectedKey' = IF selectedKey = Menu \/ selectedKey \in Items(e) THEN selectedKey
                       ELSE IF Items(e) = {} THEN Menu
                       ELSE CHOOSE j \in Items(e) : RowOf(e, j) = nth
    BY <1>2, <2>1 DEF RemoveItem
  <2>3. ASSUME Items(e) # {}  PROVE \E j \in Items(e) : RowOf(e, j) = nth
    <3>1. Cardinality(Items(e)) # 0
      BY <1>5, <2>3, FS_EmptySet
    <3>2. RowOf(children, k) \in Nat /\ RowOf(children, k) >= 1
      <4>1. RowOf(children, k) \in 1 .. Cardinality(Items(children))
        BY <1>2, <1>3, NoCycles, RowsAreNumbered
      <4>. QED  BY <1>5, <4>1
    <3>3. PICK a \in Int : a = RowOf(children, k)
      BY <3>2
    <3>4. PICK b \in Int : b = Cardinality(Items(e))
      BY <1>5
    <3>5. nth \in 1 .. Cardinality(Items(e))
      <4>1. Min({a, b}) \in {a, b} /\ Min({a, b}) <= b
        BY MinOfTwo
      <4>2. nth = Min({a, b})
        BY <2>1, <3>3, <3>4
      <4>3. nth \in {a, b} /\ nth <= b
        BY <4>1, <4>2
      <4>. QED  BY <1>5, <3>1, <3>2, <3>3, <3>4, <4>3
    <3>. QED  BY <1>4, <3>5, NoCycles, RowsAreNumbered
  <2>4. CASE selectedKey = Menu \/ selectedKey \in Items(e)
    BY <2>2, <2>4
  <2>5. CASE ~(selectedKey = Menu \/ selectedKey \in Items(e)) /\ Items(e) = {}
    BY <2>2, <2>5
  <2>6. CASE ~(selectedKey = Menu \/ selectedKey \in Items(e)) /\ Items(e) # {}
    BY <2>2, <2>3, <2>6
  <2>. QED  BY <2>4, <2>5, <2>6
<1>8. (MenuTypeOK <=> /\ WithinLimits(children, counter) /\ counter \in 0 .. MaxKeys
                      /\ selectedKey \in Items(children) \union {Menu})'
  BY TypeSplit, PTL
<1>9. (WithinLimits(children, counter) /\ counter \in 0 .. MaxKeys /\ selectedKey \in Items(children) \union {Menu})'
  BY <1>2, <1>3, <1>6, <1>7
<1>. QED  BY <1>8, <1>9

LEMMA AddIsTyped ==
  ASSUME MenuTypeOK, NEW p \in Nodes, Add(p)
  PROVE  MenuTypeOK'
<1>1. WithinLimits(children, counter) /\ counter \in 0 .. MaxKeys /\ selectedKey \in Items(children) \union {Menu}
  BY TypeSplit
<1>2. PICK d : d = AddNode(children, p, counter + 1)
  OBVIOUS
<1>3. (MenuTypeOK <=> /\ WithinLimits(children, counter) /\ counter \in 0 .. MaxKeys
                      /\ selectedKey \in Items(children) \union {Menu})'
  BY TypeSplit, PTL
<1>4. CASE d = NotPossible
  <2>1. children' = children /\ selectedKey' = selectedKey /\ counter' = counter
    BY <1>2, <1>4 DEF Add, menuVars
  <2>2. (WithinLimits(children, counter) /\ counter \in 0 .. MaxKeys /\ selectedKey \in Items(children) \union {Menu})'
    BY <1>1, <2>1
  <2>. QED  BY <1>3, <2>2
<1>5. CASE d # NotPossible
  <2>1. counter < MaxKeys /\ children' = d /\ selectedKey' = counter + 1 /\ counter' = counter + 1
        /\ p \in Items(children) \union {Menu}
    BY <1>2, <1>5 DEF Add
  <2>2. WithinLimits(d, counter + 1) /\ Items(d) = Items(children) \union {counter + 1}
    BY <1>1, <1>2, <1>5, <2>1, AddedTree
  <2>3. counter + 1 \in 0 .. MaxKeys
    BY <1>1, <2>1, MenuBounds
  <2>4. (WithinLimits(children, counter) /\ counter \in 0 .. MaxKeys /\ selectedKey \in Items(children) \union {Menu})'
    BY <2>1, <2>2, <2>3
  <2>. QED  BY <1>3, <2>4
<1>. QED  BY <1>4, <1>5

LEMMA StepIsTyped == MenuTypeOK /\ [MenuNext]_menuVars => MenuTypeOK'
<1>1. SUFFICES ASSUME MenuTypeOK, [MenuNext]_menuVars  PROVE MenuTypeOK'
  OBVIOUS
<1>2. IsTree(children) /\ WithinDepth(children)
  BY <1>1, TypeSplit DEF WithinLimits
<1>3. ASSUME NEW k \in Keys, Select(k)  PROVE MenuTypeOK'
  <2>1. selectedKey' \in Items(children) /\ children' = children /\ counter' = counter
    BY <1>3 DEF Select
  <2>. QED  BY <1>1, <2>1 DEF MenuTypeOK
<1>4. ASSUME NEW k \in Keys, RemoveItem(k)  PROVE MenuTypeOK'
  BY <1>1, <1>4, RemoveIsTyped
<1>5. ASSUME NEW k \in Keys, NEW delta \in {-1, 1}, Move(k, delta)  PROVE MenuTypeOK'
  <2>1. k \in Items(children) /\ Commits(MoveNode(children, k, delta)) /\ MoveNode(children, k, delta) # NotPossible
    BY <1>5 DEF Move, Commits
  <2>2. MovedOnly(children, MoveNode(children, k, delta), k)
    <3>1. delta = 1 \/ delta = -1
      BY <1>5
    <3>. QED  BY <1>2, <2>1, <3>1, OperationsMove
  <2>. QED  BY <1>1, <2>1, <2>2, CommitIsTyped
<1>6. ASSUME NEW k \in Keys, Shift(k)  PROVE MenuTypeOK'
  <2>1. k \in Items(children)
    BY <1>6 DEF Shift
  <2>2. CASE Commits(Indent(children, k))
    <3>1. Indent(children, k) # NotPossible
      BY <2>2 DEF Commits
    <3>. QED  BY <1>1, <1>2, <2>1, <2>2, <3>1, OperationsMove, CommitIsTyped
  <2>3. CASE Commits(Outdent(children, k))
    <3>1. Outdent(children, k) # NotPossible
      BY <2>3 DEF Commits
    <3>. QED  BY <1>1, <1>2, <2>1, <2>3, <3>1, OperationsMove, CommitIsTyped
  <2>. QED  BY <1>6, <2>2, <2>3 DEF Shift
<1>7. ASSUME NEW p \in Nodes, Add(p)  PROVE MenuTypeOK'
  BY <1>1, <1>7, AddIsTyped
<1>8. ASSUME NEW k \in Items(children), NEW target \in Items(children), Drop(k, target)  PROVE MenuTypeOK'
  <2>1. Commits(MoveRow(children, k, target)) /\ MoveRow(children, k, target) # NotPossible
    BY <1>8 DEF Drop, Commits
  <2>2. MovedOnly(children, MoveRow(children, k, target), k)
    BY <1>2, <2>1, OperationsMove
  <2>. QED  BY <1>1, <2>1, <2>2, CommitIsTyped
<1>9. CASE UNCHANGED menuVars
  BY <1>1, <1>9 DEF menuVars, MenuTypeOK
<1>. QED  BY <1>1, <1>3, <1>4, <1>5, <1>6, <1>7, <1>8, <1>9 DEF MenuNext

\* Whatever the admin does in the editor of a menu, its items stay a tree within the limits
\* of the server, its rows are numbered through, and the selection is an item.
THEOREM MenuIsATree == MenuSpec => []MenuTypeOK
<1>1. MenuInit => MenuTypeOK
  BY StartIsTyped
<1>2. MenuTypeOK /\ [MenuNext]_menuVars => MenuTypeOK'
  BY StepIsTyped
<1>. QED  BY <1>1, <1>2, PTL DEF MenuSpec

LEMMA TypedMovesAreSound == MenuTypeOK => MovesTakeOneSubtree
<1>1. SUFFICES ASSUME MenuTypeOK  PROVE MovesTakeOneSubtree
  OBVIOUS
<1>2. IsTree(children) /\ WithinDepth(children)
  BY <1>1, TypeSplit DEF WithinLimits
<1>3. ASSUME NEW k \in Items(children), NEW d, d # NotPossible => MovedOnly(children, d, k)
      PROVE  MovesOnly(Order(children), d, k)
  BY <1>3 DEF MovesOnly, MovedOnly, WithinDepth
<1>4. ASSUME NEW k \in Items(children)
      PROVE  /\ MovesOnly(Order(children), Indent(children, k), k) /\ MovesOnly(Order(children), Outdent(children, k), k)
             /\ MovesOnly(Order(children), MoveNode(children, k, 1), k) /\ MovesOnly(Order(children), MoveNode(children, k, -1), k)
  BY <1>2, <1>3, OperationsMove
<1>5. ASSUME NEW k \in Items(children), NEW target \in Items(children), NEW d, d = MoveRow(children, k, target)
      PROVE  MovesOnly(Order(children), d, k) /\ LandsAt(Order(children), d, k, target)
  <2>1. d # NotPossible => MovedOnly(children, d, k) /\ Lands(children, d, k, target)
    BY <1>2, <1>5, OperationsMove
  <2>2. MovesOnly(Order(children), d, k)
    BY <1>3, <2>1
  <2>. QED  BY <2>1, <2>2 DEF LandsAt, Lands, RowOf
<1>. QED  BY <1>4, <1>5 DEF MovesTakeOneSubtree

\* In every tree the page can show, an indent, an outdent, a swap or a drop of any row on any
\* other moves one item with what is under it and nothing else, within the limits, and the
\* drop shows it where it was dropped.
THEOREM MovesAreSound == MenuSpec => []MovesTakeOneSubtree
BY TypedMovesAreSound, MenuIsATree, PTL
=============================================================================
