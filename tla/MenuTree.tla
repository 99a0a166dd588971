------------------------------ MODULE MenuTree ------------------------------
(***************************************************************************)
(* The tree of a menu in its editor (core/menu-tree.ts, menu-edit.ts): each *)
(* item has a list of children, edits splice these lists, and the page shows *)
(* the tree flattened into rows, by which items are dragged.  What an item  *)
(* says and links to is left out; loading and saving are in SettingsForms.  *)
(*                                                                         *)
(* The code walks a tree by recursion.  Here what a walk finds is a set: the *)
(* nodes under a node are the least set closed under children, depth and    *)
(* height count them, and the rows are the order in which they are met.     *)
(***************************************************************************)
EXTENDS Integers, Sequences, FiniteSets, SequencesExt

CONSTANTS MaxDepth,     \* MAX_MENU_DEPTH
          MaxItems,     \* MAX_MENU_ITEMS
          MaxKeys       \* bound: how many items there ever are

ASSUME MenuAssumption == {MaxDepth, MaxItems, MaxKeys} \subseteq Nat \ {0}

VARIABLES
    children,      \* the items under an item, and under the menu itself
    selectedKey,   \* the item whose details are open
    counter        \* how many keys were given out

menuVars == <<children, selectedKey, counter>>

Keys == 1 .. MaxKeys
Menu == 0      \* the root, and no selection
Nodes == Keys \union {Menu}
NotPossible == <<>>

----------------------------------------------------------------------------
(* Reading a tree. *)

\* What flatten() finds under a node, in no order.
Below(c, k) ==
    LET closed == {S \in SUBSET Keys : \A p \in S \union {k} : c[p] \in Seq(S)}
    IN  {j \in Keys : \A S \in closed : j \in S}

Items(c) == Below(c, Menu)
Subtree(c, k) == {k} \union Below(c, k)
Parent(c, k) == CHOOSE p \in Nodes : k \in Range(c[p])
PlaceOf(c, k)  == CHOOSE i \in DOMAIN c[Parent(c, k)] : c[Parent(c, k)][i] = k

\* findPath().length, and the levels in a subtree.
Depth(c, k)  == Cardinality({p \in Keys : k \in Subtree(c, p)})
Height(c, k) == Max({Depth(c, j) - Depth(c, k) + 1 : j \in Subtree(c, k)})

\* The order of flatten(): an item, then what is under it, then the next.
Order(c) ==
    LET apart(p)  == {pair \in (DOMAIN c[p]) \X (DOMAIN c[p]) : pair[1] < pair[2]}
        across(p) == UNION {Subtree(c, c[p][pair[1]]) \X Subtree(c, c[p][pair[2]]) : pair \in apart(p)}
    IN  UNION {({p} \X Below(c, p)) \union across(p) : p \in Nodes}

RowIn(order, c, k) == Cardinality({j \in Items(c) : <<j, k>> \in order}) + 1
RowOf(c, k) == RowIn(Order(c), c, k)

----------------------------------------------------------------------------
(* Changing one.  An operation that is not possible gives NotPossible. *)

Taken(c, k) == [c EXCEPT ![Parent(c, k)] = RemoveAt(@, PlaceOf(c, k))]
Put(c, p, i, k) == [c EXCEPT ![p] = InsertAt(@, i, k)]

\* What was under an item goes with it.
RemoveNode(c, k) == [p \in Nodes |-> IF p \in Subtree(c, k) THEN <<>> ELSE Taken(c, k)[p]]

AddNode(c, p, k) ==
    IF \/ Cardinality(Items(c)) + 1 > MaxItems
       \/ p # Menu /\ Depth(c, p) + 1 > MaxDepth
    THEN NotPossible ELSE [c EXCEPT ![p] = Append(@, k)]

\* A swap with the sibling before or after.
MoveNode(c, k, delta) ==
    LET p == Parent(c, k)  from == PlaceOf(c, k)  to == from + delta
    IN  IF to \notin DOMAIN c[p] THEN NotPossible
        ELSE [c EXCEPT ![p] = [@ EXCEPT ![from] = c[p][to], ![to] = k]]

CanIndent(c, k) == PlaceOf(c, k) > 1 /\ Depth(c, k) + Height(c, k) <= MaxDepth

\* The last child of the sibling before.
Indent(c, k) ==
    IF ~CanIndent(c, k) THEN NotPossible
    ELSE LET sibling == c[Parent(c, k)][PlaceOf(c, k) - 1]
         IN  [Taken(c, k) EXCEPT ![sibling] = Append(@, k)]

CanOutdent(c, k) == Parent(c, k) # Menu

\* The next sibling of its parent; the siblings after it stay where they are.
Outdent(c, k) ==
    IF ~CanOutdent(c, k) THEN NotPossible
    ELSE LET p == Parent(c, k) IN Put(Taken(c, k), Parent(c, p), PlaceOf(c, p) + 1, k)

\* Mutant of Fits: the items under the one that is dragged are not counted.
FitsAlone(c, k, depth) == depth + 1 <= MaxDepth

Fits(c, k, depth) == depth + Height(c, k) <= MaxDepth

\* A drop of one row on another, each named by its item.  Upwards, the item goes before the
\* row it is dropped on; downwards after it, as its first child if it has children.  Not
\* into itself.
MoveRow(c, dragged, target) ==
    LET order  == Order(c)
        from   == RowIn(order, c, dragged)
        to     == RowIn(order, c, target)
        rest   == Taken(c, dragged)
        beside == Parent(rest, target)
        under  == from < to /\ rest[target] # <<>>
        depth  == IF under THEN Depth(rest, target) ELSE Depth(rest, target) - 1
    IN  IF from = to \/ to \in from + 1 .. from + Cardinality(Subtree(c, dragged)) - 1 THEN NotPossible
        ELSE IF ~Fits(c, dragged, depth) THEN NotPossible
        ELSE IF under THEN Put(rest, target, 1, dragged)
        ELSE Put(rest, beside, PlaceOf(rest, target) + (IF from < to THEN 1 ELSE 0), dragged)

----------------------------------------------------------------------------
(* The page. *)

\* The depths of a menu's rows, in order.
Shapes ==
    UNION {{d \in [1 .. n -> 1 .. MaxDepth] :
                \A i \in 1 .. n : d[i] <= IF i = 1 THEN 1 ELSE d[i - 1] + 1} : n \in 0 .. Min({MaxItems, MaxKeys})}

Above(d, i) == IF d[i] = 1 THEN Menu ELSE Max({j \in 1 .. i - 1 : d[j] = d[i] - 1})

\* A set of rows as a list, in their order.
InOrder(S) == [n \in 1 .. Cardinality(S) |-> CHOOSE i \in S : Cardinality({j \in S : j < i}) = n - 1]

\* fromItems(): keys in the order of the rows; the first item is selected.
Starts(d) ==
    /\ children = [p \in Nodes |-> InOrder({i \in DOMAIN d : Above(d, i) = p})]
    /\ selectedKey = (IF d = <<>> THEN Menu ELSE 1)
    /\ counter = Len(d)

\* Any menu the server may hold.
MenuInit == \E d \in Shapes : Starts(d)

Commits(c) == c # NotPossible /\ children' = c /\ UNCHANGED <<selectedKey, counter>>

Select(k) ==
    /\ k \in Items(children) /\ selectedKey' = k
    /\ UNCHANGED <<children, counter>>

\* The new item is selected; past the limits nothing is added (the key it would have got
\* counts as not given out).
Add(p) ==
    /\ p \in Items(children) \union {Menu}
    /\ LET tree == AddNode(children, p, counter + 1)
       IN  IF tree = NotPossible THEN UNCHANGED menuVars
           ELSE /\ counter < MaxKeys /\ children' = tree
                /\ selectedKey' = counter + 1 /\ counter' = counter + 1

\* The row that comes into the place of a selected item that went is selected.
RemoveItem(k) ==
    /\ k \in Items(children)
    /\ children' = RemoveNode(children, k)
    /\ LET left == Items(children')
           nth  == Min({RowOf(children, k), Cardinality(left)})
       IN  selectedKey' =
               IF selectedKey = Menu \/ selectedKey \in left THEN selectedKey
               ELSE IF left = {} THEN Menu
               ELSE CHOOSE j \in left : RowOf(children', j) = nth
    /\ UNCHANGED counter

Move(k, delta) == k \in Items(children) /\ Commits(MoveNode(children, k, delta))

Shift(k) ==
    /\ k \in Items(children)
    /\ \/ Commits(Indent(children, k))
       \/ Commits(Outdent(children, k))

Drop(k, target) == Commits(MoveRow(children, k, target))

MenuNext ==
    \/ \E k \in Keys : Select(k) \/ RemoveItem(k) \/ Move(k, -1) \/ Move(k, 1) \/ Shift(k)
    \/ \E p \in Nodes : Add(p)
    \/ \E k, target \in Items(children) : Drop(k, target)

MenuSpec == MenuInit /\ [][MenuNext]_menuVars

----------------------------------------------------------------------------
(* Properties. *)

\* Every item is in one list; nothing is kept under one that is not in the menu.
IsTree(c) ==
    /\ c \in [Nodes -> Seq(Keys)]
    /\ \A p, q \in Nodes : \A i \in DOMAIN c[p], j \in DOMAIN c[q] : c[p][i] = c[q][j] => p = q /\ i = j
    /\ \A p \in Keys \ Items(c) : c[p] = <<>>

\* The page's items are a tree within the limits of the server, whose rows are numbered
\* through; the selection is one of them.
MenuTypeOK ==
    /\ IsTree(children)
    /\ counter \in 0 .. MaxKeys /\ Items(children) \subseteq 1 .. counter
    /\ Cardinality(Items(children)) <= MaxItems
    /\ \A k \in Items(children) : Depth(children, k) <= MaxDepth
    /\ {RowOf(children, k) : k \in Items(children)} = 1 .. Cardinality(Items(children))
    /\ selectedKey \in Items(children) \union {Menu}

\* A move takes an item with all that is under it: no item is lost or nests too deep, every
\* other item keeps its parent, and the order of the rows stays what it was, among those
\* that are moved and among the others.
MovesOnly(before, c, k) ==
    c # NotPossible =>
        LET moved == Subtree(children, k)
            after == Order(c)
        IN  /\ IsTree(c) /\ Items(c) = Items(children) /\ Subtree(c, k) = moved
            /\ \A j \in Items(c) : Depth(c, j) <= MaxDepth
            /\ \A j \in Items(c) \ {k} : Parent(c, j) = Parent(children, j)
            /\ \A i, j \in Items(c) :
                 (i \in moved <=> j \in moved) => (<<i, j>> \in after <=> <<i, j>> \in before)

\* A dropped item is shown where it was dropped: it, or the last row under it when it went
\* down, takes the row it was dropped on.
LandsAt(before, c, k, target) ==
    c # NotPossible =>
        LET row == RowIn(before, children, target)
        IN  row = IF row < RowIn(before, children, k) THEN RowOf(c, k)
                  ELSE RowOf(c, k) + Cardinality(Subtree(c, k)) - 1

\* Whatever tree it is, an indent, outdent, swap or drop moves one subtree and nothing
\* else, within the limits, and a drop puts it where the admin saw it go.
MovesTakeOneSubtree ==
    LET before == Order(children)
    IN  /\ \A k \in Items(children) :
             /\ MovesOnly(before, Indent(children, k), k) /\ MovesOnly(before, Outdent(children, k), k)
             /\ MovesOnly(before, MoveNode(children, k, 1), k)
             /\ MovesOnly(before, MoveNode(children, k, -1), k)
        /\ \A k, target \in Items(children) :
             LET c == MoveRow(children, k, target)
             IN  MovesOnly(before, c, k) /\ LandsAt(before, c, k, target)
=============================================================================
