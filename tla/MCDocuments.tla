----------------------------- MODULE MCDocuments -----------------------------
(* Small instances of Documents for TLC. *)
EXTENDS Documents, Naturals, TLC

CONSTANTS d1, d2, d3, en, fr, a, b

TwoLocales == {en, fr}
Symmetry   == Permutations(Docs)

\* Relation changes: none, every set of targets, connecting or disconnecting one.
Untouched  == [disconnect |-> {}, connect |-> {}]
NoRelation == {Untouched}
SetTo      == [disconnect: {Docs}, connect: SUBSET Docs]
Moves      == NoRelation \cup
              [disconnect: {{}}, connect: {{d} : d \in Docs}] \cup
              [disconnect: {{d} : d \in Docs}, connect: {{}}]
AnyChange  == SetTo \cup Moves
ToOneChange == {op \in AnyChange : Cardinality(op.connect) <= 1}

EveryValue == Columns \cup {Keep}
OnlyA      == {a}
NoMorphs   == {}
MorphOne   == {{d} : d \in Docs}

AnyPair  == Columns \X Columns
\* A rule that compares the localized column with the shared one.
SamePair == {<<v, v>> : v \in Columns}
=============================================================================
