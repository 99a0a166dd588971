--------------------------- MODULE DocumentsProofs ---------------------------
(***************************************************************************)
(* Theorems about Documents, for every set of documents, locales and       *)
(* values and every kind of relation.  The lemmas say what one row is      *)
(* after each of the transformers of rows; the invariants are restated on  *)
(* an arbitrary value R of rows, because a write followed by a publication *)
(* in the same transaction goes through an intermediate one.               *)
(***************************************************************************)
EXTENDS Documents, TLAPS

MaybeRow == Row \cup {NoRow}
RowsType == [States -> [Docs -> [Locales -> MaybeRow]]]

\* The same shared attributes, own column or presence as another row.
SameShared(x, y) == x.shared = y.shared /\ x.links = y.links /\ x.morphs = y.morphs

-----------------------------------------------------------------------------
(* What one row is after a transformer. *)

\* Letting go of targets keeps the row, its columns and its morphs, and only
\* shrinks the links (steal_targets deletes link rows and nothing else).
LEMMA WithoutRow ==
    ASSUME NEW row \in MaybeRow, NEW T
    PROVE  /\ Without(row, T) \in MaybeRow
           /\ Without(row, T) = NoRow <=> row = NoRow
           /\ row # NoRow =>
                /\ Without(row, T).own = row.own
                /\ Without(row, T).shared = row.shared
                /\ Without(row, T).morphs = row.morphs
                /\ Without(row, T).links \subseteq row.links
                /\ UniqueTarget => Without(row, T).links = row.links \ T
                /\ ~UniqueTarget => Without(row, T).links = row.links
  BY ConstantsAssumption DEF Without, MaybeRow, Row

\* A write to one row is the row written, everywhere else nothing moved.
LEMMA PutRows ==
    ASSUME NEW R \in RowsType, NEW s \in States, NEW d \in Docs, NEW l \in Locales,
           NEW row \in MaybeRow
    PROVE  /\ Put(R, s, d, l, row) \in RowsType
           /\ \A t \in States, e \in Docs, k \in Locales :
                Put(R, s, d, l, row)[t][e][k] =
                  IF t = s /\ e = d /\ k = l THEN row ELSE R[t][e][k]
  BY DEF Put, RowsType

\* Stealing touches the rows of other documents in one state.
LEMMA StealRows ==
    ASSUME NEW R \in RowsType, NEW s \in States, NEW d \in Docs, NEW T
    PROVE  /\ Steal(R, s, d, T) \in RowsType
           /\ \A t \in States, e \in Docs, k \in Locales :
                Steal(R, s, d, T)[t][e][k] =
                  IF t = s /\ e # d THEN Without(R[t][e][k], T) ELSE R[t][e][k]
  <1> DEFINE f == [e \in Docs |-> [k \in Locales |->
                     IF e = d THEN R[s][e][k] ELSE Without(R[s][e][k], T)]]
  <1>1. f \in [Docs -> [Locales -> MaybeRow]]
    <2>1. ASSUME NEW e \in Docs, NEW k \in Locales
          PROVE  (IF e = d THEN R[s][e][k] ELSE Without(R[s][e][k], T)) \in MaybeRow
      <3>1. R[s][e][k] \in MaybeRow
        BY DEF RowsType
      <3> QED BY <3>1, WithoutRow
    <2> QED BY <2>1
  <1>2. Steal(R, s, d, T) = [R EXCEPT ![s] = f]
    BY DEF Steal, InState
  <1>3. Steal(R, s, d, T) \in RowsType
    BY <1>1, <1>2 DEF RowsType
  <1>4. ASSUME NEW t \in States, NEW e \in Docs, NEW k \in Locales
        PROVE  Steal(R, s, d, T)[t][e][k] =
                  IF t = s /\ e # d THEN Without(R[t][e][k], T) ELSE R[t][e][k]
    <2>1. CASE t = s
      BY <1>2, <2>1 DEF RowsType
    <2>2. CASE t # s
      BY <1>2, <2>2 DEF RowsType
    <2> QED BY <2>1, <2>2
  <1> QED BY <1>3, <1>4

\* A request edits the columns and relations of a row and keeps its shape.
LEMMA EditedRow ==
    ASSUME NEW row \in Row, NEW w \in Writes
    PROVE  /\ Shared(row, w) \in Row
           /\ Edited(row, w) \in Row
           /\ Shared(row, w).own = row.own
           /\ Edited(row, w).own = Assign(row.own, w.own)
           /\ Shared(row, w).shared = Assign(row.shared, w.shared)
           /\ Shared(row, w).links = NextLinks(row.links, w.links)
           /\ w.morphs = {} => Shared(row, w).morphs = row.morphs
           /\ w.morphs # {} => Shared(row, w).morphs = UNION w.morphs
           /\ SameShared(Edited(row, w), Shared(row, w))
  <1>1. /\ w.own \in Columns \cup {Keep} /\ w.shared \in Columns \cup {Keep}
        /\ w.links \in [disconnect: SUBSET Docs, connect: SUBSET Docs]
        /\ UNION w.morphs \subseteq Docs
    BY ConstantsAssumption DEF Writes
  <1>2. NextLinks(row.links, w.links) \subseteq Docs
    BY <1>1 DEF NextLinks, Row
  <1>3. Assign(row.own, w.own) \in Columns /\ Assign(row.shared, w.shared) \in Columns
    BY <1>1 DEF Assign, Row
  <1>4. /\ Shared(row, w) \in Row
        /\ Shared(row, w).own = row.own
        /\ Shared(row, w).shared = Assign(row.shared, w.shared)
        /\ Shared(row, w).links = NextLinks(row.links, w.links)
        /\ w.morphs = {} => Shared(row, w).morphs = row.morphs
        /\ w.morphs # {} => Shared(row, w).morphs = UNION w.morphs
    BY <1>1, <1>2, <1>3 DEF Shared, Row
  <1>5. /\ Edited(row, w) \in Row
        /\ Edited(row, w).own = Assign(row.own, w.own)
        /\ SameShared(Edited(row, w), Shared(row, w))
    BY <1>3, <1>4 DEF Edited, Row, SameShared
  <1> QED BY <1>4, <1>5

\* What a write leaves in each row: the row written is edited, its siblings take
\* the shared attributes, and the other documents let go of the targets the
\* document now has.
LEMMA WriteRows ==
    ASSUME NEW R \in RowsType, NEW s \in States, NEW d \in Docs, NEW l \in Locales,
           NEW w \in Writes
    PROVE  LET W == Write(R, s, d, l, w)
           IN  /\ W \in RowsType
               /\ \A t \in States, e \in Docs, k \in Locales :
                    W[t][e][k] =
                      IF t # s THEN R[t][e][k]
                      ELSE IF e # d THEN Without(R[s][e][k], Targets(W, s, d))
                      ELSE IF R[s][d][k] = NoRow THEN NoRow
                      ELSE IF k = l THEN Edited(R[s][d][k], w)
                      ELSE Shared(R[s][d][k], w)
  <1> DEFINE g == [k \in Locales |-> IF R[s][d][k] = NoRow THEN NoRow
                                     ELSE IF k = l THEN Edited(R[s][d][k], w)
                                     ELSE Shared(R[s][d][k], w)]
             V == [R EXCEPT ![s] = [R[s] EXCEPT ![d] = g]]
             T == Targets(V, s, d)
             W == Write(R, s, d, l, w)
  <1>1. g \in [Locales -> MaybeRow]
    <2>1. ASSUME NEW k \in Locales, R[s][d][k] # NoRow
          PROVE  Edited(R[s][d][k], w) \in MaybeRow /\ Shared(R[s][d][k], w) \in MaybeRow
      <3>1. R[s][d][k] \in Row
        BY <2>1 DEF RowsType, MaybeRow
      <3> QED BY <3>1, EditedRow DEF MaybeRow
    <2> QED BY <2>1 DEF MaybeRow
  <1>2. V \in RowsType
    BY <1>1 DEF RowsType
  <1>3. W = Steal(V, s, d, T)
    BY DEF Write, InState
  <1>4. \A t \in States, e \in Docs, k \in Locales :
           V[t][e][k] = IF t = s /\ e = d THEN g[k] ELSE R[t][e][k]
    <2>1. ASSUME NEW t \in States, NEW e \in Docs, NEW k \in Locales
          PROVE  V[t][e][k] = IF t = s /\ e = d THEN g[k] ELSE R[t][e][k]
      <3>1. V[t] = IF t = s THEN [R[s] EXCEPT ![d] = g] ELSE R[t]
        BY DEF RowsType
      <3> QED BY <3>1 DEF RowsType
    <2> QED BY <2>1
  <1>5. \A k \in Locales : g[k] = IF R[s][d][k] = NoRow THEN NoRow
                                    ELSE IF k = l THEN Edited(R[s][d][k], w)
                                    ELSE Shared(R[s][d][k], w)
    OBVIOUS
  <1> HIDE DEF g, V, W, T
  <1>6. W \in RowsType /\ \A t \in States, e \in Docs, k \in Locales :
           W[t][e][k] = IF t = s /\ e # d THEN Without(V[t][e][k], T) ELSE V[t][e][k]
    BY <1>2, <1>3, StealRows
  <1>7. T = Targets(W, s, d)
    <2>1. W[s][d] = V[s][d]
      BY <1>2, <1>6 DEF RowsType
    <2> QED BY <2>1 DEF Targets, Has, T
  <1>8. \A t \in States, e \in Docs, k \in Locales :
           W[t][e][k] = IF t # s THEN R[t][e][k]
                        ELSE IF e # d THEN Without(R[s][e][k], Targets(W, s, d))
                        ELSE IF R[s][d][k] = NoRow THEN NoRow
                        ELSE IF k = l THEN Edited(R[s][d][k], w)
                        ELSE Shared(R[s][d][k], w)
    BY <1>4, <1>5, <1>6, <1>7
  <1> QED BY <1>6, <1>8 DEF W

\* The sibling of a publication: only the shared attributes are replaced.
LEMMA FollowedRow ==
    ASSUME NEW row \in Row, NEW draft \in Row
    PROVE  /\ Follow(row, draft) \in Row
           /\ Follow(row, draft).own = row.own
           /\ Follow(row, draft).shared = draft.shared
           /\ Follow(row, draft).links = draft.links
           /\ Follow(row, draft).morphs = row.morphs
  BY DEF Row, Follow

\* What a publication leaves in each row: the draft, on the row published; its
\* shared column and relation, on the published rows of the other locales; and
\* no other published document keeps a target of the draft.
LEMMA PublicationRows ==
    ASSUME NEW R \in RowsType, NEW d \in Docs, NEW l \in Locales, R[Draft][d][l] # NoRow
    PROVE  LET P == Publication(R, d, l)
               draft == R[Draft][d][l]
           IN  /\ P \in RowsType
               /\ \A e \in Docs, k \in Locales :
                    /\ P[Draft][e][k] = R[Draft][e][k]
                    /\ P[Published][e][k] =
                         IF e # d THEN Without(R[Published][e][k], draft.links)
                         ELSE IF k = l THEN draft
                         ELSE IF R[Published][d][k] = NoRow THEN NoRow
                         ELSE Follow(R[Published][d][k], draft)
  <1> DEFINE draft == R[Draft][d][l]
             g == [k \in Locales |->
                     IF k = l THEN draft
                     ELSE IF R[Published][d][k] = NoRow THEN NoRow
                     ELSE Follow(R[Published][d][k], draft)]
             V == [R EXCEPT ![Published] = [R[Published] EXCEPT ![d] = g]]
             P == Publication(R, d, l)
  <1>0. draft \in Row /\ Draft \in States /\ Published \in States /\ Draft # Published
    BY DEF RowsType, MaybeRow, States, Draft, Published
  <1>1. g \in [Locales -> MaybeRow]
    <2>1. ASSUME NEW k \in Locales, R[Published][d][k] # NoRow
          PROVE  Follow(R[Published][d][k], draft) \in Row
      <3>1. R[Published][d][k] \in Row
        BY <1>0, <2>1 DEF RowsType, MaybeRow
      <3> QED BY <1>0, <3>1, FollowedRow
    <2> QED BY <1>0, <2>1 DEF MaybeRow
  <1>2. V \in RowsType
    BY <1>0, <1>1 DEF RowsType
  <1>3. P = Steal(V, Published, d, draft.links)
    BY DEF Publication, InState
  <1>4. \A t \in States, e \in Docs, k \in Locales :
           V[t][e][k] = IF t = Published /\ e = d THEN g[k] ELSE R[t][e][k]
    <2>1. ASSUME NEW t \in States, NEW e \in Docs, NEW k \in Locales
          PROVE  V[t][e][k] = IF t = Published /\ e = d THEN g[k] ELSE R[t][e][k]
      <3>1. V[t] = IF t = Published THEN [R[Published] EXCEPT ![d] = g] ELSE R[t]
        BY DEF RowsType
      <3> QED BY <1>0, <3>1 DEF RowsType
    <2> QED BY <2>1
  <1>5. \A k \in Locales :
           g[k] = IF k = l THEN draft
                  ELSE IF R[Published][d][k] = NoRow THEN NoRow
                  ELSE Follow(R[Published][d][k], draft)
    OBVIOUS
  <1> HIDE DEF g, V, P
  <1>6. P \in RowsType /\ \A t \in States, e \in Docs, k \in Locales :
           P[t][e][k] = IF t = Published /\ e # d THEN Without(V[t][e][k], draft.links)
                        ELSE V[t][e][k]
    BY <1>0, <1>2, <1>3, StealRows
  <1>7. ASSUME NEW e \in Docs, NEW k \in Locales
        PROVE  /\ P[Draft][e][k] = R[Draft][e][k]
               /\ P[Published][e][k] =
                    IF e # d THEN Without(R[Published][e][k], draft.links)
                    ELSE IF k = l THEN draft
                    ELSE IF R[Published][d][k] = NoRow THEN NoRow
                    ELSE Follow(R[Published][d][k], draft)
    <2> HIDE DEF draft
    <2>1. P[Draft][e][k] = R[Draft][e][k]
      BY <1>0, <1>4, <1>6
    <2>2. P[Published][e][k] = IF e # d THEN Without(R[Published][e][k], draft.links) ELSE g[k]
      BY <1>0, <1>4, <1>6
    <2> QED BY <1>5, <2>1, <2>2
  <1> QED BY <1>6, <1>7 DEF P

\* Once a document is gone nothing links it, and nothing else changed.
LEMMA UnlinkedRows ==
    ASSUME NEW R \in RowsType, NEW d \in Docs
    PROVE  /\ Unlinked(R, d) \in RowsType
           /\ \A s \in States, e \in Docs, l \in Locales :
                LET old == R[s][e][l]
                    new == Unlinked(R, d)[s][e][l]
                IN  /\ new = NoRow <=> old = NoRow
                    /\ old # NoRow =>
                         /\ new.own = old.own
                         /\ new.shared = old.shared
                         /\ new.links = old.links \ {d}
                         /\ new.morphs = old.morphs \ {d}
  <1>1. ASSUME NEW row \in Row
        PROVE  LET new == Forget(row, d)
               IN  /\ new \in Row
                   /\ new.own = row.own
                   /\ new.shared = row.shared
                   /\ new.links = row.links \ {d}
                   /\ new.morphs = row.morphs \ {d}
    BY DEF Row, Forget
  <1>2. ASSUME NEW s \in States, NEW e \in Docs, NEW l \in Locales
        PROVE  R[s][e][l] \in MaybeRow
    BY DEF RowsType
  <1>3. ASSUME NEW s \in States, NEW e \in Docs, NEW l \in Locales
        PROVE  Unlinked(R, d)[s][e][l] =
                 IF R[s][e][l] = NoRow THEN NoRow
                 ELSE Forget(R[s][e][l], d)
    BY DEF Unlinked
  <1>4. ASSUME NEW s \in States, NEW e \in Docs, NEW l \in Locales
        PROVE  LET old == R[s][e][l]
                   new == Unlinked(R, d)[s][e][l]
               IN  /\ new \in MaybeRow
                   /\ new = NoRow <=> old = NoRow
                   /\ old # NoRow =>
                        /\ new.own = old.own
                        /\ new.shared = old.shared
                        /\ new.links = old.links \ {d}
                        /\ new.morphs = old.morphs \ {d}
    <2>1. CASE R[s][e][l] = NoRow
      BY <1>3, <2>1 DEF MaybeRow
    <2>2. CASE R[s][e][l] # NoRow
      <3>1. R[s][e][l] \in Row
        BY <1>2, <2>2 DEF MaybeRow
      <3>2. Unlinked(R, d)[s][e][l] = Forget(R[s][e][l], d)
        BY <1>3, <2>2
      <3> QED BY <1>1, <2>2, <3>1, <3>2, ConstantsAssumption DEF MaybeRow
    <2> QED BY <2>1, <2>2
  <1>5. Unlinked(R, d) \in RowsType
    <2>1. Unlinked(R, d) =
            [s \in States |-> [e \in Docs |-> [l \in Locales |-> Unlinked(R, d)[s][e][l]]]]
      BY DEF Unlinked
    <2> QED BY <1>4, <2>1 DEF RowsType
  <1> QED BY <1>4, <1>5

-----------------------------------------------------------------------------
(* The invariants, of any rows R.  Targets of a row lie in a set E. *)

HasDraftIn(R) ==
    DraftAndPublish =>
        \A d \in Docs, l \in Locales : Has(R, Published, d, l) => Has(R, Draft, d, l)

AgreeIn(R) ==
    DraftAndPublish =>
        \A d \in Docs, l, k \in Locales :
            Has(R, Published, d, l) /\ Has(R, Published, d, k) =>
                /\ R[Published][d][l].shared = R[Published][d][k].shared
                /\ R[Published][d][l].links  = R[Published][d][k].links

OwnerIn(R) ==
    UniqueTarget =>
        \A s \in States, d, e \in Docs, l, k \in Locales :
            d # e /\ Has(R, s, d, l) /\ Has(R, s, e, k) =>
                R[s][d][l].links \cap R[s][e][k].links = {}

LinkedIn(R, E) ==
    \A s \in States, d \in Docs, l \in Locales :
        Has(R, s, d, l) => R[s][d][l].links \cup R[s][d][l].morphs \subseteq E

Required(row) == row.own # Nil /\ row.shared # Nil
RequiredIn(R) ==
    \A d \in Docs, l \in Locales : Has(R, Published, d, l) => Required(R[Published][d][l])

RowsOK(R, E) == R \in RowsType /\ HasDraftIn(R) /\ AgreeIn(R) /\ OwnerIn(R) /\ LinkedIn(R, E)

\* R and S have the same rows, whatever they hold.
SameKeys(R, S) ==
    \A s \in States, d \in Docs, l \in Locales : Has(R, s, d, l) <=> Has(S, s, d, l)

\* Two sets of rows with the same keys hold the same documents.
LEMMA SameExisting ==
    ASSUME NEW R, NEW S, SameKeys(R, S)
    PROVE  Existing(R) = Existing(S)
  BY DEF SameKeys, Existing

\* Draft and published are the states, and the one written is among them.
LEMMA StatesFacts ==
    /\ Draft \in States /\ Published \in States /\ Draft # Published
    /\ WriteState \in States
    /\ DraftAndPublish => WriteState = Draft
    /\ ~DraftAndPublish => WriteState = Published
  BY ConstantsAssumption DEF States, Draft, Published, WriteState

\* A write keeps the keys and every invariant but `required`, when the documents
\* it connects are allowed targets.
LEMMA WriteOK ==
    ASSUME NEW R, NEW E, RowsOK(R, E), NEW d \in Docs, NEW l \in Locales,
           NEW w \in Writes, References(w) \subseteq E
    PROVE  LET W == Write(R, WriteState, d, l, w)
           IN  RowsOK(W, E) /\ SameKeys(R, W)
  <1> DEFINE s == WriteState
             W == Write(R, s, d, l, w)
             T == Targets(W, s, d)
  <1>0. R \in RowsType /\ s \in States
    BY StatesFacts DEF RowsOK
  <1> HIDE DEF s, W, T
  <1>1. W \in RowsType /\ \A t \in States, e \in Docs, k \in Locales :
           W[t][e][k] = IF t # s THEN R[t][e][k]
                        ELSE IF e # d THEN Without(R[s][e][k], T)
                        ELSE IF R[s][d][k] = NoRow THEN NoRow
                        ELSE IF k = l THEN Edited(R[s][d][k], w)
                        ELSE Shared(R[s][d][k], w)
    BY <1>0, WriteRows DEF W, T
  <1>2. ASSUME NEW k \in Locales, R[s][d][k] # NoRow
        PROVE  /\ R[s][d][k] \in Row
               /\ W[s][d][k] \in Row
               /\ W[s][d][k].links = NextLinks(R[s][d][k].links, w.links)
               /\ \/ W[s][d][k].morphs = R[s][d][k].morphs
                  \/ W[s][d][k].morphs = UNION w.morphs
    <2>1. R[s][d][k] \in Row
      BY <1>0, <1>2 DEF RowsType, MaybeRow
    <2>2. W[s][d][k] = Edited(R[s][d][k], w) \/ W[s][d][k] = Shared(R[s][d][k], w)
      BY <1>0, <1>1, <1>2
    <2>3. /\ Edited(R[s][d][k], w) \in Row
          /\ Shared(R[s][d][k], w) \in Row
          /\ SameShared(Edited(R[s][d][k], w), Shared(R[s][d][k], w))
          /\ Shared(R[s][d][k], w).links = NextLinks(R[s][d][k].links, w.links)
          /\ \/ Shared(R[s][d][k], w).morphs = R[s][d][k].morphs
             \/ Shared(R[s][d][k], w).morphs = UNION w.morphs
      BY <2>1, EditedRow
    <2> QED BY <2>1, <2>2, <2>3 DEF SameShared
  <1>3. ASSUME NEW t \in States, NEW e \in Docs, NEW k \in Locales, t # s \/ e # d
        PROVE  /\ W[t][e][k] = NoRow <=> R[t][e][k] = NoRow
               /\ R[t][e][k] # NoRow =>
                    /\ W[t][e][k].links \subseteq R[t][e][k].links
                    /\ W[t][e][k].morphs = R[t][e][k].morphs
                    /\ t = s /\ UniqueTarget => W[t][e][k].links \cap T = {}
    <2>1. R[t][e][k] \in MaybeRow
      BY <1>0 DEF RowsType
    <2>2. CASE t # s
      BY <1>1, <2>2
    <2>3. CASE t = s
      <3>1. W[t][e][k] = Without(R[t][e][k], T)
        BY <1>1, <1>3, <2>3
      <3> QED BY <2>1, <3>1, WithoutRow
    <2> QED BY <2>2, <2>3
  <1>4. SameKeys(R, W)
    BY <1>0, <1>1, <1>2, <1>3, ConstantsAssumption DEF SameKeys, Has
  <1>5. HasDraftIn(W)
    BY <1>4, StatesFacts DEF RowsOK, HasDraftIn, SameKeys
  <1>6. AgreeIn(W)
    BY <1>0, <1>1, StatesFacts DEF RowsOK, AgreeIn, Has, s
  <1>7. OwnerIn(W)
    <2> SUFFICES ASSUME UniqueTarget,
                        NEW t \in States, NEW x \in Docs, NEW y \in Docs,
                        NEW j \in Locales, NEW k \in Locales,
                        x # y, Has(W, t, x, j), Has(W, t, y, k)
                 PROVE  W[t][x][j].links \cap W[t][y][k].links = {}
      BY DEF OwnerIn
    <2>0. Has(R, t, x, j) /\ Has(R, t, y, k)
      BY <1>4 DEF SameKeys
    <2>1. R[t][x][j].links \cap R[t][y][k].links = {}
      BY <2>0 DEF RowsOK, OwnerIn
    <2>2. \A k1 \in Locales : Has(W, s, d, k1) => W[s][d][k1].links \subseteq T
      BY DEF T, Targets
    <2>3. CASE t # s \/ (x # d /\ y # d)
      BY <2>0, <2>1, <2>3, <1>3 DEF Has
    <2>4. CASE t = s /\ x = d
      BY <2>0, <2>2, <2>4, <1>3 DEF Has
    <2>5. CASE t = s /\ y = d
      BY <2>0, <2>2, <2>5, <1>3 DEF Has
    <2> QED BY <2>3, <2>4, <2>5
  <1>8. LinkedIn(W, E)
    <2> SUFFICES ASSUME NEW t \in States, NEW e \in Docs, NEW k \in Locales, Has(W, t, e, k)
                 PROVE  W[t][e][k].links \subseteq E /\ W[t][e][k].morphs \subseteq E
      BY DEF LinkedIn
    <2>0. Has(R, t, e, k)
      BY <1>4 DEF SameKeys
    <2>1. R[t][e][k].links \subseteq E /\ R[t][e][k].morphs \subseteq E
      BY <2>0 DEF RowsOK, LinkedIn
    <2>2. CASE t # s \/ e # d
      BY <2>0, <2>1, <2>2, <1>3 DEF Has
    <2>3. CASE t = s /\ e = d
      <3>1. NextLinks(R[t][e][k].links, w.links) \subseteq E
        BY <2>1 DEF NextLinks, References
      <3>2. UNION w.morphs \subseteq E
        BY DEF References
      <3> QED BY <2>0, <2>1, <2>3, <3>1, <3>2, <1>2 DEF Has
    <2> QED BY <2>2, <2>3
  <1> QED BY <1>1, <1>4, <1>5, <1>6, <1>7, <1>8 DEF RowsOK, W, s

\* So does a publication of a draft.
LEMMA PublicationOK ==
    ASSUME NEW R, NEW E, RowsOK(R, E), NEW d \in Docs, NEW l \in Locales,
           DraftAndPublish, Has(R, Draft, d, l)
    PROVE  LET P == Publication(R, d, l)
           IN  /\ RowsOK(P, E)
               /\ Existing(P) = Existing(R)
               /\ RequiredIn(R) /\ Required(R[Draft][d][l]) => RequiredIn(P)
  <1> DEFINE P == Publication(R, d, l)
             draft == R[Draft][d][l]
  <1>0. /\ R \in RowsType /\ draft \in Row /\ draft # NoRow
        /\ HasDraftIn(R) /\ AgreeIn(R) /\ OwnerIn(R) /\ LinkedIn(R, E)
    BY StatesFacts DEF RowsOK, RowsType, MaybeRow, Has
  <1>1. P \in RowsType /\ \A e \in Docs, k \in Locales :
           /\ P[Draft][e][k] = R[Draft][e][k]
           /\ P[Published][e][k] =
                IF e # d THEN Without(R[Published][e][k], draft.links)
                ELSE IF k = l THEN draft
                ELSE IF R[Published][d][k] = NoRow THEN NoRow
                ELSE Follow(R[Published][d][k], draft)
    BY <1>0, PublicationRows DEF Has
  <1> HIDE DEF P, draft
  <1>2. ASSUME NEW k \in Locales, k # l, R[Published][d][k] # NoRow
        PROVE  /\ P[Published][d][k] \in Row
               /\ P[Published][d][k].own = R[Published][d][k].own
               /\ P[Published][d][k].shared = draft.shared
               /\ P[Published][d][k].links = draft.links
               /\ P[Published][d][k].morphs = R[Published][d][k].morphs
    <2>1. R[Published][d][k] \in Row
      BY <1>0, <1>2, StatesFacts DEF RowsType, MaybeRow
    <2>2. P[Published][d][k] = Follow(R[Published][d][k], draft)
      BY <1>1, <1>2
    <2> QED BY <1>0, <2>1, <2>2, FollowedRow
  <1>3. ASSUME NEW e \in Docs, NEW k \in Locales, e # d
        PROVE  /\ P[Published][e][k] = NoRow <=> R[Published][e][k] = NoRow
               /\ R[Published][e][k] # NoRow =>
                    /\ P[Published][e][k].own = R[Published][e][k].own
                    /\ P[Published][e][k].shared = R[Published][e][k].shared
                    /\ P[Published][e][k].morphs = R[Published][e][k].morphs
                    /\ P[Published][e][k].links \subseteq R[Published][e][k].links
                    /\ UniqueTarget =>
                         P[Published][e][k].links = R[Published][e][k].links \ draft.links
                    /\ ~UniqueTarget => P[Published][e][k].links = R[Published][e][k].links
    <2>1. R[Published][e][k] \in MaybeRow
      BY <1>0, StatesFacts DEF RowsType
    <2>2. P[Published][e][k] = Without(R[Published][e][k], draft.links)
      BY <1>1, <1>3
    <2> QED BY <2>1, <2>2, WithoutRow
  <1>4. ASSUME NEW e \in Docs, NEW k \in Locales
        PROVE  Has(P, Published, e, k) <=> Has(R, Published, e, k) \/ (e = d /\ k = l)
    <2>1. CASE e # d
      BY <1>3, <2>1 DEF Has
    <2>2. CASE e = d /\ k = l
      BY <1>0, <1>1, <2>2 DEF Has
    <2>3. CASE e = d /\ k # l
      BY <1>1, <1>2, <2>3, ConstantsAssumption DEF Has
    <2> QED BY <2>1, <2>2, <2>3
  <1>5. \A e \in Docs, k \in Locales : Has(P, Draft, e, k) <=> Has(R, Draft, e, k)
    BY <1>1 DEF Has
  <1>6. Has(R, Draft, d, l)
    OBVIOUS
  <1>7. Existing(P) = Existing(R)
    BY <1>4, <1>5, <1>6 DEF Existing, States
  <1>8. HasDraftIn(P)
    BY <1>0, <1>4, <1>5, <1>6 DEF HasDraftIn
  <1>9. P[Published][d][l] = draft
    BY <1>1
  <1>10. \A k \in Locales : Has(P, Published, d, k) =>
            P[Published][d][k].links = draft.links /\ P[Published][d][k].shared = draft.shared
    BY <1>2, <1>4, <1>9 DEF Has
  <1>11. AgreeIn(P)
    <2> SUFFICES ASSUME NEW e \in Docs, NEW j \in Locales, NEW k \in Locales,
                        Has(P, Published, e, j), Has(P, Published, e, k)
                 PROVE  /\ P[Published][e][j].shared = P[Published][e][k].shared
                        /\ P[Published][e][j].links  = P[Published][e][k].links
      BY DEF AgreeIn
    <2>1. CASE e = d
      BY <1>10, <2>1
    <2>2. CASE e # d
      <3>1. Has(R, Published, e, j) /\ Has(R, Published, e, k)
        BY <1>4, <2>2
      <3>2. /\ R[Published][e][j].shared = R[Published][e][k].shared
            /\ R[Published][e][j].links  = R[Published][e][k].links
        BY <1>0, <3>1 DEF AgreeIn
      <3>3. CASE UniqueTarget
        <4>1. P[Published][e][j].links = R[Published][e][j].links \ draft.links
          BY <1>3, <2>2, <3>1, <3>3 DEF Has
        <4>2. P[Published][e][k].links = R[Published][e][k].links \ draft.links
          BY <1>3, <2>2, <3>1, <3>3 DEF Has
        <4>3. P[Published][e][j].shared = P[Published][e][k].shared
          BY <1>3, <2>2, <3>1, <3>2 DEF Has
        <4> QED BY <3>2, <4>1, <4>2, <4>3
      <3>4. CASE ~UniqueTarget
        BY <1>3, <2>2, <3>1, <3>2, <3>4 DEF Has
      <3> QED BY <3>3, <3>4
    <2> QED BY <2>1, <2>2
  <1>12. OwnerIn(P)
    <2> SUFFICES ASSUME UniqueTarget,
                        NEW t \in States, NEW x \in Docs, NEW y \in Docs,
                        NEW j \in Locales, NEW k \in Locales,
                        x # y, Has(P, t, x, j), Has(P, t, y, k)
                 PROVE  P[t][x][j].links \cap P[t][y][k].links = {}
      BY DEF OwnerIn
    <2>1. CASE t = Draft
      BY <1>0, <1>1, <1>5, <2>1 DEF OwnerIn
    <2>2. CASE t = Published
      <3>1. CASE x = d
        BY <1>3, <1>4, <1>10, <2>2, <3>1 DEF Has
      <3>2. CASE y = d
        BY <1>3, <1>4, <1>10, <2>2, <3>2 DEF Has
      <3>3. CASE x # d /\ y # d
        <4>1. Has(R, Published, x, j) /\ Has(R, Published, y, k)
          BY <1>4, <2>2, <3>3
        <4>2. R[Published][x][j].links \cap R[Published][y][k].links = {}
          BY <1>0, <4>1 DEF OwnerIn, States
        <4> QED BY <1>3, <2>2, <3>3, <4>1, <4>2 DEF Has
      <3> QED BY <3>1, <3>2, <3>3
    <2> QED BY <2>1, <2>2 DEF States
  <1>13. LinkedIn(P, E)
    <2> SUFFICES ASSUME NEW t \in States, NEW e \in Docs, NEW k \in Locales, Has(P, t, e, k)
                 PROVE  P[t][e][k].links \subseteq E /\ P[t][e][k].morphs \subseteq E
      BY DEF LinkedIn
    <2>0. draft.links \subseteq E /\ draft.morphs \subseteq E
      BY <1>0, <1>6, StatesFacts DEF LinkedIn, draft
    <2>1. CASE t = Draft
      BY <1>0, <1>1, <1>5, <2>1 DEF LinkedIn
    <2>2. CASE t = Published /\ e = d /\ k = l
      BY <1>9, <2>0, <2>2
    <2>3. CASE t = Published /\ ~(e = d /\ k = l)
      <3>1. Has(R, Published, e, k)
        BY <1>4, <2>3
      <3>2. R[Published][e][k].links \subseteq E /\ R[Published][e][k].morphs \subseteq E
        BY <1>0, <3>1, StatesFacts DEF LinkedIn
      <3>3. CASE e = d
        BY <1>2, <2>0, <2>3, <3>1, <3>2, <3>3 DEF Has
      <3>4. CASE e # d
        BY <1>3, <2>3, <3>1, <3>2, <3>4 DEF Has
      <3> QED BY <3>3, <3>4
    <2> QED BY <2>1, <2>2, <2>3 DEF States
  <1>14. ASSUME RequiredIn(R), Required(draft)
         PROVE  RequiredIn(P)
    <2> SUFFICES ASSUME NEW e \in Docs, NEW k \in Locales, Has(P, Published, e, k)
                 PROVE  Required(P[Published][e][k])
      BY DEF RequiredIn
    <2>1. CASE e = d /\ k = l
      BY <1>9, <1>14, <2>1
    <2>2. CASE ~(e = d /\ k = l)
      <3>1. Has(R, Published, e, k) /\ Required(R[Published][e][k])
        BY <1>4, <1>14, <2>2 DEF RequiredIn
      <3>2. CASE e = d
        BY <1>2, <1>14, <2>2, <3>1, <3>2 DEF Has, Required
      <3>3. CASE e # d
        BY <1>3, <3>1, <3>3 DEF Has, Required
      <3> QED BY <3>2, <3>3
    <2> QED BY <2>1, <2>2
  <1> QED BY <1>1, <1>7, <1>8, <1>11, <1>12, <1>13, <1>14 DEF RowsOK, P, draft

\* The last step of a write: whether it publishes or not, the invariants hold of
\* the new rows if they held of R, where a type that is always published may
\* miss a required value only as long as the row written is not Complete.
LEMMA FinishOK ==
    ASSUME NEW R, NEW E, RowsOK(R, E), NEW d \in Docs, NEW l \in Locales, NEW publish,
           Has(R, WriteState, d, l),
           DraftAndPublish => RequiredIn(R),
           ~DraftAndPublish /\ Required(R[Published][d][l]) => RequiredIn(R),
           Finish(R, d, l, publish)
    PROVE  RowsOK(rows', E) /\ RequiredIn(rows') /\ Existing(rows') = Existing(R)
  <1>1. CASE DraftAndPublish
    <2>1. CASE rows' = R
      BY <1>1, <2>1
    <2>2. CASE Complete(R[Draft][d][l]) /\ rows' = Publication(R, d, l)
      <3>1. Has(R, Draft, d, l) /\ Required(R[Draft][d][l])
        BY <1>1, <2>2, StatesFacts DEF Complete, Required
      <3> QED BY <1>1, <2>2, <3>1, PublicationOK
    <2> QED BY <1>1, <2>1, <2>2 DEF Finish
  <1>2. CASE ~DraftAndPublish
    BY <1>2 DEF Finish, Complete, Required
  <1> QED BY <1>1, <1>2

\* Adding the row a write starts from: with targets the document already has in
\* that state (or none), it disturbs no invariant but `required`.
LEMMA PutOK ==
    ASSUME NEW R, NEW E, RowsOK(R, E), NEW d \in Docs, NEW l \in Locales, NEW row \in Row,
           ~Has(R, WriteState, d, l),
           row.links \cup row.morphs \subseteq E,
           \/ row.links = {}
           \/ \E k \in Locales : Has(R, WriteState, d, k) /\ row.links = R[WriteState][d][k].links
    PROVE  LET Q == Put(R, WriteState, d, l, row)
           IN  /\ RowsOK(Q, E)
               /\ Existing(Q) = Existing(R) \cup {d}
               /\ Has(Q, WriteState, d, l)
  <1> DEFINE s == WriteState
             Q == Put(R, s, d, l, row)
  <1>0. R \in RowsType /\ s \in States /\ row \in MaybeRow /\ row # NoRow
    BY StatesFacts, ConstantsAssumption DEF RowsOK, MaybeRow
  <1>1. Q \in RowsType /\ \A t \in States, e \in Docs, k \in Locales :
           Q[t][e][k] = IF t = s /\ e = d /\ k = l THEN row ELSE R[t][e][k]
    BY <1>0, PutRows
  <1> HIDE DEF Q
  <1>2. ASSUME NEW t \in States, NEW e \in Docs, NEW k \in Locales
        PROVE  Has(Q, t, e, k) <=> Has(R, t, e, k) \/ (t = s /\ e = d /\ k = l)
    BY <1>0, <1>1 DEF Has
  <1>3. Existing(Q) = Existing(R) \cup {d}
    BY <1>0, <1>2 DEF Existing
  <1>4. HasDraftIn(Q)
    BY <1>2, StatesFacts DEF RowsOK, HasDraftIn
  <1>5. AgreeIn(Q)
    BY <1>1, <1>2, StatesFacts DEF RowsOK, AgreeIn, Has
  <1>6. OwnerIn(Q)
    <2> SUFFICES ASSUME UniqueTarget,
                        NEW t \in States, NEW x \in Docs, NEW y \in Docs,
                        NEW j \in Locales, NEW k \in Locales,
                        x # y, Has(Q, t, x, j), Has(Q, t, y, k)
                 PROVE  Q[t][x][j].links \cap Q[t][y][k].links = {}
      BY DEF OwnerIn
    <2>0. \A t1 \in States, e, f \in Docs, i1, i2 \in Locales :
             e # f /\ Has(R, t1, e, i1) /\ Has(R, t1, f, i2) =>
               R[t1][e][i1].links \cap R[t1][f][i2].links = {}
      BY DEF RowsOK, OwnerIn
    <2>1. \A f \in Docs, i \in Locales : f # d /\ Has(R, s, f, i) =>
             row.links \cap R[s][f][i].links = {}
      BY <1>0, <2>0
    <2>2. CASE t = s /\ x = d /\ j = l
      BY <1>1, <1>2, <2>1, <2>2
    <2>3. CASE t = s /\ y = d /\ k = l
      BY <1>1, <1>2, <2>1, <2>3
    <2>4. CASE ~(t = s /\ x = d /\ j = l) /\ ~(t = s /\ y = d /\ k = l)
      BY <1>1, <1>2, <2>0, <2>4
    <2> QED BY <2>2, <2>3, <2>4
  <1>7. LinkedIn(Q, E)
    BY <1>1, <1>2 DEF RowsOK, LinkedIn
  <1>8. Has(Q, s, d, l)
    BY <1>0, <1>2
  <1> QED BY <1>1, <1>3, <1>4, <1>5, <1>6, <1>7, <1>8 DEF RowsOK, Q

\* A write gives the siblings of its row no Nil it does not also give its row.
LEMMA WriteRequired ==
    ASSUME NEW R \in RowsType, NEW d \in Docs, NEW l \in Locales, NEW w \in Writes,
           Has(R, WriteState, d, l)
    PROVE  LET W == Write(R, WriteState, d, l, w)
           IN  /\ DraftAndPublish /\ RequiredIn(R) => RequiredIn(W)
               /\ ~DraftAndPublish /\ Required(W[Published][d][l])
                  /\ (\A e \in Docs, k \in Locales :
                        (e # d \/ k # l) /\ Has(R, Published, e, k) => Required(R[Published][e][k]))
                  => RequiredIn(W)
  <1> DEFINE s == WriteState
             W == Write(R, s, d, l, w)
             T == Targets(W, s, d)
  <1>0. s \in States
    BY StatesFacts
  <1>1. \A t \in States, e \in Docs, k \in Locales :
           W[t][e][k] = IF t # s THEN R[t][e][k]
                        ELSE IF e # d THEN Without(R[s][e][k], T)
                        ELSE IF R[s][d][k] = NoRow THEN NoRow
                        ELSE IF k = l THEN Edited(R[s][d][k], w)
                        ELSE Shared(R[s][d][k], w)
    BY <1>0, WriteRows
  <1> HIDE DEF s, W, T
  <1>2. CASE DraftAndPublish
    BY <1>1, <1>2, StatesFacts DEF RequiredIn, Has, W, s
  <1>3. CASE ~DraftAndPublish
    <2> SUFFICES ASSUME Required(W[Published][d][l]),
                        \A e \in Docs, k \in Locales :
                          (e # d \/ k # l) /\ Has(R, Published, e, k) => Required(R[Published][e][k]),
                        NEW e \in Docs, NEW k \in Locales, Has(W, Published, e, k),
                        e # d \/ k # l
                 PROVE  Required(W[Published][e][k])
      BY <1>3 DEF RequiredIn, W, s
    <2>0. s = Published /\ R[Published][e][k] \in MaybeRow /\ R[Published][d][l] \in Row
      BY <1>0, <1>3, StatesFacts DEF RowsType, Has, MaybeRow, s
    <2>1. CASE e # d
      <3>1. W[Published][e][k] = Without(R[Published][e][k], T)
        BY <1>0, <1>1, <2>0, <2>1
      <3>2. /\ Without(R[Published][e][k], T) = NoRow <=> R[Published][e][k] = NoRow
            /\ R[Published][e][k] # NoRow =>
                 /\ Without(R[Published][e][k], T).own = R[Published][e][k].own
                 /\ Without(R[Published][e][k], T).shared = R[Published][e][k].shared
        BY <2>0, WithoutRow
      <3> QED BY <2>1, <3>1, <3>2 DEF Has, Required
    <2>2. CASE e = d /\ k # l
      <3>1. R[Published][d][k] # NoRow /\ R[Published][d][k] \in Row
        BY <1>0, <1>1, <2>0, <2>2 DEF Has, MaybeRow
      <3>2. W[Published][d][k] = Shared(R[Published][d][k], w)
        BY <1>0, <1>1, <2>0, <2>2, <3>1
      <3>3. W[Published][d][l] = Edited(R[Published][d][l], w)
        BY <1>0, <1>1, <2>0 DEF Has, s
      <3>4. Required(R[Published][d][k])
        BY <2>2, <3>1 DEF Has
      <3>5. /\ W[Published][d][k].own = R[Published][d][k].own
            /\ W[Published][d][k].shared = Assign(R[Published][d][k].shared, w.shared)
        <4>1. /\ Shared(R[Published][d][k], w).own = R[Published][d][k].own
              /\ Shared(R[Published][d][k], w).shared = Assign(R[Published][d][k].shared, w.shared)
          BY <3>1, EditedRow
        <4> QED BY <3>2, <4>1
      <3>6. W[Published][d][l].shared = Assign(R[Published][d][l].shared, w.shared)
        BY <2>0, <3>3, EditedRow DEF SameShared
      <3> QED BY <2>2, <3>4, <3>5, <3>6 DEF Required, Assign
    <2> QED BY <2>1, <2>2
  <1> QED BY <1>2, <1>3 DEF W, s

\* Discarding a draft: the published row over a draft of the same document.
LEMMA DiscardOK ==
    ASSUME NEW R, NEW E, RowsOK(R, E), RequiredIn(R), NEW d \in Docs, NEW l \in Locales,
           DraftAndPublish, Has(R, Draft, d, l), Has(R, Published, d, l)
    PROVE  LET published == R[Published][d][l]
               Q == Steal(Put(R, Draft, d, l, published), Draft, d, published.links)
           IN  RowsOK(Q, E) /\ RequiredIn(Q) /\ Existing(Q) = Existing(R)
  <1> DEFINE row == R[Published][d][l]
             M == Put(R, Draft, d, l, row)
             Q == Steal(M, Draft, d, row.links)
  <1>0. R \in RowsType /\ row \in Row /\ row \in MaybeRow /\ row # NoRow
    BY StatesFacts DEF RowsOK, RowsType, MaybeRow, Has
  <1>1. M \in RowsType /\ \A t \in States, e \in Docs, k \in Locales :
           M[t][e][k] = IF t = Draft /\ e = d /\ k = l THEN row ELSE R[t][e][k]
    BY <1>0, StatesFacts, PutRows
  <1>2. Q \in RowsType /\ \A t \in States, e \in Docs, k \in Locales :
           Q[t][e][k] = IF t = Draft /\ e # d THEN Without(M[t][e][k], row.links) ELSE M[t][e][k]
    BY <1>1, StatesFacts, StealRows
  <1> HIDE DEF Q, M
  <1>3. \A e \in Docs, k \in Locales : Q[Published][e][k] = R[Published][e][k]
    BY <1>1, <1>2, StatesFacts
  <1>4. ASSUME NEW e \in Docs, NEW k \in Locales, e # d
        PROVE  /\ Q[Draft][e][k] = NoRow <=> R[Draft][e][k] = NoRow
               /\ R[Draft][e][k] # NoRow =>
                    /\ Q[Draft][e][k].links \subseteq R[Draft][e][k].links
                    /\ UniqueTarget => Q[Draft][e][k].links \cap row.links = {}
                    /\ Q[Draft][e][k].morphs = R[Draft][e][k].morphs
    <2>1. Q[Draft][e][k] = Without(R[Draft][e][k], row.links)
      BY <1>1, <1>2, <1>4, StatesFacts
    <2>2. R[Draft][e][k] \in MaybeRow
      BY <1>0, StatesFacts DEF RowsType
    <2> QED BY <2>1, <2>2, WithoutRow
  <1>5. \A k \in Locales : Q[Draft][d][k] = IF k = l THEN row ELSE R[Draft][d][k]
    BY <1>1, <1>2, StatesFacts
  <1>6. ASSUME NEW e \in Docs, NEW k \in Locales
        PROVE  /\ Has(Q, Draft, e, k) <=> Has(R, Draft, e, k)
               /\ Has(Q, Published, e, k) <=> Has(R, Published, e, k)
    BY <1>0, <1>3, <1>4, <1>5 DEF Has
  <1>7. Existing(Q) = Existing(R)
    BY <1>6 DEF Existing, States
  <1>8. HasDraftIn(Q) /\ AgreeIn(Q) /\ RequiredIn(Q)
    BY <1>3, <1>6 DEF RowsOK, HasDraftIn, AgreeIn, RequiredIn
  <1>9. OwnerIn(Q)
    <2> SUFFICES ASSUME UniqueTarget,
                        NEW t \in States, NEW x \in Docs, NEW y \in Docs,
                        NEW j \in Locales, NEW k \in Locales,
                        x # y, Has(Q, t, x, j), Has(Q, t, y, k)
                 PROVE  Q[t][x][j].links \cap Q[t][y][k].links = {}
      BY DEF OwnerIn
    <2>0. Has(R, t, x, j) /\ Has(R, t, y, k)
      BY <1>6 DEF States
    <2>1. R[t][x][j].links \cap R[t][y][k].links = {}
      BY <2>0 DEF RowsOK, OwnerIn
    <2>2. CASE t = Published
      BY <1>3, <2>1, <2>2
    <2>3. CASE t = Draft /\ x # d /\ y # d
      BY <1>4, <2>0, <2>1, <2>3 DEF Has
    <2>4. CASE t = Draft /\ x = d
      BY <1>4, <1>5, <2>0, <2>1, <2>4 DEF Has
    <2>5. CASE t = Draft /\ y = d
      BY <1>4, <1>5, <2>0, <2>1, <2>5 DEF Has
    <2> QED BY <2>2, <2>3, <2>4, <2>5 DEF States
  <1>10. LinkedIn(Q, E)
    <2> SUFFICES ASSUME NEW t \in States, NEW e \in Docs, NEW k \in Locales, Has(Q, t, e, k)
                 PROVE  Q[t][e][k].links \subseteq E /\ Q[t][e][k].morphs \subseteq E
      BY DEF LinkedIn
    <2>0. Has(R, t, e, k)
      BY <1>6 DEF States
    <2>1. R[t][e][k].links \subseteq E /\ R[t][e][k].morphs \subseteq E
      BY <2>0 DEF RowsOK, LinkedIn
    <2>2. row.links \subseteq E /\ row.morphs \subseteq E
      BY StatesFacts DEF RowsOK, LinkedIn
    <2>3. CASE t = Published
      BY <1>3, <2>1, <2>3
    <2>4. CASE t = Draft /\ e = d
      BY <1>5, <2>1, <2>2, <2>4
    <2>5. CASE t = Draft /\ e # d
      BY <1>4, <2>0, <2>1, <2>5 DEF Has
    <2> QED BY <2>3, <2>4, <2>5 DEF States
  <1> QED BY <1>2, <1>7, <1>8, <1>9, <1>10 DEF RowsOK, Q, M

\* Removing rows, when no published row loses its draft.
LEMMA RemoveOK ==
    ASSUME NEW R, NEW E, RowsOK(R, E), RequiredIn(R), NEW Q \in RowsType, HasDraftIn(Q),
           \A s \in States, d \in Docs, l \in Locales : Q[s][d][l] \in {R[s][d][l], NoRow}
    PROVE  RowsOK(Q, E) /\ RequiredIn(Q) /\ Existing(Q) \subseteq Existing(R)
  <1>1. ASSUME NEW s \in States, NEW d \in Docs, NEW l \in Locales, Has(Q, s, d, l)
        PROVE  Has(R, s, d, l) /\ Q[s][d][l] = R[s][d][l]
    BY <1>1 DEF Has
  <1>2. Existing(Q) \subseteq Existing(R)
    BY <1>1 DEF Existing
  <1>3. AgreeIn(Q) /\ RequiredIn(Q)
    BY <1>1, StatesFacts DEF RowsOK, AgreeIn, RequiredIn
  <1>4. OwnerIn(Q)
    BY <1>1 DEF RowsOK, OwnerIn
  <1>5. LinkedIn(Q, E)
    BY <1>1 DEF RowsOK, LinkedIn
  <1> QED BY <1>2, <1>3, <1>4, <1>5 DEF RowsOK

\* Removing the links to a document.
LEMMA UnlinkOK ==
    ASSUME NEW R, NEW E, RowsOK(R, E), RequiredIn(R), NEW d \in Docs
    PROVE  /\ RowsOK(Unlinked(R, d), E \ {d})
           /\ RequiredIn(Unlinked(R, d))
           /\ Existing(Unlinked(R, d)) = Existing(R)
  <1> DEFINE U == Unlinked(R, d)
  <1>1. U \in RowsType
    BY UnlinkedRows DEF RowsOK
  <1>2. ASSUME NEW s \in States, NEW e \in Docs, NEW l \in Locales
        PROVE  /\ Has(U, s, e, l) <=> Has(R, s, e, l)
               /\ Has(R, s, e, l) =>
                    /\ U[s][e][l].own = R[s][e][l].own
                    /\ U[s][e][l].shared = R[s][e][l].shared
                    /\ U[s][e][l].links = R[s][e][l].links \ {d}
                    /\ U[s][e][l].morphs = R[s][e][l].morphs \ {d}
    BY UnlinkedRows DEF RowsOK, Has
  <1> HIDE DEF U
  <1>3. Existing(U) = Existing(R)
    BY <1>2, SameExisting DEF SameKeys
  <1>4. HasDraftIn(U)
    BY <1>2, StatesFacts DEF RowsOK, HasDraftIn
  <1>5. AgreeIn(U)
    <2> SUFFICES ASSUME DraftAndPublish, NEW e \in Docs, NEW j \in Locales, NEW k \in Locales,
                        Has(U, Published, e, j), Has(U, Published, e, k)
                 PROVE  /\ U[Published][e][j].shared = U[Published][e][k].shared
                        /\ U[Published][e][j].links  = U[Published][e][k].links
      BY DEF AgreeIn
    <2>1. Has(R, Published, e, j) /\ Has(R, Published, e, k)
      BY <1>2, StatesFacts
    <2>2. /\ R[Published][e][j].shared = R[Published][e][k].shared
          /\ R[Published][e][j].links  = R[Published][e][k].links
      BY <2>1 DEF RowsOK, AgreeIn
    <2>3. /\ U[Published][e][j].shared = R[Published][e][j].shared
          /\ U[Published][e][k].shared = R[Published][e][k].shared
          /\ U[Published][e][j].links = R[Published][e][j].links \ {d}
          /\ U[Published][e][k].links = R[Published][e][k].links \ {d}
      BY <1>2, <2>1, StatesFacts
    <2> QED BY <2>2, <2>3
  <1>6. RequiredIn(U)
    BY <1>2, StatesFacts DEF RequiredIn, Required
  <1>7. OwnerIn(U)
    <2> SUFFICES ASSUME UniqueTarget,
                        NEW t \in States, NEW x \in Docs, NEW y \in Docs,
                        NEW j \in Locales, NEW k \in Locales,
                        x # y, Has(U, t, x, j), Has(U, t, y, k)
                 PROVE  U[t][x][j].links \cap U[t][y][k].links = {}
      BY DEF OwnerIn
    <2>1. Has(R, t, x, j) /\ Has(R, t, y, k)
      BY <1>2
    <2>2. R[t][x][j].links \cap R[t][y][k].links = {}
      BY <2>1 DEF RowsOK, OwnerIn
    <2> QED BY <1>2, <2>1, <2>2
  <1>8. LinkedIn(U, E \ {d})
    <2> SUFFICES ASSUME NEW t \in States, NEW e \in Docs, NEW k \in Locales, Has(U, t, e, k)
                 PROVE  U[t][e][k].links \subseteq E \ {d} /\ U[t][e][k].morphs \subseteq E \ {d}
      BY DEF LinkedIn
    <2>1. Has(R, t, e, k)
      BY <1>2
    <2>2. R[t][e][k].links \subseteq E /\ R[t][e][k].morphs \subseteq E
      BY <2>1 DEF RowsOK, LinkedIn
    <2> QED BY <1>2, <2>1, <2>2
  <1> QED BY <1>1, <1>3, <1>4, <1>5, <1>6, <1>7, <1>8 DEF RowsOK, U

-----------------------------------------------------------------------------
(* The inductive invariant, and one step for each action. *)

Inv == TypeOK /\ RowsOK(rows, Existing(rows) \cup lost) /\ RequiredIn(rows)

\* More targets may be allowed than a set of rows uses.
LEMMA MoreTargets ==
    ASSUME NEW R, NEW E, NEW F, RowsOK(R, E), E \subseteq F
    PROVE  RowsOK(R, F)
  BY DEF RowsOK, LinkedIn

\* The invariant holds of the empty project.
LEMMA InitInv == Init => Inv
  <1> SUFFICES ASSUME Init PROVE Inv
    OBVIOUS
  <1>1. rows \in RowsType /\ \A s \in States, d \in Docs, l \in Locales : rows[s][d][l] = NoRow
    BY DEF Init, RowsType, MaybeRow
  <1>2. \A s \in States, d \in Docs, l \in Locales : ~Has(rows, s, d, l)
    BY <1>1 DEF Has
  <1>3. Existing(rows) = {}
    BY <1>2 DEF Existing
  <1>4. TypeOK
    BY <1>1, <1>3, ConstantsAssumption DEF Init, TypeOK, RowsType, MaybeRow
  <1>5. RowsOK(rows, Existing(rows) \cup lost) /\ RequiredIn(rows)
    BY <1>1, <1>2, StatesFacts DEF RowsOK, HasDraftIn, AgreeIn, OwnerIn, LinkedIn, RequiredIn
  <1> QED BY <1>4, <1>5 DEF Inv

\* What is left of the invariant once the rows of a step are known to be sound.
LEMMA RowsStep ==
    ASSUME TypeOK, RowsOK(rows', Existing(rows') \cup lost'), RequiredIn(rows'),
           Existing(rows') \subseteq created', created' \subseteq Docs,
           locales' \subseteq Locales, default' \in locales', lost' \subseteq created'
    PROVE  Inv'
  BY DEF Inv, TypeOK, RowsOK, RowsType, MaybeRow

\* Create: a blank row, written, and published or held to its rules.
LEMMA CreateStep ==
    ASSUME Inv, NEW d \in Docs, NEW l \in Locales, NEW w \in Writes, NEW publish,
           Create(d, l, w, publish)
    PROVE  Inv'
  <1> DEFINE R == Put(rows, WriteState, d, l, BlankRow)
             W == Write(R, WriteState, d, l, w)
             E == Existing(rows) \cup lost
             F == E \cup {d}
  <1>0. /\ TypeOK /\ rows \in RowsType /\ RowsOK(rows, E) /\ RequiredIn(rows)
        /\ d \notin created /\ References(w) \subseteq Existing(rows)
        /\ Finish(W, d, l, publish)
        /\ created' = created \cup {d} /\ UNCHANGED <<locales, default, lost>>
    BY DEF Inv, RowsOK, Create
  <1>1. \A s \in States, k \in Locales : ~Has(rows, s, d, k)
    BY <1>0 DEF TypeOK, Existing
  <1>2. RowsOK(rows, F)
    BY <1>0, MoreTargets
  <1>3. BlankRow \in Row /\ BlankRow.links = {} /\ BlankRow.morphs = {}
    BY DEF BlankRow, Row, Columns
  <1>4. RowsOK(R, F) /\ Existing(R) = Existing(rows) \cup {d} /\ Has(R, WriteState, d, l)
    BY <1>1, <1>2, <1>3, StatesFacts, PutOK
  <1>5. RowsOK(W, F) /\ SameKeys(R, W)
    BY <1>0, <1>4, WriteOK
  <1>6. Existing(W) = Existing(rows) \cup {d} /\ Has(W, WriteState, d, l)
    BY <1>4, <1>5, SameExisting, StatesFacts DEF SameKeys
  <1>7. \A t \in States, e \in Docs, k \in Locales :
           R[t][e][k] = IF t = WriteState /\ e = d /\ k = l THEN BlankRow ELSE rows[t][e][k]
    BY <1>0, <1>3, StatesFacts, PutRows DEF MaybeRow
  <1>8. /\ DraftAndPublish => RequiredIn(W)
        /\ ~DraftAndPublish /\ Required(W[Published][d][l]) => RequiredIn(W)
    <2>1. R \in RowsType
      BY <1>4 DEF RowsOK
    <2>2. DraftAndPublish => RequiredIn(R)
      BY <1>0, <1>7, StatesFacts DEF RequiredIn, Has
    <2>3. \A e \in Docs, k \in Locales :
             (e # d \/ k # l) /\ Has(R, Published, e, k) => Required(R[Published][e][k])
      BY <1>0, <1>7, StatesFacts DEF RequiredIn, Has
    <2> HIDE DEF R, W
    <2> QED BY <1>4, <2>1, <2>2, <2>3, WriteRequired DEF W
  <1> HIDE DEF R, W, E, F
  <1>9. RowsOK(rows', F) /\ RequiredIn(rows') /\ Existing(rows') = Existing(W)
    BY <1>0, <1>5, <1>6, <1>8, FinishOK
  <1>10. F = Existing(rows') \cup lost'
    BY <1>0, <1>6, <1>9 DEF E, F
  <1> QED BY <1>0, <1>6, <1>9, <1>10, RowsStep DEF TypeOK

\* Update of a version the document has.
LEMMA UpdateRowStep ==
    ASSUME Inv, NEW d \in Docs, NEW l \in Locales, NEW w \in Writes, NEW publish,
           UpdateRow(d, l, w, publish), UNCHANGED <<locales, default, created, lost>>
    PROVE  Inv'
  <1> DEFINE W == Write(rows, WriteState, d, l, w)
             E == Existing(rows) \cup lost
  <1>0. /\ TypeOK /\ rows \in RowsType /\ RowsOK(rows, E) /\ RequiredIn(rows)
        /\ References(w) \subseteq E /\ Has(rows, WriteState, d, l) /\ Finish(W, d, l, publish)
    BY DEF Inv, RowsOK, UpdateRow
  <1>1. RowsOK(W, E) /\ SameKeys(rows, W)
    BY <1>0, WriteOK
  <1>2. Existing(W) = Existing(rows) /\ Has(W, WriteState, d, l)
    BY <1>0, <1>1, SameExisting, StatesFacts DEF SameKeys
  <1>3. /\ DraftAndPublish => RequiredIn(W)
        /\ ~DraftAndPublish /\ Required(W[Published][d][l]) => RequiredIn(W)
    <2>1. \A e \in Docs, k \in Locales :
             (e # d \/ k # l) /\ Has(rows, Published, e, k) => Required(rows[Published][e][k])
      BY <1>0 DEF RequiredIn
    <2> HIDE DEF W
    <2> QED BY <1>0, <2>1, WriteRequired DEF W
  <1> HIDE DEF W, E
  <1>4. RowsOK(rows', E) /\ RequiredIn(rows') /\ Existing(rows') = Existing(W)
    BY <1>0, <1>1, <1>2, <1>3, FinishOK
  <1>5. E = Existing(rows') \cup lost'
    BY <1>2, <1>4 DEF E
  <1> QED BY <1>0, <1>2, <1>4, <1>5, RowsStep DEF TypeOK

\* Update in a locale the document has no version in.
LEMMA AddTranslationStep ==
    ASSUME Inv, NEW d \in Docs, NEW l \in Locales, NEW w \in Writes, NEW publish,
           AddTranslation(d, l, w, publish), UNCHANGED <<locales, default, created, lost>>
    PROVE  Inv'
  <1>1. PICK k \in Locales :
           /\ Has(rows, WriteState, d, k)
           /\ References(w) \subseteq Existing(rows)
           /\ LET R == Put(rows, WriteState, d, l, TranslationOf(rows[WriteState][d][k]))
              IN  Finish(Write(R, WriteState, d, l, w), d, l, publish)
    BY DEF AddTranslation
  <1> DEFINE source == rows[WriteState][d][k]
             row == TranslationOf(source)
             R == Put(rows, WriteState, d, l, row)
             W == Write(R, WriteState, d, l, w)
             E == Existing(rows) \cup lost
  <1>0. /\ TypeOK /\ rows \in RowsType /\ RowsOK(rows, E) /\ RequiredIn(rows)
        /\ ~Has(rows, WriteState, d, l) /\ Finish(W, d, l, publish)
    BY <1>1 DEF Inv, RowsOK, AddTranslation
  <1>2. source \in Row
    BY <1>0, <1>1, StatesFacts DEF RowsType, MaybeRow, Has
  <1>3. row \in Row /\ row.links = source.links /\ row.morphs = source.morphs
    BY <1>2 DEF TranslationOf, Row, Columns
  <1>4. source.links \cup source.morphs \subseteq E
    BY <1>0, <1>1, StatesFacts DEF RowsOK, LinkedIn
  <1> HIDE DEF row
  <1>5. RowsOK(R, E) /\ Existing(R) = Existing(rows) \cup {d} /\ Has(R, WriteState, d, l)
    BY <1>0, <1>1, <1>3, <1>4, PutOK
  <1>6. d \in Existing(rows)
    BY <1>1, StatesFacts DEF Existing
  <1>7. RowsOK(W, E) /\ SameKeys(R, W)
    BY <1>1, <1>5, WriteOK
  <1>8. Existing(W) = Existing(rows) /\ Has(W, WriteState, d, l)
    BY <1>5, <1>6, <1>7, SameExisting, StatesFacts DEF SameKeys
  <1>9. \A t \in States, e \in Docs, j \in Locales :
           R[t][e][j] = IF t = WriteState /\ e = d /\ j = l THEN row ELSE rows[t][e][j]
    BY <1>0, <1>3, StatesFacts, PutRows DEF MaybeRow
  <1>10. /\ DraftAndPublish => RequiredIn(W)
         /\ ~DraftAndPublish /\ Required(W[Published][d][l]) => RequiredIn(W)
    <2>1. R \in RowsType
      BY <1>5 DEF RowsOK
    <2>2. DraftAndPublish => RequiredIn(R)
      BY <1>0, <1>9, StatesFacts DEF RequiredIn, Has
    <2>3. \A e \in Docs, j \in Locales :
             (e # d \/ j # l) /\ Has(R, Published, e, j) => Required(R[Published][e][j])
      BY <1>0, <1>9, StatesFacts DEF RequiredIn, Has
    <2> HIDE DEF R, W
    <2> QED BY <1>5, <2>1, <2>2, <2>3, WriteRequired DEF W
  <1> HIDE DEF R, W, E
  <1>11. RowsOK(rows', E) /\ RequiredIn(rows') /\ Existing(rows') = Existing(W)
    BY <1>0, <1>7, <1>8, <1>10, FinishOK
  <1>12. E = Existing(rows') \cup lost'
    BY <1>8, <1>11 DEF E
  <1> QED BY <1>0, <1>8, <1>11, <1>12, RowsStep DEF TypeOK

\* Delete: both versions of the locale go, and the links with the last of them.
LEMMA DeleteStep ==
    ASSUME Inv, NEW d \in Docs, NEW l \in Locales, Delete(d, l)
    PROVE  Inv'
  <1> DEFINE R == [s \in States |-> [rows[s] EXCEPT ![d][l] = NoRow]]
             E == Existing(rows) \cup lost
  <1>0. /\ TypeOK /\ rows \in RowsType /\ RowsOK(rows, E) /\ RequiredIn(rows)
        /\ rows' = IF d \in Existing(R) THEN R ELSE Unlinked(R, d)
        /\ UNCHANGED <<locales, default, created, lost>>
    BY DEF Inv, RowsOK, Delete
  <1>1. R \in RowsType
    BY <1>0 DEF RowsType, MaybeRow
  <1>2. \A s \in States, e \in Docs, k \in Locales :
           R[s][e][k] = IF e = d /\ k = l THEN NoRow ELSE rows[s][e][k]
    BY <1>0 DEF RowsType
  <1> HIDE DEF R
  <1>3. HasDraftIn(R)
    BY <1>0, <1>2, StatesFacts DEF RowsOK, HasDraftIn, Has
  <1>4. RowsOK(R, E) /\ RequiredIn(R) /\ Existing(R) \subseteq Existing(rows)
    <2>1. \A s \in States, e \in Docs, k \in Locales : R[s][e][k] \in {rows[s][e][k], NoRow}
      BY <1>2
    <2> HIDE DEF E
    <2> QED BY <1>0, <1>1, <1>3, <2>1, RemoveOK
  <1>5. Existing(rows) \ {d} \subseteq Existing(R)
    BY <1>2 DEF Existing, Has
  <1>6. CASE d \in Existing(R)
    <2>1. rows' = R /\ E = Existing(rows') \cup lost'
      BY <1>0, <1>4, <1>5, <1>6
    <2> QED BY <1>0, <1>4, <2>1, RowsStep DEF TypeOK
  <1>7. CASE d \notin Existing(R)
    <2>1. /\ rows' = Unlinked(R, d) /\ RowsOK(rows', E \ {d}) /\ RequiredIn(rows')
          /\ Existing(rows') = Existing(R)
      BY <1>0, <1>4, <1>7, UnlinkOK
    <2>2. E \ {d} \subseteq Existing(rows') \cup lost'
      BY <1>0, <1>5, <2>1
    <2>3. RowsOK(rows', Existing(rows') \cup lost')
      BY <2>1, <2>2, MoreTargets
    <2> QED BY <1>0, <1>4, <2>1, <2>3, RowsStep DEF TypeOK
  <1> QED BY <1>6, <1>7

\* Publish: the draft must hold its rules.
LEMMA PublishStep ==
    ASSUME Inv, NEW d \in Docs, NEW l \in Locales, Publish(d, l)
    PROVE  Inv'
  <1> DEFINE E == Existing(rows) \cup lost
  <1>1. /\ TypeOK /\ RowsOK(rows, E) /\ RequiredIn(rows) /\ DraftAndPublish
        /\ Has(rows, Draft, d, l) /\ Required(rows[Draft][d][l])
        /\ rows' = Publication(rows, d, l)
        /\ UNCHANGED <<locales, default, created, lost>>
    BY DEF Inv, Publish, Complete, Required
  <1> HIDE DEF E
  <1>2. RowsOK(rows', E) /\ Existing(rows') = Existing(rows) /\ RequiredIn(rows')
    BY <1>1, PublicationOK
  <1>3. E = Existing(rows') \cup lost'
    BY <1>1, <1>2 DEF E
  <1> QED BY <1>1, <1>2, <1>3, RowsStep DEF TypeOK

\* Unpublish: the draft stays, so the document does.
LEMMA UnpublishStep ==
    ASSUME Inv, NEW d \in Docs, NEW l \in Locales, Unpublish(d, l)
    PROVE  Inv'
  <1> DEFINE E == Existing(rows) \cup lost
  <1>0. /\ TypeOK /\ rows \in RowsType /\ RowsOK(rows, E) /\ RequiredIn(rows)
        /\ rows' = Put(rows, Published, d, l, NoRow) /\ Has(rows, Draft, d, l)
        /\ UNCHANGED <<locales, default, created, lost>>
    BY DEF Inv, RowsOK, Unpublish
  <1>1. rows' \in RowsType /\ \A s \in States, e \in Docs, k \in Locales :
           rows'[s][e][k] = IF s = Published /\ e = d /\ k = l THEN NoRow ELSE rows[s][e][k]
    BY <1>0, StatesFacts, PutRows DEF MaybeRow
  <1>2. HasDraftIn(rows')
    BY <1>0, <1>1, StatesFacts DEF RowsOK, HasDraftIn, Has
  <1>3. RowsOK(rows', E) /\ RequiredIn(rows') /\ Existing(rows') \subseteq Existing(rows)
    <2>1. \A s \in States, e \in Docs, k \in Locales : rows'[s][e][k] \in {rows[s][e][k], NoRow}
      BY <1>1
    <2> HIDE DEF E
    <2> QED BY <1>0, <1>1, <1>2, <2>1, RemoveOK
  <1>4. Existing(rows) \subseteq Existing(rows')
    <2> SUFFICES ASSUME NEW e \in Existing(rows) PROVE e \in Existing(rows')
      OBVIOUS
    <2>1. CASE e = d
      <3>1. Has(rows', Draft, d, l)
        BY <1>0, <1>1, StatesFacts DEF Has
      <3> QED BY <2>1, <3>1, StatesFacts DEF Existing
    <2>2. CASE e # d
      BY <1>1, <2>2 DEF Existing, Has
    <2> QED BY <2>1, <2>2
  <1> QED BY <1>0, <1>3, <1>4, RowsStep DEF TypeOK

\* Discard: the draft becomes a copy of the published version.
LEMMA DiscardStep ==
    ASSUME Inv, NEW d \in Docs, NEW l \in Locales, DiscardDraft(d, l)
    PROVE  Inv'
  <1> DEFINE E == Existing(rows) \cup lost
  <1>1. /\ TypeOK /\ RowsOK(rows, E) /\ RequiredIn(rows) /\ DraftAndPublish
        /\ Has(rows, Draft, d, l) /\ Has(rows, Published, d, l)
        /\ rows' = Steal(Put(rows, Draft, d, l, rows[Published][d][l]), Draft, d,
                         rows[Published][d][l].links)
        /\ UNCHANGED <<locales, default, created, lost>>
    BY DEF Inv, DiscardDraft
  <1> HIDE DEF E
  <1>2. RowsOK(rows', E) /\ Existing(rows') = Existing(rows) /\ RequiredIn(rows')
    BY <1>1, DiscardOK
  <1>3. E = Existing(rows') \cup lost'
    BY <1>1, <1>2 DEF E
  <1> QED BY <1>1, <1>2, <1>3, RowsStep DEF TypeOK

\* Removing a locale: the documents it takes along join lost.
LEMMA RemoveLocaleStep ==
    ASSUME Inv, NEW l \in Locales, RemoveLocale(l)
    PROVE  Inv'
  <1> DEFINE E == Existing(rows) \cup lost
  <1>0. /\ TypeOK /\ rows \in RowsType /\ RowsOK(rows, E) /\ RequiredIn(rows)
        /\ rows' = [s \in States |-> [d \in Docs |-> [rows[s][d] EXCEPT ![l] = NoRow]]]
        /\ l # default /\ locales' = locales \ {l}
        /\ lost' = lost \cup (Existing(rows) \ Existing(rows'))
        /\ UNCHANGED <<default, created>>
    BY DEF Inv, RowsOK, RemoveLocale
  <1>1. rows' \in RowsType /\ \A s \in States, e \in Docs, k \in Locales :
           rows'[s][e][k] = IF k = l THEN NoRow ELSE rows[s][e][k]
    BY <1>0 DEF RowsType, MaybeRow
  <1>2. HasDraftIn(rows')
    BY <1>0, <1>1, StatesFacts DEF RowsOK, HasDraftIn, Has
  <1>3. RowsOK(rows', E) /\ RequiredIn(rows') /\ Existing(rows') \subseteq Existing(rows)
    <2>1. \A s \in States, e \in Docs, k \in Locales : rows'[s][e][k] \in {rows[s][e][k], NoRow}
      BY <1>1
    <2> HIDE DEF E
    <2> QED BY <1>0, <1>1, <1>2, <2>1, RemoveOK
  <1>4. E = Existing(rows') \cup lost'
    BY <1>0, <1>3
  <1> QED BY <1>0, <1>3, <1>4, RowsStep DEF TypeOK

\* The invariant is inductive.
LEMMA NextInv == Inv /\ [Next]_vars => Inv'
  <1> SUFFICES ASSUME Inv, [Next]_vars PROVE Inv'
    OBVIOUS
  <1>1. ASSUME NEW d \in Docs, NEW l \in Locales, NEW w \in Writes, NEW publish \in BOOLEAN,
               Create(d, l, w, publish)
        PROVE  Inv'
    BY <1>1, CreateStep
  <1>2. ASSUME NEW d \in Docs, NEW l \in Locales, NEW w \in Writes, NEW publish \in BOOLEAN,
               Update(d, l, w, publish)
        PROVE  Inv'
    BY <1>2, UpdateRowStep, AddTranslationStep DEF Update
  <1>3. ASSUME NEW d \in Docs, NEW l \in Locales, Delete(d, l)
        PROVE  Inv'
    BY <1>3, DeleteStep
  <1>4. ASSUME NEW d \in Docs, NEW l \in Locales, Publish(d, l)
        PROVE  Inv'
    BY <1>4, PublishStep
  <1>5. ASSUME NEW d \in Docs, NEW l \in Locales, Unpublish(d, l)
        PROVE  Inv'
    BY <1>5, UnpublishStep
  <1>6. ASSUME NEW d \in Docs, NEW l \in Locales, DiscardDraft(d, l)
        PROVE  Inv'
    BY <1>6, DiscardStep
  <1>7. ASSUME NEW l \in Locales, AddLocale(l) \/ SetDefaultLocale(l)
        PROVE  Inv'
    BY <1>7 DEF AddLocale, SetDefaultLocale, Inv, TypeOK
  <1>8. ASSUME NEW l \in Locales, RemoveLocale(l)
        PROVE  Inv'
    BY <1>8, RemoveLocaleStep
  <1>9. CASE UNCHANGED vars
    BY <1>9 DEF vars, Inv, TypeOK
  <1> QED BY <1>1, <1>2, <1>3, <1>4, <1>5, <1>6, <1>7, <1>8, <1>9 DEF Next

\* Every reachable state satisfies the inductive invariant.
THEOREM Invariance == Spec => []Inv
  BY InitInv, NextInv, PTL DEF Spec

-----------------------------------------------------------------------------
(* The invariants the runs check. *)

\* The variables keep their types, and only created documents have rows.
THEOREM TypeCorrect == Spec => []TypeOK
  <1>1. Inv => TypeOK
    BY DEF Inv
  <1> QED BY <1>1, Invariance, PTL

\* Deleting a document takes every link to it along: a link without a document
\* is only left behind by a removed locale.
THEOREM LinkedDocumentsExist == Spec => []LinksOutliveOnlyLocales
  <1>1. Inv => LinksOutliveOnlyLocales
    BY DEF Inv, RowsOK, LinkedIn, LinksOutliveOnlyLocales
  <1> QED BY <1>1, Invariance, PTL

\* oneToOne and oneToMany: no target is ever linked by two documents in a state.
THEOREM TargetsHaveOneOwner == Spec => []OneOwnerPerTarget
  <1>1. Inv => OneOwnerPerTarget
    BY DEF Inv, RowsOK, OwnerIn, OneOwnerPerTarget
  <1> QED BY <1>1, Invariance, PTL

\* Every published version has a draft to unpublish and edit.
THEOREM DraftsStay == Spec => []PublishedHasDraft
  <1>1. Inv => PublishedHasDraft
    BY DEF Inv, RowsOK, HasDraftIn, PublishedHasDraft
  <1> QED BY <1>1, Invariance, PTL

\* The published versions of a document agree on shared columns and relations.
THEOREM PublicationsAgree == Spec => []PublishedVersionsAgree
  <1>1. Inv => PublishedVersionsAgree
    BY DEF Inv, RowsOK, AgreeIn, PublishedVersionsAgree
  <1> QED BY <1>1, Invariance, PTL

\* No published row misses a required value.
THEOREM PublicationsAreRequired == Spec => []PublishedIsRequired
  <1>1. Inv => PublishedIsRequired
    BY DEF Inv, RequiredIn, Required, PublishedIsRequired
  <1> QED BY <1>1, Invariance, PTL

-----------------------------------------------------------------------------
(* Only discarding splits a shared attribute. *)

\* SharedAgree, of any rows.
SharedIn(R, d) ==
    \A l, k \in Locales :
        Has(R, WriteState, d, l) /\ Has(R, WriteState, d, k) =>
            SameShared(R[WriteState][d][l], R[WriteState][d][k])

\* Rows that agree still do after the same steal or the same write.
LEMMA SameAfter ==
    ASSUME NEW x \in Row, NEW y \in Row, SameShared(x, y)
    PROVE  /\ \A T : SameShared(Without(x, T), Without(y, T))
           /\ \A w \in Writes : SameShared(Shared(x, w), Shared(y, w))
  <1>1. ASSUME NEW T PROVE SameShared(Without(x, T), Without(y, T))
    <2>1. x \in MaybeRow /\ y \in MaybeRow /\ x # NoRow /\ y # NoRow
      BY ConstantsAssumption DEF MaybeRow
    <2>2. CASE UniqueTarget
      <3>1. /\ Without(x, T).links = x.links \ T /\ Without(x, T).shared = x.shared
            /\ Without(x, T).morphs = x.morphs
        BY <2>1, <2>2, WithoutRow
      <3>2. /\ Without(y, T).links = y.links \ T /\ Without(y, T).shared = y.shared
            /\ Without(y, T).morphs = y.morphs
        BY <2>1, <2>2, WithoutRow
      <3> QED BY <3>1, <3>2 DEF SameShared
    <2>3. CASE ~UniqueTarget
      BY <2>3 DEF Without, SameShared
    <2> QED BY <2>2, <2>3
  <1>2. ASSUME NEW w \in Writes PROVE SameShared(Shared(x, w), Shared(y, w))
    <2>1. /\ Shared(x, w).shared = Assign(x.shared, w.shared)
          /\ Shared(x, w).links = NextLinks(x.links, w.links)
          /\ w.morphs = {} => Shared(x, w).morphs = x.morphs
          /\ w.morphs # {} => Shared(x, w).morphs = UNION w.morphs
      BY EditedRow
    <2>2. /\ Shared(y, w).shared = Assign(y.shared, w.shared)
          /\ Shared(y, w).links = NextLinks(y.links, w.links)
          /\ w.morphs = {} => Shared(y, w).morphs = y.morphs
          /\ w.morphs # {} => Shared(y, w).morphs = UNION w.morphs
      BY EditedRow
    <2> QED BY <2>1, <2>2 DEF SameShared
  <1> QED BY <1>1, <1>2

\* A steal in the state that is written, on behalf of another document.
LEMMA StealAgrees ==
    ASSUME NEW R \in RowsType, NEW d \in Docs, NEW e \in Docs, e # d, SharedIn(R, e),
           NEW Q, NEW T, \A k \in Locales : Q[WriteState][e][k] = Without(R[WriteState][e][k], T)
    PROVE  SharedIn(Q, e)
  <1> SUFFICES ASSUME NEW l \in Locales, NEW k \in Locales,
                      Has(Q, WriteState, e, l), Has(Q, WriteState, e, k)
               PROVE  SameShared(Q[WriteState][e][l], Q[WriteState][e][k])
    BY DEF SharedIn
  <1> DEFINE x == R[WriteState][e][l]
             y == R[WriteState][e][k]
  <1>1. x \in MaybeRow /\ y \in MaybeRow
    BY StatesFacts DEF RowsType
  <1>2. x # NoRow /\ y # NoRow
    BY <1>1 DEF Has, Without
  <1>3. x \in Row /\ y \in Row /\ SameShared(x, y)
    BY <1>1, <1>2 DEF MaybeRow, SharedIn, Has
  <1>4. SameShared(Without(x, T), Without(y, T))
    BY <1>3, SameAfter
  <1> QED BY <1>4

\* A write gives every row of the document the same shared attributes.
LEMMA WriteAgrees ==
    ASSUME NEW R \in RowsType, NEW d \in Docs, NEW l \in Locales, NEW w \in Writes,
           NEW e \in Docs, SharedIn(R, e)
    PROVE  SharedIn(Write(R, WriteState, d, l, w), e)
  <1> DEFINE s == WriteState
             W == Write(R, s, d, l, w)
             T == Targets(W, s, d)
  <1>1. \A f \in Docs, k \in Locales :
           W[s][f][k] = IF f # d THEN Without(R[s][f][k], T)
                        ELSE IF R[s][d][k] = NoRow THEN NoRow
                        ELSE IF k = l THEN Edited(R[s][d][k], w)
                        ELSE Shared(R[s][d][k], w)
    BY StatesFacts, WriteRows
  <1> HIDE DEF W, T
  <1>2. CASE e # d
    <2>1. \A k \in Locales : W[s][e][k] = Without(R[s][e][k], T)
      BY <1>1, <1>2
    <2> QED BY <1>2, <2>1, StealAgrees DEF W
  <1>3. CASE e = d
    <2>1. ASSUME NEW k \in Locales, Has(W, s, d, k)
          PROVE  /\ R[s][d][k] \in Row /\ Has(R, s, d, k)
                 /\ SameShared(W[s][d][k], Shared(R[s][d][k], w))
      <3>1. R[s][d][k] # NoRow /\ R[s][d][k] \in Row
        BY <1>1, <2>1, StatesFacts DEF RowsType, MaybeRow, Has
      <3>2. W[s][d][k] = Edited(R[s][d][k], w) \/ W[s][d][k] = Shared(R[s][d][k], w)
        BY <1>1, <3>1
      <3>3. SameShared(Edited(R[s][d][k], w), Shared(R[s][d][k], w))
        BY <3>1, EditedRow
      <3> QED BY <3>1, <3>2, <3>3 DEF SameShared, Has
    <2>2. ASSUME NEW j \in Locales, NEW k \in Locales, Has(W, s, d, j), Has(W, s, d, k)
          PROVE  SameShared(W[s][d][j], W[s][d][k])
      <3>1. SameShared(R[s][d][j], R[s][d][k])
        BY <1>3, <2>1, <2>2 DEF SharedIn
      <3>2. SameShared(Shared(R[s][d][j], w), Shared(R[s][d][k], w))
        BY <2>1, <2>2, <3>1, SameAfter
      <3> QED BY <2>1, <2>2, <3>2 DEF SameShared
    <2> QED BY <1>3, <2>2 DEF SharedIn, W
  <1> QED BY <1>2, <1>3

\* Publishing leaves the drafts alone.
LEMMA FinishAgrees ==
    ASSUME NEW R \in RowsType, NEW d \in Docs, NEW l \in Locales, NEW publish,
           Has(R, WriteState, d, l), Finish(R, d, l, publish), NEW e \in Docs, SharedIn(R, e)
    PROVE  SharedIn(rows', e)
  <1>1. CASE rows' = R
    BY <1>1
  <1>2. CASE DraftAndPublish /\ rows' = Publication(R, d, l)
    <2>1. \A k \in Locales : rows'[Draft][e][k] = R[Draft][e][k]
      BY <1>2, StatesFacts, PublicationRows DEF Has
    <2> QED BY <1>2, <2>1, StatesFacts DEF SharedIn, Has
  <1> QED BY <1>1, <1>2 DEF Finish

\* Rows of one state that are left, or are gone, still agree.
LEMMA SubsetAgrees ==
    ASSUME NEW R, NEW Q, NEW e \in Docs, SharedIn(R, e),
           \A k \in Locales : Q[WriteState][e][k] \in {R[WriteState][e][k], NoRow}
    PROVE  SharedIn(Q, e)
  BY DEF SharedIn, Has

\* Removing the links to one document removes them everywhere.
LEMMA UnlinkAgrees ==
    ASSUME NEW R \in RowsType, NEW d \in Docs, NEW e \in Docs, SharedIn(R, e)
    PROVE  SharedIn(Unlinked(R, d), e)
  <1> DEFINE U == Unlinked(R, d)
  <1>1. ASSUME NEW k \in Locales, Has(U, WriteState, e, k)
        PROVE  /\ Has(R, WriteState, e, k)
               /\ U[WriteState][e][k].shared = R[WriteState][e][k].shared
               /\ U[WriteState][e][k].links = R[WriteState][e][k].links \ {d}
               /\ U[WriteState][e][k].morphs = R[WriteState][e][k].morphs \ {d}
    BY <1>1, StatesFacts, UnlinkedRows DEF Has
  <1> HIDE DEF U
  <1>2. ASSUME NEW j \in Locales, NEW k \in Locales, Has(U, WriteState, e, j), Has(U, WriteState, e, k)
        PROVE  SameShared(U[WriteState][e][j], U[WriteState][e][k])
    <2>1. SameShared(R[WriteState][e][j], R[WriteState][e][k])
      BY <1>1, <1>2 DEF SharedIn
    <2> QED BY <1>1, <1>2, <2>1 DEF SameShared
  <1> QED BY <1>2 DEF SharedIn, U

\* A translation takes the shared attributes of a version over.
LEMMA TranslationAgrees ==
    ASSUME NEW R \in RowsType, NEW d \in Docs, NEW l \in Locales, NEW k \in Locales,
           Has(R, WriteState, d, k), NEW e \in Docs, SharedIn(R, e)
    PROVE  LET row == TranslationOf(R[WriteState][d][k])
               Q == Put(R, WriteState, d, l, row)
           IN  row \in Row /\ Q \in RowsType /\ SharedIn(Q, e) /\ Has(Q, WriteState, d, l)
  <1> DEFINE source == R[WriteState][d][k]
             row == TranslationOf(source)
             Q == Put(R, WriteState, d, l, row)
  <1>1. source \in Row
    BY StatesFacts DEF RowsType, MaybeRow, Has
  <1>2. row \in Row /\ SameShared(row, source)
    BY <1>1 DEF TranslationOf, Row, Columns, SameShared
  <1> HIDE DEF row
  <1>3. Q \in RowsType /\ \A f \in Docs, j \in Locales :
           Q[WriteState][f][j] = IF f = d /\ j = l THEN row ELSE R[WriteState][f][j]
    BY <1>2, StatesFacts, PutRows DEF MaybeRow
  <1> HIDE DEF Q
  <1>4. Has(Q, WriteState, d, l)
    BY <1>2, <1>3, ConstantsAssumption DEF Has
  <1>5. CASE e # d
    <2>1. \A j \in Locales : Q[WriteState][e][j] = R[WriteState][e][j]
      BY <1>3, <1>5
    <2> QED BY <1>2, <1>3, <1>4, <2>1, SubsetAgrees DEF Q, row
  <1>6. CASE e = d
    <2>1. \A j \in Locales : Has(Q, WriteState, d, j) => SameShared(Q[WriteState][d][j], source)
      BY <1>2, <1>3, <1>6 DEF SharedIn, Has
    <2>2. SharedIn(Q, d)
      BY <2>1 DEF SharedIn, SameShared
    <2> QED BY <1>2, <1>3, <1>4, <1>6, <2>2 DEF Q, row
  <1> QED BY <1>5, <1>6

\* The row a write is about is there after it.
LEMMA WriteKeeps ==
    ASSUME NEW R \in RowsType, NEW d \in Docs, NEW l \in Locales, NEW w \in Writes,
           Has(R, WriteState, d, l)
    PROVE  LET W == Write(R, WriteState, d, l, w)
           IN  W \in RowsType /\ Has(W, WriteState, d, l)
  <1> DEFINE s == WriteState
             W == Write(R, s, d, l, w)
  <1>1. R[s][d][l] \in Row /\ R[s][d][l] # NoRow
    BY StatesFacts DEF RowsType, MaybeRow, Has
  <1>2. /\ W \in RowsType
        /\ \A t \in States, e \in Docs, k \in Locales :
             W[t][e][k] = IF t # s THEN R[t][e][k]
                          ELSE IF e # d THEN Without(R[s][e][k], Targets(W, s, d))
                          ELSE IF R[s][d][k] = NoRow THEN NoRow
                          ELSE IF k = l THEN Edited(R[s][d][k], w)
                          ELSE Shared(R[s][d][k], w)
    BY StatesFacts, WriteRows
  <1> HIDE DEF W
  <1>3. W[s][d][l] = Edited(R[s][d][l], w)
    BY <1>1, <1>2, StatesFacts
  <1>4. Edited(R[s][d][l], w) \in Row
    BY <1>1, EditedRow
  <1> QED BY <1>2, <1>3, <1>4, ConstantsAssumption DEF Has, W

\* Every step but a discard of the document keeps the agreement of its versions.
LEMMA StepAgrees ==
    ASSUME Inv, Next, NEW e \in Docs, SharedIn(rows, e), \A l \in Locales : ~DiscardDraft(e, l)
    PROVE  SharedIn(rows', e)
  <1>0. rows \in RowsType /\ TypeOK
    BY DEF Inv, RowsOK
  <1>1. ASSUME NEW d \in Docs, NEW l \in Locales, NEW w \in Writes, NEW publish \in BOOLEAN,
               Create(d, l, w, publish)
        PROVE  SharedIn(rows', e)
    <2> DEFINE R == Put(rows, WriteState, d, l, BlankRow)
               W == Write(R, WriteState, d, l, w)
    <2>1. BlankRow \in Row
      BY DEF BlankRow, Row, Columns
    <2>2. R \in RowsType /\ \A f \in Docs, k \in Locales :
             R[WriteState][f][k] = IF f = d /\ k = l THEN BlankRow ELSE rows[WriteState][f][k]
      BY <1>0, <2>1, StatesFacts, PutRows DEF MaybeRow
    <2>3. \A k \in Locales : ~Has(rows, WriteState, d, k)
      BY <1>0, <1>1, StatesFacts DEF Create, TypeOK, Existing
    <2> HIDE DEF R
    <2>4. SharedIn(R, e) /\ Has(R, WriteState, d, l)
      BY <2>1, <2>2, <2>3, ConstantsAssumption DEF SharedIn, Has, SameShared
    <2>5. W \in RowsType /\ Has(W, WriteState, d, l)
      BY <2>2, <2>4, WriteKeeps
    <2>6. SharedIn(W, e)
      BY <2>2, <2>4, WriteAgrees
    <2> QED BY <1>1, <2>5, <2>6, FinishAgrees DEF Create, R
  <1>2. ASSUME NEW d \in Docs, NEW l \in Locales, NEW w \in Writes, NEW publish \in BOOLEAN,
               UpdateRow(d, l, w, publish)
        PROVE  SharedIn(rows', e)
    <2> DEFINE W == Write(rows, WriteState, d, l, w)
    <2>1. W \in RowsType /\ Has(W, WriteState, d, l)
      BY <1>0, <1>2, WriteKeeps DEF UpdateRow
    <2>2. SharedIn(W, e)
      BY <1>0, WriteAgrees
    <2> QED BY <1>2, <2>1, <2>2, FinishAgrees DEF UpdateRow
  <1>3. ASSUME NEW d \in Docs, NEW l \in Locales, NEW w \in Writes, NEW publish \in BOOLEAN,
               AddTranslation(d, l, w, publish)
        PROVE  SharedIn(rows', e)
    <2>1. PICK k \in Locales :
             /\ Has(rows, WriteState, d, k)
             /\ LET R == Put(rows, WriteState, d, l, TranslationOf(rows[WriteState][d][k]))
                IN  Finish(Write(R, WriteState, d, l, w), d, l, publish)
      BY <1>3 DEF AddTranslation
    <2> DEFINE R == Put(rows, WriteState, d, l, TranslationOf(rows[WriteState][d][k]))
               W == Write(R, WriteState, d, l, w)
    <2>2. R \in RowsType /\ SharedIn(R, e) /\ Has(R, WriteState, d, l)
      BY <1>0, <2>1, TranslationAgrees
    <2> HIDE DEF R
    <2>3. W \in RowsType /\ Has(W, WriteState, d, l)
      BY <2>2, WriteKeeps
    <2>4. SharedIn(W, e)
      BY <2>2, WriteAgrees
    <2> QED BY <2>1, <2>3, <2>4, FinishAgrees DEF R
  <1>4. ASSUME NEW d \in Docs, NEW l \in Locales, Delete(d, l)
        PROVE  SharedIn(rows', e)
    <2> DEFINE R == [s \in States |-> [rows[s] EXCEPT ![d][l] = NoRow]]
    <2>1. R \in RowsType /\ \A k \in Locales :
             R[WriteState][e][k] \in {rows[WriteState][e][k], NoRow}
      BY <1>0, StatesFacts DEF RowsType, MaybeRow
    <2>2. rows' = R \/ rows' = Unlinked(R, d)
      BY <1>4 DEF Delete
    <2> HIDE DEF R
    <2>3. SharedIn(R, e)
      BY <2>1, SubsetAgrees
    <2> QED BY <2>1, <2>2, <2>3, UnlinkAgrees
  <1>5. ASSUME NEW d \in Docs, NEW l \in Locales, Publish(d, l) \/ Unpublish(d, l)
        PROVE  SharedIn(rows', e)
    <2>1. DraftAndPublish /\ \A k \in Locales : rows'[Draft][e][k] = rows[Draft][e][k]
      <3>1. CASE Publish(d, l)
        BY <1>0, <3>1, PublicationRows DEF Publish, Has
      <3>2. CASE Unpublish(d, l)
        BY <1>0, <3>2, StatesFacts, PutRows DEF Unpublish, MaybeRow
      <3> QED BY <1>5, <3>1, <3>2
    <2> QED BY <2>1, StatesFacts, SubsetAgrees
  <1>6. ASSUME NEW d \in Docs, NEW l \in Locales, DiscardDraft(d, l)
        PROVE  SharedIn(rows', e)
    <2> DEFINE row == rows[Published][d][l]
               M == Put(rows, Draft, d, l, row)
    <2>1. /\ d # e /\ DraftAndPublish /\ row \in MaybeRow
          /\ rows' = Steal(M, Draft, d, row.links)
      BY <1>0, <1>6, StatesFacts DEF DiscardDraft, RowsType
    <2>2. M \in RowsType /\ \A k \in Locales : M[Draft][e][k] = rows[Draft][e][k]
      BY <1>0, <2>1, StatesFacts, PutRows
    <2> HIDE DEF M
    <2>3. \A k \in Locales : rows'[Draft][e][k] = Without(M[Draft][e][k], row.links)
      BY <2>1, <2>2, StatesFacts, StealRows
    <2> QED BY <1>0, <2>1, <2>2, <2>3, StatesFacts, StealAgrees
  <1>7. ASSUME NEW l \in Locales, RemoveLocale(l)
        PROVE  SharedIn(rows', e)
    <2>1. \A k \in Locales : rows'[WriteState][e][k] \in {rows[WriteState][e][k], NoRow}
      BY <1>0, <1>7, StatesFacts DEF RemoveLocale, RowsType
    <2> QED BY <2>1, SubsetAgrees
  <1>8. ASSUME NEW l \in Locales, AddLocale(l) \/ SetDefaultLocale(l)
        PROVE  SharedIn(rows', e)
    BY <1>8 DEF AddLocale, SetDefaultLocale
  <1> QED BY <1>1, <1>2, <1>3, <1>4, <1>5, <1>6, <1>7, <1>8 DEF Next, Update

\* No write, translation, publication, deletion or steal makes the locales of a
\* document disagree on a shared attribute: only discarding a draft does.
THEOREM OnlyDiscardingSplits == Spec => OnlyDiscardSplitsShared
  <1>1. \A d \in Docs : SharedAgree(d) <=> SharedIn(rows, d)
    BY DEF SharedAgree, SharedIn, SameShared
  <1>2. \A d \in Docs : SharedAgree(d)' <=> SharedIn(rows', d)
    BY DEF SharedAgree, SharedIn, SameShared, Has
  <1>3. Inv /\ Next => \A d \in Docs : SharedAgree(d) /\ ~SharedAgree(d)' =>
                          \E l \in Locales : DiscardDraft(d, l)
    BY <1>1, <1>2, StepAgrees
  <1>4. Inv /\ [Next]_vars => [\A d \in Docs : SharedAgree(d) /\ ~SharedAgree(d)' =>
                                 \E l \in Locales : DiscardDraft(d, l)]_vars
    BY <1>3
  <1> QED BY <1>4, Invariance, PTL DEF Spec, OnlyDiscardSplitsShared

-----------------------------------------------------------------------------
(* Readers see publications. *)

\* What a step may do to a published row old, when Q are the rows after it.
Seen(old, new, Q, d, l) ==
    \/ new = Q[Draft][d][l]
    \/ /\ old # NoRow
       /\ new.own = old.own
       /\ new.morphs \subseteq old.morphs
       /\ \/ new.shared = old.shared /\ new.links \subseteq old.links
          \/ \E k \in Locales \ {l} :
               LET other == Q[Published][d][k]
               IN  /\ other # NoRow
                   /\ other = Q[Draft][d][k]
                   /\ new.shared = other.shared
                   /\ new.links = other.links

SeenIn(R, Q) ==
    \A d \in Docs, l \in Locales :
        Q[Published][d][l] \notin {R[Published][d][l], NoRow} =>
            Seen(R[Published][d][l], Q[Published][d][l], Q, d, l)

\* A publication copies a draft, and its siblings follow it.
LEMMA PublicationSeen ==
    ASSUME NEW R \in RowsType, NEW d \in Docs, NEW l \in Locales, Has(R, Draft, d, l)
    PROVE  SeenIn(R, Publication(R, d, l))
  <1> DEFINE P == Publication(R, d, l)
             draft == R[Draft][d][l]
  <1>1. draft \in Row /\ draft # NoRow
    BY StatesFacts DEF RowsType, MaybeRow, Has
  <1>2. \A e \in Docs, k \in Locales :
           /\ P[Draft][e][k] = R[Draft][e][k]
           /\ P[Published][e][k] =
                IF e # d THEN Without(R[Published][e][k], draft.links)
                ELSE IF k = l THEN draft
                ELSE IF R[Published][d][k] = NoRow THEN NoRow
                ELSE Follow(R[Published][d][k], draft)
    BY <1>1, PublicationRows
  <1> HIDE DEF P, draft
  <1>3. P[Published][d][l] = draft /\ P[Draft][d][l] = draft
    BY <1>2 DEF draft
  <1> SUFFICES ASSUME NEW e \in Docs, NEW k \in Locales,
                      P[Published][e][k] \notin {R[Published][e][k], NoRow}
               PROVE  Seen(R[Published][e][k], P[Published][e][k], P, e, k)
    BY DEF SeenIn, P
  <1>4. CASE e = d /\ k = l
    BY <1>3, <1>4 DEF Seen
  <1>5. CASE e = d /\ k # l
    <2>1. R[Published][d][k] # NoRow /\ R[Published][d][k] \in Row
      BY <1>2, <1>5, StatesFacts DEF RowsType, MaybeRow
    <2>2. P[Published][d][k] = Follow(R[Published][d][k], draft)
      BY <1>2, <1>5, <2>1
    <2>3. /\ P[Published][d][k].own = R[Published][d][k].own
          /\ P[Published][d][k].morphs = R[Published][d][k].morphs
          /\ P[Published][d][k].shared = draft.shared
          /\ P[Published][d][k].links = draft.links
      BY <1>1, <2>1, <2>2, FollowedRow
    <2>4. l \in Locales \ {k}
      BY <1>5
    <2> QED BY <1>1, <1>3, <1>5, <2>1, <2>3, <2>4 DEF Seen
  <1>6. CASE e # d
    <2>1. P[Published][e][k] = Without(R[Published][e][k], draft.links)
      BY <1>2, <1>6
    <2>2. R[Published][e][k] \in MaybeRow
      BY StatesFacts DEF RowsType
    <2>3. R[Published][e][k] # NoRow
      BY <2>1 DEF Without
    <2>4. /\ P[Published][e][k].own = R[Published][e][k].own
          /\ P[Published][e][k].shared = R[Published][e][k].shared
          /\ P[Published][e][k].morphs = R[Published][e][k].morphs
          /\ P[Published][e][k].links \subseteq R[Published][e][k].links
      BY <2>1, <2>2, <2>3, WithoutRow
    <2> QED BY <2>3, <2>4 DEF Seen
  <1> QED BY <1>4, <1>5, <1>6

\* A write to drafts shows readers nothing unless it publishes.
LEMMA FinishSeen ==
    ASSUME DraftAndPublish, NEW S, NEW R \in RowsType, NEW d \in Docs, NEW l \in Locales,
           NEW w \in Writes, NEW publish, Has(R, Draft, d, l),
           \A e \in Docs, k \in Locales : R[Published][e][k] = S[Published][e][k],
           Finish(Write(R, WriteState, d, l, w), d, l, publish)
    PROVE  SeenIn(S, rows')
  <1> DEFINE W == Write(R, WriteState, d, l, w)
  <1>1. W \in RowsType /\ Has(W, Draft, d, l)
    BY WriteKeeps, StatesFacts
  <1>2. \A e \in Docs, k \in Locales : W[Published][e][k] = S[Published][e][k]
    BY WriteRows, StatesFacts
  <1> HIDE DEF W
  <1>3. CASE rows' = W
    BY <1>2, <1>3 DEF SeenIn
  <1>4. CASE rows' = Publication(W, d, l)
    BY <1>1, <1>2, <1>4, PublicationSeen DEF SeenIn
  <1> QED BY <1>3, <1>4 DEF Finish, W

\* Every step shows readers publications only.
LEMMA StepSeen ==
    ASSUME Inv, Next, DraftAndPublish
    PROVE  SeenIn(rows, rows')
  <1>0. rows \in RowsType /\ TypeOK
    BY DEF Inv, RowsOK
  <1>1. ASSUME NEW d \in Docs, NEW l \in Locales, NEW w \in Writes, NEW publish \in BOOLEAN,
               Create(d, l, w, publish)
        PROVE  SeenIn(rows, rows')
    <2> DEFINE R == Put(rows, WriteState, d, l, BlankRow)
    <2>1. BlankRow \in Row
      BY DEF BlankRow, Row, Columns
    <2>2. R \in RowsType /\ \A s \in States, e \in Docs, k \in Locales :
             R[s][e][k] = IF s = WriteState /\ e = d /\ k = l THEN BlankRow ELSE rows[s][e][k]
      BY <1>0, <2>1, StatesFacts, PutRows DEF MaybeRow
    <2>3. Finish(Write(R, WriteState, d, l, w), d, l, publish)
      BY <1>1 DEF Create
    <2> HIDE DEF R
    <2>4. /\ Has(R, Draft, d, l)
          /\ \A e \in Docs, k \in Locales : R[Published][e][k] = rows[Published][e][k]
      BY <2>1, <2>2, StatesFacts, ConstantsAssumption DEF Has
    <2> QED BY <2>2, <2>3, <2>4, FinishSeen
  <1>2. ASSUME NEW d \in Docs, NEW l \in Locales, NEW w \in Writes, NEW publish \in BOOLEAN,
               UpdateRow(d, l, w, publish)
        PROVE  SeenIn(rows, rows')
    BY <1>0, <1>2, StatesFacts, FinishSeen DEF UpdateRow
  <1>3. ASSUME NEW d \in Docs, NEW l \in Locales, NEW w \in Writes, NEW publish \in BOOLEAN,
               AddTranslation(d, l, w, publish)
        PROVE  SeenIn(rows, rows')
    <2>1. PICK k \in Locales :
             /\ Has(rows, WriteState, d, k)
             /\ LET R == Put(rows, WriteState, d, l, TranslationOf(rows[WriteState][d][k]))
                IN  Finish(Write(R, WriteState, d, l, w), d, l, publish)
      BY <1>3 DEF AddTranslation
    <2> DEFINE row == TranslationOf(rows[WriteState][d][k])
               R == Put(rows, WriteState, d, l, row)
    <2>2. rows[WriteState][d][k] \in Row
      BY <1>0, <2>1, StatesFacts DEF RowsType, MaybeRow, Has
    <2>3. row \in Row
      BY <2>2 DEF TranslationOf, Row, Columns
    <2>4. R \in RowsType /\ \A s \in States, e \in Docs, j \in Locales :
             R[s][e][j] = IF s = WriteState /\ e = d /\ j = l THEN row ELSE rows[s][e][j]
      BY <1>0, <2>3, StatesFacts, PutRows DEF MaybeRow
    <2>5. Finish(Write(R, WriteState, d, l, w), d, l, publish)
      BY <2>1
    <2> HIDE DEF R, row
    <2>6. /\ Has(R, Draft, d, l)
          /\ \A e \in Docs, j \in Locales : R[Published][e][j] = rows[Published][e][j]
      BY <2>3, <2>4, StatesFacts, ConstantsAssumption DEF Has
    <2> QED BY <2>4, <2>5, <2>6, FinishSeen
  <1>4. ASSUME NEW d \in Docs, NEW l \in Locales, Delete(d, l)
        PROVE  SeenIn(rows, rows')
    <2> DEFINE R == [s \in States |-> [rows[s] EXCEPT ![d][l] = NoRow]]
    <2>1. R \in RowsType /\ \A e \in Docs, k \in Locales :
             R[Published][e][k] \in {rows[Published][e][k], NoRow}
      BY <1>0, StatesFacts DEF RowsType, MaybeRow
    <2>2. rows' = R \/ rows' = Unlinked(R, d)
      BY <1>4 DEF Delete
    <2> HIDE DEF R
    <2>3. CASE rows' = R
      BY <2>1, <2>3 DEF SeenIn
    <2>4. CASE rows' = Unlinked(R, d)
      <3> SUFFICES ASSUME NEW e \in Docs, NEW k \in Locales,
                          rows'[Published][e][k] \notin {rows[Published][e][k], NoRow}
                   PROVE  Seen(rows[Published][e][k], rows'[Published][e][k], rows', e, k)
        BY DEF SeenIn
      <3>1. R[Published][e][k] # NoRow
        BY <2>1, <2>4, StatesFacts, UnlinkedRows
      <3>2. R[Published][e][k] = rows[Published][e][k]
        BY <2>1, <3>1
      <3>3. /\ rows'[Published][e][k].own = R[Published][e][k].own
            /\ rows'[Published][e][k].shared = R[Published][e][k].shared
            /\ rows'[Published][e][k].links \subseteq R[Published][e][k].links
            /\ rows'[Published][e][k].morphs \subseteq R[Published][e][k].morphs
        BY <2>1, <2>4, <3>1, StatesFacts, UnlinkedRows
      <3> QED BY <3>1, <3>2, <3>3 DEF Seen
    <2> QED BY <2>2, <2>3, <2>4
  <1>5. ASSUME NEW d \in Docs, NEW l \in Locales, Publish(d, l)
        PROVE  SeenIn(rows, rows')
    BY <1>0, <1>5, PublicationSeen DEF Publish
  <1>6. ASSUME NEW d \in Docs, NEW l \in Locales, Unpublish(d, l)
        PROVE  SeenIn(rows, rows')
    <2>1. \A e \in Docs, k \in Locales :
             rows'[Published][e][k] \in {rows[Published][e][k], NoRow}
      BY <1>0, <1>6, StatesFacts, PutRows DEF Unpublish, MaybeRow
    <2> QED BY <2>1 DEF SeenIn
  <1>7. ASSUME NEW d \in Docs, NEW l \in Locales, DiscardDraft(d, l)
        PROVE  SeenIn(rows, rows')
    <2> DEFINE row == rows[Published][d][l]
               M == Put(rows, Draft, d, l, row)
    <2>1. row \in MaybeRow /\ rows' = Steal(M, Draft, d, row.links)
      BY <1>0, <1>7, StatesFacts DEF DiscardDraft, RowsType
    <2>2. M \in RowsType /\ \A e \in Docs, k \in Locales :
             M[Published][e][k] = rows[Published][e][k]
      BY <1>0, <2>1, StatesFacts, PutRows
    <2> HIDE DEF M
    <2>3. \A e \in Docs, k \in Locales : rows'[Published][e][k] = M[Published][e][k]
      BY <2>1, <2>2, StatesFacts, StealRows
    <2> QED BY <2>2, <2>3 DEF SeenIn
  <1>8. ASSUME NEW l \in Locales, RemoveLocale(l)
        PROVE  SeenIn(rows, rows')
    <2>1. \A e \in Docs, k \in Locales :
             rows'[Published][e][k] \in {rows[Published][e][k], NoRow}
      BY <1>0, <1>8, StatesFacts DEF RemoveLocale, RowsType
    <2> QED BY <2>1 DEF SeenIn
  <1>9. ASSUME NEW l \in Locales, AddLocale(l) \/ SetDefaultLocale(l)
        PROVE  SeenIn(rows, rows')
    BY <1>9 DEF AddLocale, SetDefaultLocale, SeenIn
  <1> QED BY <1>1, <1>2, <1>3, <1>4, <1>5, <1>6, <1>7, <1>8, <1>9 DEF Next, Update

\* A published row is the draft it was published from, follows the shared
\* attributes of another locale published by the same step, or gives up links.
THEOREM ReadersOnlySeePublications == Spec => ReadersSeePublications
  <1> DEFINE A == DraftAndPublish => \A d \in Docs, l \in Locales :
        LET old == rows[Published][d][l]
            new == rows'[Published][d][l]
        IN  new \notin {old, NoRow} =>
              \/ new = rows'[Draft][d][l]
              \/ /\ old # NoRow
                 /\ new.own = old.own
                 /\ new.morphs \subseteq old.morphs
                 /\ \/ new.shared = old.shared /\ new.links \subseteq old.links
                    \/ \E k \in Locales \ {l} :
                         LET other == rows'[Published][d][k]
                         IN  /\ other # NoRow
                             /\ other = rows'[Draft][d][k]
                             /\ new.shared = other.shared
                             /\ new.links = other.links
  <1>1. ASSUME Inv, Next PROVE A
    <2>1. DraftAndPublish => SeenIn(rows, rows')
      BY <1>1, StepSeen
    <2> QED BY <2>1 DEF SeenIn, Seen
  <1>2. Inv /\ [Next]_vars => [A]_vars
    BY <1>1
  <1> QED BY <1>2, Invariance, PTL DEF Spec, ReadersSeePublications
=============================================================================
