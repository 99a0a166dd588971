SPECIFICATION Spec
CONSTANTS
    d1 = d1
    d2 = d2
    d3 = d3
    en = en
    fr = fr
    a = a
    b = b
    Nil = Nil
    Keep = Keep
    NoRow = NoRow
    DefaultLocale = en
    Docs = {d1}
    Locales = {en, fr}
    Values = {a, b}
    OwnInputs <- EveryValue
    SharedInputs <- EveryValue
    RelationOps <- NoRelation
    MorphSets <- MorphOne
    Rule <- AnyPair
    DraftAndPublish = TRUE
    ToMany = TRUE
    UniqueTarget = FALSE
INVARIANTS
    PublishedHasDraft
    PublishedIsRequired
PROPERTIES
    OnlyDiscardSplitsShared
    ReadersSeePublications
