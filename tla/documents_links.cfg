SPECIFICATION Spec
CONSTANTS
    d1 = d1
    d2 = d2
    d3 = d3
    en = en
    fr = fr
    a = a
    b = b
    Nil = Nil
    Keep = Keep
    NoRow = NoRow
    DefaultLocale = en
    Docs = {d1, d2}
    Locales = {en, fr}
    Values = {a}
    OwnInputs <- OnlyA
    SharedInputs <- OnlyA
    RelationOps <- ToOneChange
    MorphSets <- NoMorphs
    Rule <- AnyPair
    DraftAndPublish = TRUE
    ToMany = FALSE
    UniqueTarget = TRUE
INVARIANTS
    LinksOutliveOnlyLocales
    PublishedVersionsAgree
    OneOwnerPerTarget
