SPECIFICATION Spec
CONSTANTS
    Locales = {en, fr}
    Home = en
    NoVersion = NoVersion
    Away = Away
    MaxValue = 2
    MaxEvents = 3
    ListLocales = {en, fr}
    FirstLocale = en
    ListEntries = {1, 2, 3}
    FirstLive = {1, 2}
    PageSize = 2
    BulkConcurrency = 1
    MaxListed = 2
    Files = {f, g}
    Mappings = {m, n}
    FirstMapping = m
    NoFile = NoFile
    MaxImports = 5
    Tabs = {t1, t2}
    MaxSignIns = 2
    MaxAuth = 4
    SchemaTypes = {A, B}
    NoName = NoName
    NewType = NewType
    Absent = Absent
    MaxContents = 2
    MaxBuilt = 2
    Ids = {i1, i2}
    NewId = NewId
    ListPage = ListPage
    Gone = Gone
    MaxTexts = 2
    MaxSettings = 4
    RoleIds = {r1, r2}
    Uids = {A, B}
    RoleLocales = {en}
    Attributes = {f, g}
    AllTypes = AllTypes
    NoRole = NoRole
    NotGranted = NotGranted
    MaxRoleEdits = 3
    Admins = {ada, bob}
    NotThere = NotThere
    Ttl = 2
    MaxPresence = 3
    MaxDepth = 2
    MaxItems = 4
    MaxKeys = 4
    Things = {1, 2}
    FirstThings = {1, 2}
    Found = {1}
    ListSize = 1
    MaxLists = 3
    NoBuild = NoBuild
    MaxDeploys = 2
INVARIANTS
    PanelTypeOK
    ShownIsAsked
    ChangesAreAnnounced
    SignInsLive
    MovesKeepTheTree
PROPERTIES
    KnownEditsAreAskedAbout
    SentIsWhatWasShown
    ConversionsNeverWiden
    PagesComeBack
    PresenceSettles
CHECK_DEADLOCK FALSE
