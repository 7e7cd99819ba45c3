SPECIFICATION ClientSpec
CONSTANTS
    Rows <- MCRows
    Objects = {a, b}
    Nothing = Nothing
    MaxOpened = 3
    MaxVisits = 2
    ObjectTypes = {ta, tb}
    MaxObjects = 2
    MaxBulk = 1
    MaxAsked = 3
    MaxWorld = 2
    Passwords = {p1, p2}
    PrivateKeys = {k1, k2}
    NoObject = NoObject
    MaxChecks = 2
    Jobs = {j1, j2}
    NoJob = NoJob
    MaxPolls = 2
    MaxMoves = 2
    MaxTries = 3
    Forms = {"config", "role", "budget", "object"}
    Targets = {t1, t2}
    Unread = Unread
    MaxSaves = 2
    Users = {u1, u2}
    NoUser = NoUser
    MaxEdits = 2
    MaxSignIns = 2
    Scripts <- MCScripts
    WithObject = {"web"}
    Uploads = {"f1"}
    Library <- MCLibrary
    Words = {"w1"}
    NoWord = ""
    NoScript = NoScript
    MaxItems = 2
    Announced <- MCAnnounced
    CustomIds = {"c1", "c2"}
    Sections <- MCSections
    NoLink = NoLink
    MaxChanges = 2
INVARIANTS
    ClientTypeOK SentForItsTarget BulkHitsMeant
    RefreshedShowsTheCloud AsksForTheLast ShowsItsOwnJob OneSocket
    SavedUnderItsTarget OwnWhileAlone ShownIsSaved InputsArrive
PROPERTIES
    RefreshEnds OpensAfterCheck EndIsShown TypedIsKept LinksKeepTheirPlaces
CHECK_DEADLOCK FALSE
