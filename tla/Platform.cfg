SPECIFICATION PlatformFairSpec
CONSTANTS
    Parts = {"limits", "sync", "codes", "users", "members", "keys", "audit", "notices", "process"}
    Requests = {p1, p2}
    apiKey = apiKey
    webhook = webhook
    Kinds = {apiKey, webhook}
    Max <- MCMax
    MaxCalls = 3
    MaxDay = 1
    MaxBlind = 1
    Handlers = {h1, h2}
    Syncs = {s1}
    Keys = {k1, k2}
    Codes = {c1}
    Uris = {u1, u2}
    Accounts = {i1, i2}
    Orgs = {o1, o2}
    Home = o1
    Tokens = {t1}
    Ttl = 2
    MaxFlight = 1
    Users = {u1, u2}
    Logs = {l1}
    Plans = {1, 2}
    MaxDisturbances = 2
    Admins = {a1, a2}
    Notices = {n1}
    MaxRepeat = 2
    Clients = {r1}
    Signals = {s1, s2}
CHECK_DEADLOCK FALSE
INVARIANTS
    OvershootBounded
    CallsOvershootBounded
    PlatformTypeOK
    DecisionsBounded
    ApprovedInForce
    RejectedLeavesNothing
    GrantsBounded
    GrantedCodesAreSpent
    UnverifiedOnlyByFailure
    RegistrationsBounded
    NotifiesAllOrNobody
    LostOnlyIfOvertaken
    CleanExit
    StoresOutliveRequests
PROPERTIES
    AdminRightLapses
    SecretLapses
    NothingPurgedEarly
    ShutdownEnds
    PurgedEventually
