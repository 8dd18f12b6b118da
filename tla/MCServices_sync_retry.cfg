\* A synchronisation whose ledger never fails.
CONSTANTS
    Parts = {"source"}
    Callers = {c1, c2}
    Threshold = 2
    Window = 2
    Cooldowns <- TwoCooldowns
    ProbeTTL = 2
    CallLimit = 1
    OutboxJobs = {a, b, c}
    Refused = {c}
    Syncers = {p, q}
    Flusher = q
    FlushLimit = 2
    MaxFinishes = 2
    MaxOutages = 1
    Streams = {s}
    MaxRevision = 3
    DiscoveryGens = 2
    DiscoveryTries = 2
    MaxStalls = 3
    Seekers = {a, b}
    MarketTTL = 2
    MaxClock = 3
    SourceKinds = {"gsc"}
    Executions = {w1, w2}
    Askers = {b1, b2}
    SyncTries = 3
    GscViews = 1
    Ga4Reports = 2
    EventPages = 2
    KeywordPages = 2
    RedisMayFail = FALSE
    Preparers = {w1, w2}
    PrepTries = 3
    PrepBudget = 2
    Discoverers = {w1, w2}
    ServiceTries = 3
    ServiceBudget = 2
    Reviewers = {w1, w2}
    MaxDispatches = 3
    Files = {f1, f2}
    Cleaners = {w1, w2}
    BatchLimit = 2
    Lanes = 1
    SiteHosts = {"site", "www.site"}
    UrlOrder <- MCUrlOrder
    MaxSitemaps = 2
    SitemapDepth = 1
    SitemapPages = 3
    MaxRedirects = 1
    MaxBytes = 2
    Modes = {"v1", "v2", "v3"}
    DiscoveryLimit = 4
    DeepLimit = 2
    BatchSize = 2
    KnownLimit = 3
    StructuralBytes = 2
    DeepBytes = 3
    ContactBytes = 4
    Answers <- MCAnswers
    Disallowed <- MCDisallowed
    SitemapResults <- MCSitemapResults
    MapResults <- MCMapResults
    PipeKinds = {"prospect", "verified"}
    PipeTries = 2
    PipeClock = 3
    MarketExpiry = 2
    SitePages = {"home", "about"}
    GbpClaims = 2
    Rivals = {"x", "y"}
    RivalSlots = 2
SPECIFICATION ServicesSpec
CHECK_DEADLOCK FALSE
INVARIANT TransientErrorsAreRetried
