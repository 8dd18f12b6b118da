\* The findings from a sampled report of the client's visitors.
CONSTANTS
    CandidateLimit = 2
    QueryCount = 2
    BlockedDomains = {3}
    ClientDomain = 4
    ClientWho = 5
    ClientCid = 6
    SiteHost = "site"
    ForeignUrls = {3}
    MaxPlanFindings = 70
    MaxPlanCandidates = 6
    MaxActionFindings = 60
    MaxActionTargets = 60
    DayHours = 3
    RecentDays = 1
    GapDays = 2
    EvidenceIndex <- MCEvidenceIndex
    SiteHosts = {"site", "www.site"}
    UrlOrder <- MCUrlOrder
    MaxSitemaps = 3
    SitemapDepth = 1
    SitemapPages = 4
    MaxRedirects = 1
    MaxBytes = 3
    QueryMin = 2
    QueryMax = 3
    CallAttempts = 2
    ResultsPerType = 3
    ListLimit = 4
    ReportFindings = 10
    ReportEvidence = 20
    RenderedLimit = 2
    TextTargets = 4
    MaxFacts = 12
    MaxRefs = 12
    MaxText = 12
    MaxRendered = 12
    MaxResult = 34
    NodeLimit = 12
    PageBytes = 3
    SiteBytes = 5
    AlignAge = 2
    PairLimit = 3
    AssetWindow = 2
    CompetitorCount = 3
    BusinessCap = 3
    MeasurementCap = 1
    EvaluationLimit = 24
    EvidenceMax = 36
    PageAddress <- MCPageAddress
    WeekDays = 2
    MinWeeks = 3
    PageCap = 1
    PairCap = 1
    ConflictCap = 1
    CrossCap = 2
    Algorithms = {"client"}
SPECIFICATION Spec
INVARIANT SampledDataIsJudged
