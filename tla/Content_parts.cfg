SPECIFICATION ContentSpec
CONSTANTS
    Savers = {p1, p2}
    Sizes = {1, 2}
    MaxSaves = 3
    Ttl = 2
    MaxFiles = 2
    MaxTotal = 3
    MaxWalk = 2
    MaxCards = 2
    MaxRead = 2
    Baselines = {0, 4}
    Day = 12
    AnchorGap = 1
    MinFrequency = 1
    Frequencies = {0, 5, 16}
    Anchors <- SomeAnchors
    RetryAfters = {3, 20}
    MaxRun = 1
    MaxFailures = 4
    Horizon = 28
    Identities = {"G", "g", "h"}
    CaseOf <- FeedCase
    Links <- SomeLinks
    MaxLinks = 3
    MaxTries = 2
    Names = {"a-b", "a b", "c", "d"}
    SlugOf <- NameSlug
    FoldOf <- NameFold
    Articles = {x}
    Mergers = {m1, m2}
    MaxCompanies = 3
    MaxReadings = 2
    MaxActs = 2
    Readers = {"u", "v"}
    Stories = {s}
    Keywords = {k}
    WordsOf <- StoryWords
    Subscribed <- LooksAtFirst
    Window = 2
    MaxUpsets = 1
    MaxSends = 1
INVARIANTS
    ContentTypeOK
    EvidenceHolds
    OutcomesAccepted
    LegacyRunsSound
    CatalogueKeeps
    MailsComplete
PROPERTIES
    DueByTheRule
SYMMETRY MergersAlike
CHECK_DEADLOCK FALSE
