\* Every operation and feature, two drivers, the running operation and one
\* queued behind it (or two behind a teardown); every way a teardown can fail
\* and be retried.
CONSTANTS
    SessionRequests = {"connect", "configure", "acquire", "on", "off",
                       "generator", "touch", "profile", "report", "canonical"}
    FreeRequests = {"discover"}
    Limit = 2
    MaxSeq = 2
    Registry <- MCRegistry
SPECIFICATION Spec
INVARIANTS
    PendingAccountsForAdmissions
    OffMeansSilent
    LeftoversAreOwned
PROPERTIES
    NoSessionBodyBehindTeardown
    PublishesOnlyUnderAuthority
    ImplementsInterfaces
    ImplementsQueue
    DisconnectRecovers
