SPECIFICATION DisplaySpec
CONSTANTS
    Threshold = 1
    Admitted = 2
    Geometries <- MCGeometries
    Scenes <- MCScenes
    MinimumPositives = 3
    MinimumCells = 2
    PromotionChanges <- MCPromotionChanges
    RetentionChanges <- MCRetentionChanges
    PromoteAfter = 2
    ReleaseAfter = 1
    AdmissionWindow = 3
    LookWindow = 2
    OpportunityWindow = 4
    ClassifierWindow = 2
    SweepNames = {"narrow", "band"}
    IqNames = {"long", "short"}
    Short = {"short"}
    Arrivals <- MCArrivals
    Regular <- MCRegular
    HistoryLimit = 4
    Budgets <- MCBudgets
INVARIANTS RowsAreAdmissible IdentitiesAreExact CapturesAreQualified ShownIsCurrent
PROPERTY JobsEnd
CHECK_DEADLOCK FALSE
