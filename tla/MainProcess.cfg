\* A renderer that fails, two concurrent calls and two choices of the operator.
CONSTANTS
    Preferences = {p, q}
    Recoveries = {r}
    IpcLimit = 2
SPECIFICATION MainSpec
INVARIANTS
    ExitsReleased
    PreferenceSurvives
PROPERTY
    TeardownsAreAnswered
