\* A bridge and two replacements, two requests in flight besides a shutdown.
SPECIFICATION TwinSpec
CONSTANTS
    MaxLaunches = 3
    MaxAsked = 2
CHECK_DEADLOCK FALSE
INVARIANTS GroupsAreOwned ShadowAgrees
PROPERTY TwinCallsEnd
