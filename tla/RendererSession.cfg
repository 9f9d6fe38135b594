\* Every pair of commands meets a third; two sessions and two configurations
\* tell an older one from a newer.
CONSTANTS
    MaxSession = 2
    MaxRevision = 2
    MaxCommands = 3
    MaxWaiting = 2
    Commands = {"run", "stop", "apply", "tap", "capture", "sweep", "connect", "disconnect", "read"}
SPECIFICATION Spec
INVARIANT
    RendererAgrees
PROPERTIES
    TapTellsTheTruth
    CallsEnd
\* The system is idle when its commands are spent.
CHECK_DEADLOCK FALSE
