CONSTANTS
    MaxPorts = 2
    MaxWrites = 2
    MaxPending = 2
    MaxBuffered = 2
    MaxIdle = 1
    MaxStale = 2
SPECIFICATION LinkSpec
INVARIANTS PortsAreGuarded OffIsTrue
PROPERTY CallsSettle
\* The link is idle when its operations and ports are spent.
CHECK_DEADLOCK FALSE
