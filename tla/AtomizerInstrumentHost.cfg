\* One operation of every kind that can hold up, or be held up by, another;
\* one running and one queued or waiting.
CONSTANTS
    Transitions = {"connect", "configure", "mode", "startup"}
    SessionCalls = {"acquire"}
    FreeCalls = {"preference"}
    HostLimit = 2
SPECIFICATION HostSpec
INVARIANTS
    TransitionsAreReserved
    HostRemembersTruly
PROPERTIES
    ImplementsHostContract
    CallsEnd
CHECK_DEADLOCK FALSE
