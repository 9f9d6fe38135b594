\* A named device and one that only the scan or the operator knows.
CONSTANTS
    Endpoints = {"a", "b"}
    Configured = {"a"}
    MaxRevision = 2
SPECIFICATION Spec
INVARIANTS DeviceIsLeftAlone SamplesAreAsConfigured
PROPERTY OperationsEnd
