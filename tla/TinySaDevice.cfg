\* Three mishaps: a fault, one in the teardown that answers it, one in the retry.
\* A faulted session with a generator really stops: its teardown is refused.
CONSTANT MaxMishaps = 3
SPECIFICATION Spec
INVARIANT ActsOnWhatHolds
PROPERTY ReceiveOnlyRecovers
CHECK_DEADLOCK FALSE
