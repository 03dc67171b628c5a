SPECIFICATION FairSpec
CONSTANTS
  RunIds <- Numbers
  None = None
  MaxAttempt = 3
  MaxFaults = 3
INVARIANT OneLiveDispatch
PROPERTY ReturnsOneSignedAttempt
PROPERTY PinsAreKept
PROPERTY AttemptsArePinned
PROPERTY ResolvesOrNeedsOperator
