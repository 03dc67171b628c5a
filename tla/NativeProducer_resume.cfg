SPECIFICATION FairSpec
CONSTANTS
  RunIds <- Numbers
  None = None
  MaxAttempt = 1
  MaxFaults = 1
PROPERTY ResumeResolves
