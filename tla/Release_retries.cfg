SPECIFICATION FairSpec
CONSTANTS
  Versions <- ThreeVersions
  Finalized <- Plain
  MaxCommits = 4
  MaxFaults = 2
INVARIANT ReleasedIsValid
PROPERTY ReleaseStays
PROPERTY ReleasesInTheEnd
CHECK_DEADLOCK FALSE
