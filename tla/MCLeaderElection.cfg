SPECIFICATION FairSpec
CONSTANTS
  Candidates = {k1, k2}
  LeaseDuration = 7
  RenewDeadline = 2
  RetryPeriod = 1
  TermLimit = 3
  MaxCall = 1
  MaxFaults = 6
  TaskEnds = TRUE
  Nobody = Nobody
  Gone = Gone
INVARIANTS TypeOK OneLeader
PROPERTIES LeaderEmerges LeadershipEnds
