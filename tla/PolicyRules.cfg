SPECIFICATION Spec
CONSTANTS
  Requests <- MCRequests
  Servers <- MCServers
  None = None
  MaxDeploys = 1
INVARIANTS
  ConsistentRequestsAccepted
  AcceptedPolicyRunnable
  AttemptEndsBeforeLease
  NoDominatedChoice
PROPERTIES
  FallbackCoversCandidates
  BackoffSchedule
CHECK_DEADLOCK FALSE
