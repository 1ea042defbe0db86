SPECIFICATION Spec
CHECK_DEADLOCK FALSE

CONSTANTS
  Calls = {c1, c2}
  weak = weak
  fair = fair
  strong = strong
  local = local
  remote = remote
  History = {fair, strong}
  Deployments <- MCDeployments
  Models = {local, remote}
  LocalModel = local
  None = None
  NaN = NaN
  Profile <- MCProfile
  Requests <- MCRequests
  Matches <- MCMatches
  Replies <- MCReplies
  Limit = 5
  MaxFaults = 1
  MaxDrifts = 1
INVARIANT FallbacksExposed
