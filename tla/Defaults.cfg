\* A rolling update, an admin's update, a failure, and a creation at any time.
SPECIFICATION Spec
CONSTANTS
  v0 = v0
  v1 = v1
  v2 = v2
  older = older
  newer = newer
  Fields <- MCFields
  Values <- MCValues
  Unset = unset
  Seed <- MCSeed
  Replicas = {older, newer}
  Env <- MCEnv
  Forms = {page1}
  Submissions <- MCSubmissions
  Acceptable <- MCAcceptable
  Updates = 1
  Restarts = 1
  Orders = {order1}
  Fillings <- MCFillings
  Overrides <- MCOverrides
  NoOverride = nothing
INVARIANTS TypeOK EnvironmentsHold CreatedAsPromised SavedTemplatesWork CreatedIsJson
CHECK_DEADLOCK FALSE
