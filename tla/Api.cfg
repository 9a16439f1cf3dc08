CONSTANTS
  Callers = {c1, c2}
  Ids = {j1, j2}
  Names = {n1}
  MaxCalls = 5
  Absent = Absent
  Codes = {d1}
  TokenTtl = 2
  expires_in = 2
  MaxNow = 6
  MaxTokens = 3
  Policies <- MCPolicies
  Nobody = Nobody
  Users <- MCUsers
  Paths <- MCPaths
  Contents = {f1, f2}
  UdpIds = {"x", "y"}
  MaxRequests = 5
  Gone = Gone
  Fields <- MCFields
  Checked = {"concurrency"}
  Cap = 2
  MaxProgress = 3
SPECIFICATION Spec
INVARIANTS RecordsKept TokensAreEarned StoresAgree ReportedIsRecorded RequestsAreJudged
CHECK_DEADLOCK FALSE
