CONSTANTS
  Callers = {program, browser}
  Programs = {program}
  app = app
  alice = alice
  good = good
  bad = bad
  AppAccounts <- MCApps
  UserAccounts <- MCUsers
  Demo = Demo
  OtherToken = OtherToken
  NULL = NULL
  MaxFaults = 1
  MaxCalls = 3
SPECIFICATION Spec
CHECK_DEADLOCK FALSE
INVARIANT GrantMeansVerified
INVARIANT GrantServed
INVARIANT LogoutEndsAccess
INVARIANT EverythingReleased
