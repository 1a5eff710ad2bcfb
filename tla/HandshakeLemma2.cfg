CONSTANTS
  None = None
  Bad = Bad
  alice = alice
  bob = bob
  p1 = p1
  p2 = p2
  Conns = {1}
  Users = {alice}
  Passwords = {p1, p2}
  Initial <- KnownAlice
  MaxTries = 1
  MaxFaults = 0
  MaxCrashes = 0
  Prompt = FALSE
SPECIFICATION Spec
INVARIANT ClientAfterServer
CHECK_DEADLOCK FALSE
