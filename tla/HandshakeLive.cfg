CONSTANTS
  None = None
  Bad = Bad
  alice = alice
  bob = bob
  p1 = p1
  p2 = p2
  Conns = {1, 2}
  Users = {alice}
  Passwords = {p1}
  Initial <- KnownAlice
  MaxTries = 1
  MaxFaults = 1
  MaxCrashes = 1
  Prompt = TRUE
SPECIFICATION FairSpec
PROPERTIES BothClose LoginCompletes
CHECK_DEADLOCK FALSE
