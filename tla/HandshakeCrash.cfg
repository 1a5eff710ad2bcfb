CONSTANTS
  None = None
  Bad = Bad
  alice = alice
  bob = bob
  p1 = p1
  p2 = p2
  Conns = {1, 2, 3}
  Users = {alice}
  Passwords = {p1}
  Initial <- KnownAlice
  MaxTries = 2
  MaxFaults = 0
  MaxCrashes = 1
  Prompt = FALSE
SPECIFICATION Spec
INVARIANTS RecordCoherent 
CHECK_DEADLOCK FALSE
