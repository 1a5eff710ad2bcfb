CONSTANTS
  None = None
  Bad = Bad
  alice = alice
  bob = bob
  p1 = p1
  p2 = p2
  Conns = {1, 2}
  Users = {alice, bob}
  Passwords = {p1, p2}
  Initial <- KnownAlice
  MaxTries = 1
  MaxFaults = 1
  MaxCrashes = 0
  Prompt = FALSE
SPECIFICATION Spec
INVARIANTS TypeOK ServerAgreement ClientAgreement ChannelBinding
CHECK_DEADLOCK FALSE
