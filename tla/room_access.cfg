SPECIFICATION FairSpec
CONSTANTS
  a1 = a1
  a2 = a2
  owner = owner
  Agents = {a1, a2}
  Owner = owner
  Levels = {"reply"}
  PolicyInvites = {a2}
  Settled = {a2}
  MaxChanges = 2
  MaxEvents = 1
  MaxFaults = 1
INVARIANTS
  EligibleWasAdmitted
PROPERTIES
  AgentsActOnAuthority
  MembershipSettles
CHECK_DEADLOCK FALSE
