SPECIFICATION Spec
CONSTANTS
  Nobody = Nobody
  Cli = {c1, c2}
  Tab = {t1}
  MaxPairs = 3
  MaxSessions = 1
  MaxPolls = 2
  MaxFaults = 1
INVARIANTS RotatedOnce RevokedForCause LogoutHolds DeniedStays
PROPERTIES KeptWhileGood LoginEnds
CHECK_DEADLOCK FALSE
