SPECIFICATION Spec
CONSTANTS
  Nobody = Nobody
  Member = {m1, m2}
  Request = {r1}
  Drainer = {d1, d2}
  MaxAttempts = 2
  Stale = 1
  Retry = 1
  MaxFaults = 1
INVARIANTS SentWithinAttempts SentOnce SentIsSent NoneStuck WelcomeFollows
PROPERTIES FinalStays MailRests
CHECK_DEADLOCK FALSE
