\* Three requests of a user, two at a time; a session of 2 ticks, a week of 3.
CONSTANTS
  a1 = a1
  a2 = a2
  a3 = a3
  ana = ana
  NoJob = NoJob
  Jobs <- MCJobs
  Users <- MCUsers
  Owner <- MCOwner
  Uncapped = {}
  MaxJobsPerUser = 2
  Rate = 2
  LoadRate = 1
  SessionCap <- MCSessionCap
  WeeklyCap <- MCWeeklyCap
  SessionWindow = 2
  Week = 3
  MaxTime = 5
  MaxStarts = 2
SPECIFICATION Spec
INVARIANTS
  TypeOK
  MoneyAddsUp
  OneSessionAtATime
  LimitsAreHonest
SYMMETRY MCSymmetry
CHECK_DEADLOCK FALSE
