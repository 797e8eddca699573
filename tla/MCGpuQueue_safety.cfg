\* The queue while the database answers and the service stays up.
CONSTANTS
  j1 = j1
  j2 = j2
  j3 = j3
  ana = ana
  bob = bob
  c1 = c1
  NoJob = NoJob
  NoChat = NoChat
  Jobs <- MCJobs
  Users <- MCUsers
  Chats <- MCChats
  Owner <- MCOwner
  ChatOf <- MCChatOf
  Titled <- MCTitled
  Uncapped <- MCUncapped
  MaxJobsPerUser = 1
  MaxDbFaults = 0
  MaxStarts = 1
SPECIFICATION Spec
INVARIANTS
  TypeOK
  QueueDiscipline
  OneEnding
  StoreAgrees
PROPERTIES
  StopIsHonoured
CHECK_DEADLOCK FALSE
