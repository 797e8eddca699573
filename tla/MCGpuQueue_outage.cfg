\* The queue while a database call may raise and the service may stop or die.
CONSTANTS
  j1 = j1
  j2 = j2
  j3 = j3
  ana = ana
  bob = bob
  c1 = c1
  NoJob = NoJob
  NoChat = NoChat
  Jobs <- MCTwoJobs
  Users <- MCUsers
  Chats <- MCChats
  Owner <- MCTwoOwner
  ChatOf <- MCTwoChatOf
  Titled <- MCTitled
  Uncapped <- MCUncapped
  MaxJobsPerUser = 0
  MaxDbFaults = 1
  MaxStarts = 2
SPECIFICATION Spec
INVARIANTS
  SubmissionsAreHeard
  WaitersReleased
  NothingIntoDeletedChats
  ChargedIffTaken
CHECK_DEADLOCK FALSE
