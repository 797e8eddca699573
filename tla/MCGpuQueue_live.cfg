\* llama-swap may be silent for ever, or answer: what Stop, an arrival, the line and
\* every job are promised, through an outage too.
CONSTANTS
  j1 = j1
  j2 = j2
  j3 = j3
  ana = ana
  bob = bob
  c1 = c1
  NoJob = NoJob
  NoChat = NoChat
  Jobs <- MCTwoJobs
  Users <- MCUsers
  Chats <- MCChats
  Owner <- MCTwoOwner
  ChatOf <- MCTwoChatOf
  Titled <- MCTitled
  Uncapped <- MCUncapped
  MaxJobsPerUser = 0
  MaxDbFaults = 0
  MaxStarts = 2
SPECIFICATION FairSpec
PROPERTIES
  EveryJobEnds
  SilenceIsSurvived
  FifoPromise
CHECK_DEADLOCK FALSE
