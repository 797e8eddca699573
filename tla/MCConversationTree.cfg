\* Up to five messages of two chats, two things at a time.
CONSTANTS
  KeepRecent = 1
  MaxMessages = 5
  MaxChats = 2
  MaxVersions = 2
  MaxInFlight = 2
  MaxSearches = 1
  MaxCuts = 1
  MaxRestarts = 1
SPECIFICATION Spec
CONSTRAINT Bounded
INVARIANTS
  TypeOK
  ChatsAreTrees
  BranchesAreWhole
  QuietTurnSeesNewest
PROPERTY
  BranchesAreKept
CHECK_DEADLOCK FALSE
