\* Two rounds of tools, two calls in each, a budget of eight units of 128 tokens.
CONSTANTS
  asked = asked
  landed = landed
  p1 = p1
  MaxSteps = 2
  Budget = 8
  AnswerRoom = 16
  StepFloor = 3
  MinGiven = 2
  Slip = 1
  MaxCalls = 2
  Amounts <- MCAmounts
  Tools <- MCTools
  Urls <- MCUrls
  LandsAt <- MCLandsAt
  ResultLists <- MCResultLists
  Paths <- MCPaths
  MaxFiles = 1
  DocChars = 9
  Breaks <- MCBreaks
  ReadChars = 4
SPECIFICATION Spec
INVARIANTS
  TypeOK
  ToldAsItWas
  BudgetHolds
  BoxKeepsAccount
CHECK_DEADLOCK FALSE
