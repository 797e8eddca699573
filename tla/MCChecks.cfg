SPECIFICATION Spec
CONSTANTS
  Words <- MCWords
  Docs <- MCDocs
  Web <- MCWeb
  Said <- MCSaid
  SaidNumbers = {30}
  Written = {7}
  Aside = "aside"
  MinWords = 2
  MaxPerSet = 2
  MaxChoices = 2
  MaxOutput = 1
  One = 10
  SI = {1000}
  Parts <- MCParts
  CutNotes = {30}
  Queries <- MCQueries
  Problems <- MCProblems
  Prints = {125, 4}
  MaxPrints = 2
  Replies <- MCReplies
  Answers <- MCAnswers
  MaxCalls = 3
INVARIANTS
  TypeOK
  KeysAreEarned
  JudgedFairly
