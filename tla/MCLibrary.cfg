\* Two uploads, two chats, a course, a problem, and one step cut short or one restart.
CONSTANTS
  None = None
  u1 = u1
  u2 = u2
  c1 = c1
  c2 = c2
  k1 = k1
  p1 = p1
  Uploads <- MCUploads
  Chats <- MCChats
  Courses <- MCCourses
  Problems <- MCProblems
  MaxDocs = 2
  MaxMaterials = 1
  MaxPerSet = 1
  MaxTries = 1
  MaxTroubles = 1
SPECIFICATION Spec
SYMMETRY Alike
CONSTRAINT Few
INVARIANTS
  TypeOK
  FilesMatchRows
  NothingInUseIsDeleted
  PracticeIsSound
CHECK_DEADLOCK FALSE
