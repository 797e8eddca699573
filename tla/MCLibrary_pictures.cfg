\* The bounds of MCLibrary.cfg: is a picture left of a deleted chat?
CONSTANTS
  None = None
  u1 = u1
  u2 = u2
  c1 = c1
  c2 = c2
  k1 = k1
  p1 = p1
  Uploads <- MCUploads
  Chats <- MCChats
  Courses <- MCCourses
  Problems <- MCProblems
  MaxDocs = 2
  MaxMaterials = 1
  MaxPerSet = 1
  MaxTries = 1
  MaxTroubles = 1
SPECIFICATION Spec
SYMMETRY Alike
CONSTRAINT Few
INVARIANT
  DeletedChatsLeaveNoPictures
CHECK_DEADLOCK FALSE
