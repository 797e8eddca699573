SPECIFICATION TimedSpec
CONSTANTS
  a = a
  b = b
  Jobs = {a, b}
  None = None
  Uses <- Either
  Beside = {"summary"}
  Behind = 2
  Room = 2
CHECK_DEADLOCK FALSE
PROPERTY GoneBodiesAreCancelled
