\* Two models, one restart, one failed request of /running.
CONSTANTS
  qwen = qwen
  gemma = gemma
  NoModel = NoModel
  Models <- MCModels
  Inventories <- MCInventories
  MaxRestarts = 1
  MaxRunningErrors = 1
SPECIFICATION FairSpec
INVARIANTS
  TypeOK
  LockDiscipline
PROPERTIES
  ViewConverges
  IdleBoxSettles
