SPECIFICATION Spec
CONSTANTS
  Codes = {0, 1}
  CONFIG_DIFFTEST = TRUE
  HookWritten = TRUE
  MaxPack = 3
  Keys = {"down", "up"}
  KeyNone = "none"
  KEY_QUEUE_LEN = 3
  Budgets <- BothBudgets
  MaxEvents = 3
INVARIANTS
  TypeOK
  LockStep
  VerdictKept
  WrongNeverPasses
  QuitIsPrompt
PROPERTIES
  NoFalseAlarm
  EndedForGood
  KeysInOrder
  QuitServed
CHECK_DEADLOCK FALSE
