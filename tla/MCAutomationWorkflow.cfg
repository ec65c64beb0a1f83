SPECIFICATION Spec
CONSTANTS
  first = first
  second = second
  UserActions <- Two
  Kinds <- AllKinds
  NoAction = NoAction
  MaxAttempts = 2
  MaxIndex = 1
  MaxFaults = 1
SYMMETRY Alike
INVARIANTS TypeOK RepeatedOnlyIfLost OneWorkflowWorks OnlyLateMessagesLost CompletedSignalsCount
PROPERTIES OnlyRestartsResume KeepsPromise
CHECK_DEADLOCK FALSE
