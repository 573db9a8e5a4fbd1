SPECIFICATION Spec
INVARIANTS
  ChatOK
  OneMessageEach
PROPERTIES
  AnswerShowsCalls
  TypingEnds
  SwitchingEnds
  ImportIsExport
CHECK_DEADLOCK FALSE
