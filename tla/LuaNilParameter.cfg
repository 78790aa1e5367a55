SPECIFICATION Spec
CONSTANTS
  MaxIndexRK = 2
  FieldsPerFlush = 2
  Names <- MCNames
  Programs <- NilParameter
  Answers <- MCAnswers
  MaxCalls = 4
  StackSize = 32
  MaxSteps = 70
CHECK_DEADLOCK FALSE
INVARIANT RunsAsMeant
