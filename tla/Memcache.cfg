SPECIFICATION FairSpec
CONSTANTS
    Commands <- Kinds
    KeyLens = {1, 2}
    ValueLens = {0, 3}
    U16 = 16
    U32 = 64
    MaxCalls = 3
INVARIANTS TypeOK RequestsFramed AnswersOwn AssertionsHold
PROPERTY CallReturns
CHECK_DEADLOCK FALSE
