SPECIFICATION Spec
CONSTANTS
  Specs <- MCSpecs
  Alphabet <- MCAlphabet
INVARIANTS AnswerIsTheRecord
PROPERTIES LengthIsKept
CHECK_DEADLOCK FALSE
