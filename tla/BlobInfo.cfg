SPECIFICATION Spec
CONSTANTS
  Keys <- MCKeys
  MaxChanges = 2
INVARIANTS
  NoneMeansNotThere
PROPERTIES
  AnswersOnce
  ImplementsAwaitAll
\* Nothing happens once every request has been answered.
CHECK_DEADLOCK FALSE
