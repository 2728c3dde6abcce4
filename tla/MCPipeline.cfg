\* Every route shape with up to two guards; a request ends, hence no deadlock check.
SPECIFICATION Spec
CONSTANTS
  GuardLimit = 2
  Keys = {k1, k2}
INVARIANTS
  OnceInOrder
  ContextFaithful
  AnswerExplained
CHECK_DEADLOCK FALSE
