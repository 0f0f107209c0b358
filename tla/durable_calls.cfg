SPECIFICATION Spec
CONSTANTS
  c1 = c1
  c2 = c2
  Callers = {c1, c2}
  Quantity = 2
  MaxVersion = 9
SYMMETRY Symmetry
CHECK_DEADLOCK FALSE
INVARIANT SubmittedOnce
INVARIANT TerminalAgrees
INVARIANT NoDoubleCount
PROPERTY FilledNeverShrinks
