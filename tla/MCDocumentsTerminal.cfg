\* Two transitions of one document at once.
SPECIFICATION Spec
CONSTANTS
  Docs = {d1}
  Files = {f1}
  Workers = {w1, w2}
  None = None
SYMMETRY Symmetry
CHECK_DEADLOCK FALSE
INVARIANT ArchivedIsTerminal
