\* Two handlers over one document, whose file is uploaded and replaced.
SPECIFICATION Spec
CONSTANTS
  Docs = {d1}
  Files = {f1, f2, f3}
  Workers = {w1, w2}
  None = None
SYMMETRY Symmetry
CHECK_DEADLOCK FALSE
INVARIANTS TypeOK StampsReflectStatus PublishedAsReviewed ServedAsReviewed FilesAccounted
