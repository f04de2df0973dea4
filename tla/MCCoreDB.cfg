SPECIFICATION Spec
CONSTANTS
  Proc = {p1, p2, p3}
  path = path
  content = content
  old = old
  new = new
  Key = {path, content}
  Val = {old, new}
  Absent = Absent
  Batch <- MCBatch
  Attempts = 2
  ReadOnlyAttempts = 1
SYMMETRY Symmetry
INVARIANTS
  TypeOK
PROPERTIES
  ImplementsTable
