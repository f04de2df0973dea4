SPECIFICATION Spec
CONSTANTS
  Proc = {p1, p2}
  path = path
  content = content
  old = old
  new = new
  Key = {path, content}
  Val = {old, new}
  Absent = Absent
  Batch <- MCBatch
  Attempts = 3
  ReadOnlyAttempts = 2
PROPERTIES
  ReadsCreateNothing
