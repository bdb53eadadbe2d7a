SPECIFICATION Spec
CONSTANTS
  biz = biz
  db = db
  Plugins = {biz, db}
  MaxState = 2
  MaxStarts = 2
  PowerMayFail = TRUE
SYMMETRY Interchangeable
PROPERTIES
  Resumes
  AtomicSaves
CHECK_DEADLOCK FALSE
