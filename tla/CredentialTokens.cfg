\* One credential, imported twice.
SPECIFICATION Spec
CONSTANTS
  Ids = {i1}
  NoId = NoId
  None = None
  Workers = {w1}
  Managers = {m1}
  Attempts = {a1}
  Tokens = {t1, t2, t3, t4}
  Locks = {l1, l2, l3}
  MaxLogins = 2
INVARIANTS TypeOK RotationSafe
PROPERTIES ReimportKept
CHECK_DEADLOCK FALSE
