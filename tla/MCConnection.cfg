SPECIFICATION Spec
CONSTANTS
  Thread = {t1, t2}
  Connection = {c1, c2}
CHECK_DEADLOCK FALSE
INVARIANT SharedConnectionAutocommits
