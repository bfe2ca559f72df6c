\* Any tested lock request may fail, kernel ids are reused and threads are submitted again; t1
\* gets the pool after it was built.
SPECIFICATION Spec
CONSTANTS
  m1 = m1  m2 = m2  c1 = c1  t1 = t1  t2 = t2  t3 = t3  x1 = x1  x2 = x2  x3 = x3  u1 = u1
  None = None
  Setter = {m1}
  Client = {c1}
  Thread = {t1, t2}
  Tid = {x1, x2}
  Type <- BothKinds
  Num <- OneForIo
  UMax = 3
  Pooled = {t2}
  TidReuse = TRUE
  Resubmit = TRUE
  LockFail = {"check", "count", "rm_lock", "rm_count", "find", "fetch"}
INVARIANTS RefusedLeavesNothing NoPlaceGivenTwice WithinCapacity
PROPERTIES LookupAnswers
