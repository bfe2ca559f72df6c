\* The kernel reuses the id of a finished thread whose object is still registered.
SPECIFICATION Spec
CONSTANTS
  m1 = m1  m2 = m2  c1 = c1  t1 = t1  t2 = t2  t3 = t3  x1 = x1  x2 = x2  x3 = x3  u1 = u1
  None = None
  Setter = {m1}
  Client = {}
  Thread = {t1, t2, t3}
  Tid = {x1, x2}
  Type <- AllIo
  Num <- TwoPlaces
  UMax = 3
  Pooled = {t1, t2, t3}
  TidReuse = TRUE
  Resubmit = FALSE
  LockFail = {}
INVARIANTS NoAtypism
