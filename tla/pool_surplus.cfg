\* Two threads register others in a pool with one place.
SPECIFICATION Spec
CONSTANTS
  m1 = m1  m2 = m2  c1 = c1  t1 = t1  t2 = t2  t3 = t3  x1 = x1  x2 = x2  x3 = x3  u1 = u1
  None = None
  Setter = {m1, m2}
  Client = {}
  Thread = {t1, t2, t3}
  Tid = {x1, x2, x3}
  Type <- AllIo
  Num <- OnePlace
  UMax = 3
  Pooled = {t1, t2, t3}
  TidReuse = FALSE
  Resubmit = FALSE
  LockFail = {}
PROPERTIES SurplusAssertion
SYMMETRY AllSymmetry
