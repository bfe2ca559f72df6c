\* One thread registers others, as init::init does, some of them again; a client looks threads
\* up meanwhile.
SPECIFICATION FairSpec
CONSTANTS
  m1 = m1  m2 = m2  c1 = c1  t1 = t1  t2 = t2  t3 = t3  x1 = x1  x2 = x2  x3 = x3  u1 = u1
  None = None
  Setter = {m1}
  Client = {c1}
  Thread = {t1, t2}
  Tid = {x1, x2}
  Type <- MixedType
  Num <- OneForIo
  UMax = 3
  Pooled = {t1, t2}
  TidReuse = FALSE
  Resubmit = TRUE
  LockFail = {}
INVARIANTS PlacesAddUp AcceptedIsFindable
PROPERTIES RegistrySpec SurplusAssertion EveryCallReturns
