\* Two threads launch three others; pthread_create may fail.
SPECIFICATION FairSpec
CONSTANTS
  l1 = l1  l2 = l2  t1 = t1  t2 = t2  t3 = t3  None = None
  Launcher = {l1, l2}
  Thread = {t1, t2, t3}
  CreateFails = TRUE
INVARIANTS TypeOK IdsKnown NoDanglingThis BarrierOutlivesUse
PROPERTIES LifeSpec LaunchReturns EveryThreadIsReleased
