\* locked asks a guard for the lock it does not hold.
SPECIFICATION Spec
CONSTANTS
  a1 = a1  a2 = a2  a3 = a3  None = None
  Actor = {a1, a2}
  Convert = TRUE
  MaxReads = 2
INVARIANTS DestructorReleases
CHECK_DEADLOCK FALSE
