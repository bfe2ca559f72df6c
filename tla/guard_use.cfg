\* Guards used as the code uses them: locked only after the lock was given back.
SPECIFICATION Spec
CONSTANTS
  a1 = a1  a2 = a2  a3 = a3  None = None
  Actor = {a1, a2, a3}
  Convert = FALSE
  MaxReads = 2
INVARIANTS TypeOK ClaimIsTrue DenialIsTrue DestructorReleases
SYMMETRY GuardSymmetry
