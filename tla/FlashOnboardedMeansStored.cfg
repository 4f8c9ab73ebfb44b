SPECIFICATION Spec
CONSTANTS
  Configs = {u1, u2}
  Foreign = Foreign
  Erased = Erased
  Chunks = 2
INVARIANTS
  OnboardedMeansStored
