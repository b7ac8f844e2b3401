SPECIFICATION Spec
CONSTANTS
  EndPoints = {e1, e2}
  Pems = {A, B}
  LastMinute = 4
  Drift = 1
  MaxCachedKeys = 2
  MaxLearned = 2
CONSTRAINT Bounded
SYMMETRY Symmetric
INVARIANTS
  TypeOK
  Unambiguous
  StoreIsBounded
  SpansWereTaught
  ConfirmedSpansAreOld
PROPERTY ServesStably
