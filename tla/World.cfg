SPECIFICATION Spec
CONSTANTS
  T = T
  U = U
  S = S
  None = None
  Slots = {s1, s2}
  Components <- MCComponents
  Key = T
  Values = {1, 2}
  Bundles <- Tagged
  Sparse = S
  SparseValues = {1}
  Removable = {T}
  Linked <- Referring
  Plans <- MCPlans
  Watched <- ChangedKey
  Policies = {1, 2}
  MaxCalls <- MCMaxCalls
  MaxGen = 1
  MaxMutations = 2
INVARIANTS StorageHoldsWhatWasGiven ReservationCoversApply NoChangeIsMissed IndexIsFresh PlanAnswersScan
SYMMETRY SlotSymmetry
CHECK_DEADLOCK FALSE
