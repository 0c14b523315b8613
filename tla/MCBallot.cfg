SPECIFICATION MCSpec
CONSTANTS
  MaxVoters = 5
  Percents = {0, 1, 33, 34, 50, 51, 60, 67, 99, 100}
  MaxCount = 6
INVARIANTS
  VerdictInevitable
  OpenWhileUndecided
  RecountAgrees
