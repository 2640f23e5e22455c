SPECIFICATION Spec
CONSTANTS
  Fees = {0, 1, 9, 10, 99, 5001}
  MaxReports = 4
INVARIANTS
  RatesCoverEveryFee
  RatesFollowTheLargestFee
CHECK_DEADLOCK FALSE
