SPECIFICATION FairSpec
CONSTANTS
  q1 = q1
  t1 = t1
  t2 = t2
  t3 = t3
  Native = Native
  Queries = {q1}
  Tokens = {t1, t2, t3}
  Lists <- MCLists
  Amounts = {0, 1}
  BatchSize = 2
  MaxLag = 1
  MaxChanges = 2
INVARIANTS
  TypeOK
  BalancesWereTrue
  EveryTokenIsAnswered
  MissingOnlyIfChanged
CHECK_DEADLOCK FALSE
PROPERTIES
  EveryBalanceSettles
