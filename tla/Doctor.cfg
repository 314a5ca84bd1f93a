SPECIFICATION LiveSpec
CONSTANTS
  Interval = 1
  Grace = 2
  Timeout = 4
  RequestLimit = 2
  Fixer = {f1, f2}
  Program = {exe, python}
  MaxRules = 2
INVARIANTS
  TypeOK
  LoginKeepsItsWord
  RuleAdded
  VerdictWasTrue
  FixedIsFound
PROPERTY CommandsEnd
CHECK_DEADLOCK FALSE
