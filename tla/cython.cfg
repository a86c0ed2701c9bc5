SPECIFICATION CythonSpec
CONSTANTS
  Lines = {0, 1, 2, 3}
  Growth = 2
  MaxCodes = 4
  Dicts = {d1, d2}
  MaxVersion = 6
  Interpreters = {1, 2}
  MaxModules = 3
  Builds <- SmallBuilds
  Digits = {0, 1, 4, 7}
  MaxDigits = 5
  MaxClass = 4
  MaxMinor = 12
INVARIANTS
  RefsBalanced FailsIffException HelpersRight
  CacheSorted BisectFinds RefsExact GlobalIsCurrent
  ImportedIsComplete LateFailureIsFinal OneInterpreter
CHECK_DEADLOCK FALSE
