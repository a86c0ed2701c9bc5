SPECIFICATION SequentialSpec
CONSTANTS
  N = 4
  Values = {a, b}
  NoValue = NoValue
  Price <- Prices
  IntMax = 3
  MaxDays = 4
  Width = 8
  Capacities = {1, 2, 3, 5, 7}
  ElementSizes = {1, 2, 3}
  Elements = {a, b}
  Garbage = NoValue
  MaxPromises = 4
INVARIANTS ReturnsBest AnswersAgree RunsWhatWasAttached
PROPERTIES ImplementsFifo ImplementsClearingFifo
