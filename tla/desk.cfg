SPECIFICATION DeskSpec
CONSTANTS
  Envs <- SomeEnvs
  Quotes <- SomeQuotes
  Quantities = {1, 3}
  DrillAges <- SomeAges
  Strike = 500
INVARIANT DeskTypeOK
INVARIANT SizeIsLargest
INVARIANT PaidWithinBudget
INVARIANT BooksMatchAccount
INVARIANT CapitalAsDeclared
INVARIANT ArmedUnderRowKey
