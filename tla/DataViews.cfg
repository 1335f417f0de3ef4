\* Every page on its own, two users, markets or queries, four effects or presses.
CONSTANTS
  ann = ann
  bob = bob
  Names = {ann, bob}
  Null = Null
  Pages <- AllPages
  MaxRounds = 3
SPECIFICATION Spec
CHECK_DEADLOCK FALSE
INVARIANTS
  RightDataInSequence
PROPERTIES
  SpinnersEnd
  SearchesCurrentQuery
