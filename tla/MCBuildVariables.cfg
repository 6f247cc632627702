SPECIFICATION VariablesSpec
CONSTANTS
  p1 = p1
  p2 = p2
  Words = {"branch", "payload"}
  PayloadWord = "payload"
  Values = {"main", "other"}
  NoValue = none
  Linked = {p1, p2}
  TriggerFilters <- MCTriggerFilters
  MaxVariables = 2
INVARIANTS VariablesTypeOK BuildsAlike VariablesArrive PayloadArrives FilteredAsBuilt
