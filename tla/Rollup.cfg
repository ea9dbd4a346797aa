\* Two rollups at once while usage is recorded and the month ends.
SPECIFICATION Spec
CONSTANTS
  Readers = {r1, r2}
  Subs = {"s1"}
  Quantities = {1, 1000}
  Responses <- MCResponses
  LastMonth = 2
  MaxEvents = 2
INVARIANTS TypeOK RollupWithinResponses ShownTokensAreCharged
PROPERTIES RollupGrows
SYMMETRY ReaderSymmetry
