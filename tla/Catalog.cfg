\* Two requests and two runs of the script meet on the demo data.
SPECIFICATION FairSpec
CONSTANTS
  Clients = {"c1", "c2"}
  Seeders = {"s1", "s2"}
  Plans = {"Free"}
  Emails = {"demo"}
  SeedPlans <- MCSeedPlans
  DemoEmail = "demo"
  MaxSubs = 1
INVARIANTS TypeOK NamesUnique RefusalsAreTrue SeedIsWhole SeededOnce NoCircleOfWaits
PROPERTIES EveryJobEnds
