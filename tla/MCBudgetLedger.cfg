SPECIFICATION LedgerSpec
CONSTANTS
  Offers <- TwoOffers
  Batches <- OnePair
  Adopted <- OneAdopted
  Settlements <- Settlement
  Usages = {1}
  Prices <- Answers
  Compacted = {"child"}
  Budget <- LedgerBudget
  Admission = TRUE
  StoreLimits <- TightStore
  SweepHow = {"release"}
  MaxSweeps = 1
  MaxFaults = 3
  MaxCrashes = 1
INVARIANTS
  AnswersAreDurable
  ClosedHereClosedThere
  HoldsMatchRecords
  FoldingKeepsAccounts
PROPERTIES
  UsesTheStore
  AdmittedWithinEveryBound
CHECK_DEADLOCK FALSE
