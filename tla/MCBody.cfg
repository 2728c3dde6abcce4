SPECIFICATION Spec
CONSTANTS
  Apps <- MCApps
  Uploads <- MCUploads
  Names = {"a", "b"}
  MaxBody = 4
  MaxParts = 3
CHECK_DEADLOCK FALSE
INVARIANTS BudgetHolds WholeOrNothing FormFaithful
