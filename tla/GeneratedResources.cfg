CONSTANTS
  Numerals = {"0", "36"}
  Properties <- SpecProperties
  Scalars <- SpecScalars
  Lists <- SpecLists
  MaxUpsets = 2
SPECIFICATION Spec
INVARIANTS TypeOK CatalogueIsEmitted ResultFitsPlan NeverRefused
           EmptyPlanAfterApply AppliedIsStored UpgradeKeeps
PROPERTY UntouchedSurvives
CHECK_DEADLOCK FALSE
