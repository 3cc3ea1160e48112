CONSTANTS
  Fields <- SectionFields
  Sticky = {"list"}
  Secrets = {"secret"}
  Lists = {"list"}
  Settings <- SectionSettings
  Protos <- SectionProtos
  Known <- SectionKnown
  Excluded <- SectionExcluded
  Applies <- SectionApplies
  Default <- SectionDefault
  RunKinds = {"interface", "wireless", "collection", "singleton"}
  ProtoOf <- SectionProtoOf
  HiddenSets <- SectionHidden
  Options = {"option"}
  ETagSees = {}
  MaxUpsets = 2
SPECIFICATION FairSpec
INVARIANTS ResultFitsPlan EmptyPlanAfterApply
PROPERTIES NoBlindWrite UnconfiguredSurvives OptionsSurvive Reconciles
