CONSTANTS
  Fields <- InterfaceFields
  Sticky = {"nohostroute"}
  Secrets = {}
  Lists = {"ip6prefix"}
  Settings <- InterfaceSettings
  Protos <- InterfaceProtos
  Known <- InterfaceKnown
  Excluded <- InterfaceExcluded
  Applies <- InterfaceApplies
  Default <- InterfaceDefault
  RunKinds = {"interface"}
  ProtoOf <- InterfaceProtoOf
  HiddenSets <- InterfaceHidden
  Options = {"peeraddr"}
  ETagSees = {"options", "secrets"}
  MaxUpsets = 2
SPECIFICATION Spec
INVARIANTS ScopeAgreesWithUapi TypeOK ResultFitsPlan FinalPlanFits RefusedOnlyOnUnmodelledProto RefusalsAreReportedAtPlan
PROPERTIES UnconfiguredSurvives
