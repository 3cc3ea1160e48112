CONSTANTS
  Fields <- FlagFields
  Sticky = {"broadcast_flag"}
  Secrets = {}
  Lists = {}
  Settings <- FlagSettings
  Protos <- FlagProtos
  Known = {"dhcp"}
  Excluded <- FlagExcluded
  Applies <- FlagApplies
  Default <- FlagDefault
  RunKinds = {"interface"}
  ProtoOf <- FlagProtoOf
  HiddenSets = {{}}
  Options = {}
  ETagSees = {}
  MaxUpsets = 0
SPECIFICATION Spec
INVARIANTS RefusalsAreReportedAtPlan
