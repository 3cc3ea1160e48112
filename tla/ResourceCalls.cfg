CONSTANTS
  Fields <- CallFields
  Sticky = {"field"}
  Secrets = {}
  Lists = {}
  Settings <- CallSettings
  Protos <- CallProtos
  Known <- CallKnown
  Excluded <- CallExcluded
  Applies <- CallApplies
  Default <- CallDefault
  RunKinds = {"interface", "singleton"}
  ProtoOf <- CallProtoOf
  HiddenSets <- CallHidden
  Options = {}
  ETagSees = {}
  MaxUpsets = 2
  Calls <- CallIds
  Method <- CallMethod
SPECIFICATION CallsSpec
INVARIANTS CallsTypeOK
PROPERTIES AtomicWrites
CHECK_DEADLOCK FALSE
