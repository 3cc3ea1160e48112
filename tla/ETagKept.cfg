CONSTANTS
  Fields <- SectionFields
  Sticky = {"list"}
  Secrets = {"secret"}
  Lists = {"list"}
  Settings <- SectionSettings
  Protos <- SectionProtos
  Known <- SectionKnown
  Excluded <- SectionExcluded
  Applies <- SectionApplies
  Default <- SectionDefault
  RunKinds = {"interface"}
  ProtoOf <- SectionProtoOf
  HiddenSets = {{}}
  Options = {}
  ETagSees = {}
  MaxUpsets = 2
SPECIFICATION Spec
INVARIANTS UpdatesPlanTheirETag
