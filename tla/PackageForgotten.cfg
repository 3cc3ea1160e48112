CONSTANTS
  Names <- PackageNames
  Events = {"loss"}
  MaxUpsets = 2
SPECIFICATION Spec
PROPERTIES OwnIsRemoved
CHECK_DEADLOCK FALSE
