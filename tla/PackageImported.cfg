CONSTANTS
  Names <- PackageNames
  Events = {"import"}
  MaxUpsets = 2
SPECIFICATION Spec
PROPERTIES PreExistedSpared
CHECK_DEADLOCK FALSE
