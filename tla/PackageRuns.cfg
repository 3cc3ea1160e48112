CONSTANTS
  Names <- PackageNames
  Events = {"loss", "import"}
  MaxUpsets = 4
SPECIFICATION FairSpec
INVARIANTS TypeOK
PROPERTIES CreatedSparesPreExisted Settles
CHECK_DEADLOCK FALSE
