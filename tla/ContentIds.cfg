CONSTANTS
  Resources = {"r1", "r2"}
  Kinds = {"cron", "key", "feed", "token", "section"}
  Contents = {"a1", "a2", "b"}
  IdOf <- SharedIds
  Names = {"n1", "n2", "n3", "n4", "n5", "n6"}
  Anonymous = {"cfg1"}
  MaxUpsets = 2
SPECIFICATION FairSpec
INVARIANTS TypeOK OrphansOnlyByLoss OneHolder
PROPERTIES ClaimsRespected Reconciles
CHECK_DEADLOCK FALSE
