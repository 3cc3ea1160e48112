CONSTANTS c1 = c1
          c2 = c2
          c3 = c3
          c4 = c4
          Calls = {c1, c2}
          Method <- CreateAndDelete
          MaxAttempts = 2
          RetryBudget = 2
          ClientTimeout = 1
          Base = 1
          MaxWait = 1
          CapShift = 1
          RetryAfters = {0}
          LongestWait = 1
          HoldTime = 0
          Faults = {"loss", "delay", "repeat", "hang", "refusal", "ratelimit", "cancel"}
SPECIFICATION FairSpec
INVARIANT TypeOK
INVARIANT AtMostOnce
INVARIANT RefusalIsFinal
INVARIANT BoundedRetrying
PROPERTY KeepsContract
PROPERTY Termination
