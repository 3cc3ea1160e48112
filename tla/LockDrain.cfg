CONSTANTS c1 = c1
          c2 = c2
          c3 = c3
          c4 = c4
          Calls = {c1, c2, c3, c4}
          Method <- WritersAndReader
          MaxAttempts = 9
          RetryBudget = 7
          ClientTimeout = 4
          Base = 1
          MaxWait = 2
          CapShift = 1
          RetryAfters = {}
          LongestWait = 2
          HoldTime = 1
          Faults = {}
SPECIFICATION PromptSpec
PROPERTY EveryoneServed
