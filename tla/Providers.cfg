SPECIFICATION MCSpec
CONSTANTS
    c1 = c1  Callers = {c1}
    QuotaBase = 2  QuotaMax = 5  TransientHold = 2  ProbeGuard = 1  MaxFailures = 3
    MaxRetries = 1  MinInterval = 1  RetryWaits = {1}  QuotaHints = {0, 3, 9}
    Moods = {"ok", "odd", "quota", "down", "auth", "broken"}
    MaxCrashes = 1
    LastMail = 3  Refused <- SecondRefused  MaxStrikes = 2
    x = x  y = y  f1 = f1  n1 = n1  n2 = n2  r1 = r1
    Ids = {1}  Users = {x, y}  Flows = {f1}  Minters = {n1, n2}  Removers = {r1}
    MaxTokens = 2  MaxFaults = 1
INVARIANTS TypeOK OpenMeansIdle TokenOfUser
PROPERTIES HoldsLast  
           FlagFollowsToken  DeadIsFlagged
