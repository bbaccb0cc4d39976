SPECIFICATION MCSpec
CONSTANTS
    s1 = s1  g1 = g1  SyncTasks = {s1}  IngestTasks = {g1}
    MaxMsgs = 2  MaxValidity = 2  Limit = 1
    Faults = {"db", "validity", "nosource"}
    m1 = m1  m2 = m2  j1 = j1  j2 = j2
    Mails = {m1, m2}  AccountOf <- MCAccountOf  Jobs = {j1, j2}
    StagesOf <- MCStagesOf  NoMail = NoMail  MaxDay = 1  MaxStarts = 2
INVARIANTS RowNamesMessage CapturedOnce LeftBehindIsTold
CHECK_DEADLOCK FALSE
