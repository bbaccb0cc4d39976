SPECIFICATION SyncSpec
CONSTANTS
    s1 = s1  s2 = s2  g1 = g1  SyncTasks = {s1, s2}  IngestTasks = {}
    MaxMsgs = 3  MaxValidity = 1  Limit = 1
    Faults = {"imap", "db", "crash"}
INVARIANT NoneSkipped
PROPERTY EveryMessageStored
