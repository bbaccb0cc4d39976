SPECIFICATION Spec
CONSTANTS
    None = None  m1 = m1  m2 = m2  i1 = i1  i2 = i2  i3 = i3
    p1 = p1  p2 = p2  a1 = a1  a2 = a2  u1 = u1  u2 = u2  c1 = c1  c2 = c2
    Msgs = {m1, m2}  Mid <- MidOneNone  Garbled = {m2}  InitUid <- AllDelivered
    RawIds = {i1, i2}  MaxRows = 2  MaxUid = 2  MaxValidity = 2  ChunkSize = 2  Uidplus = TRUE
    Procs = {p1}  MoveTasks = {a1}  UndoTasks = {}  RecTasks = {c1}
    ProcOf <- OneProc  Faults = {"imap", "hand", "validity"}
CHECK_DEADLOCK FALSE
INVARIANTS RowsTellTruth
SYMMETRY RawSymmetry
