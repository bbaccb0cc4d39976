SPECIFICATION Spec
CONSTANTS
    None = None  m1 = m1  m2 = m2  i1 = i1  i2 = i2  i3 = i3
    p1 = p1  p2 = p2  a1 = a1  a2 = a2  u1 = u1  u2 = u2  c1 = c1  c2 = c2
    Msgs = {m1}  Mid <- MidDistinct  Garbled = {}  InitUid <- NoneDelivered
    RawIds = {i1, i2, i3}  MaxRows = 4  MaxUid = 3  MaxValidity = 1  ChunkSize = 1  Uidplus = FALSE
    Procs = {p1}  MoveTasks = {a1, a2}  UndoTasks = {u1}  RecTasks = {}
    ProcOf <- OneProc  Faults = {"hand"}
CHECK_DEADLOCK FALSE
INVARIANT TrashedOnce
SYMMETRY RawSymmetry
