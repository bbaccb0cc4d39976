SPECIFICATION MCSpec
CONSTANTS
    Patterns = {p, q}
    ClassifyCategories = {"promo"}
    NoCategory = NoCategory
    Gone = Gone
    MaxOthers = 1
    Options = {o1, o2}
    DefaultOptions = o1
    None = None
    MaxWrites = 3
    Unloaded = Unloaded
    MaxLoads = 2
    MaxActs = 1
    Senders = {s1, s2}
    NoSender = NoSender
    MaxRules = 2
    MaxRequests = 2
    Filters = {f1, f2}
    AllFilter = f1
    NoLog = NoLog
    MaxRevision = 2
    Families = {"a", "b"}
    Proposed <- MCProposed
    NoFamily = NoFamily
    MaxPanels = 2
INVARIANTS    UndoOffers
PROPERTIES  WarnedBeforeTrash
SYMMETRY SenderSymmetry
CHECK_DEADLOCK FALSE
