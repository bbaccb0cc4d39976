SPECIFICATION Spec
CONSTANTS
    None = None  j1 = j1  j2 = j2  b1 = b1  b2 = b2  u1 = u1  v1 = v1  w1 = w1
    Emails = {1}  Rules = {1, 2}  Versions = {1, 2}  Covers <- Narrowed  Unusable <- SecondUnusable
    Jobs = {j1, j2}  Runs = {b1, b2}  Undos = {u1}  Reviewers = {v1}  Writers = {w1}
    Requested <- Together  MaxStrikes = 2  Limit = 2  Faults = {"ai", "load", "crash"}
CHECK_DEADLOCK FALSE
INVARIANTS  CacheFresh
PROPERTIES ImplementsLog DecisionHeld
