SPECIFICATION DailySpec
CONSTANTS
    m1 = m1  m2 = m2  j1 = j1  j2 = j2
    Mails = {m1, m2}  AccountOf <- MCAccountOf  Jobs = {j1, j2}
    StagesOf <- MCStagesOf  NoMail = NoMail  MaxDay = 2  MaxStarts = 2
INVARIANT BacklogPickedUp
CHECK_DEADLOCK FALSE
