SPECIFICATION FairSpec
CONSTANTS
  u1 = u1
  a1 = a1
  a2 = a2
  a3 = a3
  s1 = s1
  s2 = s2
  Users = {u1}
  Attempts = {a1, a2, a3}
  Author <- MCAuthor
  Reportable = {a1, a2, a3}
  DailyLimit = 1
  MailEnabled = TRUE
  Rejected = {a2}
  Slots = {s1}
  Loop = Loop
  LastDay = 1
  MaxSlips = 2
INVARIANTS TypeOK NoNeedlessCopy DailyExcessBounded
PROPERTIES ReportsReachTheTeam
