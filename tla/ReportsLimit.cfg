SPECIFICATION Spec
CONSTANTS
  u1 = u1
  a1 = a1
  a2 = a2
  a3 = a3
  s1 = s1
  s2 = s2
  Users = {u1}
  Attempts = {a1, a2, a3}
  Author <- MCAuthor
  Reportable = {a1, a2, a3}
  DailyLimit = 1
  MailEnabled = FALSE
  Rejected = {}
  Slots = {s1, s2}
  Loop = Loop
  LastDay = 0
  MaxSlips = 1
INVARIANT DailyLimitKept
