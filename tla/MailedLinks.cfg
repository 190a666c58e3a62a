SPECIFICATION Spec
CONSTANTS
  u1 = u1
  u2 = u2
  a1 = a1
  a2 = a2
  s1 = s1
  s2 = s2
  Accounts = {u1, u2}
  Addresses = {a1, a2}
  NoAddress = NoAddress
  MaxLinks = 2
  Slots = {s1, s2}
  Overlap <- SafeOverlap
INVARIANTS TypeOK VerifiedMeansProved OneWorkingLink NoSessionOutlivesReset
PROPERTIES ResetOnlyByHolder
SYMMETRY Symmetry
