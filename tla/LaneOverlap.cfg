SPECIFICATION RSpec
CONSTANTS
  u1 = u1
  u2 = u2
  c1 = c1
  x1 = x1
  x2 = x2
  m1 = m1
  m2 = m2
  b1 = b1
  right = right
  wrong = wrong
  malformed = malformed
  s1 = s1
  s2 = s2
  Users = {u1}
  Courses = {c1}
  Exercises = {x1}
  Blocks = {b1}
  Modules = {m1, m2}
  Answers = {right, wrong}
  Malformed = malformed
  Key <- MCKey
  None = None
  AttemptIds = {1, 2, 3}
  ExamIds = {11, 12}
  Practice = Practice
  Global = Global
  Deployments <- MCSmall
  CrossLane = FALSE
  Slots = {s1, s2}
  Overlap <- AnyOverlap
INVARIANTS RequestsOK PracticeRowWhole SittingAgreement OpenExcessBounded
PROPERTIES GradingStands
SYMMETRY Symmetry
