SPECIFICATION Spec
CONSTANTS
  u1 = u1
  u2 = u2
  c1 = c1
  x1 = x1
  x2 = x2
  m1 = m1
  m2 = m2
  b1 = b1
  b2 = b2
  right = right
  wrong = wrong
  malformed = malformed
  Users = {u1, u2}
  Courses = {c1}
  Exercises <- MCExercises
  Blocks = {b1, b2}
  Modules = {m1, m2}
  Answers = {right, malformed}
  Malformed = malformed
  Key <- MCKey
  None = None
  AttemptIds = {1, 2, 3}
  ExamIds = {11, 12}
  Practice = Practice
  Global = Global
  Deployments <- MCDeployments
  CrossLane = TRUE
  MinExercisesToRank = 3
  MinLearnersForGlobal = 2
INVARIANT AnsweredMeansSubmitted
SYMMETRY LearnerSymmetry
