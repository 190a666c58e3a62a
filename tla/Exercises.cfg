\* What a refused course leaves is a server that does not start.
SPECIFICATION Spec
CONSTANT Absent = Absent
CONSTANT Malformed = Malformed
CONSTANT SlipBound = 30
CONSTANT Bundles <- MCBundles
INVARIANT OneRightAnswer
INVARIANT NothingGivenAway
INVARIANT DiagnosesHold
INVARIANT PanesAligned
INVARIANT MarksLegible
INVARIANT LoadedIsSound
CHECK_DEADLOCK FALSE
