----------------------------- MODULE MCReports -----------------------------
(* Reports of one learner.                                                  *)
EXTENDS Reports, TLC

CONSTANTS u1, a1, a2, a3, s1, s2

MCAuthor == [a \in Attempts |-> u1]
=============================================================================
