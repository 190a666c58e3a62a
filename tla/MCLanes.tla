------------------------------ MODULE MCLanes ------------------------------
(* Lanes on one course of two blocks, as it is first shipped and after a    *)
(* deployment that swaps its modules, drops one exercise and moves the      *)
(* other into the other block, which leaves block b2 with nothing to        *)
(* examine.                                                                 *)
EXTENDS Stats, TLC

CONSTANTS u1, u2, c1, x1, x2, m1, m2, b1, b2, right, wrong, malformed

MCExercises == {x1, x2}
MCKey == [x \in MCExercises |-> right]

Shipped ==
  (1 :> [block |-> b1, module |-> m1, bank |-> {x1}]) @@
  (2 :> [block |-> b2, module |-> m2, bank |-> {x2}])

Reworked ==
  (1 :> [block |-> b2, module |-> m2, bank |-> {}]) @@
  (2 :> [block |-> b1, module |-> m1, bank |-> {x2}])

MCDeployments == {[c \in Courses |-> Shipped], [c \in Courses |-> Reworked]}

\* Learners are interchangeable: no identifier is chosen by looking at one.
LearnerSymmetry == Permutations(Users)
=============================================================================
