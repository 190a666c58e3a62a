--------------------------- MODULE MCLaneRequests ---------------------------
(* LaneRequests on a course of two modules, one exercise each, of one or    *)
(* two blocks, and the redeployment that drops one of them.                 *)
EXTENDS LaneRequests, TLC

CONSTANTS u1, u2, c1, x1, x2, m1, m2, b1, right, wrong, malformed, s1, s2

MCExercises == {x1, x2}
MCKey == [x \in Exercises |-> right]

Shipped ==
  (1 :> [block |-> b1, module |-> m1, bank |-> {x1}]) @@
  (2 :> [block |-> b1, module |-> m2, bank |-> {x2}])

Dropped ==
  (1 :> [block |-> b1, module |-> m1, bank |-> {x1}]) @@
  (2 :> [block |-> b1, module |-> m2, bank |-> {}])

MCDeployments == {[c \in Courses |-> Shipped], [c \in Courses |-> Dropped]}

\* A course of a single exercise.
Small == 1 :> [block |-> b1, module |-> m1, bank |-> {x1}]
MCSmall == {[c \in Courses |-> Small]}

\* Slots and learners are interchangeable.
Symmetry == Permutations(Slots) \cup Permutations(Users)

AnyOverlap == {{p, q} : p, q \in Operations}
=============================================================================
