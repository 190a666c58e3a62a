--------------------------- MODULE MCEnrollment ---------------------------
(***************************************************************************)
(* Two courses and four bundles: the first; one that drops a lesson, moves *)
(* another into a new module and withdraws the second course; one that     *)
(* holds the second course as a draft and brings the lesson back; and one  *)
(* that load_catalog refuses.                                              *)
(***************************************************************************)
EXTENDS Enrollment

CONSTANTS a, b, m1, m2, l1, l2, en, es

MCSlugOrder == (a :> 1) @@ (b :> 2)
MCTitleOrder == (a :> 2) @@ (b :> 1)
MCOffered == (a :> {en, es}) @@ (b :> {es})
MCActiveChoices == {{a}, {b}, {a, b}}
MCReadingChoices == {<< >>}

In(parent, order) == [parent |-> parent, order |-> order]
Alone == [published |-> TRUE, tree |-> m1 :> In(Root, 1)]

Both == [sound |-> TRUE, courses |->
  (a :> [published |-> TRUE,
         tree |-> (m1 :> In(Root, 1)) @@ (l1 :> In(m1, 1)) @@ (l2 :> In(m1, 2))])
  @@ (b :> Alone)]
OneMoved == [sound |-> TRUE, courses |->
  (a :> [published |-> TRUE, tree |-> (m2 :> In(Root, 1)) @@ (l2 :> In(m2, 1))])]
Draft == [sound |-> TRUE, courses |->
  (b :> [Alone EXCEPT !.published = FALSE])
  @@ (a :> [published |-> TRUE,
            tree |-> (m1 :> In(Root, 2)) @@ (m2 :> In(Root, 1))
                     @@ (l1 :> In(m1, 1)) @@ (l2 :> In(m2, 1))])]
Broken == [Draft EXCEPT !.sound = FALSE]

MCBundles == {Both, OneMoved, Draft, Broken}
============================================================================
