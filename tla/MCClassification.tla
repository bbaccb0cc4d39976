-------------------------- MODULE MCClassification --------------------------
(***************************************************************************)
(* Instances of ClassificationSystem for TLC.                              *)
(***************************************************************************)
EXTENDS ClassificationSystem, TLC

CONSTANTS j1, j2, b1, b2, u1, v1, w1

\* The second version of the second rule has a category outside the enum.
SecondUnusable == {<<2, 2>>}
\* Rule 1 as narrowed by its second version covers nothing more; every other
\* version covers all emails.
Narrowed == [r \in Rules |-> [v \in Versions |-> IF r = 1 /\ v = 2 THEN {} ELSE Emails]]
\* A run and its undo with two of a job, a review and a rule write; two jobs
\* with a rule write or a run; two runs with an undo.
Together == {{j1, b1, u1, w1}, {j1, b1, u1, v1}, {b1, u1, v1, w1},
             {j1, j2, w1}, {j1, j2, b1}, {b1, b2, u1}}
=============================================================================
