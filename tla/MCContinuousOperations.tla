----------------------- MODULE MCContinuousOperations -----------------------
(* Instances of ContinuousOperations for TLC, with two services at most.   *)
EXTENDS ContinuousOperations, TLC

CONSTANTS m1, m2, p1, t1, h1, a1, c1, siteA, v1, v2, s1, s2, d1, w1, w2, q1

OnePR == [m \in Migrations |-> p1]
OneId == [p \in PRs |-> 1]
OneTopology == [m \in Migrations |-> t1]
AllGhost == [m \in Migrations |-> "gh-ost"]
AllDirect == [m \in Migrations |-> "direct"]
OnOneHost == [c \in Scripts |-> h1]
OneSite == [c \in Scripts |-> siteA]

(* Nothing tells the migrations of an instance apart.                      *)
Symmetry == Permutations(Migrations)

(* The second of a kind belongs to the second service.                     *)
Services12 == [g \in Goroutines |-> IF g \in {s2, w2} THEN v2 ELSE v1]
=============================================================================
