-------------------------- MODULE MCMigrationQueue --------------------------
(* Instances of MigrationQueue for TLC: each .cfg picks from these values. *)
EXTENDS MigrationQueue, TLC

CONSTANTS m1, m2, m3, p1, p2, t1, t2, h1, h2, a1, a2, c1, c2, siteA

(* One pull request with everything in it, or one pull request each.       *)
PRofOne == [m \in Migrations |-> p1]
PRofEach == [m \in Migrations |-> IF m = m1 THEN p1 ELSE p2]
Ids == [p \in PRs |-> IF p = p1 THEN 1 ELSE 2]

SameTopology == [m \in Migrations |-> t1]
LastElsewhere == [m \in Migrations |-> IF m = m3 THEN t2 ELSE t1]

AllGhost == [m \in Migrations |-> "gh-ost"]
AllDirect == [m \in Migrations |-> "direct"]
LastDirect == [m \in Migrations |-> IF m = m3 THEN "direct" ELSE "gh-ost"]

(* A run of the script on each host, or two on the same.                   *)
OnEachHost == [c \in Scripts |-> IF c = c1 THEN h1 ELSE h2]
OnOneHost == [c \in Scripts |-> h1]
OneSite == [c \in Scripts |-> siteA]
=============================================================================
