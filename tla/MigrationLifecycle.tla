------------------------- MODULE MigrationLifecycle -------------------------
(***************************************************************************)
(* What the queue promises of every single migration, whoever acts on it   *)
(* and in whatever order: the states of docs/migrations.md, the holder     *)
(* whose token is on the row, and the schema change itself.  Steps of many *)
(* migrations may coincide (one SQL statement updates them all), so a step *)
(* of the system is one step, or none, of each.                            *)
(***************************************************************************)
CONSTANTS Subjects, Holders, Nobody

VARIABLES
    phase,      \* the status of each migration
    holder,     \* who is assigned to run it
    changed,    \* the migrations whose schema change has been made
    vouched     \* the migrations a human has declared complete

lifecycle == <<phase, holder, changed, vouched>>

LifecycleInit ==
    /\ phase \in [Subjects -> {"none", "proposed"}]
    /\ holder = [m \in Subjects |-> Nobody]
    /\ changed = {}
    /\ vouched = {}

Moves(m, from, to) == phase[m] \in from /\ phase'[m] = to
Keeps(m)  == holder'[m] = holder[m]
Frees(m)  == holder'[m] = Nobody

Proposed(m)  == Moves(m, {"none"}, "proposed") /\ Frees(m)
Approved(m)  == Moves(m, {"proposed"}, "queued") /\ Keeps(m)
Withdrawn(m) == Moves(m, {"proposed", "queued"}, "cancelled") /\ Keeps(m)
Scheduled(m) == Moves(m, {"queued"}, "ready") /\ Keeps(m)
Acquired(m)  == phase'[m] = phase[m] /\ holder[m] = Nobody /\ holder'[m] \in Holders
Started(m)   == Moves(m, {"ready"}, "running") /\ Keeps(m)
Succeeded(m) == Moves(m, {"running"}, "complete") /\ Frees(m) /\ m \in changed
Failed(m)    == Moves(m, {"ready", "running"}, "failed") /\ Frees(m)
Lapsed(m)    == phase'[m] = phase[m] /\ phase[m] \in {"ready", "complete", "failed"} /\ Frees(m)
Retried(m)   == Moves(m, {"failed"}, "queued") /\ Keeps(m)
Vouched(m)   == phase[m] \notin {"none", "deleted", "cancelled", "complete"}
                /\ phase'[m] = "complete" /\ Frees(m) /\ m \in vouched'
Forgotten(m) == phase[m] # "none" /\ phase'[m] = "deleted" /\ Frees(m)
Idle(m)      == phase'[m] = phase[m] /\ Keeps(m)

Step(m) == \/ Proposed(m) \/ Approved(m) \/ Withdrawn(m) \/ Scheduled(m)
           \/ Acquired(m) \/ Started(m) \/ Succeeded(m) \/ Failed(m) \/ Lapsed(m)
           \/ Retried(m) \/ Vouched(m) \/ Forgotten(m) \/ Idle(m)

LifecycleNext == /\ \A m \in Subjects : Step(m)
                 /\ changed \subseteq changed'
                 /\ vouched \subseteq vouched'

LifecycleSpec == LifecycleInit /\ [][LifecycleNext]_lifecycle
=============================================================================
