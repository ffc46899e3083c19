----------------------------- MODULE Scheduler -----------------------------
(***************************************************************************)
(* go/app/scheduler.go: every scheduler tick of a leader starts one        *)
(* goroutine for the direct migrations and one for gh-ost.  Each reads all *)
(* migrations of open pull requests, decides on that snapshot, and writes  *)
(* later: nothing is locked in between, and goroutines of successive ticks *)
(* (or of two services that both believe they lead) may overlap.           *)
(***************************************************************************)
EXTENDS MigrationStore

CONSTANTS
    GhostSchedulers,    \* scheduleNextGhostMigration goroutines alive at once
    DirectSchedulers,   \* scheduleNextDirectMigrations goroutines alive at once
    NoMigration, NoPR

ASSUME SchedulerAssumption == NoMigration \notin Migrations /\ NoPR \notin PRs

VARIABLES
    ghostSched,     \* per goroutine: its place, and the migration it picked
    directSched     \* per goroutine: the pull request it picked, or NoPR

GhostSchedIdle == [pc |-> "idle", mig |-> NoMigration]

SchedulerTypeOK ==
    /\ ghostSched \in [GhostSchedulers ->
                         {GhostSchedIdle} \cup [pc : {"picked", "hinted"}, mig : Migrations]]
    /\ directSched \in [DirectSchedulers -> PRs \cup {NoPR}]

SchedulerInit ==
    /\ ghostSched = [s \in GhostSchedulers |-> GhostSchedIdle]
    /\ directSched = [s \in DirectSchedulers |-> NoPR]

-----------------------------------------------------------------------------
(* The decisions, taken on the snapshot of open migrations.                *)

(* Fault: a ready migration is not yet a conflict.                         *)
ConflictsWithRunning(m) ==
    \E n \in OpenMigrations \ {m} : /\ TopologyOf[n] = TopologyOf[m]
                                    /\ mig[n].status = "running"

Conflicts(m) ==
    \E n \in OpenMigrations \ {m} : /\ TopologyOf[n] = TopologyOf[m]
                                    /\ mig[n].status \in {"ready", "running"}

Schedulable ==
    {m \in OpenMigrations : Matches(m, "queued", "gh-ost") /\ ~Conflicts(m)}

(* Fault: the rest of the pull request is not counted.                     *)
HasQueuedDirect(p) ==
    \E m \in MigrationsOf(p) \cap OpenMigrations : Matches(m, "queued", "direct")

(* Running the queued direct migrations leaves nothing else to do in p.    *)
FulfillableByDirect(p) ==
    LET rows == MigrationsOf(p) \cap OpenMigrations IN
    /\ \E m \in rows : Matches(m, "queued", "direct")
    /\ \A m \in rows : \/ Matches(m, "queued", "direct")
                       \/ Matches(m, "ready", "direct")
                       \/ mig[m].status = "complete"

FulfillablePRs == {p \in PRs : FulfillableByDirect(p)}

(* The rows of a pull request come together in the order of the reading.   *)
FirstPRs == {p \in FulfillablePRs : \A q \in FulfillablePRs :
                ~(\E m \in MigrationsOf(p), n \in MigrationsOf(q) : Before(n, m))}

-----------------------------------------------------------------------------
(* scheduleNextGhostMigration *)

PickGhost(s) ==
    /\ ghostSched[s].pc = "idle"
    /\ \E m \in FirstOf(Schedulable) :
         ghostSched' = [ghostSched EXCEPT ![s] = [pc |-> "picked", mig |-> m]]
    /\ UNCHANGED <<mig, pr, applied, directSched>>

(* getMigrationMasterInstance finds the master's site, or fails and the    *)
(* tick ends; the site is then written as token_hint.                      *)
HintGhost(s) ==
    /\ ghostSched[s].pc = "picked"
    /\ \E site \in Sites : mig' = UpdateMigrationTokenHint(ghostSched[s].mig, site)
    /\ ghostSched' = [ghostSched EXCEPT ![s].pc = "hinted"]
    /\ UNCHANGED <<pr, applied, directSched>>

MarkGhostReady(s) ==
    /\ ghostSched[s].pc = "hinted"
    /\ mig' = UpdateMigrationStatus(ghostSched[s].mig, "queued", "ready", "gh-ost")
    /\ ghostSched' = [ghostSched EXCEPT ![s] = GhostSchedIdle]
    /\ UNCHANGED <<pr, applied, directSched>>

(* An error on the way, or the death of the service.                       *)
AbandonGhost(s) ==
    /\ ghostSched[s].pc # "idle"
    /\ ghostSched' = [ghostSched EXCEPT ![s] = GhostSchedIdle]
    /\ UNCHANGED <<mig, pr, applied, directSched>>

(* scheduleNextDirectMigrations *)

PickDirect(s) ==
    /\ directSched[s] = NoPR
    /\ \E p \in FirstPRs : directSched' = [directSched EXCEPT ![s] = p]
    /\ UNCHANGED <<mig, pr, applied, ghostSched>>

MarkDirectReady(s) ==
    /\ directSched[s] # NoPR
    /\ mig' = UpdatePRMigrationsStatus(directSched[s], "queued", "ready", "direct")
    /\ directSched' = [directSched EXCEPT ![s] = NoPR]
    /\ UNCHANGED <<pr, applied, ghostSched>>

AbandonDirect(s) ==
    /\ directSched[s] # NoPR
    /\ directSched' = [directSched EXCEPT ![s] = NoPR]
    /\ UNCHANGED <<mig, pr, applied, ghostSched>>

SchedulerNext ==
    \/ \E s \in GhostSchedulers : \/ PickGhost(s) \/ HintGhost(s)
                                  \/ MarkGhostReady(s) \/ AbandonGhost(s)
    \/ \E s \in DirectSchedulers : \/ PickDirect(s) \/ MarkDirectReady(s)
                                   \/ AbandonDirect(s)
=============================================================================
