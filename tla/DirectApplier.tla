--------------------------- MODULE DirectApplier ---------------------------
(***************************************************************************)
(* go/app/direct_applier.go: a goroutine per tick of a leader that owns    *)
(* one ready direct migration and executes its statement on the cluster's  *)
(* master.  The token is unique to the goroutine (PrettyUniqueToken): a    *)
(* member of Appliers stands for a token, taken by a new goroutine only    *)
(* when no row holds it.                                                   *)
(*                                                                         *)
(* The result of the two status updates is not looked at: only their       *)
(* errors are, and an update that matches no row is not one.               *)
(***************************************************************************)
EXTENDS MigrationStore

CONSTANTS Appliers, NotOwning

ASSUME ApplierAssumption == Appliers \subseteq Tokens /\ NotOwning \notin Migrations

VARIABLE applier    \* per goroutine: its place and the migration it read back

ApplierIdle == [pc |-> "idle", mig |-> NotOwning]

ApplierTypeOK ==
    applier \in [Appliers ->
                    [pc : {"idle", "owning"}, mig : {NotOwning}]
                    \cup [pc : {"owned", "running", "executed", "errored"}, mig : Migrations]]

ApplierInit == applier = [a \in Appliers |-> ApplierIdle]

Advance(a, pc) == applier' = [applier EXCEPT ![a].pc = pc]
Finish(a) == applier' = [applier EXCEPT ![a] = ApplierIdle]

-----------------------------------------------------------------------------
(* OwnReadyMigration: the update, then the reading back by token.          *)

OwnReady(a) ==
    /\ applier[a].pc = "idle"
    /\ \A m \in Migrations : mig[m].token # a
    /\ \E m \in OwnableReady("direct") : mig' = [mig EXCEPT ![m] = Assigned(m, a)]
    /\ Advance(a, "owning")
    /\ UNCHANGED <<pr, applied>>

ReadBack(a) ==
    /\ applier[a].pc = "owning"
    /\ \E m \in FirstOf(ByToken(a)) :
         applier' = [applier EXCEPT ![a] = [pc |-> "owned", mig |-> m]]
    /\ UNCHANGED <<mig, pr, applied>>

ReadNothingBack(a) ==
    /\ applier[a].pc = "owning"
    /\ ByToken(a) = {}
    /\ Finish(a)
    /\ UNCHANGED <<mig, pr, applied>>

MarkRunning(a) ==
    /\ applier[a].pc = "owned"
    /\ mig' = UpdateMigrationStatus(applier[a].mig, "ready", "running", "direct")
    /\ Advance(a, "running")
    /\ UNCHANGED <<pr, applied>>

(* topology.Exec, the discovery of the cluster and the ping behind it.     *)
Execute(a) ==
    /\ applier[a].pc = "running"
    /\ applied' = applied \cup {applier[a].mig}
    /\ Advance(a, "executed")
    /\ UNCHANGED <<mig, pr>>

ExecuteErrs(a) ==
    /\ applier[a].pc = "running"
    /\ Advance(a, "errored")
    /\ UNCHANGED <<mig, pr, applied>>

MarkComplete(a) ==
    /\ applier[a].pc = "executed"
    /\ mig' = UpdateMigrationStatus(applier[a].mig, "running", "complete", "direct")
    /\ Finish(a)
    /\ UNCHANGED <<pr, applied>>

MarkFailed(a) ==
    /\ applier[a].pc = "errored"
    /\ mig' = UpdateMigrationStatus(applier[a].mig, "running", "failed", "direct")
    /\ Finish(a)
    /\ UNCHANGED <<pr, applied>>

(* The early returns (backend error, unknown cluster, master unreachable   *)
(* or read only) and the death of the service: nothing is undone.          *)
ApplierGivesUp(a) ==
    /\ applier[a].pc # "idle"
    /\ Finish(a)
    /\ UNCHANGED <<mig, pr, applied>>

ApplierStep(a) ==
    \/ OwnReady(a) \/ ReadBack(a) \/ ReadNothingBack(a) \/ MarkRunning(a)
    \/ Execute(a) \/ ExecuteErrs(a) \/ MarkComplete(a) \/ MarkFailed(a)
    \/ ApplierGivesUp(a)

ApplierNext == \E a \in Appliers : ApplierStep(a)
=============================================================================
