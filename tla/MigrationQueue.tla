--------------------------- MODULE MigrationQueue ---------------------------
(***************************************************************************)
(* The life of a migration from proposal to completion: the schedulers,    *)
(* the utility hosts and the direct applier working on one `migrations`    *)
(* table, together with the expiry of stale migrations (go/app/logic.go),  *)
(* the chatops that touch a migration (go/app/chatops.go), and what the    *)
(* pull request workflow does to the table.                                *)
(***************************************************************************)
EXTENDS Scheduler, GhostExecutor, DirectApplier

CONSTANTS
    Forgetters,     \* `forget-pr` commands in progress at once
    Late,           \* migrations proposed by a later evaluation
    Closable,       \* pull requests that may be closed and reopened
    Retryable,      \* migrations a human may retry
    MarkedByHand,   \* migrations a human may mark complete
    CanStall        \* whether an executor may go staleMigrationMinutes without
                    \* a sign of life and still be alive

ASSUME QueueAssumption == Closable \subseteq PRs /\ CanStall \in BOOLEAN

VARIABLES
    forget,     \* per forget-pr command: the pull request whose statuses it has
                \* found forgettable, or NoPR
    retried,    \* history: migrations retried by a human
    marked      \* history: migrations marked complete by a human

vars == <<mig, pr, applied, ghostSched, directSched, script, applier,
          forget, retried, marked>>
workers == <<ghostSched, directSched, script, applier, forget>>
history == <<retried, marked>>

TypeOK ==
    /\ StoreTypeOK
    /\ SchedulerTypeOK
    /\ ExecutorTypeOK
    /\ ApplierTypeOK
    /\ forget \in [Forgetters -> PRs \cup {NoPR}]
    /\ retried \subseteq Migrations
    /\ marked \subseteq Migrations

(* Every pull request has been analyzed once: its migrations are proposed, *)
(* except those a later evaluation will propose.  An autorun repository    *)
(* gets the strategy of the statement, any other the manual one            *)
(* (EvaluateStrategy).                                                     *)
Init ==
    /\ \E auto \in SUBSET PRs :
         mig = [m \in Migrations |->
                  LET row == NewRow(IF PROf[m] \in auto THEN AutoStrategy[m] ELSE "manual")
                  IN  IF m \in Late THEN [row EXCEPT !.status = "none"] ELSE row]
    /\ pr \in [PRs -> [known : {TRUE}, open : {TRUE}, priority : Priorities]]
    /\ applied = {}
    /\ SchedulerInit
    /\ ExecutorInit
    /\ ApplierInit
    /\ forget = [f \in Forgetters |-> NoPR]
    /\ retried = {}
    /\ marked = {}

-----------------------------------------------------------------------------
(* Time *)

(* The row's liveness is being renewed, or will be in time.                *)
Attended(m) ==
    \/ \E c \in Scripts : script[c].pc # "idle" /\ HostOf[c] = mig[m].token
    \/ mig[m].token \in Appliers /\ applier[mig[m].token].pc # "idle"

LivenessAges(m) ==
    /\ mig[m].token # NoToken
    /\ ~mig[m].stale
    /\ CanStall \/ ~Attended(m)
    /\ mig' = [mig EXCEPT ![m].stale = TRUE]
    /\ UNCHANGED <<pr, applied, workers, history>>

ReadyAges(m) ==
    /\ mig[m].status = "ready"
    /\ mig[m].strategy = "gh-ost"   \* nothing else reads ready_timestamp
    /\ ~mig[m].waited
    /\ mig' = [mig EXCEPT ![m].waited = TRUE]
    /\ UNCHANGED <<pr, applied, workers, history>>

(* Fault: running migrations are not expired.                              *)
ExpireAllButRunning(in, to) ==
    /\ in # "running"
    /\ mig' = ExpireStaleMigrations(in, to)
    /\ UNCHANGED <<pr, applied, workers, history>>

(* Fault: the token is not cleaned up after an outcome.                    *)
ExpireBeforeOutcome(in, to) ==
    /\ in \in {"ready", "running"}
    /\ mig' = ExpireStaleMigrations(in, to)
    /\ UNCHANGED <<pr, applied, workers, history>>

(* The four statements a scheduler tick ends with.  Any of them may be the *)
(* last one a service makes before it dies, and ticks overlap.             *)
Expire(in, to) ==
    /\ mig' = ExpireStaleMigrations(in, to)
    /\ UNCHANGED <<pr, applied, workers, history>>

Expiry == \/ Expire("ready", "ready")
          \/ Expire("running", "failed")
          \/ Expire("complete", "complete")
          \/ Expire("failed", "failed")

-----------------------------------------------------------------------------
(* Chatops.  A command reads the row and then updates it under the guard   *)
(* of what it read, so a command that has an effect has the effect of this *)
(* single step, and one that was overtaken has none.                       *)

RetryMigration(m) ==
    /\ m \in Readable \cap Retryable
    /\ mig[m].status = "failed"
    /\ mig' = UpdateMigrationStatus(m, "failed", "queued", mig[m].strategy)
    /\ retried' = retried \cup {m}
    /\ UNCHANGED <<pr, applied, workers, marked>>

MarkCompleteByHand(m) ==
    /\ m \in Readable \cap MarkedByHand
    /\ mig[m].status # "complete"
    /\ mig' = UpdateMigrationStatus(m, mig[m].status, "complete", mig[m].strategy)
    /\ marked' = marked \cup {m}
    /\ UNCHANGED <<pr, applied, workers, retried>>

ApproveAutorun(m) ==
    /\ m \in Readable
    /\ mig[m].strategy = "manual"
    /\ mig' = UpdateMigrationStrategy(m, "manual", AutoStrategy[m])
    /\ UNCHANGED <<pr, applied, workers, history>>

PrioritizePR(p) ==
    /\ pr[p].known
    /\ \E n \in Priorities : pr' = [pr EXCEPT ![p].priority = n]
    /\ UNCHANGED <<mig, applied, workers, history>>

(* forgetPR: ForgetPR selects the statuses through backend.db, not through *)
(* the transaction, so the rows are not locked when it deletes them.       *)
ForgetReads(f, p) ==
    /\ forget[f] = NoPR
    /\ pr[p].known
    /\ \A m \in MigrationsOf(p) : mig[m].status \notin Unforgettable
    /\ forget' = [forget EXCEPT ![f] = p]
    /\ UNCHANGED <<mig, pr, applied, ghostSched, directSched, script, applier, history>>

(* Ids are not used twice: another command or a direct scheduler that has  *)
(* this pull request in hand will find no row for it.                      *)
ForgetDeletes(f) ==
    LET p == forget[f] IN
    /\ p # NoPR
    /\ mig' = DeletePRMigrations(p)
    /\ pr' = [pr EXCEPT ![p].known = FALSE]
    /\ forget' = [g \in Forgetters |-> IF forget[g] = p THEN NoPR ELSE forget[g]]
    /\ directSched' = [s \in DirectSchedulers |->
                         IF directSched[s] = p THEN NoPR ELSE directSched[s]]
    /\ UNCHANGED <<applied, ghostSched, script, applier, history>>

-----------------------------------------------------------------------------
(* The pull request workflow, as far as this table sees it: its workers    *)
(* act on copies of a pull request that may be old by now, so nothing but  *)
(* the conditions of the statements themselves holds when they write.      *)

(* probePR, SubmitPR: is_open as GitHub has it, the priority of the copy;  *)
(* a row that was forgotten is inserted again.                             *)
ProbePR(p) ==
    /\ \E open \in (IF p \in Closable THEN BOOLEAN ELSE {TRUE}), n \in Priorities :
         pr' = [pr EXCEPT ![p] = [known |-> TRUE, open |-> open, priority |-> n]]
    /\ UNCHANGED <<mig, applied, workers, history>>

(* evaluatePRMigration withdraws what was proposed before ...              *)
WithdrawPR(p) ==
    /\ mig' = CancelPRMigrations(p)
    /\ UNCHANGED <<pr, applied, workers, history>>

(* ... and inserts the migrations of the new evaluation one at a time.  No *)
(* reading returns a row inserted for a pull request that was forgotten    *)
(* meanwhile.  When that comes back it has another id and not this row,    *)
(* which here it may have again.                                           *)
ProposeMigration(m) ==
    /\ m \in Late
    /\ mig[m].status = "none"
    /\ \E strategy \in {"manual", AutoStrategy[m]} : mig' = InsertMigration(m, strategy)
    /\ UNCHANGED <<pr, applied, workers, history>>

QueuePR(p) ==
    /\ mig' = QueuePRMigrations(p)
    /\ UNCHANGED <<pr, applied, workers, history>>

-----------------------------------------------------------------------------
Schedule == SchedulerNext /\ UNCHANGED <<script, applier, forget, history>>
RunGhost == ExecutorNext /\ UNCHANGED <<ghostSched, directSched, applier, forget, history>>
RunDirect == ApplierNext /\ UNCHANGED <<ghostSched, directSched, script, forget, history>>

Chatops == \/ \E m \in Migrations : RetryMigration(m) \/ MarkCompleteByHand(m)
                                    \/ ApproveAutorun(m)
           \/ \E p \in PRs : PrioritizePR(p) \/ \E f \in Forgetters : ForgetReads(f, p)
           \/ \E f \in Forgetters : ForgetDeletes(f)

Workflow == \/ \E p \in PRs : ProbePR(p) \/ WithdrawPR(p) \/ QueuePR(p)
            \/ \E m \in Migrations : ProposeMigration(m)

Time == (\E m \in Migrations : LivenessAges(m) \/ ReadyAges(m)) \/ Expiry

Next == Schedule \/ RunGhost \/ RunDirect \/ Chatops \/ Workflow \/ Time

Spec == Init /\ [][Next]_vars

(* Time passes, and some leader's scheduler tick comes around.  Nothing is *)
(* assumed of the executors: they may stop anywhere.                       *)
FairSpec ==
    /\ Spec
    /\ \A m \in Migrations : WF_vars(LivenessAges(m))
    /\ WF_vars(Expire("ready", "ready"))
    /\ WF_vars(Expire("running", "failed"))
    /\ WF_vars(Expire("complete", "complete"))
    /\ WF_vars(Expire("failed", "failed"))

-----------------------------------------------------------------------------
(* What must never happen *)

(* A token is on one row at most.  Every hook finds its row by the token   *)
(* alone (ReadMigrationByToken takes the first), so a host name on two     *)
(* rows would let one migration's gh-ost move the other's status.          *)
TokenUnique == \A m, n \in Readable :
    mig[m].token = mig[n].token /\ mig[m].token # NoToken => m = n

(* scheduler.go:102: "We may only run a single gh-ost migration on same    *)
(* cluster:shard combination": at most one is ready or running, although   *)
(* the scheduler decides on a snapshot and writes later.                   *)
OneGhostPerTopology == \A m, n \in Migrations :
    /\ mig[m].strategy = "gh-ost" /\ mig[m].status \in {"ready", "running"}
    /\ mig[n].strategy = "gh-ost" /\ mig[n].status \in {"ready", "running"}
    /\ TopologyOf[m] = TopologyOf[n]
    => m = n

(* migrations.md: `complete` is "when the migration is successful and the  *)
(* schema change has been applied", unless a human said so: no success     *)
(* hook or direct applier ever completes a row other than the one whose    *)
(* change it made.                                                         *)
CompleteMeansApplied == \A m \in Migrations :
    mig[m].status = "complete" => m \in applied \cup marked

(* Whoever is changing the schema for m at this moment.                    *)
Executing(m) ==
    {c \in Scripts : script[c].pc \in {"copying", "beating"} /\ script[c].mig = m}
    \cup {a \in Appliers : applier[a].pc = "running" /\ applier[a].mig = m}

(* how-gh-ost.md: hosts compete for a migration, "one and only one will    *)
(* win": two executors never work on one migration at the same time,       *)
(* whatever expired, was retried or was marked complete in between.        *)
OneExecutor == \A m \in Migrations : Cardinality(Executing(m)) <= 1

(* A schema change is under way only while the table says `running`: what  *)
(* conflict detection, forget-pr and the chatops rely on.                  *)
ExecutionIsRecorded == \A m \in Migrations :
    Executing(m) # {} => mig[m].status = "running"

(* A running row has the token by which expiry can fail it once its        *)
(* executor is gone (ExpireStaleMigrations asks for token != '').          *)
RunningHasToken == \A m \in Migrations :
    mig[m].status = "running" => mig[m].token # NoToken

-----------------------------------------------------------------------------
(* What a step may never do *)

(* An owned migration is never taken over: the token is given up first, by *)
(* an outcome or by expiry, and only then acquired by another.             *)
NoTakeover == [][\A m \in Migrations :
    mig[m].token # NoToken /\ mig'[m].token # mig[m].token
        => mig'[m].token = NoToken]_vars

(* scheduler.go:85: direct migrations are scheduled for a pull request     *)
(* they will complete: when one becomes ready, every other migration of    *)
(* the pull request is complete, withdrawn or direct itself, though the    *)
(* decision was taken on an earlier snapshot.                              *)
DirectOnlyToFinish == [][\A m \in Migrations :
    /\ mig[m].strategy = "direct"
    /\ mig[m].status = "queued" /\ mig'[m].status = "ready"
    => \A n \in MigrationsOf(PROf[m]) :
         \/ mig[n].strategy = "direct"
         \/ mig[n].status \in {"complete", "cancelled"} \/ ~Exists(n)]_vars

(* chatops.md on forget-pr: "under the condition that none of its          *)
(* migrations have begun".                                                 *)
ForgetsOnlyUnbegun == [][\A m \in Migrations :
    mig'[m].status = "deleted" /\ mig[m].status # "deleted"
        => mig[m].status \notin Unforgettable]_vars

(* direct_applier.go:17: the applier "applies direct migrations in ready   *)
(* state": when it goes on to execute, the row it owned was still ready.   *)
AppliesOnlyReady == [][\A a \in Appliers :
    applier[a].pc = "owned" /\ applier'[a].pc = "running"
        => mig[applier[a].mig].status = "ready"]_vars

-----------------------------------------------------------------------------
(* What must eventually happen, under FairSpec *)

(* migrations.md: a running migration has "been lively in the past few     *)
(* minutes": one whose executor is gone does not stay running.             *)
DeadRunningFails == \A m \in Migrations :
    mig[m].status = "running" /\ ~Attended(m) ~> mig[m].status # "running"

(* logic.go:90 "double-ensure cleanup of token": once its holder is gone,  *)
(* no token keeps its host from owning again, unless a human has put the   *)
(* migration back in the queue meanwhile.                                  *)
AbandonedIsReleased == \A m \in Migrations :
    /\ mig[m].status \in {"ready", "running", "complete", "failed"}
    /\ mig[m].token # NoToken /\ ~Attended(m)
    ~> mig[m].token = NoToken \/ mig[m].status = "queued"

-----------------------------------------------------------------------------
(* The queue implements the life cycle of a single migration. *)

Lifecycle == INSTANCE MigrationLifecycle WITH
    Subjects <- Migrations, Holders <- Tokens, Nobody <- NoToken,
    phase <- [m \in Migrations |-> mig[m].status],
    holder <- [m \in Migrations |-> mig[m].token],
    changed <- applied, vouched <- marked

ImplementsLifecycle == Lifecycle!LifecycleSpec
=============================================================================
