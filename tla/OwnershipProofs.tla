--------------------------- MODULE OwnershipProofs ---------------------------
(***************************************************************************)
(* Who holds a migration, for any number of hosts, appliers, schedulers    *)
(* and forget-pr commands, any stall, any expiry and any human             *)
(* intervention: the queue implements MigrationLifecycle, a token is on    *)
(* one row, an owned row is not taken over, and nothing is complete but    *)
(* what was applied or vouched for.                                        *)
(*                                                                         *)
(* All of it rests on one assumption about the utility hosts: a host runs  *)
(* one script at a time, and its name is no token of a direct applier.     *)
(***************************************************************************)
EXTENDS QueueProofs

OneRunPerHost ==
    /\ \A c, d \in Scripts : HostOf[c] = HostOf[d] => c = d
    /\ \A c \in Scripts : HostOf[c] \notin Appliers

(* A row that readMigrations returns, if its pull request is known.        *)
Live(m) == Exists(m) /\ mig[m].status # "cancelled"

(* A row that a reading has returned: if it is there still, so is its pull *)
(* request, since forget-pr deletes both.                                  *)
Seen(m) == mig[m].status = "deleted" \/ (Exists(m) /\ pr[PROf[m]].known)

(* The hosts have to do with no other rows: a row inserted for a pull      *)
(* request that was forgotten is none of theirs.                           *)
KnownRows ==
    /\ \A c \in Scripts, m \in Migrations : mig[m].token = HostOf[c] => Seen(m)
    /\ \A c \in Scripts : script[c].pc = "picked" => Seen(script[c].mig)

OneHolder == \A m, n \in Migrations :
    /\ Live(m) /\ Live(n)
    /\ mig[m].token = mig[n].token /\ mig[m].token # NoToken
    => m = n

(* A script that is under way finds nothing by its token but the migration *)
(* it has in hand, and nothing at all before it has owned one.             *)
HoldsOnly == \A c \in Scripts : script[c].pc # "idle" =>
    \A m \in Migrations : Live(m) /\ mig[m].token = HostOf[c] =>
        script[c].mig = m /\ script[c].pc \notin {"checked", "picked"}

HookHasRow == \A c \in Scripts :
    /\ script[c].pc \in HookKinds => script[c].row = script[c].mig
    /\ script[c].pc = "succeeding" => script[c].seen = "running"

ChangeMade ==
    /\ \A c \in Scripts : script[c].pc \in {"cutover", "succeeding"}
                            => script[c].mig \in applied
    /\ \A a \in Appliers : applier[a].pc = "executed" => applier[a].mig \in applied

OwnershipInv == TypeOK /\ KnownRows /\ OneHolder /\ HoldsOnly /\ HookHasRow /\ ChangeMade

-----------------------------------------------------------------------------
(* The table after a step: what becomes of every row, in the terms of the  *)
(* life cycle, and that no token was given out.                            *)

RowsStep == \A m \in Migrations : Lifecycle!Step(m)

NoneAcquires == \A m \in Migrations : mig[m].token = NoToken => mig'[m].token = NoToken

(* Until HIDE below, a step of the life cycle is read off its definitions. *)
USE DEF Lifecycle!Step, Lifecycle!Moves, Lifecycle!Keeps, Lifecycle!Frees,
        Lifecycle!Proposed, Lifecycle!Approved, Lifecycle!Withdrawn, Lifecycle!Scheduled,
        Lifecycle!Acquired, Lifecycle!Started, Lifecycle!Succeeded, Lifecycle!Failed,
        Lifecycle!Lapsed, Lifecycle!Retried, Lifecycle!Vouched, Lifecycle!Forgotten,
        Lifecycle!Idle

(* A step that leaves the table alone.                                     *)
LEMMA SameRows == UNCHANGED mig => RowsStep /\ NoneAcquires
BY DEF RowsStep, NoneAcquires

(* One row is updated: the others stay.                                    *)
LEMMA OneRow ==
    ASSUME TypeOK, NEW m \in Migrations, NEW row, mig' = [mig EXCEPT ![m] = row],
           \/ row.status = mig[m].status /\ row.token = mig[m].token
           \/ mig[m].status = "none" /\ row.status = "proposed" /\ row.token = NoToken
           \/ mig[m].status = "queued" /\ row.status = "ready" /\ row.token = mig[m].token
           \/ mig[m].status = "ready" /\ row.status = "running" /\ row.token = mig[m].token
           \/ mig[m].status = "failed" /\ row.status = "queued" /\ row.token = mig[m].token
           \/ mig[m].status \in {"ready", "running"} /\ row.status = "failed" /\ row.token = NoToken
           \/ mig[m].status = "running" /\ row.status = "complete" /\ row.token = NoToken
              /\ m \in applied
           \/ mig[m].status \notin {"none", "deleted", "cancelled", "complete"}
              /\ row.status = "complete" /\ row.token = NoToken /\ m \in marked'
    PROVE  RowsStep /\ NoneAcquires
<1>1. \A n \in Migrations : n # m => mig'[n] = mig[n]
  BY DEF TypeOK, StoreTypeOK
<1>2. mig'[m] = row
  BY DEF TypeOK, StoreTypeOK
<1>3. \A n \in Migrations : n # m => Lifecycle!Step(n)
  BY <1>1
<1>4. Lifecycle!Step(m)
  BY <1>2
<1>5. NoneAcquires
  BY <1>1, <1>2 DEF NoneAcquires
<1> QED
  BY <1>3, <1>4, <1>5 DEF RowsStep

(* A row is owned: it had no token.                                        *)
LEMMA OwnedRow ==
    ASSUME TypeOK, NEW m \in Migrations, NEW t \in Tokens, mig[m].token = NoToken,
           mig' = [mig EXCEPT ![m] = Assigned(m, t)]
    PROVE  /\ RowsStep
           /\ mig'[m].token = t /\ mig'[m].status = mig[m].status
           /\ \A n \in Migrations : n # m => mig'[n] = mig[n]
<1>1. \A n \in Migrations : n # m => mig'[n] = mig[n]
  BY DEF TypeOK, StoreTypeOK
<1>2. mig'[m].token = t /\ mig'[m].status = mig[m].status
  BY DEF TypeOK, StoreTypeOK, Row, Assigned
<1>3. \A n \in Migrations : n # m => Lifecycle!Step(n)
  BY <1>1
<1>4. Lifecycle!Step(m)
  BY <1>2
<1> QED
  BY <1>1, <1>2, <1>3, <1>4 DEF RowsStep

(* The statements that update many rows at once.                           *)
LEMMA ManyRows ==
    ASSUME TypeOK, NEW p,
           \/ \E strategy : mig' = UpdatePRMigrationsStatus(p, "queued", "ready", strategy)
           \/ mig' = ExpireStaleMigrations("ready", "ready")
           \/ mig' = ExpireStaleMigrations("running", "failed")
           \/ mig' = ExpireStaleMigrations("complete", "complete")
           \/ mig' = ExpireStaleMigrations("failed", "failed")
           \/ mig' = QueuePRMigrations(p)
           \/ mig' = CancelPRMigrations(p)
           \/ mig' = DeletePRMigrations(p)
    PROVE  RowsStep /\ NoneAcquires
<1> SUFFICES ASSUME NEW m \in Migrations
             PROVE  /\ Lifecycle!Step(m)
                    /\ mig[m].token = NoToken => mig'[m].token = NoToken
  BY DEF RowsStep, NoneAcquires
<1>0. mig[m] \in Row
  BY DEF TypeOK, StoreTypeOK
<1> USE <1>0 DEF Row
<1>1. CASE \E strategy : mig' = UpdatePRMigrationsStatus(p, "queued", "ready", strategy)
  BY <1>1 DEF UpdatePRMigrationsStatus, Matches
<1>2. CASE \E in \in {"ready", "complete", "failed"} : mig' = ExpireStaleMigrations(in, in)
  BY <1>2 DEF ExpireStaleMigrations
<1>3. CASE mig' = ExpireStaleMigrations("running", "failed")
  BY <1>3 DEF ExpireStaleMigrations
<1>4. CASE mig' = QueuePRMigrations(p)
  BY <1>4 DEF QueuePRMigrations
<1>5. CASE mig' = CancelPRMigrations(p)
  BY <1>5 DEF CancelPRMigrations
<1>6. CASE mig' = DeletePRMigrations(p)
  BY <1>6 DEF DeletePRMigrations, Exists, NoRowStatuses
<1> QED
  BY <1>1, <1>2, <1>3, <1>4, <1>5, <1>6

(* What a step of the life cycle leaves behind it, in a state that has     *)
(* been live or has no token given out.                                    *)
LEMMA StepKeeps ==
    ASSUME NEW m \in Migrations, Lifecycle!Step(m)
    PROVE  /\ mig[m].status = "deleted" => mig'[m].status = "deleted"
           /\ Exists(m) => Exists(m)' \/ mig'[m].status = "deleted"
           /\ Live(m)' /\ mig'[m].token # NoToken
                => Live(m) /\ (mig[m].token = NoToken \/ mig'[m].token = mig[m].token)
           /\ mig[m].token \notin {NoToken, mig'[m].token} => mig'[m].token = NoToken
           /\ mig'[m].status = "complete" =>
                mig[m].status = "complete" \/ m \in applied \/ m \in marked'
BY DEF Exists, Live, NoRowStatuses

HIDE DEF Lifecycle!Step, Lifecycle!Moves, Lifecycle!Keeps, Lifecycle!Frees,
         Lifecycle!Proposed, Lifecycle!Approved, Lifecycle!Withdrawn, Lifecycle!Scheduled,
         Lifecycle!Acquired, Lifecycle!Started, Lifecycle!Succeeded, Lifecycle!Failed,
         Lifecycle!Lapsed, Lifecycle!Retried, Lifecycle!Vouched, Lifecycle!Forgotten,
         Lifecycle!Idle

(* UpdateMigrationStatus changes nothing or takes one row along an edge of *)
(* the life cycle.                                                         *)
LEMMA StatusRows ==
    ASSUME TypeOK, NEW m \in Migrations, NEW from, NEW to \in Statuses, NEW strategy,
           mig' = UpdateMigrationStatus(m, from, to, strategy),
           \/ from = "queued" /\ to = "ready"
           \/ from \in {"ready", "running"} /\ to \in {"running", "failed"}
           \/ from = "running" /\ to = "complete" /\ m \in applied
           \/ from = "failed" /\ to = "queued"
           \/ /\ from \notin {"none", "deleted", "cancelled", "complete"}
              /\ to = "complete" /\ m \in marked'
    PROVE  RowsStep /\ NoneAcquires
<1> DEFINE row == WithStatus(mig[m], to)
<1>1. mig[m] \in Row
  BY DEF TypeOK, StoreTypeOK
<1>2. /\ row.status = to
      /\ row.token = IF to \in {"complete", "failed"} THEN NoToken ELSE mig[m].token
  BY <1>1 DEF WithStatus, Row
<1>3. CASE ~Matches(m, from, strategy)
  BY <1>3, SameRows DEF UpdateMigrationStatus
<1>4. CASE Matches(m, from, strategy)
  <2>1. mig[m].status = from /\ mig' = [mig EXCEPT ![m] = row]
    BY <1>4 DEF UpdateMigrationStatus, Matches
  <2> HIDE DEF row
  <2>2. CASE from = to \/ to = "ready" \/ to = "running" \/ to = "queued"
    BY <1>2, <2>1, <2>2, OneRow
  <2>3. CASE to = "failed"
    BY <1>2, <2>1, <2>3, OneRow
  <2>4. CASE to = "complete"
    BY <1>2, <2>1, <2>4, OneRow
  <2> QED BY <2>2, <2>3, <2>4
<1> QED
  BY <1>3, <1>4

LEMMA ScheduleRows == TypeOK /\ Schedule => RowsStep /\ NoneAcquires
<1> SUFFICES ASSUME TypeOK, Schedule PROVE RowsStep /\ NoneAcquires
  OBVIOUS
<1>1. ASSUME NEW s \in GhostSchedulers, HintGhost(s) PROVE RowsStep /\ NoneAcquires
  <2>1. PICK site \in Sites : mig' = UpdateMigrationTokenHint(ghostSched[s].mig, site)
    BY <1>1 DEF HintGhost
  <2>2. ghostSched[s].mig \in Migrations
    BY <1>1, WorkersHold DEF HintGhost
  <2>3. mig[ghostSched[s].mig] \in Row
    BY <2>2 DEF TypeOK, StoreTypeOK
  <2> DEFINE row == [mig[ghostSched[s].mig] EXCEPT !.hint = site]
  <2>4. UNCHANGED mig \/ mig' = [mig EXCEPT ![ghostSched[s].mig] = row]
    BY <2>1, <2>2 DEF UpdateMigrationTokenHint, TypeOK, StoreTypeOK
  <2>5. row.status = mig[ghostSched[s].mig].status /\ row.token = mig[ghostSched[s].mig].token
    BY <2>3 DEF Row
  <2> HIDE DEF row
  <2>6. CASE mig' = [mig EXCEPT ![ghostSched[s].mig] = row]
    BY <2>2, <2>5, <2>6, OneRow
  <2> QED BY <2>4, <2>6, SameRows
<1>2. ASSUME NEW s \in GhostSchedulers, MarkGhostReady(s) PROVE RowsStep /\ NoneAcquires
  <2>1. ghostSched[s].mig \in Migrations
    BY <1>2, WorkersHold DEF MarkGhostReady
  <2> QED BY <1>2, <2>1, StatusRows DEF MarkGhostReady, Statuses
<1>3. ASSUME NEW s \in DirectSchedulers, MarkDirectReady(s) PROVE RowsStep /\ NoneAcquires
  BY <1>3, ManyRows DEF MarkDirectReady
<1> QED
  BY <1>1, <1>2, <1>3, SameRows
  DEF Schedule, SchedulerNext, PickGhost, AbandonGhost, PickDirect, AbandonDirect

(* A hook writes under the guard of the status it has read.                *)
LEMMA HookRows ==
    ASSUME OwnershipInv, NEW c \in Scripts, NEW kind \in HookKinds, HookWrites(c, kind)
    PROVE  RowsStep /\ NoneAcquires
<1>1. /\ script[c].pc = kind /\ script[c].row \in Migrations
      /\ script[c].seen \in {"ready", "running"}
  BY WorkersHold DEF OwnershipInv, HookWrites
<1>2. mig' = UpdateMigrationStatus(script[c].row, script[c].seen, Target(kind),
                                   mig[script[c].row].strategy)
  BY DEF HookWrites, HookWrite
<1>3. CASE kind = "succeeding"
  <2>1. script[c].seen = "running" /\ script[c].row \in applied
    BY <1>1, <1>3 DEF OwnershipInv, HookHasRow, ChangeMade
  <2> QED BY <1>1, <1>2, <1>3, <2>1, StatusRows DEF OwnershipInv, Target, Statuses
<1>4. CASE kind # "succeeding"
  <2>1. Target(kind) \in {"running", "failed"}
    BY <1>4 DEF Target, HookKinds
  <2> QED BY <1>1, <1>2, <2>1, StatusRows DEF OwnershipInv, Statuses
<1> QED
  BY <1>3, <1>4

LEMMA OwnRows ==
    ASSUME OwnershipInv, NEW c \in Scripts, Own(c)
    PROVE  /\ RowsStep
           /\ \/ UNCHANGED mig
              \/ /\ mig'[script[c].mig].token = HostOf[c]
                 /\ \A n \in Migrations : n # script[c].mig => mig'[n] = mig[n]
<1>1. script[c].mig \in Migrations
  BY WorkersHold DEF OwnershipInv, Own
<1>2. HostOf[c] \in Tokens /\ mig' = OwnMigration(script[c].mig, HostOf[c])
  BY ExecutorAssumption DEF Own, token
<1> QED
  BY <1>1, <1>2, OwnedRow, SameRows DEF OwnMigration, OwnershipInv

LEMMA GhostRows ==
    ASSUME OwnershipInv, RunGhost
    PROVE  /\ RowsStep
           /\ NoneAcquires \/ \E c \in Scripts : Own(c)
<1>0. PICK c \in Scripts : ScriptStep(c)
  BY DEF RunGhost, ExecutorNext
<1>1. CASE Own(c)
  BY <1>1, OwnRows
<1>2. CASE \/ StartupHookWrites(c) \/ StatusHookWrites(c)
           \/ SuccessHookWrites(c) \/ FailureHookWrites(c)
  <2>1. PICK kind \in HookKinds : HookWrites(c, kind)
    BY <1>2 DEF StartupHookWrites, StatusHookWrites, SuccessHookWrites, FailureHookWrites,
                HookKinds
  <2> QED BY <2>1, HookRows
<1>3. CASE UNCHANGED mig
  BY <1>3, SameRows
<1> QED
  BY <1>0, <1>1, <1>2, <1>3
  DEF ScriptStep, CheckToken, Pick, NothingReady, Launch, NotOwned, StartupHookReads,
      StartupHookFails,
      StatusHookReads, StatusHookFails, CutOver, SuccessHookReads, SuccessHookFails,
      GhostBreaks, FailureHookReads, FailureHookFails, ScriptDies, HookReads

LEMMA OwnReadyRows ==
    ASSUME TypeOK, NEW a \in Appliers, OwnReady(a)
    PROVE  /\ RowsStep
           /\ \A n \in Migrations : mig[n].token # a
           /\ \E m \in Migrations : /\ mig'[m].token = a
                                    /\ \A n \in Migrations : n # m => mig'[n] = mig[n]
<1>1. PICK m \in OwnableReady("direct") : mig' = [mig EXCEPT ![m] = Assigned(m, a)]
  BY DEF OwnReady
<1>2. m \in Migrations /\ mig[m].token = NoToken /\ a \in Tokens
  BY ApplierAssumption DEF OwnableReady
<1>3. \A n \in Migrations : mig[n].token # a
  BY DEF OwnReady
<1> QED
  BY <1>1, <1>2, <1>3, OwnedRow

LEMMA DirectRows ==
    ASSUME OwnershipInv, RunDirect
    PROVE  /\ RowsStep
           /\ NoneAcquires \/ \E a \in Appliers : OwnReady(a)
<1> USE DEF OwnershipInv
<1>0. PICK a \in Appliers : ApplierStep(a)
  BY DEF RunDirect, ApplierNext
<1>1. CASE OwnReady(a)
  BY <1>1, OwnReadyRows
<1>2. CASE MarkRunning(a)
  <2>1. applier[a].mig \in Migrations
    BY <1>2, WorkersHold DEF MarkRunning
  <2> QED BY <1>2, <2>1, StatusRows DEF MarkRunning, Statuses
<1>3. CASE MarkComplete(a)
  <2>1. applier[a].mig \in Migrations /\ applier[a].mig \in applied
    BY <1>3, WorkersHold DEF MarkComplete, ChangeMade
  <2> QED BY <1>3, <2>1, StatusRows DEF MarkComplete, Statuses
<1>4. CASE MarkFailed(a)
  <2>1. applier[a].mig \in Migrations
    BY <1>4, WorkersHold DEF MarkFailed
  <2> QED BY <1>4, <2>1, StatusRows DEF MarkFailed, Statuses
<1>5. CASE UNCHANGED mig
  BY <1>5, SameRows
<1> QED
  BY <1>0, <1>1, <1>2, <1>3, <1>4, <1>5
  DEF ApplierStep, ReadBack, ReadNothingBack, Execute, ExecuteErrs, ApplierGivesUp

LEMMA OtherRows == TypeOK /\ (Chatops \/ Workflow \/ Time) => RowsStep /\ NoneAcquires
<1> SUFFICES ASSUME TypeOK, Chatops \/ Workflow \/ Time PROVE RowsStep /\ NoneAcquires
  OBVIOUS
<1>1. ASSUME NEW m \in Migrations, RetryMigration(m) PROVE RowsStep /\ NoneAcquires
  BY <1>1, StatusRows DEF RetryMigration, Statuses
<1>2. ASSUME NEW m \in Migrations, MarkCompleteByHand(m) PROVE RowsStep /\ NoneAcquires
  <2>1. mig[m].status \notin {"none", "deleted", "cancelled", "complete"} /\ m \in marked'
    BY <1>2 DEF MarkCompleteByHand, Readable, Exists, NoRowStatuses
  <2> QED BY <1>2, <2>1, StatusRows DEF MarkCompleteByHand, Statuses
<1>3. ASSUME NEW m \in Migrations, ApproveAutorun(m) PROVE RowsStep /\ NoneAcquires
  <2> DEFINE row == [mig[m] EXCEPT !.strategy = AutoStrategy[m]]
  <2>1. UNCHANGED mig \/ mig' = [mig EXCEPT ![m] = row]
    BY <1>3 DEF ApproveAutorun, UpdateMigrationStrategy
  <2>2. row.status = mig[m].status /\ row.token = mig[m].token
    BY DEF TypeOK, StoreTypeOK, Row
  <2> HIDE DEF row
  <2> QED BY <2>1, <2>2, SameRows, OneRow
<1>4. ASSUME NEW f \in Forgetters, ForgetDeletes(f) PROVE RowsStep /\ NoneAcquires
  BY <1>4, ManyRows DEF ForgetDeletes
<1>5. ASSUME NEW p \in PRs, WithdrawPR(p) \/ QueuePR(p) PROVE RowsStep /\ NoneAcquires
  BY <1>5, ManyRows DEF WithdrawPR, QueuePR
<1>6. ASSUME NEW m \in Migrations, ProposeMigration(m) PROVE RowsStep /\ NoneAcquires
  <2>1. PICK strategy : mig' = [mig EXCEPT ![m] = NewRow(strategy)]
    BY <1>6 DEF ProposeMigration, InsertMigration
  <2>2. NewRow(strategy).status = "proposed" /\ NewRow(strategy).token = NoToken
    BY DEF NewRow
  <2> QED BY <1>6, <2>1, <2>2, OneRow DEF ProposeMigration
<1>7. ASSUME NEW m \in Migrations, LivenessAges(m) \/ ReadyAges(m) PROVE RowsStep /\ NoneAcquires
  <2> DEFINE staleRow == [mig[m] EXCEPT !.stale = TRUE]
             waitedRow == [mig[m] EXCEPT !.waited = TRUE]
  <2>1. mig' = [mig EXCEPT ![m] = staleRow] \/ mig' = [mig EXCEPT ![m] = waitedRow]
    BY <1>7 DEF LivenessAges, ReadyAges
  <2>2. /\ staleRow.status = mig[m].status /\ staleRow.token = mig[m].token
        /\ waitedRow.status = mig[m].status /\ waitedRow.token = mig[m].token
    BY DEF TypeOK, StoreTypeOK, Row
  <2> HIDE DEF staleRow, waitedRow
  <2> QED BY <2>1, <2>2, OneRow
<1>8. ASSUME Expiry PROVE RowsStep /\ NoneAcquires
  BY <1>8, ManyRows DEF Expiry, Expire
<1>9. CASE UNCHANGED mig
  BY <1>9, SameRows
<1> QED
  BY <1>1, <1>2, <1>3, <1>4, <1>5, <1>6, <1>7, <1>8, <1>9
  DEF Chatops, Workflow, Time, PrioritizePR, ForgetReads, ProbePR

-----------------------------------------------------------------------------
(* The invariant is kept. *)

LEMMA NextRows ==
    ASSUME OwnershipInv, Next
    PROVE  /\ RowsStep
           /\ \/ NoneAcquires
              \/ RunGhost /\ \E c \in Scripts : Own(c)
              \/ RunDirect /\ \E a \in Appliers : OwnReady(a)
<1>1. CASE Schedule
  BY <1>1, ScheduleRows DEF OwnershipInv
<1>2. CASE RunGhost
  BY <1>2, GhostRows
<1>3. CASE RunDirect
  BY <1>3, DirectRows
<1>4. CASE Chatops \/ Workflow \/ Time
  BY <1>4, OtherRows DEF OwnershipInv
<1> QED
  BY <1>1, <1>2, <1>3, <1>4 DEF Next

LEMMA PRWrites ==
    ASSUME Next
    PROVE  \/ UNCHANGED pr
           \/ \E f \in Forgetters : ForgetDeletes(f)
           \/ \E p \in PRs : ProbePR(p) \/ PrioritizePR(p)
<1>1. Schedule => UNCHANGED pr
  BY DEF Schedule, SchedulerNext, PickGhost, HintGhost, MarkGhostReady, AbandonGhost,
         PickDirect, MarkDirectReady, AbandonDirect
<1>2. RunGhost => UNCHANGED pr
  BY DEF RunGhost, ExecutorNext, ScriptStep, CheckToken, Pick, NothingReady, Own, Launch,
      NotOwned,
         StartupHookReads, StartupHookWrites, StartupHookFails, StatusHookReads,
         StatusHookWrites, StatusHookFails, CutOver, SuccessHookReads, SuccessHookWrites,
         SuccessHookFails, GhostBreaks, FailureHookReads, FailureHookWrites,
         FailureHookFails, ScriptDies, HookReads, HookWrites
<1>3. RunDirect => UNCHANGED pr
  BY DEF RunDirect, ApplierNext, ApplierStep, OwnReady, ReadBack, ReadNothingBack, MarkRunning,
      Execute,
         ExecuteErrs, MarkComplete, MarkFailed, ApplierGivesUp
<1>4. Time => UNCHANGED pr
  BY DEF Time, LivenessAges, ReadyAges, Expiry, Expire
<1> QED
  BY <1>1, <1>2, <1>3, <1>4
  DEF Next, Chatops, RetryMigration, MarkCompleteByHand, ApproveAutorun, ForgetReads,
      Workflow, WithdrawPR, QueuePR, ProposeMigration

(* forget-pr deletes every row of the pull request it makes unknown.       *)
LEMMA SeenStays ==
    ASSUME OwnershipInv, Next, NEW m \in Migrations, Seen(m)
    PROVE  Seen(m)'
<1>0. PROf[m] \in PRs /\ pr \in [PRs -> PRRow] /\ mig[m] \in Row
  BY StoreAssumption DEF OwnershipInv, TypeOK, StoreTypeOK
<1>1. CASE mig[m].status = "deleted"
  BY <1>1, NextRows, StepKeeps DEF RowsStep, Seen
<1>2. CASE Exists(m) /\ pr[PROf[m]].known
  <2>1. Exists(m)' \/ mig'[m].status = "deleted"
    BY <1>2, NextRows, StepKeeps DEF RowsStep
  <2>2. ASSUME NEW f \in Forgetters, ForgetDeletes(f), mig'[m].status # "deleted"
        PROVE  pr'[PROf[m]].known
    <3>1. PROf[m] # forget[f]
      BY <1>0, <1>2, <2>2 DEF ForgetDeletes, DeletePRMigrations, Row
    <3> QED BY <1>0, <1>2, <2>2, <3>1 DEF ForgetDeletes, PRRow
  <2>3. ASSUME NEW p \in PRs, ProbePR(p) PROVE pr'[PROf[m]].known
    BY <1>0, <1>2, <2>3 DEF ProbePR
  <2>4. ASSUME NEW p \in PRs, PrioritizePR(p) PROVE pr'[PROf[m]].known
    BY <1>0, <1>2, <2>4 DEF PrioritizePR, PRRow
  <2> QED BY <1>2, <2>1, <2>2, <2>3, <2>4, PRWrites DEF Seen
<1> QED
  BY <1>1, <1>2 DEF Seen

(* What the script of one host may do in a step of the system.             *)
Later == {"updated", "launched", "copying", "cutover", "broken"} \cup HookKinds

ScriptMove(c) ==
    \/ script'[c] = script[c]
    \/ script'[c].pc = "idle"
    \/ /\ script[c].pc = "idle" /\ script'[c].pc = "checked"
       /\ ByToken(HostOf[c]) = {} /\ UNCHANGED mig
    \/ /\ script[c].pc = "checked" /\ script'[c].pc = "picked"
       /\ script'[c].mig \in Readable
    \/ /\ script[c].pc = "picked" /\ script'[c].pc = "updated"
       /\ script'[c].mig = script[c].mig /\ Own(c)
    \/ /\ script[c].pc \in Later /\ script'[c].pc \in Later
       /\ script'[c].mig = script[c].mig
       /\ script'[c].pc \in HookKinds => script'[c].row = script[c].mig
       /\ script'[c].pc = "succeeding" => script[c].pc = "cutover" /\ script'[c].seen = "running"
       /\ script'[c].pc = "cutover" => script[c].mig \in applied'

(* By its token a script finds nothing but the migration it has in hand.   *)
LEMMA FindsOwn ==
    ASSUME OwnershipInv, NEW c \in Scripts, script[c].pc # "idle", NEW m \in ByToken(HostOf[c])
    PROVE  script[c].mig = m
BY DEF OwnershipInv, HoldsOnly, Live, ByToken, Readable

LEMMA OwnScriptMoves ==
    ASSUME OwnershipInv, NEW d \in Scripts, ScriptStep(d)
    PROVE  ScriptMove(d)
<1>f. script \in [Scripts -> Places]
  BY DEF OwnershipInv, TypeOK, ExecutorTypeOK
<1>g. ASSUME NEW pc, Goto(d, pc)
      PROVE  script'[d].pc = pc /\ script'[d].mig = script[d].mig
  BY <1>f, <1>g DEF Goto, Places
<1>3. CASE Quit(d)
  BY <1>3, <1>f DEF Quit, ScriptIdle, ScriptMove
<1>4. CASE CheckToken(d)
  BY <1>4, <1>g DEF CheckToken, token, ScriptMove
<1>5. CASE Pick(d)
  <2>1. PICK m \in GhostReady(SiteOf[d]) :
          script' = [script EXCEPT ![d] = [@ EXCEPT !.pc = "picked", !.mig = m]]
    BY <1>5 DEF Pick
  <2>2. script'[d].pc = "picked" /\ script'[d].mig = m
    BY <2>1, <1>f DEF Places
  <2> QED BY <1>5, <2>2 DEF Pick, GhostReady, ScriptMove
<1>6. CASE Own(d)
  BY <1>6, <1>g DEF Own, ScriptMove
<1>7. CASE Launch(d)
  <2>1. PICK m \in ByToken(HostOf[d]) :
          script' = [script EXCEPT ![d] = [@ EXCEPT !.pc = "launched", !.mig = m]]
    BY <1>7 DEF Launch, FirstOf, token
  <2>2. script[d].mig = m /\ script[d].pc = "updated"
    BY <1>7, FindsOwn DEF Launch
  <2>3. script'[d].pc = "launched" /\ script'[d].mig = m
    BY <2>1, <1>f DEF Places
  <2> QED BY <2>2, <2>3 DEF ScriptMove, Later, HookKinds
<1>8. ASSUME NEW kind \in HookKinds, HookReads(d, kind), script[d].pc \in Later,
             kind = "succeeding" => script[d].pc = "cutover"
      PROVE  ScriptMove(d)
  <2>1. PICK m \in HookFinds(d, kind) :
          script' = [script EXCEPT ![d] =
                       [@ EXCEPT !.pc = kind, !.row = m, !.seen = mig[m].status]]
    BY <1>8 DEF HookReads
  <2>2. m \in ByToken(HostOf[d]) /\ (kind = "succeeding" => mig[m].status = "running")
    BY <2>1 DEF HookFinds, FirstOf, token, Origins
  <2>3. script[d].mig = m
    BY <1>8, <2>2, FindsOwn DEF Later, HookKinds
  <2>4. /\ script'[d].pc = kind /\ script'[d].mig = script[d].mig
        /\ script'[d].row = m /\ script'[d].seen = mig[m].status
    BY <2>1, <1>f DEF Places
  <2> QED BY <1>8, <2>2, <2>3, <2>4 DEF ScriptMove, Later, HookKinds
<1>9. ASSUME NEW pc \in {"copying", "broken"}, Goto(d, pc), script[d].pc \in Later
      PROVE  ScriptMove(d)
  BY <1>9, <1>g DEF ScriptMove, Later, HookKinds
<1>10. CASE CutOver(d)
  BY <1>10, <1>g DEF CutOver, ScriptMove, Later, HookKinds
<1>11. CASE \/ StartupHookReads(d) \/ StatusHookReads(d)
             \/ SuccessHookReads(d) \/ FailureHookReads(d)
  <2>1. PICK kind \in HookKinds : /\ HookReads(d, kind) /\ script[d].pc \in Later
                                  /\ kind = "succeeding" => script[d].pc = "cutover"
    BY <1>11 DEF StartupHookReads, StatusHookReads, SuccessHookReads, FailureHookReads,
                 HookKinds, Later
  <2> QED BY <2>1, <1>8
<1>12. CASE StartupHookWrites(d) \/ StatusHookWrites(d) \/ StatusHookFails(d) \/ GhostBreaks(d)
  <2>1. \E pc \in {"copying", "broken"} : Goto(d, pc) /\ script[d].pc \in Later
    BY <1>12 DEF StartupHookWrites, StatusHookWrites, StatusHookFails, GhostBreaks,
                 HookWrites, HookMisses, HookKinds, Later
  <2> QED BY <2>1, <1>9
<1>13. CASE \/ NothingReady(d) \/ NotOwned(d) \/ StartupHookFails(d) \/ SuccessHookWrites(d)
             \/ SuccessHookFails(d) \/ FailureHookWrites(d) \/ FailureHookFails(d)
             \/ ScriptDies(d)
  BY <1>3, <1>13 DEF NothingReady, NotOwned, StartupHookFails, SuccessHookWrites,
       SuccessHookFails, FailureHookWrites, FailureHookFails, ScriptDies
<1> QED
  BY <1>4, <1>5, <1>6, <1>7, <1>10, <1>11, <1>12, <1>13 DEF ScriptStep

LEMMA OtherScriptsStay ==
    ASSUME OwnershipInv, NEW c \in Scripts, ScriptStep(c), NEW d \in Scripts, c # d
    PROVE  script'[d] = script[d]
<1>1. \E place : script' = [script EXCEPT ![c] = place]
  BY DEF ScriptStep, CheckToken, Pick, NothingReady, Own, Launch, NotOwned,
         StartupHookReads, StartupHookWrites, StartupHookFails, StatusHookReads,
         StatusHookWrites, StatusHookFails, CutOver, SuccessHookReads, SuccessHookWrites,
         SuccessHookFails, GhostBreaks, FailureHookReads, FailureHookWrites,
         FailureHookFails, ScriptDies, HookReads, Goto, Quit
<1> QED
  BY <1>1 DEF OwnershipInv, TypeOK, ExecutorTypeOK

LEMMA ScriptMoves == ASSUME OwnershipInv, Next, NEW d \in Scripts PROVE ScriptMove(d)
<1>1. CASE RunGhost
  <2>1. PICK c \in Scripts : ScriptStep(c)
    BY <1>1 DEF RunGhost, ExecutorNext
  <2> QED BY <2>1, OwnScriptMoves, OtherScriptsStay DEF ScriptMove
<1>2. CASE ~RunGhost
  <2>1. UNCHANGED script
    BY <1>2 DEF Next, Schedule, RunDirect, Chatops, RetryMigration, MarkCompleteByHand,
         ApproveAutorun, PrioritizePR, ForgetReads, ForgetDeletes, Workflow, ProbePR,
         WithdrawPR, QueuePR, ProposeMigration, Time, LivenessAges, ReadyAges, Expiry,
         Expire, workers
  <2> QED BY <2>1 DEF ScriptMove
<1> QED
  BY <1>1, <1>2

-----------------------------------------------------------------------------
LEMMA KnownStep == OneRunPerHost /\ OwnershipInv /\ Next => KnownRows'
<1> SUFFICES ASSUME OneRunPerHost, OwnershipInv, Next PROVE KnownRows'
  OBVIOUS
<1>1. ASSUME NEW c \in Scripts, NEW m \in Migrations, mig'[m].token = HostOf[c]
      PROVE  Seen(m)'
  <2> SUFFICES ASSUME mig[m].token # HostOf[c] PROVE Seen(m)
    BY SeenStays DEF OwnershipInv, KnownRows
  <2>1. HostOf[c] # NoToken
    BY ExecutorAssumption, StoreAssumption
  <2>2. mig[m].token = NoToken
    BY <1>1, <2>1, NextRows, StepKeeps DEF RowsStep
  <2>3. CASE NoneAcquires
    BY <1>1, <2>1, <2>2, <2>3 DEF NoneAcquires
  <2>4. ASSUME NEW d \in Scripts, Own(d) PROVE Seen(m)
    BY <1>1, <2>4, OwnRows DEF Own, OwnershipInv, KnownRows
  <2>5. ASSUME NEW a \in Appliers, OwnReady(a) PROVE FALSE
    <3>1. a # HostOf[c]
      BY DEF OneRunPerHost
    <3> QED BY <1>1, <2>5, <3>1, OwnReadyRows DEF OwnershipInv
  <2> QED BY <2>3, <2>4, <2>5, NextRows
<1>2. ASSUME NEW c \in Scripts, script'[c].pc = "picked" PROVE Seen(script[c].mig)'
  <2>1. CASE script'[c] = script[c]
    <3>1. script[c].mig \in Migrations /\ Seen(script[c].mig)
      BY <1>2, <2>1, WorkersHold DEF OwnershipInv, KnownRows
    <3> QED BY <2>1, <3>1, SeenStays DEF OwnershipInv
  <2>2. CASE script'[c] # script[c]
    <3>1. PICK m \in Readable : script'[c].mig = m
      BY <1>2, <2>2, ScriptMoves DEF ScriptMove, Later, HookKinds
    <3>2. Seen(m) /\ m \in Migrations
      BY <3>1 DEF Readable, Seen
    <3> QED BY <3>1, <3>2, SeenStays
  <2> QED BY <2>1, <2>2
<1> QED
  BY <1>1, <1>2 DEF KnownRows

(* A live row keeps its token unless it is cleared, when none is given out. *)
LEMMA TokensKept ==
    ASSUME OwnershipInv, Next, NoneAcquires, NEW m \in Migrations, Live(m)',
           mig'[m].token # NoToken
    PROVE  Live(m) /\ mig'[m].token = mig[m].token
BY NextRows, StepKeeps DEF RowsStep, NoneAcquires

LEMMA HolderStep == OwnershipInv /\ Next => OneHolder'
<1> SUFFICES ASSUME OwnershipInv, Next, NEW m \in Migrations, NEW n \in Migrations,
                    Live(m)', Live(n)', mig'[m].token = mig'[n].token,
                    mig'[m].token # NoToken
             PROVE  m = n
  BY DEF OneHolder
<1>1. CASE NoneAcquires
  BY <1>1, TokensKept DEF OwnershipInv, OneHolder
<1>2. ASSUME NEW c \in Scripts, Own(c) PROVE m = n
  <2>1. /\ HostOf[c] \in Tokens /\ HostOf[c] # NoToken
        /\ script[c].pc = "picked"
    BY <1>2, ExecutorAssumption, StoreAssumption DEF Own
  <2>2. \A k \in Migrations : Live(k) => mig[k].token # HostOf[c]
    BY <2>1 DEF OwnershipInv, HoldsOnly
  <2>3. \A k \in Migrations : k # script[c].mig /\ mig'[k] = mig[k] /\ Live(k)' => Live(k)
    BY DEF Live, Exists
  <2>4. CASE UNCHANGED mig
    BY <2>4 DEF OwnershipInv, OneHolder, Live, Exists
  <2>5. CASE /\ mig'[script[c].mig].token = HostOf[c]
             /\ \A k \in Migrations : k # script[c].mig => mig'[k] = mig[k]
    BY <2>2, <2>3, <2>5 DEF OwnershipInv, OneHolder
  <2> QED BY <1>2, <2>4, <2>5, OwnRows
<1>3. ASSUME NEW a \in Appliers, OwnReady(a) PROVE m = n
  <2>1. PICK k \in Migrations : /\ mig'[k].token = a
                                /\ \A l \in Migrations : l # k => mig'[l] = mig[l]
    BY <1>3, OwnReadyRows DEF OwnershipInv
  <2>2. \A l \in Migrations : mig[l].token # a
    BY <1>3 DEF OwnReady
  <2>3. \A l \in Migrations : l # k /\ Live(l)' => Live(l)
    BY <2>1 DEF Live, Exists
  <2> QED BY <2>1, <2>2, <2>3 DEF OwnershipInv, OneHolder
<1> QED
  BY <1>1, <1>2, <1>3, NextRows

LEMMA HoldsStep == OneRunPerHost /\ OwnershipInv /\ Next => HoldsOnly'
<1> SUFFICES ASSUME OneRunPerHost, OwnershipInv, Next,
                    NEW c \in Scripts, script'[c].pc # "idle",
                    NEW m \in Migrations, Live(m)', mig'[m].token = HostOf[c]
             PROVE  script'[c].mig = m /\ script'[c].pc \notin {"checked", "picked"}
  BY DEF HoldsOnly
<1>0. HostOf[c] \in Tokens /\ HostOf[c] # NoToken /\ ScriptMove(c)
  BY ExecutorAssumption, StoreAssumption, ScriptMoves
<1>1. CASE Own(c)
  <2>1. /\ script[c].pc = "picked" /\ script'[c].pc = "updated"
        /\ script'[c].mig = script[c].mig
    BY <1>1 DEF Own, Goto, OwnershipInv, TypeOK, ExecutorTypeOK, Places
  <2>2. CASE m = script[c].mig
    BY <2>1, <2>2
  <2>3. CASE m # script[c].mig
    <3>1. mig'[m] = mig[m]
      BY <1>1, <2>3, OwnRows
    <3>2. Live(m) /\ mig[m].token = HostOf[c]
      BY <3>1 DEF Live, Exists
    <3> QED BY <2>1, <3>2 DEF OwnershipInv, HoldsOnly
  <2> QED BY <2>2, <2>3
<1>2. CASE ~Own(c)
  <2>1. Live(m) /\ mig[m].token = HostOf[c]
    <3>1. CASE NoneAcquires
      BY <1>0, <3>1, TokensKept
    <3>2. ASSUME NEW d \in Scripts, Own(d) PROVE Live(m) /\ mig[m].token = HostOf[c]
      <4>1. HostOf[d] # HostOf[c]
        BY <1>2, <3>2 DEF OneRunPerHost
      <4>2. mig'[m] = mig[m]
        BY <3>2, <4>1, OwnRows
      <4> QED BY <4>2 DEF Live, Exists
    <3>3. ASSUME NEW a \in Appliers, OwnReady(a) PROVE Live(m) /\ mig[m].token = HostOf[c]
      <4>1. a # HostOf[c]
        BY DEF OneRunPerHost
      <4>2. mig'[m] = mig[m]
        BY <3>3, <4>1, OwnReadyRows DEF OwnershipInv
      <4> QED BY <4>2 DEF Live, Exists
    <3> QED BY <3>1, <3>2, <3>3, NextRows
  <2>2. m \in ByToken(HostOf[c])
    BY <2>1 DEF ByToken, Readable, Live, Exists, NoRowStatuses, OwnershipInv, KnownRows, Seen
  <2>3. script[c].pc # "idle" => script[c].mig = m /\ script[c].pc \notin {"checked", "picked"}
    BY <2>1 DEF OwnershipInv, HoldsOnly
  <2> QED BY <1>0, <1>2, <2>2, <2>3 DEF ScriptMove, Later, HookKinds
<1> QED
  BY <1>1, <1>2

LEMMA HookStep == OwnershipInv /\ Next => HookHasRow'
<1> SUFFICES ASSUME OwnershipInv, Next, NEW c \in Scripts
             PROVE  /\ script'[c].pc \in HookKinds => script'[c].row = script'[c].mig
                    /\ script'[c].pc = "succeeding" => script'[c].seen = "running"
  BY DEF HookHasRow
<1> QED
  BY ScriptMoves DEF ScriptMove, HookKinds, OwnershipInv, HookHasRow

LEMMA AppliedGrows == Next => applied \subseteq applied' /\ marked \subseteq marked'
<1> SUFFICES ASSUME Next PROVE applied \subseteq applied' /\ marked \subseteq marked'
  OBVIOUS
<1>1. Schedule => UNCHANGED <<applied, marked>>
  BY DEF Schedule, SchedulerNext, PickGhost, HintGhost, MarkGhostReady, AbandonGhost,
         PickDirect, MarkDirectReady, AbandonDirect, history
<1>2. RunGhost => applied \subseteq applied' /\ UNCHANGED marked
  BY DEF RunGhost, ExecutorNext, ScriptStep, CheckToken, Pick, NothingReady, Own, Launch,
         NotOwned, StartupHookReads, StartupHookWrites, StartupHookFails, StatusHookReads,
         StatusHookWrites, StatusHookFails, CutOver, SuccessHookReads, SuccessHookWrites,
         SuccessHookFails, GhostBreaks, FailureHookReads, FailureHookWrites,
         FailureHookFails, ScriptDies, HookReads, HookWrites, history
<1>3. RunDirect => applied \subseteq applied' /\ UNCHANGED marked
  BY DEF RunDirect, ApplierNext, ApplierStep, OwnReady, ReadBack, ReadNothingBack,
         MarkRunning, Execute, ExecuteErrs, MarkComplete, MarkFailed, ApplierGivesUp, history
<1>4. Time => UNCHANGED <<applied, marked>>
  BY DEF Time, LivenessAges, ReadyAges, Expiry, Expire, history
<1> QED
  BY <1>1, <1>2, <1>3, <1>4
  DEF Next, Chatops, RetryMigration, MarkCompleteByHand, ApproveAutorun, PrioritizePR,
      ForgetReads, ForgetDeletes, Workflow, ProbePR, WithdrawPR, QueuePR, ProposeMigration,
      history

LEMMA ChangeStep == OwnershipInv /\ Next => ChangeMade'
<1> SUFFICES ASSUME OwnershipInv, Next PROVE ChangeMade'
  OBVIOUS
<1>0. applied \subseteq applied'
  BY AppliedGrows
<1>1. ASSUME NEW c \in Scripts, script'[c].pc \in {"cutover", "succeeding"}
      PROVE  script'[c].mig \in applied'
  BY <1>0, <1>1, ScriptMoves DEF ScriptMove, OwnershipInv, ChangeMade
<1>2. ASSUME NEW a \in Appliers, applier'[a].pc = "executed"
      PROVE  applier'[a].mig \in applied'
  <2>0. applier[a].pc = "executed" => applier[a].mig \in applied'
    BY <1>0 DEF OwnershipInv, ChangeMade
  <2>1. CASE RunDirect
    <3>1. PICK b \in Appliers : ApplierStep(b)
      BY <2>1 DEF RunDirect, ApplierNext
    <3>2. applier \in [Appliers -> [pc : {"idle", "owning"}, mig : {NotOwning}]
             \cup [pc : {"owned", "running", "executed", "errored"}, mig : Migrations]]
      BY DEF OwnershipInv, TypeOK, ApplierTypeOK
    <3>3. CASE Execute(b)
      BY <1>2, <2>0, <3>2, <3>3 DEF Execute, Advance
    <3>4. CASE ~Execute(b)
      <4>1. \/ \E pc : pc # "executed" /\ Advance(b, pc)
            \/ Finish(b)
            \/ \E m : applier' = [applier EXCEPT ![b] = [pc |-> "owned", mig |-> m]]
        BY <3>1, <3>4 DEF ApplierStep, OwnReady, ReadBack, ReadNothingBack, MarkRunning,
             ExecuteErrs, MarkComplete, MarkFailed, ApplierGivesUp
      <4> QED BY <1>2, <2>0, <3>2, <4>1 DEF Advance, Finish, ApplierIdle
    <3> QED BY <3>3, <3>4
  <2>2. CASE ~RunDirect
    <3>1. UNCHANGED applier
      BY <2>2 DEF Next, Schedule, RunGhost, Chatops, RetryMigration, MarkCompleteByHand,
           ApproveAutorun, PrioritizePR, ForgetReads, ForgetDeletes, Workflow, ProbePR,
           WithdrawPR, QueuePR, ProposeMigration, Time, LivenessAges, ReadyAges, Expiry,
           Expire, workers
    <3> QED BY <1>2, <2>0, <3>1
  <2> QED BY <2>1, <2>2
<1> QED
  BY <1>1, <1>2 DEF ChangeMade

-----------------------------------------------------------------------------
LEMMA OwnershipInit == Init => OwnershipInv
<1> SUFFICES ASSUME Init PROVE OwnershipInv
  OBVIOUS
<1>1. TypeOK
  BY TypeInit
<1>2. \A m \in Migrations : mig[m].token = NoToken
  BY DEF Init, NewRow
<1>4. OneHolder
  BY <1>2 DEF OneHolder
<1>5. \A c \in Scripts : script[c].pc = "idle"
  BY DEF Init, ExecutorInit, ScriptIdle
<1>3. KnownRows
  BY <1>2, <1>5, ExecutorAssumption, StoreAssumption DEF KnownRows
<1>6. \A a \in Appliers : applier[a].pc = "idle"
  BY DEF Init, ApplierInit, ApplierIdle
<1> QED
  BY <1>1, <1>3, <1>4, <1>5, <1>6 DEF OwnershipInv, HoldsOnly, HookHasRow, ChangeMade, HookKinds

LEMMA OwnershipStep == OneRunPerHost /\ OwnershipInv /\ [Next]_vars => OwnershipInv'
<1> SUFFICES ASSUME OneRunPerHost, OwnershipInv, [Next]_vars PROVE OwnershipInv'
  OBVIOUS
<1>1. TypeOK'
  BY TypeStep DEF OwnershipInv
<1>2. CASE Next
  BY <1>1, <1>2, KnownStep, HolderStep, HoldsStep, HookStep, ChangeStep DEF OwnershipInv
<1>3. CASE UNCHANGED vars
  BY <1>1, <1>3 DEF OwnershipInv, vars, KnownRows, OneHolder, HoldsOnly, HookHasRow,
       ChangeMade, Live, Exists, Seen
<1> QED
  BY <1>2, <1>3

LEMMA OwnershipHolds == ASSUME OneRunPerHost PROVE Spec => []OwnershipInv
BY OwnershipInit, OwnershipStep, PTL DEF Spec

LEMMA LifecycleStep == OwnershipInv /\ [Next]_vars => [Lifecycle!LifecycleNext]_(Lifecycle!lifecycle)
<1>1. CASE OwnershipInv /\ Next
  BY <1>1, NextRows, AppliedGrows DEF RowsStep, Lifecycle!LifecycleNext
<1>2. CASE UNCHANGED vars
  BY <1>2 DEF vars, Lifecycle!lifecycle
<1> QED
  BY <1>1, <1>2

(* The queue implements the life cycle of docs/migrations.md: whatever the *)
(* executors, the expiry and the humans do and in whatever order, a        *)
(* migration moves along its edges only, is acquired only when free, and   *)
(* is completed only after its change or at a human's word.                *)
THEOREM QueueImplementsLifecycle == ASSUME OneRunPerHost PROVE Spec => ImplementsLifecycle
<1>1. Init => Lifecycle!LifecycleInit
  <2> SUFFICES ASSUME Init PROVE Lifecycle!LifecycleInit
    OBVIOUS
  <2>1. \A m \in Migrations : mig[m].status \in {"none", "proposed"} /\ mig[m].token = NoToken
    BY DEF Init, NewRow
  <2> QED BY <2>1 DEF Init, Lifecycle!LifecycleInit
<1> QED
  BY <1>1, OwnershipHolds, LifecycleStep, PTL DEF Spec, ImplementsLifecycle,
      Lifecycle!LifecycleSpec

(* A token is on one row at most, so a hook that looks its row up by the   *)
(* host's name finds the migration the host was given.                     *)
THEOREM TokensAreUnique == ASSUME OneRunPerHost PROVE Spec => []TokenUnique
<1>1. OwnershipInv => TokenUnique
  BY DEF OwnershipInv, OneHolder, TokenUnique, Readable, Live
<1> QED
  BY <1>1, OwnershipHolds, PTL

(* Nothing is `complete` unless its schema change was made or a human said *)
(* so: no hook and no applier completes another migration than its own.    *)
THEOREM CompletesOnlyApplied == ASSUME OneRunPerHost PROVE Spec => []CompleteMeansApplied
<1>1. Init => CompleteMeansApplied
  BY DEF Init, NewRow, CompleteMeansApplied
<1>2. OwnershipInv /\ CompleteMeansApplied /\ [Next]_vars => CompleteMeansApplied'
  <2> SUFFICES ASSUME OwnershipInv, CompleteMeansApplied, [Next]_vars,
                      NEW m \in Migrations, mig'[m].status = "complete"
               PROVE  m \in applied' \cup marked'
    BY DEF CompleteMeansApplied
  <2>1. CASE Next
    <3>1. mig[m].status = "complete" \/ m \in applied \/ m \in marked'
      BY <2>1, NextRows, StepKeeps DEF RowsStep
    <3> QED BY <2>1, <3>1, AppliedGrows DEF CompleteMeansApplied
  <2>2. CASE UNCHANGED vars
    BY <2>2 DEF vars, CompleteMeansApplied
  <2> QED BY <2>1, <2>2
<1> QED
  BY <1>1, <1>2, OwnershipHolds, PTL DEF Spec

(* An owned migration is given up before another acquires it.              *)
THEOREM NeverTakenOver == ASSUME OneRunPerHost PROVE Spec => NoTakeover
<1>1. OwnershipInv /\ [Next]_vars =>
        [\A m \in Migrations :
            mig[m].token # NoToken /\ mig'[m].token # mig[m].token
                => mig'[m].token = NoToken]_vars
  BY NextRows, StepKeeps DEF RowsStep
<1> QED
  BY <1>1, OwnershipHolds, PTL DEF Spec, NoTakeover
=============================================================================
