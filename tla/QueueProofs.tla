---------------------------- MODULE QueueProofs ----------------------------
(***************************************************************************)
(* Theorems about MigrationQueue, for every number of migrations, pull     *)
(* requests, hosts, appliers and goroutines.                               *)
(***************************************************************************)
EXTENDS MigrationQueue, TLAPS

(* Every statement of the store leaves a table of rows behind.             *)
LEMMA StatusType ==
    ASSUME StoreTypeOK, NEW m \in Migrations, NEW from, NEW to \in Statuses, NEW strategy
    PROVE  UpdateMigrationStatus(m, from, to, strategy) \in [Migrations -> Row]
<1>1. WithStatus(mig[m], to) \in Row
  BY DEF StoreTypeOK, Row, WithStatus
<1> QED
  BY <1>1 DEF StoreTypeOK, UpdateMigrationStatus

LEMMA PRStatusType ==
    ASSUME StoreTypeOK, NEW p, NEW from, NEW to \in Statuses, NEW strategy
    PROVE  UpdatePRMigrationsStatus(p, from, to, strategy) \in [Migrations -> Row]
BY DEF StoreTypeOK, Row, UpdatePRMigrationsStatus

LEMMA HintType ==
    ASSUME StoreTypeOK, NEW m \in Migrations, NEW site \in Sites
    PROVE  UpdateMigrationTokenHint(m, site) \in [Migrations -> Row]
BY DEF StoreTypeOK, Row, UpdateMigrationTokenHint

LEMMA StrategyType ==
    ASSUME StoreTypeOK, NEW m \in Migrations, NEW from, NEW to \in Strategies
    PROVE  UpdateMigrationStrategy(m, from, to) \in [Migrations -> Row]
BY DEF StoreTypeOK, Row, UpdateMigrationStrategy

LEMMA OwnType ==
    ASSUME StoreTypeOK, NEW m \in Migrations, NEW t \in Tokens
    PROVE  /\ [mig EXCEPT ![m] = Assigned(m, t)] \in [Migrations -> Row]
           /\ OwnMigration(m, t) \in [Migrations -> Row]
BY DEF StoreTypeOK, Row, Assigned, OwnMigration

LEMMA ExpireType ==
    ASSUME StoreTypeOK, NEW in, NEW to \in Statuses
    PROVE  ExpireStaleMigrations(in, to) \in [Migrations -> Row]
BY DEF StoreTypeOK, Row, ExpireStaleMigrations

LEMMA AgesType ==
    ASSUME StoreTypeOK, NEW m \in Migrations
    PROVE  /\ [mig EXCEPT ![m].stale = TRUE] \in [Migrations -> Row]
           /\ [mig EXCEPT ![m].waited = TRUE] \in [Migrations -> Row]
<1> mig[m] \in Row
  BY DEF StoreTypeOK
<1> QED
  BY DEF StoreTypeOK, Row

LEMMA PullRequestWritesType ==
    ASSUME StoreTypeOK, NEW p
    PROVE  /\ QueuePRMigrations(p) \in [Migrations -> Row]
           /\ CancelPRMigrations(p) \in [Migrations -> Row]
           /\ DeletePRMigrations(p) \in [Migrations -> Row]
<1> USE DEF StoreTypeOK, Row, Statuses, NoRowStatuses
<1>1. QueuePRMigrations(p) \in [Migrations -> Row]
  BY DEF QueuePRMigrations
<1>2. CancelPRMigrations(p) \in [Migrations -> Row]
  BY DEF CancelPRMigrations
<1>3. DeletePRMigrations(p) \in [Migrations -> Row]
  BY DEF DeletePRMigrations
<1> QED
  BY <1>1, <1>2, <1>3

LEMMA InsertType ==
    ASSUME StoreTypeOK, NEW m \in Migrations, NEW strategy \in Strategies
    PROVE  InsertMigration(m, strategy) \in [Migrations -> Row]
BY DEF StoreTypeOK, Row, Statuses, InsertMigration, NewRow

-----------------------------------------------------------------------------
(* Type correctness, component by component.                               *)

(* A goroutine or a script that is not idle holds a migration.             *)
LEMMA WorkersHold ==
    ASSUME TypeOK
    PROVE  /\ \A s \in GhostSchedulers : ghostSched[s].pc # "idle" => ghostSched[s].mig \in Migrations
           /\ \A c \in Scripts : script[c].pc \notin {"idle", "checked"}
                => script[c].mig \in Migrations
           /\ \A c \in Scripts : script[c].pc \in HookKinds
                => script[c].row \in Migrations /\ script[c].seen \in {"ready", "running"}
           /\ \A a \in Appliers : applier[a].pc \notin {"idle", "owning"}
                => applier[a].mig \in Migrations
<1>1. \A s \in GhostSchedulers : ghostSched[s].pc # "idle" => ghostSched[s].mig \in Migrations
  BY DEF TypeOK, SchedulerTypeOK, GhostSchedIdle
<1>2. /\ \A c \in Scripts : script[c].pc \notin {"idle", "checked"}
           => script[c].mig \in Migrations
      /\ \A c \in Scripts : script[c].pc \in HookKinds
           => script[c].row \in Migrations /\ script[c].seen \in {"ready", "running"}
  BY DEF TypeOK, ExecutorTypeOK, Places, HookKinds
<1>3. \A a \in Appliers : applier[a].pc \notin {"idle", "owning"}
        => applier[a].mig \in Migrations
  BY DEF TypeOK, ApplierTypeOK
<1> QED
  BY <1>1, <1>2, <1>3

LEMMA ScheduleType == TypeOK /\ Schedule => TypeOK'
<1> SUFFICES ASSUME TypeOK, Schedule PROVE TypeOK'
  OBVIOUS
<1>0. StoreTypeOK
  BY DEF TypeOK
<1> USE DEF TypeOK, SchedulerTypeOK, Schedule, StoreTypeOK, ExecutorTypeOK, ApplierTypeOK, history
<1>1. ASSUME NEW s \in GhostSchedulers, PickGhost(s) PROVE TypeOK'
  <2>1. PICK m \in Migrations :
          ghostSched' = [ghostSched EXCEPT ![s] = [pc |-> "picked", mig |-> m]]
    BY <1>1 DEF PickGhost, FirstOf, Schedulable, OpenMigrations, Readable
  <2>2. SchedulerTypeOK'
    BY <1>1, <2>1 DEF PickGhost
  <2> QED BY <1>1, <2>2 DEF PickGhost
<1>2. ASSUME NEW s \in GhostSchedulers, HintGhost(s) PROVE TypeOK'
  <2>1. ghostSched[s].mig \in Migrations
    BY <1>2, WorkersHold DEF HintGhost
  <2>2. mig' \in [Migrations -> Row]
    BY <1>0, <1>2, <2>1, HintType DEF HintGhost
  <2>3. ghostSched[s] \in [pc : {"picked", "hinted"}, mig : Migrations]
    BY <1>2 DEF HintGhost, GhostSchedIdle
  <2>4. SchedulerTypeOK'
    BY <1>2, <2>3 DEF HintGhost
  <2> QED BY <1>2, <2>2, <2>4 DEF HintGhost
<1>3. ASSUME NEW s \in GhostSchedulers, MarkGhostReady(s) PROVE TypeOK'
  <2>1. ghostSched[s].mig \in Migrations
    BY <1>3, WorkersHold DEF MarkGhostReady
  <2>2. mig' \in [Migrations -> Row]
    BY <1>0, <1>3, <2>1, StatusType DEF MarkGhostReady, Statuses
  <2>3. SchedulerTypeOK'
    BY <1>3 DEF MarkGhostReady
  <2> QED BY <1>3, <2>2, <2>3 DEF MarkGhostReady
<1>4. ASSUME NEW s \in GhostSchedulers, AbandonGhost(s) PROVE TypeOK'
  BY <1>4 DEF AbandonGhost
<1>5. ASSUME NEW s \in DirectSchedulers, PickDirect(s) PROVE TypeOK'
  BY <1>5 DEF PickDirect, FirstPRs, FulfillablePRs
<1>6. ASSUME NEW s \in DirectSchedulers, MarkDirectReady(s) PROVE TypeOK'
  <2>1. mig' \in [Migrations -> Row]
    BY <1>0, <1>6, PRStatusType DEF MarkDirectReady, Statuses
  <2> QED BY <1>6, <2>1 DEF MarkDirectReady
<1>7. ASSUME NEW s \in DirectSchedulers, AbandonDirect(s) PROVE TypeOK'
  BY <1>7 DEF AbandonDirect
<1> QED
  BY <1>1, <1>2, <1>3, <1>4, <1>5, <1>6, <1>7 DEF SchedulerNext
LEMMA ScriptSteps ==
    ASSUME TypeOK, NEW c \in Scripts
    PROVE  /\ Quit(c) => ExecutorTypeOK'
           /\ script[c].pc = "idle" /\ Goto(c, "checked") => ExecutorTypeOK'
           /\ \A pc \in {"updated", "launched", "copying", "cutover", "broken"} :
                script[c].pc \notin {"idle", "checked"} /\ Goto(c, pc) => ExecutorTypeOK'
           /\ \A kind \in HookKinds :
                script[c].pc \notin {"idle", "checked"} /\ HookReads(c, kind) => ExecutorTypeOK'
<1> USE DEF TypeOK, ExecutorTypeOK
<1>1. Quit(c) => ExecutorTypeOK'
  BY DEF Quit, ScriptIdle, Places
<1>2. ASSUME script[c].pc = "idle", Goto(c, "checked") PROVE ExecutorTypeOK'
  <2>1. [script[c] EXCEPT !.pc = "checked", !.row = NoRow, !.seen = "none"] \in Places
    BY <1>2 DEF Places, HookKinds
  <2> QED BY <1>2, <2>1 DEF Goto
<1>3. ASSUME NEW pc \in {"updated", "launched", "copying", "cutover", "broken"},
             script[c].pc \notin {"idle", "checked"}, Goto(c, pc)
      PROVE  ExecutorTypeOK'
  <2>1. [script[c] EXCEPT !.pc = pc, !.row = NoRow, !.seen = "none"] \in Places
    BY <1>3 DEF Places
  <2> QED BY <1>3, <2>1 DEF Goto
<1>4. ASSUME NEW kind \in HookKinds, script[c].pc \notin {"idle", "checked"},
             HookReads(c, kind)
      PROVE  ExecutorTypeOK'
  <2>1. PICK m \in HookFinds(c, kind) :
          script' = [script EXCEPT ![c] =
                       [@ EXCEPT !.pc = kind, !.row = m, !.seen = mig[m].status]]
    BY <1>4 DEF HookReads
  <2>2. m \in Migrations /\ mig[m].status \in {"ready", "running"}
    BY DEF HookFinds, FirstOf, ByToken, Readable, Origins
  <2>3. [script[c] EXCEPT !.pc = kind, !.row = m, !.seen = mig[m].status] \in Places
    BY <1>4, <2>2 DEF Places
  <2> QED BY <2>1, <2>3
<1> QED
  BY <1>1, <1>2, <1>3, <1>4

LEMMA HookWritesType ==
    ASSUME TypeOK, NEW c \in Scripts, NEW kind \in HookKinds, HookWrites(c, kind)
    PROVE  StoreTypeOK'
<1>1. script[c].row \in Migrations
  BY WorkersHold DEF HookWrites
<1>2. Target(kind) \in Statuses
  BY DEF Target, HookKinds, Statuses
<1>3. mig' \in [Migrations -> Row]
  BY <1>1, <1>2, StatusType DEF HookWrites, HookWrite, TypeOK
<1> QED
  BY <1>3 DEF HookWrites, TypeOK, StoreTypeOK

LEMMA RunGhostType == TypeOK /\ RunGhost => TypeOK'
<1> SUFFICES ASSUME TypeOK, RunGhost PROVE TypeOK'
  OBVIOUS
<1>0. PICK c \in Scripts : ScriptStep(c)
  BY DEF RunGhost, ExecutorNext
<1> SUFFICES StoreTypeOK' /\ ExecutorTypeOK'
  BY DEF TypeOK, RunGhost, SchedulerTypeOK, ApplierTypeOK, history
<1>a. UNCHANGED <<mig, pr, applied>> => StoreTypeOK'
  BY DEF TypeOK, StoreTypeOK
<1>1. CASE CheckToken(c)
  BY <1>1, <1>a, ScriptSteps DEF CheckToken
<1>2. CASE Pick(c)
  <2>1. PICK m \in Migrations :
          script' = [script EXCEPT ![c] = [@ EXCEPT !.pc = "picked", !.mig = m]]
    BY <1>2 DEF Pick, GhostReady, Readable
  <2>2. [script[c] EXCEPT !.pc = "picked", !.mig = m] \in Places
    BY <1>2 DEF Pick, TypeOK, ExecutorTypeOK, Places, HookKinds
  <2> QED BY <1>2, <1>a, <2>1, <2>2 DEF Pick, TypeOK, ExecutorTypeOK
<1>3. CASE NothingReady(c) \/ NotOwned(c) \/ ScriptDies(c)
  BY <1>3, <1>a, ScriptSteps DEF NothingReady, NotOwned, ScriptDies
<1>4. CASE Own(c)
  <2>1. script[c].mig \in Migrations /\ token(c) \in Tokens
    BY <1>4, WorkersHold, ExecutorAssumption DEF Own, token
  <2>2. StoreTypeOK'
    BY <1>4, <2>1, OwnType DEF Own, TypeOK, StoreTypeOK
  <2> QED BY <1>4, <2>2, ScriptSteps DEF Own
<1>5. CASE Launch(c)
  <2>1. PICK m \in Migrations :
          script' = [script EXCEPT ![c] = [@ EXCEPT !.pc = "launched", !.mig = m]]
    BY <1>5 DEF Launch, FirstOf, ByToken, Readable
  <2>2. [script[c] EXCEPT !.pc = "launched", !.mig = m] \in Places
    BY <1>5 DEF Launch, TypeOK, ExecutorTypeOK, Places, HookKinds
  <2> QED BY <1>5, <1>a, <2>1, <2>2 DEF Launch, TypeOK, ExecutorTypeOK
<1>6. CASE \/ StartupHookReads(c) \/ StatusHookReads(c)
           \/ SuccessHookReads(c) \/ FailureHookReads(c)
  <2>1. PICK kind \in HookKinds :
          HookReads(c, kind) /\ script[c].pc \notin {"idle", "checked"}
    BY <1>6 DEF StartupHookReads, StatusHookReads, SuccessHookReads, FailureHookReads, HookKinds
  <2> QED BY <1>a, <2>1, ScriptSteps DEF HookReads
<1>7. CASE StartupHookWrites(c) \/ StatusHookWrites(c)
  <2>1. PICK kind \in HookKinds : HookWrites(c, kind) /\ Goto(c, "copying")
    BY <1>7 DEF StartupHookWrites, StatusHookWrites, HookKinds
  <2>2. script[c].pc \notin {"idle", "checked"}
    BY <2>1 DEF HookWrites, HookKinds
  <2> QED BY <2>1, <2>2, ScriptSteps, HookWritesType
<1>8. CASE SuccessHookWrites(c) \/ FailureHookWrites(c)
  <2>1. PICK kind \in HookKinds : HookWrites(c, kind) /\ Quit(c)
    BY <1>8 DEF SuccessHookWrites, FailureHookWrites, HookKinds
  <2> QED BY <2>1, ScriptSteps, HookWritesType
<1>9. CASE StartupHookFails(c) \/ SuccessHookFails(c) \/ FailureHookFails(c)
  BY <1>9, <1>a, ScriptSteps DEF StartupHookFails, SuccessHookFails, FailureHookFails
<1>10. CASE StatusHookFails(c) \/ GhostBreaks(c)
  BY <1>10, <1>a, ScriptSteps DEF StatusHookFails, HookMisses, GhostBreaks
<1>11. CASE CutOver(c)
  <2>1. StoreTypeOK'
    BY <1>11, WorkersHold DEF CutOver, TypeOK, StoreTypeOK
  <2> QED BY <1>11, <2>1, ScriptSteps DEF CutOver
<1> QED
  BY <1>0, <1>1, <1>2, <1>3, <1>4, <1>5, <1>6, <1>7, <1>8, <1>9, <1>10, <1>11 DEF ScriptStep
LEMMA RunDirectType == TypeOK /\ RunDirect => TypeOK'
<1> SUFFICES ASSUME TypeOK, NEW a \in Appliers,
                    RunDirect, ApplierStep(a)
             PROVE  StoreTypeOK' /\ ApplierTypeOK'
  BY DEF RunDirect, ApplierNext, TypeOK, SchedulerTypeOK, ExecutorTypeOK, history
<1> USE DEF TypeOK, ApplierTypeOK
<1>a. UNCHANGED <<mig, pr, applied>> => StoreTypeOK'
  BY DEF StoreTypeOK
<1>b. Finish(a) => ApplierTypeOK'
  BY DEF Finish, ApplierIdle
<1>c. ASSUME NEW pc \in {"running", "executed", "errored"},
             applier[a].pc \notin {"idle", "owning"}, Advance(a, pc)
      PROVE  ApplierTypeOK'
  <2>1. [applier[a] EXCEPT !.pc = pc]
          \in [pc : {"owned", "running", "executed", "errored"}, mig : Migrations]
    BY <1>c
  <2> QED BY <1>c, <2>1 DEF Advance
<1>d. ASSUME NEW from, NEW to \in Statuses, applier[a].pc \notin {"idle", "owning"},
             mig' = UpdateMigrationStatus(applier[a].mig, from, to, "direct"),
             UNCHANGED <<pr, applied>>
      PROVE  StoreTypeOK'
  BY <1>d, WorkersHold, StatusType DEF StoreTypeOK
<1>1. CASE OwnReady(a)
  <2>1. PICK m \in Migrations : mig' = [mig EXCEPT ![m] = Assigned(m, a)]
    BY <1>1 DEF OwnReady, OwnableReady
  <2>2. mig' \in [Migrations -> Row]
    BY <2>1, OwnType, ApplierAssumption
  <2>3. [applier[a] EXCEPT !.pc = "owning"] \in [pc : {"idle", "owning"}, mig : {NotOwning}]
    BY <1>1 DEF OwnReady
  <2> QED BY <1>1, <2>2, <2>3 DEF OwnReady, StoreTypeOK, Advance
<1>2. CASE ReadBack(a)
  BY <1>2, <1>a DEF ReadBack, FirstOf, ByToken, Readable
<1>3. CASE ReadNothingBack(a) \/ ApplierGivesUp(a)
  BY <1>3, <1>a, <1>b DEF ReadNothingBack, ApplierGivesUp
<1>4. CASE MarkRunning(a)
  BY <1>4, <1>c, <1>d DEF MarkRunning, Statuses
<1>5. CASE Execute(a)
  BY <1>5, <1>c, WorkersHold DEF Execute, StoreTypeOK
<1>6. CASE ExecuteErrs(a)
  BY <1>6, <1>a, <1>c DEF ExecuteErrs
<1>7. CASE MarkComplete(a) \/ MarkFailed(a)
  BY <1>7, <1>b, <1>d DEF MarkComplete, MarkFailed, Statuses
<1> QED
  BY <1>1, <1>2, <1>3, <1>4, <1>5, <1>6, <1>7 DEF ApplierStep

LEMMA OthersType == TypeOK /\ (Chatops \/ Workflow \/ Time) => TypeOK'
<1> SUFFICES ASSUME TypeOK, Chatops \/ Workflow \/ Time PROVE TypeOK'
  OBVIOUS
<1>0. StoreTypeOK
  BY DEF TypeOK
<1> USE DEF TypeOK, SchedulerTypeOK, ExecutorTypeOK, ApplierTypeOK, workers, history
<1>s. ASSUME mig' \in [Migrations -> Row], UNCHANGED <<pr, applied, workers>>,
             retried' \subseteq Migrations, marked' \subseteq Migrations
      PROVE  TypeOK'
  BY <1>s DEF StoreTypeOK
<1>1. ASSUME NEW m \in Migrations, RetryMigration(m) PROVE TypeOK'
  BY <1>1, <1>s, StatusType DEF RetryMigration, Statuses
<1>2. ASSUME NEW m \in Migrations, MarkCompleteByHand(m) PROVE TypeOK'
  BY <1>2, <1>s, StatusType DEF MarkCompleteByHand, Statuses
<1>3. ASSUME NEW m \in Migrations, ApproveAutorun(m) PROVE TypeOK'
  <2>1. AutoStrategy[m] \in Strategies
    BY StoreAssumption
  <2> QED BY <1>3, <1>s, <2>1, StrategyType DEF ApproveAutorun
<1>4. ASSUME NEW p \in PRs, PrioritizePR(p) PROVE TypeOK'
  BY <1>4 DEF PrioritizePR, StoreTypeOK, PRRow
<1>5. ASSUME NEW f \in Forgetters, NEW p \in PRs, ForgetReads(f, p) PROVE TypeOK'
  BY <1>5 DEF ForgetReads, StoreTypeOK
<1>6. ASSUME NEW f \in Forgetters, ForgetDeletes(f) PROVE TypeOK'
  <2>1. forget[f] \in PRs
    BY <1>6 DEF ForgetDeletes
  <2>2. mig' \in [Migrations -> Row]
    BY <1>6, PullRequestWritesType DEF ForgetDeletes
  <2>3. pr' \in [PRs -> PRRow]
    BY <1>6, <2>1 DEF ForgetDeletes, StoreTypeOK, PRRow
  <2> QED BY <1>6, <2>2, <2>3 DEF ForgetDeletes, StoreTypeOK
<1>7. ASSUME NEW p \in PRs, ProbePR(p) PROVE TypeOK'
  <2>1. PICK open \in BOOLEAN, n \in Priorities :
          pr' = [pr EXCEPT ![p] = [known |-> TRUE, open |-> open, priority |-> n]]
    BY <1>7 DEF ProbePR
  <2>2. pr' \in [PRs -> PRRow]
    BY <2>1 DEF StoreTypeOK, PRRow
  <2> QED BY <1>7, <2>2 DEF ProbePR, StoreTypeOK
<1>8. ASSUME NEW p \in PRs, WithdrawPR(p) \/ QueuePR(p) PROVE TypeOK'
  <2>1. mig' \in [Migrations -> Row] /\ UNCHANGED <<pr, applied, workers, history>>
    BY <1>8, PullRequestWritesType DEF WithdrawPR, QueuePR
  <2> QED BY <1>s, <2>1
<1>9. ASSUME NEW m \in Migrations, ProposeMigration(m) PROVE TypeOK'
  <2>1. AutoStrategy[m] \in Strategies
    BY StoreAssumption
  <2>2. PICK strategy \in Strategies : mig' = InsertMigration(m, strategy)
    BY <1>9, <2>1 DEF ProposeMigration, Strategies
  <2>3. mig' \in [Migrations -> Row]
    BY <2>2, InsertType
  <2> QED BY <1>9, <1>s, <2>3 DEF ProposeMigration
<1>10. ASSUME NEW m \in Migrations, LivenessAges(m) \/ ReadyAges(m) PROVE TypeOK'
  <2>1. CASE LivenessAges(m)
    <3>1. mig' \in [Migrations -> Row]
      BY <1>0, <2>1, AgesType DEF LivenessAges
    <3> QED BY <1>s, <2>1, <3>1 DEF LivenessAges
  <2>2. CASE ReadyAges(m)
    <3>1. mig' \in [Migrations -> Row]
      BY <1>0, <2>2, AgesType DEF ReadyAges
    <3> QED BY <1>s, <2>2, <3>1 DEF ReadyAges
  <2> QED BY <1>10, <2>1, <2>2
<1>11. ASSUME Expiry PROVE TypeOK'
  BY <1>11, <1>s, ExpireType DEF Expiry, Expire, Statuses
<1> QED
  BY <1>1, <1>2, <1>3, <1>4, <1>5, <1>6, <1>7, <1>8, <1>9, <1>10, <1>11
  DEF Chatops, Workflow, Time

LEMMA TypeInit == Init => TypeOK
<1> SUFFICES ASSUME Init PROVE TypeOK
  OBVIOUS
<1>a. \A strategy \in Strategies :
        /\ NewRow(strategy) \in Row
        /\ [NewRow(strategy) EXCEPT !.status = "none"] \in Row
  BY DEF NewRow, Row, Statuses, NoRowStatuses
<1>b. \A m \in Migrations : AutoStrategy[m] \in Strategies /\ "manual" \in Strategies
  BY StoreAssumption DEF Strategies
<1>1. mig \in [Migrations -> Row]
  <2>1. PICK auto \in SUBSET PRs :
          mig = [m \in Migrations |->
                LET row == NewRow(IF PROf[m] \in auto THEN AutoStrategy[m] ELSE "manual")
                IN  IF m \in Late THEN [row EXCEPT !.status = "none"] ELSE row]
    BY DEF Init
  <2>2. \A m \in Migrations : mig[m] \in Row
    BY <1>a, <1>b, <2>1
  <2> QED BY <2>1, <2>2
<1>2. StoreTypeOK
  BY <1>1 DEF Init, StoreTypeOK, PRRow
<1>3. SchedulerTypeOK /\ ExecutorTypeOK /\ ApplierTypeOK
  BY DEF Init, SchedulerInit, ExecutorInit, ApplierInit, SchedulerTypeOK, ExecutorTypeOK,
         ApplierTypeOK, ApplierIdle, ScriptIdle, Places
<1> QED BY <1>2, <1>3 DEF Init, TypeOK

LEMMA TypeStep == TypeOK /\ [Next]_vars => TypeOK'
<1>1. TypeOK /\ Next => TypeOK'
  BY ScheduleType, RunGhostType, RunDirectType, OthersType DEF Next
<1>2. TypeOK /\ UNCHANGED vars => TypeOK'
  BY DEF TypeOK, vars, StoreTypeOK, SchedulerTypeOK, ExecutorTypeOK, ApplierTypeOK
<1> QED BY <1>1, <1>2

(* The tables and the goroutines' places have their types in every         *)
(* reachable state, and a goroutine past its reading holds a migration.    *)
THEOREM TypeCorrect == Spec => []TypeOK
BY TypeInit, TypeStep, PTL DEF Spec
=============================================================================
