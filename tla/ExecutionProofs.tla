--------------------------- MODULE ExecutionProofs ---------------------------
(***************************************************************************)
(* Who executes a migration, and what the table says of it meanwhile, for  *)
(* any number of migrations, hosts, appliers and overlapping ticks: one    *)
(* executor at most, on a row that is running and has its token; and, for  *)
(* one gh-ost scheduler at a time, one migration per topology.             *)
(*                                                                         *)
(* These need more of the world than OwnershipProofs does, and `Supervised`*)
(* is what: an executor that is alive is never silent for as long as       *)
(* expiry waits, no human marks complete what they have not seen end, and  *)
(* no pull request is forgotten.  Each of the three is the hypothesis of a *)
(* finding or a hazard: without it the code breaks the properties.         *)
(***************************************************************************)
EXTENDS OwnershipProofs, FiniteSetTheorems

-----------------------------------------------------------------------------
(* What a step makes of one row: one of the following, and it is fresh     *)
(* unless it was stale or has just aged.                                   *)

KeepsToken(m) == mig'[m].token = mig[m].token
KeepsStatus(m) == mig'[m].status = mig[m].status
KeepsStrategy(m) == mig'[m].strategy = mig[m].strategy

Quiet(m) == KeepsToken(m) /\ KeepsStatus(m) /\ KeepsStrategy(m)

Inserted(m) ==
    /\ ~Exists(m) /\ m \in Late /\ mig'[m].strategy \in {"manual", AutoStrategy[m]}
    /\ mig'[m].status = "proposed" /\ mig'[m].token = NoToken /\ ~mig'[m].stale

(* Queued, withdrawn or retried: it neither was nor becomes active.        *)
Inactive(m) ==
    /\ mig[m].status \in {"proposed", "queued", "failed"}
    /\ mig'[m].status \in {"queued", "cancelled"}
    /\ KeepsToken(m) /\ KeepsStrategy(m)

ApprovedByHand(m) == /\ KeepsToken(m) /\ KeepsStatus(m)
                     /\ mig[m].strategy = "manual" /\ mig'[m].strategy = AutoStrategy[m]

ScheduledGhost(m) ==
    /\ \E s \in GhostSchedulers : MarkGhostReady(s) /\ ghostSched[s].mig = m
    /\ mig[m].status = "queued" /\ mig'[m].status = "ready"
    /\ KeepsToken(m) /\ KeepsStrategy(m) /\ mig[m].strategy = "gh-ost"

ScheduledDirect(m) ==
    /\ \E s \in DirectSchedulers : MarkDirectReady(s) /\ directSched[s] = PROf[m]
    /\ mig[m].status = "queued" /\ mig'[m].status = "ready"
    /\ KeepsToken(m) /\ KeepsStrategy(m) /\ mig[m].strategy = "direct"

Owned(m) ==
    /\ mig[m].token = NoToken
    /\ KeepsStatus(m) /\ KeepsStrategy(m) /\ ~mig'[m].stale
    /\ \/ \E c \in Scripts : Own(c) /\ mig'[m].token = HostOf[c]
       \/ \E a \in Appliers : /\ OwnReady(a) /\ mig'[m].token = a
                              /\ mig[m].status = "ready" /\ mig[m].strategy = "direct"

Expired(m) ==
    /\ mig[m].stale /\ mig[m].token # NoToken
    /\ mig[m].status \in {"ready", "running", "complete", "failed"}
    /\ mig'[m].token = NoToken /\ KeepsStrategy(m)
    /\ \/ KeepsStatus(m) /\ mig[m].status # "running"
       \/ mig[m].status = "running" /\ mig'[m].status = "failed"

(* Only whoever has it in hand makes the row running, or ends it.          *)
Reported(m) ==
    /\ \/ \E c \in Scripts : ScriptStep(c) /\ script[c].pc \in HookKinds /\ script[c].mig = m
       \/ \E a \in Appliers : /\ ApplierStep(a)
                              /\ applier[a].pc \notin {"idle", "owning"} /\ applier[a].mig = m
    /\ mig[m].status \in {"ready", "running"}
    /\ \/ mig'[m].status = "running" /\ KeepsToken(m)
       \/ mig'[m].status \in {"complete", "failed"} /\ mig'[m].token = NoToken
    /\ KeepsStrategy(m)

EndedByHand(m) ==
    /\ MarkedByHand # {} \/ Forgetters # {}
    /\ mig'[m].status \in {"complete", "deleted"} /\ mig'[m].token = NoToken /\ KeepsStrategy(m)

Effect(m) == \/ Quiet(m) \/ Inserted(m) \/ Inactive(m) \/ ApprovedByHand(m)
             \/ ScheduledGhost(m) \/ ScheduledDirect(m)
             \/ Owned(m) \/ Expired(m) \/ Reported(m) \/ EndedByHand(m)

Ages(m) == mig'[m].stale => mig[m].stale \/ LivenessAges(m)

(* One row of UpdateMigrationStatus.                                       *)
LEMMA UpdatedRow ==
    ASSUME TypeOK, NEW k \in Migrations, NEW from, NEW to \in Statuses, NEW strategy,
           mig' = UpdateMigrationStatus(k, from, to, strategy), NEW m \in Migrations
    PROVE  \/ mig'[m] = mig[m]
           \/ /\ m = k /\ mig[m].status = from /\ mig[m].strategy = strategy
              /\ mig'[m].status = to /\ KeepsStrategy(m)
              /\ mig'[m].token = IF to \in {"complete", "failed"} THEN NoToken ELSE mig[m].token
              /\ mig'[m].stale => mig[m].stale
<1>1. mig[k] \in Row /\ mig \in [Migrations -> Row]
  BY DEF TypeOK, StoreTypeOK
<1> DEFINE row == WithStatus(mig[k], to)
<1>2. /\ row.status = to /\ row.strategy = mig[k].strategy
      /\ row.token = IF to \in {"complete", "failed"} THEN NoToken ELSE mig[k].token
      /\ row.stale => mig[k].stale
  BY <1>1 DEF WithStatus, Row
<1>3. \/ mig' = [mig EXCEPT ![k] = row] /\ Matches(k, from, strategy)
      \/ mig' = mig
  BY DEF UpdateMigrationStatus
<1> HIDE DEF row
<1> QED
  BY <1>1, <1>2, <1>3 DEF Matches, KeepsStrategy

LEMMA SameRow ==
    ASSUME NEW m \in Migrations, mig'[m] = mig[m]
    PROVE  Effect(m) /\ Ages(m)
BY DEF Effect, Quiet, KeepsToken, KeepsStatus, KeepsStrategy, Ages

LEMMA SchedulingEffect ==
    ASSUME TypeOK, Schedule, NEW m \in Migrations
    PROVE  Effect(m) /\ Ages(m)
<1>1. ASSUME NEW s \in GhostSchedulers, HintGhost(s) PROVE Effect(m) /\ Ages(m)
  <2>1. PICK site \in Sites : mig' = UpdateMigrationTokenHint(ghostSched[s].mig, site)
    BY <1>1 DEF HintGhost
  <2>2. \/ mig'[m] = mig[m]
        \/ mig'[m] = [mig[m] EXCEPT !.hint = site]
    BY <2>1 DEF UpdateMigrationTokenHint, TypeOK, StoreTypeOK
  <2>3. mig[m] \in Row
    BY DEF TypeOK, StoreTypeOK
  <2> QED BY <2>2, <2>3, SameRow
          DEF Row, Effect, Quiet, KeepsToken, KeepsStatus, KeepsStrategy, Ages
<1>2. ASSUME NEW s \in GhostSchedulers, MarkGhostReady(s) PROVE Effect(m) /\ Ages(m)
  <2>1. /\ ghostSched[s].mig \in Migrations
        /\ mig' = UpdateMigrationStatus(ghostSched[s].mig, "queued", "ready", "gh-ost")
    BY <1>2, WorkersHold DEF MarkGhostReady
  <2>2. CASE mig'[m] = mig[m]
    BY <2>2, SameRow
  <2>3. CASE mig'[m] # mig[m]
    <3>1. /\ m = ghostSched[s].mig /\ mig[m].status = "queued" /\ mig[m].strategy = "gh-ost"
          /\ mig'[m].status = "ready" /\ KeepsStrategy(m) /\ mig'[m].token = mig[m].token
          /\ mig'[m].stale => mig[m].stale
      BY <2>1, <2>3, UpdatedRow DEF Statuses
    <3> QED BY <1>2, <3>1 DEF Effect, ScheduledGhost, KeepsToken, Ages
  <2> QED BY <2>2, <2>3
<1>3. ASSUME NEW s \in DirectSchedulers, MarkDirectReady(s) PROVE Effect(m) /\ Ages(m)
  <2>1. mig' = UpdatePRMigrationsStatus(directSched[s], "queued", "ready", "direct")
    BY <1>3 DEF MarkDirectReady
  <2>2. mig[m] \in Row
    BY DEF TypeOK, StoreTypeOK
  <2>3. \/ mig'[m] = mig[m]
        \/ /\ PROf[m] = directSched[s] /\ Matches(m, "queued", "direct")
           /\ mig'[m] = [mig[m] EXCEPT !.status = "ready"]
    BY <2>1 DEF UpdatePRMigrationsStatus
  <2> QED BY <1>3, <2>2, <2>3, SameRow
          DEF Row, Matches, Effect, ScheduledDirect, KeepsToken, KeepsStrategy, Ages
<1> QED
  BY <1>1, <1>2, <1>3, SameRow
  DEF Schedule, SchedulerNext, PickGhost, AbandonGhost, PickDirect, AbandonDirect

LEMMA OwnEffect ==
    ASSUME TypeOK, NEW c \in Scripts, Own(c), NEW m \in Migrations
    PROVE  Effect(m) /\ Ages(m)
<1>0. mig[m] \in Row
  BY DEF TypeOK, StoreTypeOK
<1>1. mig' = OwnMigration(script[c].mig, HostOf[c])
  BY DEF Own, token
<1>2. \/ mig'[m] = mig[m]
      \/ mig[m].token = NoToken /\ mig'[m] = Assigned(m, HostOf[c])
  BY <1>1 DEF OwnMigration, TypeOK, StoreTypeOK
<1> QED
  BY <1>0, <1>2, SameRow DEF Row, Assigned, Effect, Owned, KeepsStatus, KeepsStrategy, Ages

(* What a hook makes of the row it has read.                               *)
LEMMA HookEffect ==
    ASSUME TypeOK, NEW c \in Scripts, NEW kind \in HookKinds, HookWrites(c, kind),
           NEW m \in Migrations
    PROVE  \/ mig'[m] = mig[m]
           \/ /\ m = script[c].row /\ mig[m].status \in {"ready", "running"}
              /\ \/ mig'[m].status = "running" /\ KeepsToken(m)
                 \/ mig'[m].status \in {"complete", "failed"} /\ mig'[m].token = NoToken
              /\ KeepsStrategy(m) /\ Ages(m)
<1>1. /\ script[c].pc = kind /\ script[c].row \in Migrations
      /\ script[c].seen \in {"ready", "running"}
  BY WorkersHold DEF HookWrites
<1> DEFINE from == script[c].seen
           to == Target(kind)
           strategy == mig[script[c].row].strategy
<1>2. /\ mig' = UpdateMigrationStatus(script[c].row, from, to, strategy)
      /\ to \in {"running", "complete", "failed"} /\ to \in Statuses
  BY DEF HookWrites, HookWrite, Target, HookKinds, Statuses
<1>3. from \in {"ready", "running"}
  BY <1>1
<1> HIDE DEF from, to, strategy
<1>4. \/ mig'[m] = mig[m]
      \/ /\ m = script[c].row /\ mig[m].status = from
         /\ mig'[m].status = to /\ KeepsStrategy(m)
         /\ mig'[m].token = IF to \in {"complete", "failed"} THEN NoToken ELSE mig[m].token
         /\ mig'[m].stale => mig[m].stale
  BY <1>1, <1>2, UpdatedRow
<1> QED
  BY <1>2, <1>3, <1>4 DEF KeepsToken, Ages

LEMMA ScriptWrites ==
    ASSUME NEW c \in Scripts, ScriptStep(c)
    PROVE  Own(c) \/ (\E kind \in HookKinds : HookWrites(c, kind)) \/ UNCHANGED mig
BY DEF ScriptStep, CheckToken, Pick, NothingReady, Launch, NotOwned, StartupHookReads,
    StartupHookWrites, StartupHookFails, StatusHookReads, StatusHookWrites, StatusHookFails,
    CutOver, SuccessHookReads, SuccessHookWrites, SuccessHookFails, GhostBreaks,
    FailureHookReads, FailureHookWrites, FailureHookFails, ScriptDies, HookReads, HookKinds

LEMMA GhostEffect ==
    ASSUME OwnershipInv, NEW c \in Scripts, ScriptStep(c), NEW m \in Migrations
    PROVE  Effect(m) /\ Ages(m)
<1>0. TypeOK
  BY DEF OwnershipInv
<1>1. ASSUME NEW kind \in HookKinds, HookWrites(c, kind), mig'[m] # mig[m]
      PROVE  Effect(m) /\ Ages(m)
  <2>1. script[c].pc \in HookKinds /\ script[c].row = script[c].mig
    BY <1>1 DEF HookWrites, OwnershipInv, HookHasRow
  <2> QED BY <1>0, <1>1, <2>1, HookEffect DEF Effect, Reported
<1> QED
  BY <1>0, <1>1, ScriptWrites, OwnEffect, SameRow

LEMMA DirectEffect ==
    ASSUME TypeOK, NEW a \in Appliers, ApplierStep(a), NEW m \in Migrations
    PROVE  Effect(m) /\ Ages(m)
<1>0. mig[m] \in Row
  BY DEF TypeOK, StoreTypeOK
<1>1. CASE OwnReady(a)
  <2>1. PICK k \in OwnableReady("direct") : mig' = [mig EXCEPT ![k] = Assigned(k, a)]
    BY <1>1 DEF OwnReady
  <2>2. \/ mig'[m] = mig[m]
        \/ m \in OwnableReady("direct") /\ mig'[m] = Assigned(m, a)
    BY <2>1 DEF TypeOK, StoreTypeOK
  <2> QED BY <1>0, <1>1, <2>2, SameRow
          DEF Row, Assigned, OwnableReady, Matches, Effect, Owned, KeepsStatus, KeepsStrategy,
              Ages
<1>2. CASE MarkRunning(a) \/ MarkComplete(a) \/ MarkFailed(a)
  <2>1. applier[a].pc \notin {"idle", "owning"} /\ applier[a].mig \in Migrations
    BY <1>2, WorkersHold DEF MarkRunning, MarkComplete, MarkFailed
  <2>2. PICK from \in {"ready", "running"}, to \in {"running", "complete", "failed"} :
          mig' = UpdateMigrationStatus(applier[a].mig, from, to, "direct")
    BY <1>2 DEF MarkRunning, MarkComplete, MarkFailed
  <2>3. CASE mig'[m] = mig[m]
    BY <2>3, SameRow
  <2>4. CASE mig'[m] # mig[m]
    <3>1. /\ m = applier[a].mig /\ mig[m].status = from
          /\ mig'[m].status = to /\ KeepsStrategy(m)
          /\ mig'[m].token = IF to \in {"complete", "failed"} THEN NoToken ELSE mig[m].token
          /\ mig'[m].stale => mig[m].stale
      BY <2>1, <2>2, <2>4, UpdatedRow DEF Statuses
    <3> QED BY <2>1, <3>1 DEF Effect, Reported, KeepsToken, Ages
  <2> QED BY <2>3, <2>4
<1>3. CASE UNCHANGED mig
  BY <1>3, SameRow
<1> QED
  BY <1>1, <1>2, <1>3 DEF ApplierStep, ReadBack, ReadNothingBack, Execute, ExecuteErrs,
                          ApplierGivesUp

LEMMA OtherEffect ==
    ASSUME TypeOK, Chatops \/ Workflow \/ Time,
           NEW m \in Migrations
    PROVE  Effect(m) /\ Ages(m)
<1>0. mig[m] \in Row /\ mig \in [Migrations -> Row]
  BY DEF TypeOK, StoreTypeOK
<1>1. ASSUME NEW k \in Migrations, RetryMigration(k) PROVE Effect(m) /\ Ages(m)
  <2>1. mig' = UpdateMigrationStatus(k, "failed", "queued", mig[k].strategy)
    BY <1>1 DEF RetryMigration
  <2>2. \/ mig'[m] = mig[m]
        \/ /\ mig[m].status = "failed" /\ mig'[m].status = "queued" /\ KeepsStrategy(m)
           /\ mig'[m].token = mig[m].token /\ (mig'[m].stale => mig[m].stale)
    BY <2>1, UpdatedRow DEF Statuses
  <2> QED BY <2>2, SameRow DEF Effect, Inactive, KeepsToken, Ages
<1>2. ASSUME NEW k \in Migrations, MarkCompleteByHand(k) PROVE Effect(m) /\ Ages(m)
  <2>1. /\ mig' = UpdateMigrationStatus(k, mig[k].status, "complete", mig[k].strategy)
        /\ MarkedByHand # {}
    BY <1>2 DEF MarkCompleteByHand
  <2>2. \/ mig'[m] = mig[m]
        \/ /\ mig'[m].status = "complete" /\ mig'[m].token = NoToken /\ KeepsStrategy(m)
           /\ mig'[m].stale => mig[m].stale
    BY <2>1, UpdatedRow DEF Statuses
  <2> QED BY <2>1, <2>2, SameRow DEF Effect, EndedByHand, Ages
<1>3. ASSUME NEW k \in Migrations, ApproveAutorun(k) PROVE Effect(m) /\ Ages(m)
  <2>1. \/ mig'[m] = mig[m]
        \/ mig[m].strategy = "manual" /\ mig'[m] = [mig[m] EXCEPT !.strategy = AutoStrategy[m]]
    BY <1>0, <1>3 DEF ApproveAutorun, UpdateMigrationStrategy
  <2> QED BY <1>0, <2>1, SameRow
          DEF Row, Effect, ApprovedByHand, KeepsToken, KeepsStatus, Ages
<1>4. ASSUME NEW p \in PRs, WithdrawPR(p) \/ QueuePR(p) PROVE Effect(m) /\ Ages(m)
  <2>1. \/ mig'[m] = mig[m]
        \/ /\ mig[m].status \in {"proposed", "queued"}
           /\ \E to \in {"queued", "cancelled"} : mig'[m] = [mig[m] EXCEPT !.status = to]
    BY <1>4 DEF WithdrawPR, QueuePR, CancelPRMigrations, QueuePRMigrations
  <2> QED BY <1>0, <2>1, SameRow DEF Row, Effect, Inactive, KeepsToken, KeepsStrategy, Ages
<1>5. ASSUME NEW k \in Migrations, ProposeMigration(k) PROVE Effect(m) /\ Ages(m)
  <2>1. PICK strategy \in {"manual", AutoStrategy[k]} :
          k \in Late /\ mig[k].status = "none" /\ mig' = [mig EXCEPT ![k] = NewRow(strategy)]
    BY <1>5 DEF ProposeMigration, InsertMigration
  <2>2. CASE m = k
    <3>1. mig'[m] = NewRow(strategy)
      BY <1>0, <2>1, <2>2
    <3>2. /\ mig'[m].status = "proposed" /\ mig'[m].token = NoToken /\ ~mig'[m].stale
          /\ mig'[m].strategy = strategy
      BY <3>1 DEF NewRow
    <3> QED BY <2>1, <2>2, <3>2 DEF Effect, Inserted, Exists, NoRowStatuses, Ages
  <2>3. CASE m # k
    BY <1>0, <2>1, <2>3, SameRow
  <2> QED BY <2>2, <2>3
<1>6. ASSUME NEW k \in Migrations, LivenessAges(k) PROVE Effect(m) /\ Ages(m)
  <2>1. mig' = [mig EXCEPT ![k].stale = TRUE]
    BY <1>6 DEF LivenessAges
  <2>2. CASE m = k
    BY <1>0, <1>6, <2>1, <2>2
       DEF Row, Effect, Quiet, KeepsToken, KeepsStatus, KeepsStrategy, Ages
  <2>3. CASE m # k
    BY <1>0, <2>1, <2>3, SameRow
  <2> QED BY <2>2, <2>3
<1>7. ASSUME NEW k \in Migrations, ReadyAges(k) PROVE Effect(m) /\ Ages(m)
  <2>1. mig' = [mig EXCEPT ![k].waited = TRUE]
    BY <1>7 DEF ReadyAges
  <2>2. mig'[m] = mig[m] \/ mig'[m] = [mig[m] EXCEPT !.waited = TRUE]
    BY <1>0, <2>1
  <2> QED BY <1>0, <2>2, SameRow
          DEF Row, Effect, Quiet, KeepsToken, KeepsStatus, KeepsStrategy, Ages
<1>8. ASSUME Expiry PROVE Effect(m) /\ Ages(m)
  <2>1. PICK in, to : /\ mig' = ExpireStaleMigrations(in, to)
                      /\ \/ in \in {"ready", "complete", "failed"} /\ to = in
                         \/ in = "running" /\ to = "failed"
    BY <1>8 DEF Expiry, Expire
  <2>2. \/ mig'[m] = mig[m]
        \/ /\ mig[m].token # NoToken /\ mig[m].status = in /\ mig[m].stale
           /\ mig'[m] = [mig[m] EXCEPT !.token = NoToken, !.status = to]
    BY <2>1 DEF ExpireStaleMigrations
  <2>3. CASE mig'[m] # mig[m]
    <3>1. /\ mig'[m].token = NoToken /\ mig'[m].status = to /\ KeepsStrategy(m)
          /\ mig'[m].stale => mig[m].stale
      BY <1>0, <2>2, <2>3 DEF Row, KeepsStrategy
    <3>2. Expired(m)
      BY <2>1, <2>2, <2>3, <3>1 DEF Expired, KeepsStatus
    <3> QED BY <3>1, <3>2 DEF Effect, Ages
  <2> QED BY <2>3, SameRow
<1>9. ASSUME NEW f \in Forgetters, ForgetDeletes(f) PROVE Effect(m) /\ Ages(m)
  <2>1. \/ mig'[m] = mig[m]
        \/ mig'[m] = [mig[m] EXCEPT !.status = "deleted", !.token = NoToken]
    BY <1>9 DEF ForgetDeletes, DeletePRMigrations
  <2> QED BY <1>0, <1>9, <2>1, SameRow DEF Row, Effect, EndedByHand, KeepsStrategy, Ages
<1>10. CASE UNCHANGED mig
  BY <1>10, SameRow
<1> QED
  BY <1>1, <1>2, <1>3, <1>4, <1>5, <1>6, <1>7, <1>8, <1>9, <1>10
  DEF Chatops, Workflow, Time, PrioritizePR, ForgetReads, ProbePR

LEMMA Effects ==
    ASSUME OwnershipInv, Next, NEW m \in Migrations
    PROVE  Effect(m) /\ Ages(m)
BY SchedulingEffect, GhostEffect, DirectEffect, OtherEffect
DEF Next, RunGhost, ExecutorNext, RunDirect, ApplierNext, OwnershipInv

(* Without OneRunPerHost a hook may have read another row than its own.    *)
Hooked(m) ==
    /\ mig[m].status \in {"ready", "running"}
    /\ mig'[m].status \in {"running", "complete", "failed"} /\ KeepsStrategy(m)

LEMMA TypedEffects ==
    ASSUME TypeOK, Next, NEW m \in Migrations
    PROVE  Effect(m) \/ Hooked(m)
<1>1. ASSUME NEW c \in Scripts, ScriptStep(c) PROVE Effect(m) \/ Hooked(m)
  BY <1>1, ScriptWrites, OwnEffect, HookEffect, SameRow DEF Hooked
<1> QED
  BY <1>1, SchedulingEffect, DirectEffect, OtherEffect
  DEF Next, RunGhost, ExecutorNext, RunDirect, ApplierNext

-----------------------------------------------------------------------------
(* One gh-ost migration per topology *)

GhostActive(m) == mig[m].strategy = "gh-ost" /\ mig[m].status \in {"ready", "running"}

NoManualActive == \A m \in Migrations :
    mig[m].status \in {"ready", "running"} => mig[m].strategy # "manual"

AllOpen == \A p \in PRs : pr[p].open

(* What a scheduler has picked is still free of conflict.                  *)
PickedAlone == \A s \in GhostSchedulers : ghostSched[s].pc # "idle" =>
    \A n \in Migrations \ {ghostSched[s].mig} :
        GhostActive(n) => TopologyOf[n] # TopologyOf[ghostSched[s].mig]

(* What a scheduler has picked, or made active, a reading has returned.    *)
GhostSeen ==
    /\ \A m \in Migrations : GhostActive(m) => Seen(m)
    /\ \A s \in GhostSchedulers : ghostSched[s].pc # "idle" => Seen(ghostSched[s].mig)

OpenInv == OwnershipInv /\ NoManualActive /\ AllOpen /\ GhostSeen

TopologyInv == OpenInv /\ PickedAlone /\ OneGhostPerTopology

(* What the step below asks of a state: gh-ost schedulers take turns.      *)
OneSchedulerAtWork == \A s, t \in GhostSchedulers :
    ghostSched[s].pc # "idle" /\ ghostSched[t].pc # "idle" => s = t

HostsAndPRs == OneRunPerHost /\ Closable = {}

OneSchedulerOpenPRs == HostsAndPRs /\ \A s, t \in GhostSchedulers : s = t

LEMMA TopologyInit == Init => TopologyInv
<1> SUFFICES ASSUME Init PROVE TopologyInv
  OBVIOUS
<1> USE DEF OpenInv
<1>1. \A m \in Migrations : mig[m].status \in {"none", "proposed"}
  BY DEF Init, NewRow
<1>2. \A s \in GhostSchedulers : ghostSched[s].pc = "idle"
  BY DEF Init, SchedulerInit, GhostSchedIdle
<1>3. AllOpen
  BY DEF Init, AllOpen
<1> QED
  BY <1>1, <1>2, <1>3, OwnershipInit
  DEF TopologyInv, NoManualActive, GhostSeen, PickedAlone, OneGhostPerTopology, GhostActive

(* Nothing becomes an active gh-ost migration but by a scheduler.          *)
LEMMA OnlySchedulersActivate ==
    ASSUME OpenInv, Next, NEW m \in Migrations, GhostActive(m)', ~GhostActive(m)
    PROVE  \E s \in GhostSchedulers : MarkGhostReady(s) /\ ghostSched[s].mig = m
<1>1. Effect(m)
  BY Effects DEF OpenInv
<1> QED
  BY <1>1 DEF Effect, Quiet, Inserted, Inactive, ApprovedByHand, ScheduledGhost,
       ScheduledDirect, Owned, Expired, Reported, EndedByHand, KeepsToken, KeepsStatus,
       KeepsStrategy, GhostActive, OpenInv, NoManualActive

LEMMA ManualStep == OpenInv /\ Next => NoManualActive'
<1> SUFFICES ASSUME OpenInv, Next, NEW m \in Migrations,
                    mig'[m].status \in {"ready", "running"}
             PROVE  mig'[m].strategy # "manual"
  BY DEF NoManualActive
<1>1. Effect(m)
  BY Effects DEF OpenInv
<1> QED
  BY <1>1 DEF Effect, Quiet, Inserted, Inactive, ApprovedByHand, ScheduledGhost,
       ScheduledDirect, Owned, Expired, Reported, EndedByHand, KeepsStatus,
       KeepsStrategy, OpenInv, NoManualActive

LEMMA OpenStep == Closable = {} /\ OpenInv /\ Next => AllOpen'
<1> SUFFICES ASSUME Closable = {}, OpenInv, Next PROVE AllOpen'
  OBVIOUS
<1>0. pr \in [PRs -> PRRow] /\ \A p \in PRs : pr[p].open
  BY DEF OpenInv, OwnershipInv, TypeOK, StoreTypeOK, AllOpen
<1>1. CASE UNCHANGED pr
  BY <1>0, <1>1 DEF AllOpen
<1>2. ASSUME NEW f \in Forgetters, ForgetDeletes(f) PROVE AllOpen'
  BY <1>0, <1>2 DEF ForgetDeletes, AllOpen, PRRow
<1>3. ASSUME NEW p \in PRs, ProbePR(p) PROVE AllOpen'
  BY <1>0, <1>3 DEF ProbePR, AllOpen
<1>4. ASSUME NEW p \in PRs, PrioritizePR(p) PROVE AllOpen'
  BY <1>0, <1>4 DEF PrioritizePR, AllOpen, PRRow
<1> QED
  BY <1>1, <1>2, <1>3, <1>4, PRWrites

LEMMA SchedulerMoves ==
    ASSUME TypeOK, Next, NEW s \in GhostSchedulers, ghostSched'[s].pc # "idle"
    PROVE  /\ ~MarkGhostReady(s)
           /\ \/ PickGhost(s)
              \/ ghostSched[s].pc # "idle" /\ ghostSched'[s].mig = ghostSched[s].mig
<1>0. ghostSched \in [GhostSchedulers ->
          {GhostSchedIdle} \cup [pc : {"picked", "hinted"}, mig : Migrations]]
  BY DEF TypeOK, SchedulerTypeOK
<1>1. ~MarkGhostReady(s)
  BY <1>0 DEF MarkGhostReady, GhostSchedIdle
<1>2. CASE Schedule
  <2>1. ASSUME NEW t \in GhostSchedulers,
               PickGhost(t) \/ HintGhost(t) \/ MarkGhostReady(t) \/ AbandonGhost(t)
        PROVE  PickGhost(s) \/ (ghostSched[s].pc # "idle" /\ ghostSched'[s].mig = ghostSched[s].mig)
    <3>1. CASE s = t
      <4>1. CASE HintGhost(s)
        BY <1>0, <4>1 DEF HintGhost, GhostSchedIdle
      <4>2. ~AbandonGhost(s)
        BY <1>0 DEF AbandonGhost, GhostSchedIdle
      <4> QED BY <1>1, <2>1, <3>1, <4>1, <4>2
    <3>2. CASE s # t
      <4>1. ghostSched'[s] = ghostSched[s]
        BY <1>0, <2>1, <3>2 DEF PickGhost, HintGhost, MarkGhostReady, AbandonGhost
      <4> QED BY <4>1
    <3> QED BY <3>1, <3>2
  <2>2. ASSUME UNCHANGED ghostSched
        PROVE  ghostSched[s].pc # "idle" /\ ghostSched'[s].mig = ghostSched[s].mig
    BY <2>2
  <2> QED BY <1>1, <1>2, <2>1, <2>2
          DEF Schedule, SchedulerNext, PickDirect, MarkDirectReady, AbandonDirect
<1>3. CASE ~Schedule
  <2>1. UNCHANGED ghostSched
    BY <1>3 DEF Next, RunGhost, RunDirect, Chatops, RetryMigration, MarkCompleteByHand,
         ApproveAutorun, PrioritizePR, ForgetReads, ForgetDeletes, Workflow, ProbePR,
         WithdrawPR, QueuePR, ProposeMigration, Time, LivenessAges, ReadyAges, Expiry,
         Expire, workers
  <2> QED BY <1>1, <2>1
<1> QED
  BY <1>2, <1>3

LEMMA GhostSeenStep == OpenInv /\ Next => GhostSeen'
<1> SUFFICES ASSUME OpenInv, Next PROVE GhostSeen'
  OBVIOUS
<1>0. OwnershipInv /\ TypeOK /\ GhostSeen
  BY DEF OpenInv, OwnershipInv
<1>1. ASSUME NEW m \in Migrations, GhostActive(m)' PROVE Seen(m)'
  <2>1. Seen(m)
    BY <1>0, <1>1, OnlySchedulersActivate DEF GhostSeen, MarkGhostReady
  <2> QED BY <1>0, <2>1, SeenStays
<1>2. ASSUME NEW s \in GhostSchedulers, ghostSched'[s].pc # "idle",
             NEW m, m = ghostSched'[s].mig
      PROVE  Seen(m)'
  <2>1. m \in Migrations /\ Seen(m)
    <3>1. CASE PickGhost(s)
      <4>1. PICK n \in Schedulable :
              ghostSched' = [ghostSched EXCEPT ![s] = [pc |-> "picked", mig |-> n]]
        BY <3>1 DEF PickGhost, FirstOf
      <4>2. m = n
        BY <1>0, <1>2, <4>1 DEF TypeOK, SchedulerTypeOK
      <4> QED BY <4>1, <4>2 DEF Schedulable, OpenMigrations, Readable, Seen
    <3>2. CASE ghostSched[s].pc # "idle" /\ ghostSched'[s].mig = ghostSched[s].mig
      BY <1>0, <1>2, <3>2, WorkersHold DEF GhostSeen
    <3> QED BY <1>0, <1>2, <3>1, <3>2, SchedulerMoves
  <2> QED BY <1>0, <2>1, SeenStays
<1> QED
  BY <1>1, <1>2 DEF GhostSeen

(* What a scheduler has picked conflicts with nothing that was active when *)
(* it read, and with nothing that it has been free of since.               *)
LEMMA PickedIsFree ==
    ASSUME OpenInv, Next, NEW s \in GhostSchedulers, ghostSched'[s].pc # "idle",
           NEW n \in Migrations, n # ghostSched'[s].mig, GhostActive(n)', GhostActive(n),
           ghostSched[s].pc # "idle" /\ n # ghostSched[s].mig =>
               TopologyOf[n] # TopologyOf[ghostSched[s].mig]
    PROVE  TopologyOf[n] # TopologyOf[ghostSched'[s].mig]
<1>0. TypeOK
  BY DEF OpenInv, OwnershipInv
<1>1. CASE PickGhost(s)
  <2>1. PICK m \in Schedulable :
          ghostSched' = [ghostSched EXCEPT ![s] = [pc |-> "picked", mig |-> m]]
    BY <1>1 DEF PickGhost, FirstOf
  <2>2. ghostSched'[s].mig = m
    BY <1>0, <2>1 DEF TypeOK, SchedulerTypeOK
  <2>3. PROf[n] \in PRs /\ pr[PROf[n]].open /\ pr[PROf[n]].known
    BY StoreAssumption
    DEF OpenInv, AllOpen, GhostSeen, Seen, GhostActive
  <2>4. n \in OpenMigrations
    BY <2>3 DEF OpenMigrations, Readable, GhostActive, Exists, NoRowStatuses
  <2> QED BY <2>1, <2>2, <2>4 DEF Schedulable, Conflicts, GhostActive
<1>2. CASE ghostSched[s].pc # "idle" /\ ghostSched'[s].mig = ghostSched[s].mig
  BY <1>2
<1> QED
  BY <1>0, <1>1, <1>2, SchedulerMoves

(* With one scheduler at work nothing is made ready between its picking    *)
(* and its writing.                                                        *)
LEMMA PickedStep == OneSchedulerAtWork /\ TopologyInv /\ Next => PickedAlone'
<1> SUFFICES ASSUME OneSchedulerAtWork, TopologyInv, Next,
                    NEW s \in GhostSchedulers, ghostSched'[s].pc # "idle",
                    NEW n \in Migrations, n # ghostSched'[s].mig, GhostActive(n)'
             PROVE  TopologyOf[n] # TopologyOf[ghostSched'[s].mig]
  BY DEF PickedAlone
<1>0. OpenInv /\ TypeOK
  BY DEF TopologyInv, OpenInv, OwnershipInv
<1>1. GhostActive(n)
  <2> SUFFICES ASSUME ~GhostActive(n) PROVE FALSE
    OBVIOUS
  <2>1. PICK t \in GhostSchedulers : MarkGhostReady(t)
    BY <1>0, OnlySchedulersActivate
  <2>2. ~PickGhost(s)
    BY DEF PickGhost, GhostActive
  <2>3. s = t
    BY <1>0, <2>1, <2>2, SchedulerMoves DEF OneSchedulerAtWork, MarkGhostReady
  <2> QED BY <1>0, <2>1, <2>3, SchedulerMoves
<1> QED
  BY <1>0, <1>1, PickedIsFree DEF TopologyInv, PickedAlone

LEMMA TopologyStep ==
    HostsAndPRs /\ OneSchedulerAtWork /\ TopologyInv /\ [Next]_vars => TopologyInv'
<1> SUFFICES ASSUME HostsAndPRs, OneSchedulerAtWork, TopologyInv, [Next]_vars
             PROVE  TopologyInv'
  OBVIOUS
<1> USE DEF TopologyInv, OpenInv
<1>1. OwnershipInv'
  BY OwnershipStep DEF HostsAndPRs
<1>2. CASE Next
  <2>1. ASSUME NEW m \in Migrations, NEW n \in Migrations, GhostActive(m)', GhostActive(n)',
               TopologyOf[m] = TopologyOf[n], m # n, ~GhostActive(m)
        PROVE  FALSE
    <3>1. PICK s \in GhostSchedulers : MarkGhostReady(s) /\ ghostSched[s].mig = m
      BY <1>2, <2>1, OnlySchedulersActivate
    <3>2. GhostActive(n)
      BY <1>2, <2>1, <3>1, OnlySchedulersActivate DEF OneSchedulerAtWork, MarkGhostReady
    <3> QED BY <2>1, <3>1, <3>2 DEF PickedAlone, MarkGhostReady
  <2>2. OneGhostPerTopology'
    BY <2>1 DEF OneGhostPerTopology, GhostActive
  <2> QED BY <1>1, <1>2, <2>2, ManualStep, OpenStep, GhostSeenStep, PickedStep DEF HostsAndPRs
<1>3. CASE UNCHANGED vars
  BY <1>1, <1>3 DEF vars, NoManualActive, AllOpen, GhostSeen, Seen, Exists, PickedAlone,
                    GhostActive, OneGhostPerTopology
<1> QED
  BY <1>2, <1>3

(* scheduler.go:102: with one scheduler at a time and pull requests that   *)
(* stay open, a cluster and shard has one gh-ost migration ready or        *)
(* running, although the scheduler reads, asks other services and only     *)
(* then writes, whatever hosts, expiry and humans do meanwhile.            *)
THEOREM OneGhostPerTopologyTheorem ==
    ASSUME OneSchedulerOpenPRs PROVE Spec => []OneGhostPerTopology
<1>1. HostsAndPRs /\ TopologyInv /\ [Next]_vars => TopologyInv'
  BY TopologyStep DEF OneSchedulerOpenPRs, OneSchedulerAtWork
<1>2. TopologyInv => OneGhostPerTopology
  BY DEF TopologyInv
<1> QED
  BY <1>1, <1>2, TopologyInit, PTL DEF Spec, OneSchedulerOpenPRs

-----------------------------------------------------------------------------
(* Direct migrations finish a pull request *)

(* A pull request that is evaluated again has no direct migrations: else   *)
(* the new evaluation may propose another migration after a scheduler has  *)
(* found that the direct ones will complete the pull request.              *)
DirectEvaluatedOnce == \A n \in Late, m \in Migrations :
    PROf[m] = PROf[n] => AutoStrategy[m] # "direct"

(* Nothing of m is left to do, but for a direct scheduler and applier.     *)
Settled(m) == mig[m].status \in {"complete", "cancelled"} \/ ~Exists(m)
Finishable(m) == mig[m].strategy = "direct" \/ Settled(m)

EvaluatedStrategies == \A m \in Migrations : mig[m].strategy \in {"manual", AutoStrategy[m]}

(* The snapshot a scheduler decided on is old, but what it said lasts.     *)
StillFinishable == \A s \in DirectSchedulers : directSched[s] # NoPR =>
    \A n \in MigrationsOf(directSched[s]) : n \notin Late /\ Finishable(n)

FinishInv == TypeOK /\ EvaluatedStrategies /\ StillFinishable

LEMMA FinishInit == Init => FinishInv
<1> SUFFICES ASSUME Init PROVE FinishInv
  OBVIOUS
<1>1. \A s \in DirectSchedulers : directSched[s] = NoPR
  BY DEF Init, SchedulerInit
<1>2. EvaluatedStrategies
  BY DEF Init, NewRow, EvaluatedStrategies
<1>3. TypeOK
  BY TypeInit
<1> QED
  BY <1>1, <1>2, <1>3 DEF FinishInv, StillFinishable

LEMMA StrategiesStep == FinishInv /\ Next => EvaluatedStrategies'
<1> SUFFICES ASSUME FinishInv, Next, NEW m \in Migrations
             PROVE  mig'[m].strategy \in {"manual", AutoStrategy[m]}
  BY DEF EvaluatedStrategies
<1>1. Effect(m) \/ Hooked(m)
  BY TypedEffects DEF FinishInv
<1> QED
  BY <1>1 DEF Hooked, Effect, Quiet, Inserted, Inactive, ApprovedByHand, ScheduledGhost,
       ScheduledDirect, Owned, Expired, Reported, EndedByHand, KeepsStrategy, FinishInv,
       EvaluatedStrategies

(* A settled row stays settled, and a direct one direct, unless a later    *)
(* evaluation puts a row where there was none.                             *)
LEMMA FinishableLasts ==
    ASSUME FinishInv, Next, NEW m \in Migrations, m \notin Late, Finishable(m)
    PROVE  Finishable(m)'
<1>1. Effect(m) \/ Hooked(m)
  BY TypedEffects DEF FinishInv
<1> QED
  BY <1>1 DEF Hooked, Effect, Quiet, Inserted, Inactive, ApprovedByHand, ScheduledGhost,
       ScheduledDirect, Owned, Expired, Reported, EndedByHand, KeepsStatus, KeepsStrategy,
       Finishable, Settled, Exists, NoRowStatuses

LEMMA DirectSchedulerMoves ==
    ASSUME TypeOK, Next, NEW s \in DirectSchedulers, directSched'[s] # NoPR
    PROVE  directSched'[s] = directSched[s] \/ directSched'[s] \in FirstPRs
<1>0. directSched \in [DirectSchedulers -> PRs \cup {NoPR}]
  BY DEF TypeOK, SchedulerTypeOK
<1>1. CASE UNCHANGED directSched
  BY <1>1
<1>2. ASSUME NEW t \in DirectSchedulers, PickDirect(t)
      PROVE  directSched'[s] = directSched[s] \/ directSched'[s] \in FirstPRs
  BY <1>0, <1>2 DEF PickDirect
<1>3. ASSUME NEW t \in DirectSchedulers, MarkDirectReady(t) \/ AbandonDirect(t)
      PROVE  directSched'[s] = directSched[s]
  BY <1>0, <1>3 DEF MarkDirectReady, AbandonDirect
<1>4. ASSUME NEW f \in Forgetters, ForgetDeletes(f) PROVE directSched'[s] = directSched[s]
  BY <1>0, <1>4 DEF ForgetDeletes
<1> QED
  BY <1>1, <1>2, <1>3, <1>4
  DEF Next, Schedule, SchedulerNext, PickGhost, HintGhost, MarkGhostReady, AbandonGhost,
      RunGhost, RunDirect, Chatops, RetryMigration, MarkCompleteByHand, ApproveAutorun,
      PrioritizePR, ForgetReads, Workflow, ProbePR, WithdrawPR, QueuePR, ProposeMigration,
      Time, LivenessAges, ReadyAges, Expiry, Expire, workers

(* What the snapshot must say for a pull request to be picked.             *)
LEMMA PickedIsFinishable ==
    ASSUME DirectEvaluatedOnce, FinishInv, NEW p \in FirstPRs, NEW n \in MigrationsOf(p)
    PROVE  n \notin Late /\ Finishable(n)
<1> DEFINE rows == MigrationsOf(p) \cap OpenMigrations
<1>1. /\ \E m \in rows : Matches(m, "queued", "direct")
      /\ \A m \in rows : \/ Matches(m, "queued", "direct")
                         \/ Matches(m, "ready", "direct")
                         \/ mig[m].status = "complete"
  BY DEF FirstPRs, FulfillablePRs, FulfillableByDirect
<1>2. PICK m \in rows : Matches(m, "queued", "direct")
  BY <1>1
<1>3. n \notin Late
  BY <1>2, StoreAssumption
  DEF Matches, FinishInv, EvaluatedStrategies, DirectEvaluatedOnce, MigrationsOf
<1>4. CASE n \in rows
  BY <1>1, <1>3, <1>4 DEF Matches, Finishable, Settled
<1>5. CASE n \notin rows
  <2>1. pr[PROf[n]].known /\ pr[PROf[n]].open /\ n \in Migrations
    BY <1>2 DEF MigrationsOf, OpenMigrations, Readable
  <2>2. ~Exists(n) \/ mig[n].status = "cancelled"
    BY <1>5, <2>1 DEF OpenMigrations, Readable
  <2> QED BY <1>3, <2>2 DEF Finishable, Settled
<1> QED
  BY <1>4, <1>5

LEMMA FinishStep ==
    DirectEvaluatedOnce /\ FinishInv /\ [Next]_vars => FinishInv'
<1> SUFFICES ASSUME DirectEvaluatedOnce, FinishInv, [Next]_vars
             PROVE  FinishInv'
  OBVIOUS
<1>1. TypeOK'
  BY TypeStep DEF FinishInv
<1>2. CASE Next
  <2>1. ASSUME NEW s \in DirectSchedulers, directSched'[s] # NoPR,
               NEW n \in MigrationsOf(directSched'[s])
        PROVE  n \notin Late /\ Finishable(n)'
    <3>1. n \notin Late /\ Finishable(n)
      BY <1>2, <2>1, DirectSchedulerMoves, PickedIsFinishable
      DEF FinishInv, StillFinishable
    <3> QED BY <1>2, <3>1, FinishableLasts DEF MigrationsOf
  <2>2. StillFinishable'
    BY <2>1 DEF StillFinishable, MigrationsOf
  <2> QED BY <1>1, <1>2, <2>2, StrategiesStep DEF FinishInv
<1>3. CASE UNCHANGED vars
  BY <1>1, <1>3
  DEF FinishInv, vars, EvaluatedStrategies, StillFinishable, Finishable, Settled, Exists,
      MigrationsOf
<1> QED
  BY <1>2, <1>3

(* scheduler.go:85: a direct migration becomes ready only when all that is *)
(* left of its pull request is direct, although the decision was taken on  *)
(* an earlier snapshot, for any number of overlapping ticks, any retry,    *)
(* withdrawal, completion by hand, closing and forgetting in between.      *)
THEOREM DirectOnlyToFinishTheorem ==
    ASSUME DirectEvaluatedOnce PROVE Spec => DirectOnlyToFinish
<1>1. FinishInv /\ [Next]_vars =>
        [\A m \in Migrations :
            /\ mig[m].strategy = "direct"
            /\ mig[m].status = "queued" /\ mig'[m].status = "ready"
            => \A n \in MigrationsOf(PROf[m]) :
                 \/ mig[n].strategy = "direct"
                 \/ mig[n].status \in {"complete", "cancelled"} \/ ~Exists(n)]_vars
  <2> SUFFICES ASSUME FinishInv, Next, NEW m \in Migrations, mig[m].strategy = "direct",
                      mig[m].status = "queued", mig'[m].status = "ready",
                      NEW n \in MigrationsOf(PROf[m])
               PROVE  Finishable(n)
    BY DEF Finishable, Settled
  <2>1. Effect(m) \/ Hooked(m)
    BY TypedEffects DEF FinishInv
  <2>2. PICK s \in DirectSchedulers : MarkDirectReady(s) /\ directSched[s] = PROf[m]
    BY <2>1 DEF Hooked, Effect, Quiet, Inserted, Inactive, ApprovedByHand, ScheduledGhost,
       ScheduledDirect, Owned, Expired, Reported, EndedByHand, KeepsStatus
  <2> QED BY <2>2 DEF MarkDirectReady, FinishInv, StillFinishable
<1> QED
  BY <1>1, FinishInit, FinishStep, PTL DEF Spec, DirectOnlyToFinish

-----------------------------------------------------------------------------
(* Who executes *)

Supervised == OneRunPerHost /\ CanStall = FALSE /\ MarkedByHand = {} /\ Forgetters = {}

(* No live row ages while its holder is at work.                           *)
Fresh == \A m \in Migrations : Live(m) /\ Attended(m) => ~mig[m].stale

Begun == {"copying", "cutover", "broken", "beating", "succeeding", "failing"}
Held == {"launched", "starting"} \cup Begun

ScriptHolds(c) ==
    /\ script[c].pc \in Held =>
         Exists(script[c].mig) /\ mig[script[c].mig].token = HostOf[c]
    /\ script[c].pc \in Begun => mig[script[c].mig].status = "running"

ApplierHolds(a) ==
    /\ applier[a].pc = "owning" =>
         \A m \in Migrations : mig[m].token = a =>
             mig[m].status = "ready" /\ mig[m].strategy = "direct"
    /\ applier[a].pc \notin {"idle", "owning"} =>
         /\ mig[applier[a].mig].token = a /\ mig[applier[a].mig].strategy = "direct"
         /\ mig[applier[a].mig].status = IF applier[a].pc = "owned" THEN "ready" ELSE "running"

ExecutionInv ==
    /\ OwnershipInv
    /\ Fresh
    /\ \A c \in Scripts : ScriptHolds(c)
    /\ \A a \in Appliers : ApplierHolds(a)
    /\ RunningHasToken

LEMMA ExecutionInit == Init => ExecutionInv
<1> SUFFICES ASSUME Init PROVE ExecutionInv
  OBVIOUS
<1>1. \A m \in Migrations : mig[m].status \in {"none", "proposed"} /\ ~mig[m].stale
  BY DEF Init, NewRow
<1>2. \A c \in Scripts : script[c].pc = "idle"
  BY DEF Init, ExecutorInit, ScriptIdle
<1>3. \A a \in Appliers : applier[a].pc = "idle"
  BY DEF Init, ApplierInit, ApplierIdle
<1> QED
  BY <1>1, <1>2, <1>3, OwnershipInit
  DEF ExecutionInv, Fresh, ScriptHolds, ApplierHolds, RunningHasToken, Held, Begun

(* A row whose holder is at work is disturbed by nobody else.              *)
Stays(m) ==
    /\ Exists(m)' /\ KeepsToken(m)
    /\ mig[m].status \in {"ready", "running"} => KeepsStatus(m)
    /\ mig[m].strategy = "direct" => KeepsStrategy(m)

LEMMA AttendedRowStays ==
    ASSUME Supervised, ExecutionInv, Next, NEW m \in Migrations,
           Exists(m), mig[m].token # NoToken, Attended(m), ~Reported(m)
    PROVE  Stays(m)
<1>1. Effect(m)
  BY Effects DEF ExecutionInv
<1>2. ~Expired(m)
  BY DEF ExecutionInv, Fresh, Live, Expired
<1>3. ~EndedByHand(m)
  BY DEF Supervised, EndedByHand
<1> QED
  BY <1>1, <1>2, <1>3 DEF Effect, Quiet, Inserted, Inactive, ApprovedByHand, ScheduledGhost,
     ScheduledDirect, Owned, KeepsToken, KeepsStatus, KeepsStrategy, Stays, Exists, NoRowStatuses

LEMMA ScriptsRowStays ==
    ASSUME Supervised, ExecutionInv, Next, NEW c \in Scripts, script[c].pc \in Held, ~ScriptStep(c)
    PROVE  Stays(script[c].mig)
<1> DEFINE m == script[c].mig
<1>1. /\ m \in Migrations /\ Exists(m) /\ mig[m].token = HostOf[c] /\ HostOf[c] # NoToken
      /\ script[c].pc # "idle"
  BY WorkersHold, ExecutorAssumption, StoreAssumption
  DEF ExecutionInv, OwnershipInv, ScriptHolds, Held, Begun
<1>2. Attended(m)
  BY <1>1 DEF Attended
<1>3. ASSUME NEW d \in Scripts, ScriptStep(d), script[d].pc \in HookKinds, script[d].mig = m
      PROVE  FALSE
  <2>1. mig[m].token = HostOf[d]
    BY <1>3 DEF ExecutionInv, ScriptHolds, Held, Begun, HookKinds
  <2> QED BY <1>1, <1>3, <2>1 DEF Supervised, OneRunPerHost
<1>4. ASSUME NEW a \in Appliers, applier[a].pc \notin {"idle", "owning"}, applier[a].mig = m
      PROVE  FALSE
  BY <1>1, <1>4 DEF ExecutionInv, ApplierHolds, Supervised, OneRunPerHost
<1>5. ~Reported(m)
  BY <1>3, <1>4 DEF Reported
<1> QED
  BY <1>1, <1>2, <1>5, AttendedRowStays

LEMMA AppliersRowStays ==
    ASSUME Supervised, ExecutionInv, Next, NEW a \in Appliers, applier[a].pc # "idle",
           ~ApplierStep(a), NEW m \in Migrations, mig[m].token = a, Exists(m)
    PROVE  Stays(m)
<1>1. mig[m].token # NoToken /\ mig[m].token \in Appliers
  BY ApplierAssumption, StoreAssumption
<1>2. Attended(m)
  BY <1>1 DEF Attended
<1>3. ASSUME NEW d \in Scripts, script[d].pc \in HookKinds, script[d].mig = m
      PROVE  FALSE
  <2>1. mig[m].token = HostOf[d]
    BY <1>3 DEF ExecutionInv, ScriptHolds, Held, Begun, HookKinds
  <2> QED BY <2>1 DEF Supervised, OneRunPerHost
<1>4. ASSUME NEW b \in Appliers, ApplierStep(b), applier[b].pc \notin {"idle", "owning"},
             applier[b].mig = m
      PROVE  FALSE
  BY <1>4 DEF ExecutionInv, ApplierHolds
<1>5. ~Reported(m)
  BY <1>3, <1>4 DEF Reported
<1> QED
  BY <1>1, <1>2, <1>5, AttendedRowStays

-----------------------------------------------------------------------------
(* Scripts *)

LEMMA IdleScriptStays ==
    ASSUME OwnershipInv, Next, NEW c \in Scripts, ~ScriptStep(c)
    PROVE  script'[c] = script[c]
<1>1. CASE RunGhost
  BY <1>1, OtherScriptsStay DEF RunGhost, ExecutorNext
<1>2. CASE ~RunGhost
  <2>1. UNCHANGED script
    BY <1>2 DEF Next, Schedule, RunDirect, Chatops, RetryMigration, MarkCompleteByHand,
         ApproveAutorun, PrioritizePR, ForgetReads, ForgetDeletes, Workflow, ProbePR,
         WithdrawPR, QueuePR, ProposeMigration, Time, LivenessAges, ReadyAges, Expiry,
         Expire, workers
  <2> QED BY <2>1
<1> QED
  BY <1>1, <1>2

LEMMA OwnStepHolds ==
    ASSUME ExecutionInv, NEW c \in Scripts, ScriptStep(c)
    PROVE  ScriptHolds(c)'
<1>0. /\ TypeOK /\ script \in [Scripts -> Places] /\ mig \in [Migrations -> Row]
      /\ ScriptHolds(c)
  BY DEF ExecutionInv, OwnershipInv, TypeOK, ExecutorTypeOK, StoreTypeOK
<1>1. ASSUME NEW pc, Goto(c, pc)
      PROVE  script'[c].pc = pc /\ script'[c].mig = script[c].mig
  BY <1>0, <1>1 DEF Goto, Places
<1>2. CASE script'[c].pc \notin Held
  BY <1>2 DEF ScriptHolds, Held
<1>3. CASE Launch(c)
  <2>1. PICK m \in ByToken(HostOf[c]) :
          script' = [script EXCEPT ![c] = [@ EXCEPT !.pc = "launched", !.mig = m]]
    BY <1>3 DEF Launch, FirstOf, token
  <2>2. script'[c].pc = "launched" /\ script'[c].mig = m
    BY <1>0, <2>1 DEF Places
  <2>3. mig' = mig
    BY <1>3 DEF Launch
  <2> QED BY <2>1, <2>2, <2>3 DEF ScriptHolds, ByToken, Readable, Begun, Exists
<1>4. ASSUME NEW kind \in HookKinds, HookReads(c, kind),
             script[c].pc \in Held, kind \in Begun => script[c].pc \in Begun
      PROVE  ScriptHolds(c)'
  <2>1. /\ script'[c].pc = kind /\ script'[c].mig = script[c].mig
        /\ mig' = mig
    BY <1>0, <1>4 DEF HookReads, Places
  <2> QED BY <1>0, <1>4, <2>1 DEF ScriptHolds, Exists
<1>5. ASSUME NEW kind \in {"starting", "beating"}, HookWrites(c, kind), Goto(c, "copying")
      PROVE  ScriptHolds(c)'
  <2> DEFINE m == script[c].mig
  <2>1. /\ script[c].pc = kind /\ m \in Migrations
        /\ script[c].row = m /\ mig[m].status = script[c].seen /\ mig[m].token = HostOf[c]
    BY <1>0, <1>5, WorkersHold
    DEF HookWrites, ExecutionInv, OwnershipInv, HookHasRow, HookKinds, ScriptHolds, Held, Begun
  <2>2. mig' = [mig EXCEPT ![m] = WithStatus(mig[m], "running")]
    BY <1>5, <2>1 DEF HookWrites, HookWrite, UpdateMigrationStatus, Matches, Target
  <2>3. mig'[m].token = HostOf[c] /\ mig'[m].status = "running"
    BY <1>0, <2>1, <2>2 DEF WithStatus, Row
  <2> QED BY <1>1, <1>5, <2>3 DEF ScriptHolds, Exists, NoRowStatuses
<1>6. ASSUME NEW pc \in Begun, Goto(c, pc), script[c].pc \in Begun, UNCHANGED mig
      PROVE  ScriptHolds(c)'
  BY <1>0, <1>1, <1>6 DEF ScriptHolds, Held, Exists
<1>7. CASE \/ StartupHookReads(c) \/ StatusHookReads(c)
            \/ SuccessHookReads(c) \/ FailureHookReads(c)
  BY <1>4, <1>7 DEF StartupHookReads, StatusHookReads, SuccessHookReads, FailureHookReads,
                    HookKinds, Held, Begun
<1>8. CASE StartupHookWrites(c) \/ StatusHookWrites(c)
  BY <1>5, <1>8 DEF StartupHookWrites, StatusHookWrites
<1>9. CASE StatusHookFails(c) \/ CutOver(c) \/ GhostBreaks(c)
  BY <1>6, <1>9 DEF StatusHookFails, CutOver, GhostBreaks, HookMisses, Begun
<1>10. CASE \/ CheckToken(c) \/ Own(c)
  BY <1>1, <1>2, <1>10 DEF CheckToken, Own, Held, Begun
<1>11. CASE Pick(c)
  <2>1. script'[c].pc = "picked"
    BY <1>0, <1>11 DEF Pick, Places
  <2> QED BY <1>2, <2>1 DEF Held, Begun
<1>12. CASE Quit(c)
  <2>1. script'[c].pc = "idle"
    BY <1>0, <1>12 DEF Quit, ScriptIdle
  <2> QED BY <1>2, <2>1 DEF Held, Begun
<1> QED
  BY <1>3, <1>7, <1>8, <1>9, <1>10, <1>11, <1>12
  DEF ScriptStep, NothingReady, NotOwned, StartupHookFails, SuccessHookWrites,
      SuccessHookFails, FailureHookWrites, FailureHookFails, ScriptDies

LEMMA ScriptsHold ==
    ASSUME Supervised, ExecutionInv, Next, NEW c \in Scripts
    PROVE  ScriptHolds(c)'
<1>1. CASE ScriptStep(c)
  BY <1>1, OwnStepHolds
<1>2. CASE ~ScriptStep(c)
  <2>1. script'[c] = script[c]
    BY <1>2, IdleScriptStays DEF ExecutionInv
  <2>2. CASE script[c].pc \in Held
    BY <1>2, <2>1, <2>2, ScriptsRowStays
    DEF ExecutionInv, ScriptHolds, Stays, KeepsToken, KeepsStatus, Held
  <2>3. CASE script[c].pc \notin Held
    BY <2>1, <2>3 DEF ScriptHolds, Held
  <2> QED BY <2>2, <2>3
<1> QED
  BY <1>1, <1>2

-----------------------------------------------------------------------------
(* Appliers *)

LEMMA IdleApplierStays ==
    ASSUME TypeOK, Next, NEW a \in Appliers, ~ApplierStep(a)
    PROVE  applier'[a] = applier[a]
<1>1. CASE RunDirect
  <2>1. PICK b \in Appliers : ApplierStep(b)
    BY <1>1 DEF RunDirect, ApplierNext
  <2>2. \E place : applier' = [applier EXCEPT ![b] = place]
    BY <2>1 DEF ApplierStep, OwnReady, ReadBack, ReadNothingBack, MarkRunning, Execute,
         ExecuteErrs, MarkComplete, MarkFailed, ApplierGivesUp, Advance, Finish
  <2> QED BY <2>1, <2>2 DEF TypeOK, ApplierTypeOK
<1>2. CASE ~RunDirect
  <2>1. UNCHANGED applier
    BY <1>2 DEF Next, Schedule, RunGhost, Chatops, RetryMigration, MarkCompleteByHand,
         ApproveAutorun, PrioritizePR, ForgetReads, ForgetDeletes, Workflow, ProbePR,
         WithdrawPR, QueuePR, ProposeMigration, Time, LivenessAges, ReadyAges, Expiry,
         Expire, workers
  <2> QED BY <2>1
<1> QED
  BY <1>1, <1>2

LEMMA OwnApplierHolds ==
    ASSUME ExecutionInv, NEW a \in Appliers, ApplierStep(a)
    PROVE  ApplierHolds(a)'
<1>0. /\ TypeOK /\ mig \in [Migrations -> Row] /\ ApplierHolds(a)
      /\ applier \in [Appliers -> [pc : {"idle", "owning"}, mig : {NotOwning}]
             \cup [pc : {"owned", "running", "executed", "errored"}, mig : Migrations]]
  BY DEF ExecutionInv, OwnershipInv, TypeOK, StoreTypeOK, ApplierTypeOK
<1>1. ASSUME NEW pc, Advance(a, pc)
      PROVE  applier'[a].pc = pc /\ applier'[a].mig = applier[a].mig
  BY <1>0, <1>1 DEF Advance
<1>2. CASE Finish(a)
  BY <1>0, <1>2 DEF Finish, ApplierIdle, ApplierHolds
<1>3. CASE OwnReady(a)
  <2>1. PICK k \in OwnableReady("direct") : mig' = [mig EXCEPT ![k] = Assigned(k, a)]
    BY <1>3 DEF OwnReady
  <2>2. /\ mig'[k].status = "ready" /\ mig'[k].strategy = "direct"
        /\ \A m \in Migrations : m # k => mig'[m].token # a
    <3>1. /\ k \in Migrations /\ mig[k] \in Row
          /\ mig[k].status = "ready" /\ mig[k].strategy = "direct"
      BY <1>0 DEF OwnableReady, Matches
    <3>2. mig'[k] = Assigned(k, a) /\ \A m \in Migrations : m # k => mig'[m] = mig[m]
      BY <1>0, <2>1, <3>1
    <3>3. mig'[k].status = "ready" /\ mig'[k].strategy = "direct"
      BY <3>1, <3>2 DEF Assigned, Row
    <3> QED BY <1>3, <3>2, <3>3 DEF OwnReady
  <2> QED BY <1>1, <1>3, <2>2 DEF OwnReady, ApplierHolds
<1>4. CASE ReadBack(a)
  <2>1. PICK m \in ByToken(a) : applier' = [applier EXCEPT ![a] = [pc |-> "owned", mig |-> m]]
    BY <1>4 DEF ReadBack, FirstOf
  <2>2. applier'[a].pc = "owned" /\ applier'[a].mig = m /\ mig' = mig
    BY <1>0, <1>4, <2>1 DEF ReadBack
  <2>3. mig[m].token = a /\ mig[m].status = "ready" /\ mig[m].strategy = "direct"
    BY <1>0, <1>4, <2>1 DEF ReadBack, ByToken, Readable, ApplierHolds
  <2> QED BY <2>2, <2>3 DEF ApplierHolds
<1>5. CASE MarkRunning(a)
  <2> DEFINE m == applier[a].mig
  <2>1. /\ m \in Migrations /\ mig[m].token = a
        /\ mig[m].status = "ready" /\ mig[m].strategy = "direct"
    BY <1>0, <1>5, WorkersHold DEF MarkRunning, ApplierHolds
  <2>2. mig' = [mig EXCEPT ![m] = WithStatus(mig[m], "running")]
    BY <1>5, <2>1 DEF MarkRunning, UpdateMigrationStatus, Matches
  <2>3. mig'[m].token = a /\ mig'[m].status = "running" /\ mig'[m].strategy = "direct"
    BY <1>0, <2>1, <2>2 DEF WithStatus, Row
  <2> QED BY <1>1, <1>5, <2>3 DEF MarkRunning, ApplierHolds
<1>6. CASE Execute(a) \/ ExecuteErrs(a)
  BY <1>0, <1>1, <1>6 DEF Execute, ExecuteErrs, ApplierHolds
<1> QED
  BY <1>2, <1>3, <1>4, <1>5, <1>6
  DEF ApplierStep, ReadNothingBack, MarkComplete, MarkFailed, ApplierGivesUp

LEMMA AppliersHold ==
    ASSUME Supervised, ExecutionInv, Next, NEW a \in Appliers
    PROVE  ApplierHolds(a)'
<1>0. TypeOK /\ a # NoToken
  BY ApplierAssumption, StoreAssumption DEF ExecutionInv, OwnershipInv
<1>1. CASE ApplierStep(a)
  BY <1>1, OwnApplierHolds
<1>2. CASE ~ApplierStep(a)
  <2>1. applier'[a] = applier[a]
    BY <1>0, <1>2, IdleApplierStays
  <2>2. CASE applier[a].pc = "owning"
    <3>1. ASSUME NEW m \in Migrations, mig'[m].token = a
          PROVE  mig'[m].status = "ready" /\ mig'[m].strategy = "direct"
      <4>1. Effect(m)
        BY Effects DEF ExecutionInv
      <4>2. ASSUME NEW c \in Scripts PROVE HostOf[c] # a
        BY DEF Supervised, OneRunPerHost
      <4>3. mig[m].token = a
        BY <1>0, <1>2, <3>1, <4>1, <4>2
        DEF Effect, Quiet, Inserted, Inactive, ApprovedByHand, ScheduledGhost, ScheduledDirect,
            Owned, Expired, Reported, EndedByHand, KeepsToken, ApplierStep
      <4>4. mig[m].status = "ready" /\ mig[m].strategy = "direct" /\ Exists(m)
        BY <2>2, <4>3 DEF ExecutionInv, ApplierHolds, Exists, NoRowStatuses
      <4> QED BY <1>2, <2>2, <4>3, <4>4, AppliersRowStays DEF Stays, KeepsStatus, KeepsStrategy
    <3> QED BY <2>1, <2>2, <3>1 DEF ApplierHolds
  <2>3. CASE applier[a].pc \notin {"idle", "owning"}
    <3> DEFINE m == applier[a].mig
    <3>1. /\ m \in Migrations /\ mig[m].token = a /\ mig[m].strategy = "direct"
          /\ mig[m].status = IF applier[a].pc = "owned" THEN "ready" ELSE "running"
      BY <1>0, <2>3, WorkersHold DEF ExecutionInv, ApplierHolds
    <3>2. Stays(m)
      <4>1. Exists(m)
        BY <3>1 DEF Exists, NoRowStatuses
      <4> HIDE DEF m
      <4> QED BY <1>2, <2>3, <3>1, <4>1, AppliersRowStays
    <3>3. mig'[m].token = a /\ mig'[m].strategy = "direct" /\ mig'[m].status = mig[m].status
      BY <3>1, <3>2 DEF Stays, KeepsToken, KeepsStatus, KeepsStrategy
    <3> QED BY <2>1, <2>3, <3>1, <3>3 DEF ApplierHolds
  <2>4. CASE applier[a].pc = "idle"
    BY <2>1, <2>4 DEF ApplierHolds
  <2> QED BY <2>2, <2>3, <2>4
<1> QED
  BY <1>1, <1>2

-----------------------------------------------------------------------------
(* A row does not age while its holder is at work, and is new to a holder  *)
(* that has just come.                                                     *)

LEMMA ApplierBegins ==
    ASSUME TypeOK, Next, NEW a \in Appliers, applier[a].pc = "idle", applier'[a].pc # "idle"
    PROVE  OwnReady(a)
<1>1. ApplierStep(a)
  BY IdleApplierStays
<1> QED
  BY <1>1 DEF ApplierStep, ReadBack, ReadNothingBack, MarkRunning, Execute, ExecuteErrs,
              MarkComplete, MarkFailed, ApplierGivesUp

LEMMA FreshStep == Supervised /\ ExecutionInv /\ Next => Fresh'
<1> SUFFICES ASSUME Supervised, ExecutionInv, Next, NEW m \in Migrations,
                    Live(m)', Attended(m)', mig'[m].stale
             PROVE  FALSE
  BY DEF Fresh
<1>0. TypeOK /\ OwnershipInv /\ Effect(m) /\ Ages(m)
  BY Effects DEF ExecutionInv, OwnershipInv
<1>1. mig'[m].token # NoToken
  BY ExecutorAssumption, ApplierAssumption, StoreAssumption DEF Attended
<1>2. CASE LivenessAges(m)
  <2>1. ~Attended(m)
    BY <1>2 DEF LivenessAges, Supervised
  <2>2. UNCHANGED <<script, applier>> /\ mig'[m].token = mig[m].token
    BY <1>0, <1>2 DEF LivenessAges, workers, TypeOK, StoreTypeOK, Row
  <2> QED BY <2>1, <2>2 DEF Attended
<1>3. CASE mig[m].stale
  <2>1. Live(m) /\ KeepsToken(m)
    BY <1>0, <1>1
    DEF Effect, Quiet, Inserted, Inactive, ApprovedByHand, ScheduledGhost, ScheduledDirect,
        Owned, Expired, Reported, EndedByHand, KeepsToken, KeepsStatus, Live, Exists, NoRowStatuses
  <2>2. ASSUME NEW c \in Scripts, script'[c].pc # "idle", HostOf[c] = mig[m].token
        PROVE  script[c].pc # "idle"
    <3>1. m \in ByToken(HostOf[c])
      BY <1>0, <2>1, <2>2
      DEF ByToken, Readable, Live, Exists, NoRowStatuses, OwnershipInv, KnownRows, Seen
    <3> QED BY <1>0, <2>2, <3>1, ScriptMoves DEF ScriptMove, Later, HookKinds
  <2>3. ASSUME mig[m].token \in Appliers, applier'[mig[m].token].pc # "idle"
        PROVE  applier[mig[m].token].pc # "idle"
    BY <1>0, <2>3, ApplierBegins DEF OwnReady
  <2>4. Attended(m)
    BY <2>1, <2>2, <2>3 DEF Attended, KeepsToken
  <2> QED BY <1>3, <2>1, <2>4 DEF ExecutionInv, Fresh
<1> QED
  BY <1>0, <1>2, <1>3 DEF Ages

LEMMA TokenStep == ExecutionInv /\ Next => RunningHasToken'
<1> SUFFICES ASSUME ExecutionInv, Next, NEW m \in Migrations, mig'[m].status = "running"
             PROVE  mig'[m].token # NoToken
  BY DEF RunningHasToken
<1>0. TypeOK /\ Effect(m)
  BY Effects DEF ExecutionInv, OwnershipInv
<1>1. CASE Reported(m)
  <2>1. ASSUME NEW c \in Scripts, script[c].pc \in HookKinds, script[c].mig = m
        PROVE  mig[m].token # NoToken
    BY <2>1, ExecutorAssumption, StoreAssumption
    DEF ExecutionInv, ScriptHolds, Held, Begun, HookKinds
  <2>2. ASSUME NEW a \in Appliers, applier[a].pc \notin {"idle", "owning"}, applier[a].mig = m
        PROVE  mig[m].token # NoToken
    BY <2>2, ApplierAssumption, StoreAssumption DEF ExecutionInv, ApplierHolds
  <2> QED BY <1>1, <2>1, <2>2 DEF Reported, KeepsToken
<1>2. CASE ~Reported(m)
  <2>1. mig[m].status = "running" /\ (mig'[m].token = mig[m].token \/ Owned(m))
    BY <1>0, <1>2
    DEF Effect, Quiet, Inserted, Inactive, ApprovedByHand, ScheduledGhost, ScheduledDirect,
        Owned, Expired, EndedByHand, KeepsToken, KeepsStatus
  <2> QED BY <2>1 DEF ExecutionInv, RunningHasToken, Owned
<1> QED
  BY <1>1, <1>2

LEMMA ExecutionStep == Supervised /\ ExecutionInv /\ [Next]_vars => ExecutionInv'
<1> SUFFICES ASSUME Supervised, ExecutionInv, [Next]_vars PROVE ExecutionInv'
  OBVIOUS
<1>1. OwnershipInv'
  BY OwnershipStep DEF Supervised, ExecutionInv
<1>2. CASE Next
  BY <1>1, <1>2, FreshStep, ScriptsHold, AppliersHold, TokenStep DEF ExecutionInv
<1>3. CASE UNCHANGED vars
  BY <1>1, <1>3 DEF ExecutionInv, vars, Fresh, ScriptHolds, ApplierHolds, RunningHasToken,
                    Live, Exists, Attended
<1> QED
  BY <1>2, <1>3

LEMMA ExecutionHolds == ASSUME Supervised PROVE Spec => []ExecutionInv
BY ExecutionInit, ExecutionStep, PTL DEF Spec

(* how-gh-ost.md: "one and only one will win".  Whatever expired, was      *)
(* retried or was picked by several hosts, a migration has one executor.   *)
THEOREM OneExecutorTheorem == ASSUME Supervised PROVE Spec => []OneExecutor
<1>1. ExecutionInv => OneExecutor
  <2> SUFFICES ASSUME ExecutionInv, NEW m \in Migrations PROVE Cardinality(Executing(m)) <= 1
    BY DEF OneExecutor
  <2>1. \A c \in Scripts : script[c].pc \in {"copying", "beating"} /\ script[c].mig = m
          => mig[m].token = HostOf[c]
    BY DEF ExecutionInv, ScriptHolds, Held, Begun
  <2>2. \A a \in Appliers : applier[a].pc = "running" /\ applier[a].mig = m => mig[m].token = a
    BY DEF ExecutionInv, ApplierHolds
  <2>3. \A x, y \in Executing(m) : x = y
    BY <2>1, <2>2 DEF Executing, Supervised, OneRunPerHost
  <2>4. CASE Executing(m) = {}
    BY <2>4, FS_EmptySet
  <2>5. ASSUME NEW x \in Executing(m) PROVE Cardinality(Executing(m)) <= 1
    <3>1. Executing(m) = {x}
      BY <2>3, <2>5
    <3>2. Cardinality({x}) = 1
      BY FS_Singleton
    <3> QED BY <3>1, <3>2
  <2> QED BY <2>4, <2>5
<1> QED
  BY <1>1, ExecutionHolds, PTL

(* The table says `running` for as long as a schema change is under way.   *)
THEOREM ExecutionIsRecordedTheorem == ASSUME Supervised PROVE Spec => []ExecutionIsRecorded
<1>1. ExecutionInv => ExecutionIsRecorded
  BY DEF ExecutionInv, ExecutionIsRecorded, Executing, ScriptHolds, ApplierHolds, Begun
<1> QED
  BY <1>1, ExecutionHolds, PTL

(* A running row has the token that expiry needs to find it.               *)
THEOREM RunningHasTokenTheorem == ASSUME Supervised PROVE Spec => []RunningHasToken
<1>1. ExecutionInv => RunningHasToken
  BY DEF ExecutionInv
<1> QED
  BY <1>1, ExecutionHolds, PTL

(* direct_applier.go:17: what an applier goes on to execute was ready when *)
(* it marked it running, although nothing locks the row it has read back.  *)
THEOREM AppliesOnlyReadyTheorem == ASSUME Supervised PROVE Spec => AppliesOnlyReady
<1>1. ExecutionInv /\ [Next]_vars =>
        [\A a \in Appliers : applier[a].pc = "owned" /\ applier'[a].pc = "running"
            => mig[applier[a].mig].status = "ready"]_vars
  BY DEF ExecutionInv, ApplierHolds
<1> QED
  BY <1>1, ExecutionHolds, PTL DEF Spec, AppliesOnlyReady
=============================================================================
