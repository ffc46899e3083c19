# Verification of skeefree and gh-mysql-rewind

TLA+ models of the two programs of this repository, the TLC configurations that
check them on small instances, and proofs of the properties that hold for
instances of any size.

* **skeefree** (`skeefree/`) takes the schema change of a pull request from the
  diff comment of a GitHub action to its execution in production.
* **gh-mysql-rewind** (`rewind/`) is a script that takes a MySQL server with
  errant transactions back in time until it can rejoin its cluster.

## 1. Inventory

### Components of skeefree

| Component | State | Operations | Correct when |
|---|---|---|---|
| Backend store, `go/db/backend.go`, `schema/` | tables `migrations`, `pull_requests`, `pull_request_migration_statements`, `repositories`, `repo_production_mapping`, `service_election` | single SQL statements, a few transactions | a statement's `where` clause protects what the programs between two statements take for granted |
| Leader election, `backend.go:72-92, 808-873` | one row in `service_election`; per process `leaderState` | attempt, read, once a second; `IsLeader` | of those that renew the lease in time one leads and one is at work, a dead leader is replaced, a deposed one steps down |
| Pull request workflow, `go/app/logic.go:160-525` | copies of `pull_requests` rows; labels, reviews and comments on GitHub | search, probe, analyze, evaluate, ask for review, queue, complete | nothing unapproved is queued, nothing proposed twice, complete means executed, everything gets through |
| The Action, `.github/workflows/skeema-diff.yml` | the detected label and the diff comment | on every commit: drop the label, rewrite the comment; fails once the pull request is queued | a label is never on a diff other than the one that was evaluated |
| Repository catalogue, `chatops.go:158-395`, `backend.go:94-195` | `repositories` with their autorun, mappings from hints to clusters | add, update, remove, autorun, map, unmap | nothing runs automatically that neither autorun nor an approval allows; an edit is not undone by another |
| Evaluation of statements, `go/core`, `logic.go:327-457` | none | parse the comment, resolve the mapping, dissect, rewrite drops, choose the strategy, one migration per shard | each statement after the last marker has its migrations, on every shard, with a strategy that approval does not change |
| Scheduler, `go/app/scheduler.go` | none but the snapshot in hand | `scheduleNextGhostMigration`, `scheduleNextDirectMigrations` | one gh-ost migration per cluster and shard; direct migrations only to finish a pull request |
| Direct applier, `go/app/direct_applier.go` | a unique token, the row read back | own, mark running, execute, complete or fail | executes only what is ready and its own |
| Utility hosts, `go/app/cli.go` and gh-ost hooks | host name as token | `migration-own`, `-started`, `-running`, `-complete`, `-noop-complete`, `-failed` | one executor per migration, the table says what runs |
| Expiry, `go/app/logic.go:82-97` | `liveness_timestamp` | four `ExpireStaleMigrations` | whatever a dead executor held is released, nothing else |
| Chatops, `go/app/chatops.go` | none | retry, mark-complete, approve-autorun, prioritize-pr, forget-pr; the catalogue's; show | a human's command cannot break what the automation relies on |
| GitHub, inventory, topology clients: `go/ghapi`, `go/gh`, `go/db/topology.go` | a cache of team members | requests | - |
| Command line, configuration, health page | flags, environment | - | - |

How they interact: every goroutine and every host talks to the others only
through the backend tables and GitHub's labels. The leader's tickers
(`logic.go:38-130`) start goroutines and do not wait for them; a host's cron job
starts a script; gh-ost calls hooks, each of which is a process of its own; a
commit starts the Action on GitHub's machines. There is no lock that lasts longer
than one statement or transaction. So the hard behaviours are interleavings
between the reading of a row and its update, ticks that overlap, executors that
are slow and not dead, processes that die between two statements, and GitHub
calls that fail in the middle of a sequence. All places at which this can bite are
listed, by source line, under `hazards` in `PROJECT.json`.

### gh-mysql-rewind

State: the server's `gtid_executed`, tables and binary logs; the master's
`gtid_executed`; the script's variables. Operations: sanity checks, stop
replication, compare, flush logs, scan the headers of the logs backwards,
generate and apply flashbacks, reset and repoint the server. Correct when the
server claims no transaction its new master lacks, claims exactly what is in its
tables, reverts no more than it has to, and every flashback meets the data it was
made for, although sessions may write on, the script may die, its commands may
fail without being looked at, and it may be run again.

## 2. Modules

| Module | Models | Extends |
|---|---|---|
| `MigrationStore` | the tables the queue works on, and each statement as an operator from table to table | - |
| `Scheduler` | `scheduler.go`: pick on a snapshot, hint, mark ready | `MigrationStore` |
| `GhostExecutor` | `cli.go`: own, launch, four hooks, each in a reading and a writing step | `MigrationStore` |
| `DirectApplier` | `direct_applier.go` | `MigrationStore` |
| `MigrationQueue` | the three together, with time, expiry, chatops and what the pull request workflow does to the table | all above |
| `MigrationLifecycle` | abstract: what the queue promises of every single migration | - |
| `Election` | the lease and its readers | - |
| `ContinuousOperations` | several services on one backend: the tickers of `logic.go:38-130`, which join election and queue | `MigrationQueue`, instance of `Election` |
| `PullRequests` | `logic.go:160-525` for one pull request, the Action, forget-pr | - |
| `Statements` | `go/core`: from a diff comment to migrations, as pure operators | - |
| `Catalogue` | repositories, mappings, their commands, and evaluations that read them | `Statements` |
| `Rewind` | the script and the server | - |
| `QueueProofs`, `OwnershipProofs`, `ExecutionProofs` | theorems about `MigrationQueue`, each extending the one before | `TLAPS` |
| `OperationsProofs` | theorems about `ContinuousOperations`, from those of `ExecutionProofs` and an instance of `ElectionProofs` | `TLAPS` |
| `ElectionProofs`, `PullRequestsProofs`, `CatalogueProofs`, `RewindProofs` | theorems about the module of that name (`CatalogueProofs` also about `Statements`) | `TLAPS` |
| `MCMigrationQueue`, `MCElection`, `MCContinuousOperations`, `MCPullRequests`, `MCCatalogue`, `MCRewind` | values for TLC | the module |

Definitions marked `Fault:` are not part of a model. Each is a plausible bug (a
dropped condition, an off-by-one) that can be put in the place of the definition
after it; `PROJECT.json` lists, for every property, one under which it fails.

### How state and actions correspond to the code

**Queue.** `mig[m]` is the row of `migrations` with id `m`, with the columns the
queue depends on; `stale` is "`liveness_timestamp` older than
`staleMigrationMinutes`" and `waited` "ready for 300 seconds", since nothing asks
for more of the two timestamps. `applied` is not skeefree's: it records whose
schema change has been made. `ghostSched`, `directSched`, `script`, `applier` and
`forget` hold, for every goroutine or process, its place and its local variables.
An action ends where the code issues its next statement. `readMigrations` joins
with `pull_requests`, so rows of forgotten pull requests are not returned
(`Readable`), and its order is up to MySQL within one pull request (`FirstOf`).
A direct applier's token is unique and therefore names the goroutine; the token
of a script is its host's name. The evaluation, the queueing and the withdrawal
of `logic.go` act on old copies of a pull request: `ProbePR`, `WithdrawPR`,
`ProposeMigration` and `QueuePR` may happen at any time, guarded by nothing but
the statement's own conditions. The cron script and gh-ost are not part of the
repository; assumed of them is that a failing startup hook stops gh-ost, and that
the success hook comes after the cut-over.

**Election.** `holder` and `age` are the row of `service_election`, age counted
in seconds up to the point where only "expired" matters. Seconds pass at any moment
(`Tick`): nothing in the code bounds how long a service is kept from the backend, and
a copy of the leadership outlives the lease by as much as readings fail
(`backend.go:87`), so an up leader may be deposed, believe that it leads, and start and
go on with jobs beside the next one. `unrenewed` is history: how long it has been since
a service last wrote to the row, which no service knows. `HolderAfter` and
`AgeAfter` are the two assignments of `on duplicate key update`, in their order:
the second sees the first one's value. `AttemptFails` and `ReadFails` are errors
of the backend. A service id contains a start time, so it lives once. `working`
is any job started by a ticker that asked `IsLeader` first.

**ContinuousOperations.** The variables of the queue and of the election, and for
every goroutine that a ticker starts whether it is there. A ticker looks at the
service's copy of the leadership (`StartJob`); after that the goroutine makes the
queue's steps until it returns, and never asks again. The goroutines of one tick are
started one by one, since one that finds nothing to do leaves no trace.
`Election`'s `working` is not a variable here but defined: a service works while
a goroutine of it is alive. A sweep issues the four expiry statements in their
order, each of which may fail (`ExpiresInVain`). A goroutine's local state is seen by
nobody, so a process dies by its goroutines giving up, one by one, and then itself
(`DieIdle`): the states in between are those after an error. Chatops run on every
service, and hosts on none. `deposed` and `strays` are history, written by `Recorded`:
the gh-ost schedulers whose service has been without the lease at some moment of their
life, and the migrations that such a one was the last to mark ready.

**PullRequests.** `gh` is the pull request on GitHub with its labels, the diff in
its comment and the Action of its last commit; `row` is the row, `copy[w]` the
struct a goroutine carries around, `statements` and `migs` two tables. A goroutine
moves from place to place; at the places in `Calls` it is about to call GitHub, and
`CallFails` is what the code does when that fails: the searcher gives up, the
prober goes on to the next thing, which after a failed *probe* is the analysis with
what it has: the answers up to the failed call, false for that call (`Answered`), and
the row's values for the rest. The calls of `probePR` that read reviews are one step, and so are
the two that read the inventory and post the comment. A statement stands for its
migration (one shard). `Human` is one click, each made once; the reviewers asked
for are those the repository requires. `Migrate` is `MigrationQueue`, as far as this
module is concerned. `SubmittedPR` is the goroutine's copy with the row's id: every
column is written with what the goroutine has, status and labels too. (The one
exception is `label_diff:=label_diff`, `backend.go:208`, an assignment of the column
to itself; that label is what a pull request is found by, and is not in the model.)

`Commit`, `Validate`, `DropLabel` and `EditComment` are the Action: it fails when
the pull request is labelled as queued, else takes the detected label off (whether
it came off is not looked at) and then rewrites the comment, perhaps with no statement
(`NoStatements`; the label `migration:skeema:diff`, which then comes off, would have
the pull request passed over just the same). `Panic` is what
`ghapi/api.go:273` does when the check is asked for while the Action runs: the
service dies with all its goroutines. A forget-pr is a worker of its own, from the
labels it reads (`ReadLabels`) over the row and the statuses it looks up
(`FindRow`) and the transaction (`DeleteRow`) to the labels it takes off.

**Statements.** Everything is an operator. A comment is a sequence of lines of five
kinds (marker, older marker, file, `use`, statement), a statement the verb it
starts with, the name its regular expression captures and its last word: those are
what the code branches on. Table names are sequences of characters because the code
cuts them: `GetSafeTableNameWithSuffix` is modelled with its arithmetic and MySQL's
length as a constant. `ReadBack` is what `readMigrations` returns, with no column
for the cluster the repository is mapped to.

**Catalogue.** `registered` and `mapped` are the two tables. A command that reads a
registration and writes it back has a step for each (`ReadRegistration`, then
`UpdateRepo`, `RepoAutorun` or `RemoveRepo`), since `UpdateRepository` writes every
column of the copy. An evaluation reads the registration, then the mappings, then
withdraws, then submits, in four steps between which operators go on; it may fail or
die after each, and after any part of the insertions (`SubmitStops`). `ordered`,
`based` and `approved` are history: the autorun last asked for, the evaluation a
proposal came from, and the migrations approved by hand.

**Rewind.** A GTID set is a set of integers. `under[t]` remembers what the tables
had when `t` was committed, so that a flashback applied to anything else can be
seen (`corrupted`). `Fit` sums up the sanity checks, as far as their queries are
answered: an empty answer passes lines 139-152. A flashback is a sequence of
entries, each applied in a step of its own under a new GTID that goes to the
newest log, as `mysql` does it, so that a run which dies halfway leaves its own
transactions behind for the next to find errant. `LateWrites` are the places at
which some session may write on although the server was found `read_only`;
`KillPoints` those at which the script may die; `Failing` the commands that may
fail, all those it issues: the sanity queries, the sets it asks for and computes,
`flush logs`, `mysqlbinlog`, `reset master`, `set global gtid_purged` and `start slave`.
The script notices a failure by nothing but an empty answer (`Answers`), a log that was
not flushed, an empty flashback file, or not at all (lines 315 and 318).

## 3. Runs

All bounds are constants in the `.cfg` files. The longest run takes some three
minutes.

| Run | Instance | Shows |
|---|---|---|
| `queue` | one pull request with two gh-ost migrations on one topology and a direct one, two hosts, two appliers, both schedulers, retry | `OneExecutor`, `ExecutionIsRecorded`, `RunningHasToken`, `OneGhostPerTopology`, `NoTakeover`, `DirectOnlyToFinish`, `AppliesOnlyReady`, `AbandonedIsReleased`, `DeadRunningFails` |
| `queue_tangled` | two migrations, one host, stalls, retry, mark-complete, forget-pr, closing, later evaluation | `TokenUnique`, `CompleteMeansApplied`, and the refinement of `MigrationLifecycle` |
| `election` | three services, a lease of 2 seconds, any silence | `OneLeader`, `OneWorker`, `NeverDeposed`, `DeposedStepsDown`, `LeaderEmerges` |
| `operations` | two services, each with a gh-ost scheduler, two gh-ost migrations on one topology, a prober, completions by hand | `LedTopologies`, and the refinement of `Election` |
| `sweeps` | two services that sweep, a direct migration with scheduler and prober, errors of any statement | `RunningIsSwept` |
| `pull_requests` | a diff of one statement, which the Action may make two or none, a searcher, a prober, a forget-pr, two mishaps | `NoDuplicates`, `DetectedIsSubmitted`, `QueuedIsApproved`, `CompleteMeansComplete`, `GetsThrough` |
| `catalogue` | one repository that is registered at most twice, two commands at once, four comments, a sharded and an unsharded cluster, a pull request evaluated again and again | `AutomaticIsAllowed`, `ApprovalIsAutorun`, `CoversEveryShard`, `RemovesOnlyWhatItRead` |
| `rewind` | three transactions and some of the master's, two logs, three runs, six commands that may fail, after which it refuses or has nothing more to do | `NoErrantLeft`, `DataMatchesGtid`, `AppliesInPlace`, `OnlyAsFarAsNeeded` |
| `queue_closed_pr` | two gh-ost migrations on one topology in two pull requests, two hosts, retry, and a pull request may be closed | **violated**: `OneGhostPerTopology` |
| `queue_stall` | one migration, two hosts, stalls | **violated**: `OneExecutor` |
| `queue_forget_race` | one migration, forget-pr | **violated**: `ForgetsOnlyUnbegun` |
| `pull_request_undone` | the comment between withdrawal and submission may fail | **violated**: `CompleteMeansComplete` |

Every passing run but `queue_tangled` and `sweeps` checks its module's `TypeOK`
(`OperationsTypeOK`) as well. The four violations are disagreements between
the code and what its comments or documents say; `findings` in `PROJECT.json` quotes both.

`MCCatalogue` also has TLC evaluate `ParsesTheLastDiff`: on every comment of up to
four lines, the parser returns exactly the statements after the last marker, in
their order.

**Why these bounds.** Two migrations, two hosts and one goroutine of each kind are
what it takes for a row to be read by one and changed by another; a third party
adds nothing that two steps of the second do not. Three services are needed for a
lease to be lost by one and fought for by two; in `operations` and `sweeps`, where the
question is what the goroutines of one leader do to those of the next, two services
are enough, with a lease of a second. What matters of an executor to a sweep is only
that its row grows stale, so `sweeps` has none, nor a host; that everything the
services do together is the queue's, whatever goroutines there are, is the theorem
`OperationsImplementQueue`. Three transactions in two logs let
an errant transaction lie under, between and above others; three runs let a
second one die while reverting what the first one left, and a third one succeed.
(With four transactions `rewind` passes as well, in ten times the time.) Two
mishaps let a repeated evaluation be cut short too; of the two diffs one is part
of the other, so that a stale evaluation can say too little or too much. Two
registrations of one repository are one too many for a command that thinks of the
first; the four comments have each kind of statement, an old marker before the
new one, both hints, and a statement that cannot be evaluated. The commands are
interchangeable (`SYMMETRY`), and nothing temporal but an action property is checked
there. The theorems of section 4 have none of these bounds.

**What the passing instances exclude, and why.** Some behaviours of the code break a
property outright. They are excluded by a parameter, listed as hazards, and named
here:

* two gh-ost schedulers of one service alive at once (`scheduler.go:181`): both find
  their own migration free of conflict. A tick comes every minute, and nothing makes
  it wait for the goroutines of the one before. Schedulers of two services are
  in `operations`, where a deposed leader's does make a second migration of a
  topology ready: `LedTopologies` says that it takes one, and which row is its doing;
* an evaluation that proposes a further migration while a direct scheduler has
  decided and not yet written (`scheduler.go:96`, `Late` in `queue`): the
  direct migrations become ready although the new one is not done, and
  `DirectOnlyToFinish` fails;
* a human marking a row complete between owning and running
  (`direct_applier.go:47`, `MarkedByHand`): the statement is executed
  nevertheless;
* two scripts on one host (`cli.go:68`, `HostOf`);
* an executor that stalls beyond expiry (`CanStall`) in `queue`: that is the finding
  of `queue_stall`;
* a failing call inside `probePR` (`logic.go:261`, `MayFail`): the analysis goes on
  with the labels of the row, which are those of the last goroutine that wrote it. A
  probe that fails right after the label was put on finds none in the row, and a pull
  request that is labelled as detected is evaluated again (`DetectedIsSubmitted`
  fails). If moreover a searcher that probed before the label writes its copy after
  the migrations were queued, the evaluation proposes again what is running already
  (`NoDuplicates` fails);
* a failing call between the withdrawal of migrations and the label (`MayFail`):
  that is the finding of `pull_request_undone`. A failing request for the check has
  the same effect when it follows two deaths of the service;
* two probers at once (`logic.go:61`, `Probers`): one withdraws what the other
  has just labelled as submitted (`NoDuplicates` fails);
* a commit after the approval, or while a prober is at work (`CommitsRace`): the
  old diff is labelled as detected after the Action dropped the label.
  `NoDuplicates`, `DetectedIsSubmitted` and `CompleteMeansComplete` fail,
  `QueuedIsApproved` does not. That the Action's own `drop label` fails, or that of
  forget-pr, breaks `DetectedIsSubmitted` as well;
* a forget-pr while a prober is at work (`ForgetsDuringProbes`): the prober inserts
  the row again, from its copy, while the labels come off;
* the detected label removed by a human after approval (`Relabel`): an evaluation
  would withdraw queued migrations and duplicate those that run;
* two commands that write one registration and overlap (`CanOverlap`): an
  update-repo that read before a `repo-autorun disable` turns autorun on again, and
  `AutomaticIsAllowed` fails;
* the script dying between `reset master` and `set global gtid_purged`
  (`KillPoints`): the transactions it knew of are only in its log;
* the failure of certain commands of the script (`Failing`). In the run those fail
  after which it refuses to go on (whether the server replicates, the two servers'
  transactions, their difference, what they share) or has nothing more to do
  (`start slave`). A single failure of another one:

| Failing command | Properties that fail |
|---|---|
| a sanity query (`quiet`: lines 139-152) | `NoErrantLeft`, `DataMatchesGtid`, `AppliesInPlace` |
| `flush logs` (`flush`) | `DataMatchesGtid` |
| a header (`previous`) | `DataMatchesGtid`, `OnlyAsFarAsNeeded` |
| the subtraction that stops the scan (`subtract`) | `OnlyAsFarAsNeeded` |
| what a log has that its header has not (`reverted`) | `NoErrantLeft`, `DataMatchesGtid` |
| what will be left (`projected`) | `DataMatchesGtid` |
| `mysqlbinlog --flashback` (`flashback`) | `DataMatchesGtid`, `AppliesInPlace` |
| `reset master` (`reset`) | `NoErrantLeft`, `DataMatchesGtid` |
| `set global gtid_purged` (`purge`) | `DataMatchesGtid` |

**Deadlock** is checked except where the system rightly stops: a pull request that
is complete or closed, a repository registered as often as the bound allows, a server
that has been rewound as often as allowed.

### Fairness

* `MigrationQueue!FairSpec`: time passes, and each of the four expiry statements
  is issued again and again, since some leader's scheduler ticks for ever
  (`logic.go:69-98`). Nothing at all is assumed of executors.
* `Election!FairSpec`: seconds pass; a service that is up attempts and reads
  again and again (`ContinuousElections` is an endless ticker) and the backend
  answers infinitely many times, though not always: strong fairness, because an
  attempt that fails disables the next until the reading is over.
  `LeaderEmerges` makes one exception (`Lapsed`): if services take the lease in turn
  and each lets it lapse before it has read that it leads, it may go round for ever.
* `ContinuousOperations!OperationsFairSpec`: that of the election; a sweeper is
  started by a leader's ticker or, once started, goes on (weak); and the statement
  that fails what runs is answered again and again, though not every time (strong).
  `MigrationQueue!FairSpec` takes for granted that sweeps go on for ever;
  `RunningIsSwept` says that here they do, unless every service ends up dead or the
  lease lapses for ever, because somebody always comes to lead.
* `PullRequests!FairSpec`: goroutines get to run and ticks come (weak fairness of
  a goroutine's steps, the panic being one), an Action that has started ends, so does
  a forget-pr, a developer asks for review, reviewers review what they are asked
  to, and a queued migration is executed. Mishaps are finite in number: GitHub does
  not fail for ever, and commits do not come for ever.

## 4. Proofs

Checked with TLAPS for every value of the constants that satisfies the modules'
assumptions, which TLC evaluates in the runs. `PROJECT.json` lists the theorems;
hypotheses that are not assumptions of the module stand in the theorem, and each
excludes behaviours named in section 3.

**`QueueProofs!TypeCorrect`**: `Spec => []TypeOK` for the queue, one lemma per
statement of the store and one per group of actions.

**`OwnershipProofs`** assumes `OneRunPerHost` (a host runs one script at a time, and
no host is called like a direct applier's token) and nothing else: any number of
migrations, hosts, appliers, schedulers and forget-pr commands, stalls, overlapping
ticks, human intervention. The inductive invariant is `OwnershipInv`:

1. `KnownRows`: a row with a host's token is one that a reading has returned (`Seen`),
   so if it is there still its pull request is known, and no token hides in a row that
   readings drop (a row inserted for a pull request that was forgotten meanwhile, which
   `SubmitMigrations` does not prevent, gets no token);
2. `OneHolder`: a token is on one live row;
3. `HoldsOnly`: a script under way finds by its token only the migration it has in
   hand, and nothing before it owned one. This is what makes reading a row by token
   safe, and it is why `migration-own` must check for an existing row first;
4. `HookHasRow`: hence the row a hook has read is the script's own migration;
5. `ChangeMade`: after cut-over or execution the change has been made.

The step is proved by classifying the effect of every action on every row
(`RowsStep`: each row makes a step of the life cycle; `NoneAcquires`: no token is
given out but by the two owning statements) and the effect on every script
(`ScriptMove`). From it follow `QueueImplementsLifecycle` (the refinement, initial
states and steps), `TokensAreUnique`, `CompletesOnlyApplied` and `NeverTakenOver`.

**`ExecutionProofs`** goes on from there. `Effect` is a finer classification of what
an action does to one row, with who did it. For one gh-ost scheduler at a time
and pull requests that stay open (`OneSchedulerOpenPRs`), `TopologyInv` is
inductive: what a scheduler has picked is still alone on its topology when it is
written, since nothing but that scheduler makes a gh-ost migration ready, and no
active one is invisible to it. If no pull request with direct
migrations is evaluated again (`DirectEvaluatedOnce`), `FinishInv` is inductive: the
snapshot of a direct scheduler is old when it writes, and rows are queued, withdrawn,
retried, completed and approved meanwhile, but what made the pull request
finishable lasts, because a row that is complete or withdrawn stays so and a strategy
once direct stays direct. `DirectOnlyToFinish` follows, without any other hypothesis.
Under `Supervised` (one script per host, no
stall, nobody marks complete, nothing is forgotten) `ExecutionInv` is inductive: a row
whose executor is at work is fresh, so expiry passes it over; so its token stays,
and whoever executes holds it, on a row that is running. `OneExecutor`,
`ExecutionIsRecorded`, `RunningHasToken` and `AppliesOnlyReady` follow, for any number
of migrations, hosts, appliers and overlapping ticks.

**`ElectionProofs`** assumes nothing: any number of services, any length of the lease,
any silence. `LeaseInv` is inductive: the row is as old as its holder's last write, so
an attempt takes it from nobody who renewed it in time; and whoever believes that it
leads, or works, holds the row or is late with it. `OneLeader`, `OneWorker` and
`NeverDeposed` follow, each for the services that have `Renewed` the lease within its
length. An up leader that has not (frozen for six seconds, or kept from the backend) is
deposed in the model as in the code, and believes and works on beside its successor; the
properties say that when there are two, one of them is such a one, which could tell by
its own clock.

**`OperationsProofs`** joins the two. `OperationsImplementElection` and
`OperationsImplementQueue` need no hypothesis: each step of the services is one of the
election or leaves it alone, each is one of the queue or leaves it alone. So the
theorems about either hold of both together. (The second is mostly by construction,
and is a lemma here, not a property of a run: the content is in the first, and in what
follows.) `LedTopologies` is about leadership that changes hands between what a
scheduler reads and what it writes. A deposed leader's scheduler does write; `strays`
are the rows it was the last to mark. `LedInv` adds to what `ExecutionProofs` knows of
one step: a scheduler with something in hand is alive (`BusyIsAlive`); those alive whose
service has had the lease all along belong to one service (`TrustedLead`), hence
(`OneTickEach`: one service's ticks do not overlap) are the same; and what such a one
has picked is free of conflict with everything but strays (`TrustedPick`), since
whatever else became active on the topology was marked by another of its kind. So two
gh-ost migrations are active on one topology only through a stray, for any number of
services, however often leadership changes.

**`PullRequestsProofs`** has four layers, each with an invariant that rests on the
one before, for any diffs and any number of searchers and forget-prs:

1. `ApprovalInv`, unconditional: an approval in the row, or in a copy that
   passed the analysis to `queue`, is an approval on GitHub, and a migration past
   `proposed` implies one. It gives `TypeOK` and `QueuedIsApproved`, whatever races.
2. `SubmissionInv`, under `OneProber` (one prober at a time, whose probes succeed, and
   clear of commits and forget-prs): an evaluation works on the row there is; while
   the label is off nothing is on its way (`MovingIsDetected`), so that withdrawing
   what is proposed or queued withdraws everything; and what is left to submit is
   disjoint from what has been (`Prepares`). It gives `NoDuplicates`.
3. `DetectionInv`, if moreover labels come off (`LabelsComeOff`): from the check to
   the label no Action is under way, so the diff that was read is the diff there is
   (`SubmitsAll`). It gives `DetectedIsSubmitted`.
4. `CompletionInv`, if only the calls at the end of a step fail and no diff is empty
   (`Steadily`). The query of `detectAndMarkCompletedPRs` takes an open pull request
   whose migrations are all withdrawn (`Hollow`) for done. `FillsUp` says that nobody
   gets there: who probes it goes on to evaluate it, and an evaluation, once begun,
   ends with migrations. It gives `CompleteMeansComplete`. That the hypothesis is
   needed is the finding of `pull_request_undone`.

**`CatalogueProofs`** starts with the pure operators of `Statements`. A dropped table's
new name fits and ends in `_DRP` (`SafeNameFits`); two such names of one second collide exactly when the tables agree in what is kept
(`SafeNamesCollide`: with 64 characters that is the first 44 of the name);
rewriting keeps the strategy (`RewrittenKeepsStrategy`); a host is told the cluster a
migration was evaluated for if and only if it is not for a shard
(`ToldClusterIffWhole`).

Of the catalogue itself, `ObeyInv` (rows, copies about to be written back and
evaluations obey what was last ordered, and a registration has one writer) gives
`AutomaticIsAllowed` when commands do not overlap; `ProposedInv` (every proposed
migration is one of the evaluation it is based on, approved or not, and all of them
are there once the label is) gives `ApprovalIsAutorun` and `CoversEveryShard`;
`RemovesOnlyWhatItRead` needs neither. For any repositories, comments, clusters and
commands.

**`RewindProofs`**, for any server, any spread of its history over the logs, any
death and rerun of the script, and any write up to the first flashback:

* `RewoundToMaster`, `NoErrantLeft`, under `ResetsReliably` (the sanity queries, the
  two subtractions that decide what is reverted, and `reset master` do not fail): what
  the scan subtracts contains every errant
  transaction it knew of, because it stops only at a log whose header has none
  of them and started at one whose header has all; the transactions measured minus
  those are transactions the master had, and the master forgets nothing.
* `RevertsNoMore`, `OnlyAsFarAsNeeded`, under `ScansReliably` (headers are read and
  subtracted). `FarInv`: the header of the log the scan is at has something errant.
* `FlashbacksInPlace`, `AppliesInPlace`, under `AppliesReliably` (the sanity queries do
  not fail, and no flashback file comes out empty).
  `HistInv` says that there is a chain of states of the tables, one between any two
  neighbouring entries of the logs, each entry leading from one state to the next;
  what is left of a flashback file is the way back along it (`Walks`), although
  the flashbacks' own logging makes the chain longer at its other end, and although
  a rerun may find part of a reverting in the logs and has to revert that.
* `RewoundAsPurged`, `DataMatchesGtid`, under `Reliably` (moreover `flush`, `previous`,
  `reverted`, `projected`, `reset` and `purge` do not fail, and the script does not die
  after `reset master`): a state of the chain that has only original transactions
  before it is the set of them, so what is left after the last flashback is what
  the projection computed before the first.
* `RewindTypes`, unconditional.

**Only model-checked**: the liveness properties (`AbandonedIsReleased`,
`DeadRunningFails`, `DeposedStepsDown`, `LeaderEmerges`, `RunningIsSwept`,
`GetsThrough`), which are
outside the prover's reach; and `ParsesTheLastDiff`, since what a fold over a sequence
computes for every input takes induction over data. The violations are
counterexamples, which TLC gives.

## 5. Not modelled

* Two Actions of one pull request at once.
* The cache of team members, paging and authentication in `ghapi`; `MySQLDiscoveryAPI`,
  `SitesAPI`, `TopologyDB`: stateless requests whose answers are choices and whose
  errors are steps.
* Comments, logging, configuration, the health page, build and deployment files,
  vendored code; chatops that only show.
* `ForceLeadership` and `Reelect`: nothing calls them.
* In gh-mysql-rewind, a flashback statement that fails although it meets the right
  data, and the restoring of `expire_logs_days`.

### Noticed, without a run of their own

These are differences between the code and what is said of it, or surprises, that the
models have but no property is about:

* `docs/how.md:54` says that after a new commit the statements are generated again;
  in the races excluded by `CommitsRace` they are those of the old commit. A commit
  after the pull request is queued fails the check for good, and a forget-pr then
  leaves it stuck until there is another commit.
* A leader whose readings of the election fail goes on leading for as long as they do
  (`backend.go:87`); it could step down by its own clock when its lease has run out.
* A probe while the Action runs ends the service (`ghapi/api.go:273`).
* gh-mysql-rewind refuses with "there are no shared GTID entries between the two
  servers. Seems like they were never part of the same cluster" (line 212) when the
  master has nothing the server lacks, because `shared` is computed as the master's
  transactions minus the server's (line 210). A server that shares all of an idle
  master's history is refused, and two that share nothing pass. The model has the
  subtraction (`SharedGtid`).
* `update-repo` never changes the owner it is given (`docs/chatops.md`).
* `remove-repo` leaves the mappings and the open pull requests, which are probed on
  (`chatops.go:44` says that skeefree will forget everything about it).
* Commands answer with the new status also when no row was changed.
* Two drops in one second of tables with the same first 44 characters get the same
  new name (`SafeNamesCollide`).
* An `alter table` on several lines is not dissected, and then none of the pull
  request's statements is evaluated.
* The host of a migration on a shard is told no cluster (`core/migration.go:84` as
  used by `cli.go:109`, against `core/migration_test.go:25`), and the direct applier
  connects by the cluster alone, so that the drops of all shards run on one master.

## 6. Plan

Done: the queue with its refinement and the proofs about execution; the election, and
its composition with the queue; the pull request workflow with the Action and forget-pr
and its four layers of proofs; the evaluation of statements and the catalogue; the
script with failing commands and its chain of states. What is left, in this order:

1. `MigrationQueue!Migrate` in place of the action of that name in `PullRequests`,
   as a refinement: a completed queue is a completed pull request.
2. Actions that overlap.
