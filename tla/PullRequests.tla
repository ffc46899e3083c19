---------------------------- MODULE PullRequests ----------------------------
(***************************************************************************)
(* A pull request with a schema change, from its discovery to the comment  *)
(* that its migrations are done (go/app/logic.go): what skeefree sees of   *)
(* it on GitHub, what it writes to the backend, and in which order.        *)
(*                                                                         *)
(* Every minute the leader starts goroutines that search for undetected    *)
(* pull requests and that probe, evaluate and complete the known ones.     *)
(* Each works on a copy of the row of pull_requests, one GitHub call or    *)
(* SQL statement after the other, while humans click or have it forgotten, *)
(* other goroutines write, and the service may die.  Every commit to the   *)
(* branch has a GitHub Action rewrite the diff comment meanwhile           *)
(* (.github/workflows/skeema-diff.yml).  Pull requests do not depend on    *)
(* each other: this is one of them.  Its migrations are executed by what   *)
(* the module MigrationQueue models, here one that runs and completes.     *)
(***************************************************************************)
EXTENDS Integers, Sequences, FiniteSets

CONSTANTS
    Searchers, Probers,     \* goroutines of detectApprovedPRs, probeKnownOpenPRs
    Forgetters,             \* forget-pr commands in progress at once
    ForgetsDuringProbes,    \* whether one may catch a prober at the pull request
    Diffs,                  \* the statements of the diff comment, to begin with and
                            \* those it may have after a commit
    CommitsRace,            \* whether commits come at any time, or before the
                            \* approval and while no prober is at work
    RequiresReviewers,      \* reposRequiringDBReviewers[repo]
    MayFail,                \* places at which a call to GitHub may fail
    MaxMishaps              \* bound on failed calls, crashes, lost labels, forget-prs,
                            \* commits

Workers == Searchers \cup Probers \cup Forgetters

(* Places at which a goroutine is about to call GitHub.                    *)
Calls == {"reviews", "pull", "checks", "comment", "label detected", "ask", "label queued",
          "remove detected", "remove queued"}
Places == Calls \cup {"idle", "recognize", "submit", "analyze", "forget", "statements",
                      "read", "migrations", "queue", "completed", "complete", "unlabel",
                      "find row", "delete row"}

(* The Action: at work, or with its conclusion.                            *)
Running == {"validate", "drop label", "edit"}
Conclusions == {"success", "failure"}

Texts(v) == {Diffs[v][i] : i \in DOMAIN Diffs[v]}
AllTexts == UNION {Texts(v) : v \in DOMAIN Diffs}

ASSUME PullRequestsAssumption ==
    /\ Diffs \in Seq(Seq(AllTexts)) /\ Len(Diffs) > 0
    /\ \A v \in DOMAIN Diffs : \A i, j \in DOMAIN Diffs[v] : Diffs[v][i] = Diffs[v][j] => i = j
    /\ Searchers \cap Probers = {} /\ Forgetters \cap (Searchers \cup Probers) = {}
    /\ RequiresReviewers \in BOOLEAN /\ ForgetsDuringProbes \in BOOLEAN
    /\ CommitsRace \in BOOLEAN
    /\ MayFail \subseteq Calls \cup {"drop label", "unlabel"}
    /\ MaxMishaps \in Nat

VARIABLES
    gh,         \* the pull request on GitHub
    row,        \* its row in pull_requests, NoRow when there is none
    statements, \* pull_request_migration_statements, by id
    migs,       \* migrations, by id
    pc, copy,   \* each goroutine: its place, its copy of the row,
    comment,    \*     the diff it has read, 1 before it reads one,
    found,      \*     and the ids of the statements it has to submit migrations for
    nextId, mishaps

tables == <<row, statements, migs, nextId>>
vars == <<gh, tables, pc, copy, found, comment, mishaps>>

(* The pull request has the label migration:skeema:diff.                   *)
GitHub == [open : BOOLEAN, forReview : BOOLEAN, detected : BOOLEAN, queued : BOOLEAN,
           reviewed : BOOLEAN,      \* by someone, by the database reviewers if required
           asked : BOOLEAN,         \* the database infrastructure team: its review
           approved : BOOLEAN,      \* is requested, and given
           diff : 1..Len(Diffs),    \* in the comment; and the Action of the last commit
           action : Running \cup Conclusions]

PRStatuses == {"detected", "queued", "complete"}
PRRow == [id : Nat, status : PRStatuses, open : BOOLEAN, forReview : BOOLEAN,
          detected : BOOLEAN, queued : BOOLEAN, reviewed : BOOLEAN, asked : BOOLEAN,
          approved : BOOLEAN]

(* core.NewPullRequestFromRepository                                       *)
NoRow == [id |-> 0, status |-> "detected", open |-> FALSE, forReview |-> FALSE,
          detected |-> FALSE, queued |-> FALSE, reviewed |-> FALSE, asked |-> FALSE,
          approved |-> FALSE]

Statement == [pr : Nat, text : AllTexts, status : {"suggested", "approved", "cancelled"}]
Migration == [pr : Nat, text : AllTexts,
              status : {"proposed", "queued", "running", "complete", "cancelled"}]

TypeOK ==
    /\ gh \in GitHub /\ row \in PRRow /\ (row.id = 0 => row = NoRow)
    /\ statements \in Seq(Statement) /\ migs \in Seq(Migration)
    /\ pc \in [Workers -> Places] /\ copy \in [Workers -> PRRow]
    /\ found \in [Workers -> SUBSET (1..Len(statements))]
    /\ comment \in [Workers -> 1..Len(Diffs)]
    /\ nextId \in Nat \ {0} /\ mishaps \in 0..MaxMishaps

Init ==
    /\ gh = [open |-> TRUE, forReview |-> FALSE, detected |-> FALSE, queued |-> FALSE,
             reviewed |-> FALSE, asked |-> FALSE, approved |-> FALSE,
             diff |-> 1, action |-> "success"]
    /\ row = NoRow /\ statements = <<>> /\ migs = <<>> /\ nextId = 1
    /\ pc = [w \in Workers |-> "idle"] /\ copy = [w \in Workers |-> NoRow]
    /\ found = [w \in Workers |-> {}] /\ comment = [w \in Workers |-> 1]
    /\ mishaps = 0

-----------------------------------------------------------------------------
(* The backend (go/db/backend.go) *)

(* Fault: an inserted row gets the id of the copy.                         *)
SubmitWithoutId(r) == IF row.id # 0 THEN [r EXCEPT !.id = row.id] ELSE r

(* SubmitPR updates every column of the row there is but its id, also the  *)
(* status and the labels, with what the goroutine has; or else inserts.    *)
(* (The one exception, "label_diff:=label_diff", is nothing here: without  *)
(* that label a pull request is not found, and no probe loses it.)         *)
SubmittedPR(r) == [r EXCEPT !.id = IF row.id # 0 THEN row.id ELSE nextId]

(* "where id=?"                                                            *)
IsRow(id) == row.id # 0 /\ row.id = id

(* ForgetPRStatementsAndMigrations                                         *)
Cancel(m, id) ==
    IF m.pr = id /\ m.status \in {"proposed", "queued"}
    THEN [m EXCEPT !.status = "cancelled"] ELSE m

(* Fault: statements nobody has approved yet are kept.                     *)
CancelApproved(s, id) ==
    IF s.pr = id /\ s.status = "approved" THEN [s EXCEPT !.status = "cancelled"] ELSE s

CancelStatement(s, id) == IF s.pr = id THEN [s EXCEPT !.status = "cancelled"] ELSE s

(* ReadPullRequestMigrationStatements                                      *)
StatementsOf(id) ==
    {k \in DOMAIN statements : statements[k].pr = id /\ statements[k].status # "cancelled"}

MigrationsOf(id) == {k \in DOMAIN migs : migs[k].pr = id}

(* Fault: some migration is complete.                                      *)
SomeDone(id) == \E k \in MigrationsOf(id) : migs[k].status = "complete"

AllDone(id) == MigrationsOf(id) # {} /\ \A k \in MigrationsOf(id) :
                   migs[k].status \in {"complete", "cancelled"}

-----------------------------------------------------------------------------
(* GitHub's side, and the queue's *)

Mishap == mishaps < MaxMishaps /\ mishaps' = mishaps + 1

(* At work on the pull request with a copy of its row.                     *)
Probing(p) == pc[p] \notin {"idle", "completed", "complete", "unlabel"}

(* What humans do, each once: a developer, reviewers, the infra team.      *)
Human ==
    /\ \/ ~gh.forReview /\ gh' = [gh EXCEPT !.forReview = TRUE]
       \/ ~gh.reviewed  /\ gh' = [gh EXCEPT !.reviewed = TRUE]
       \/ /\ gh.asked /\ ~gh.approved
          /\ CommitsRace \/ gh.action \in Conclusions
          /\ gh' = [gh EXCEPT !.approved = TRUE]
    /\ gh.open
    /\ UNCHANGED <<tables, pc, copy, found, comment, mishaps>>

Close ==
    /\ gh.open /\ gh' = [gh EXCEPT !.open = FALSE]
    /\ UNCHANGED <<tables, pc, copy, found, comment, mishaps>>

(* A human removes the detected label, before the pull request is approved.*)
Relabel ==
    /\ gh.open /\ gh.detected /\ ~gh.approved
    /\ Mishap
    /\ gh' = [gh EXCEPT !.detected = FALSE]
    /\ UNCHANGED <<tables, pc, copy, found, comment>>

Migrate ==
    /\ row.open
    /\ \E k \in MigrationsOf(row.id) :
         \/ migs[k].status = "queued"  /\ migs' = [migs EXCEPT ![k].status = "running"]
         \/ migs[k].status = "running" /\ migs' = [migs EXCEPT ![k].status = "complete"]
    /\ UNCHANGED <<gh, row, statements, nextId, pc, copy, found, comment, mishaps>>

-----------------------------------------------------------------------------
(* The Action.  Once the pull request is labelled as queued there is no    *)
(* new diff any more; else skeefree is made to detect it again.            *)

Commit ==
    /\ gh.open /\ gh.action \in Conclusions
    /\ CommitsRace \/ (~gh.approved /\ \A p \in Probers : ~Probing(p))
    /\ Mishap
    /\ gh' = [gh EXCEPT !.action = "validate"]
    /\ UNCHANGED <<tables, pc, copy, found, comment>>

Validate ==
    /\ gh.action = "validate"
    /\ gh' = [gh EXCEPT !.action = IF gh.queued THEN "failure" ELSE "drop label"]
    /\ UNCHANGED <<tables, pc, copy, found, comment, mishaps>>

(* Whether the label is gone is not looked at.                             *)
DropLabel ==
    /\ gh.action = "drop label"
    /\ \E stays \in IF "drop label" \in MayFail THEN BOOLEAN ELSE {FALSE} :
         gh' = [gh EXCEPT !.action = "edit", !.detected = @ /\ stays]
    /\ UNCHANGED <<tables, pc, copy, found, comment, mishaps>>

(* The diff may be another or the same.                                    *)
EditComment ==
    /\ gh.action = "edit"
    /\ \E v \in DOMAIN Diffs : gh' = [gh EXCEPT !.action = "success", !.diff = v]
    /\ UNCHANGED <<tables, pc, copy, found, comment, mishaps>>

ActionStep == Validate \/ DropLabel \/ EditComment

-----------------------------------------------------------------------------
(* Steps of a goroutine *)

(* A goroutine that ends leaves nothing behind.                            *)
Go(w, place) == pc' = [pc EXCEPT ![w] = place]
Keeps(w, place) == copy' = IF place = "idle" THEN [copy EXCEPT ![w] = NoRow] ELSE copy
OnlyMoves(w, place) == Go(w, place) /\ UNCHANGED <<gh, tables, copy, found, comment, mishaps>>

(* SearchSkeemaDiffUndetectedPRs                                           *)
Search(s) ==
    /\ pc[s] = "idle" /\ gh.open /\ ~gh.detected
    /\ OnlyMoves(s, "recognize")

(* detectRepoApprovedPRs: reads the row, if any; passes over what is       *)
(* complete and what nobody has approved.                                  *)
Recognize(s) ==
    /\ pc[s] = "recognize"
    /\ IF row.status # "complete" /\ gh.reviewed
       THEN Go(s, "reviews") /\ copy' = [copy EXCEPT ![s] = row]
       ELSE Go(s, "idle") /\ UNCHANGED copy
    /\ UNCHANGED <<gh, tables, found, comment, mishaps>>

BeingForgotten == \E f \in Forgetters : pc[f] # "idle"

(* ReadOpenPRs; with no open row detectAndMarkCompletedPRs comes next.     *)
ReadOpen(p) ==
    /\ pc[p] = "idle"
    /\ ForgetsDuringProbes \/ ~BeingForgotten
    /\ copy' = [copy EXCEPT ![p] = row]
    /\ Go(p, IF row.open THEN "reviews" ELSE "completed")
    /\ UNCHANGED <<gh, tables, found, comment, mishaps>>

(* probePR: the reviews, then the pull request itself, then SubmitPR.      *)
ProbeReviews(w) ==
    /\ pc[w] = "reviews"
    /\ copy' = [copy EXCEPT ![w] = [@ EXCEPT !.reviewed = gh.reviewed, !.asked = gh.asked,
                                             !.approved = gh.approved]]
    /\ Go(w, "pull")
    /\ UNCHANGED <<gh, tables, found, comment, mishaps>>

ProbePull(w) ==
    /\ pc[w] = "pull"
    /\ copy' = [copy EXCEPT ![w] = [@ EXCEPT !.open = gh.open, !.forReview = gh.forReview,
                                             !.detected = gh.detected, !.queued = gh.queued]]
    /\ Go(w, "submit")
    /\ UNCHANGED <<gh, tables, found, comment, mishaps>>

SubmitPR(w) ==
    /\ pc[w] = "submit"
    /\ row' = SubmittedPR(copy[w])
    /\ nextId' = IF row.id = 0 THEN nextId + 1 ELSE nextId
    /\ Go(w, IF w \in Probers THEN "analyze" ELSE "idle")
    /\ Keeps(w, pc'[w])
    /\ UNCHANGED <<gh, statements, migs, found, comment, mishaps>>

(* analyzeDetectedPR                                                       *)
Active(r) == r.open /\ r.forReview /\ r.status # "complete"

(* Fault: reviewers must have approved and not be required, for "or".      *)
AsksUnlessRequired(r) ==
    r.detected /\ ~r.asked /\ ~r.approved /\ r.reviewed /\ ~RequiresReviewers

NeedsAsking(r) ==
    r.detected /\ ~r.asked /\ ~r.approved /\ (r.reviewed \/ ~RequiresReviewers)

(* Fault: the approval is not waited for.                                  *)
MayQueueDetected(r) == r.detected

MayQueue(r) == r.detected /\ r.approved

Analyze(p) ==
    /\ pc[p] = "analyze"
    /\ OnlyMoves(p, IF ~Active(copy[p]) THEN "completed"
                    ELSE IF ~copy[p].detected THEN "checks"
                    ELSE IF MayQueue(copy[p]) THEN "queue"
                    ELSE IF NeedsAsking(copy[p]) THEN "ask" ELSE "completed")

(* evaluatePRMigration *)

(* Fault: the check is not waited for.                                     *)
ChecksAnyway(p) ==
    /\ pc[p] = "checks"
    /\ OnlyMoves(p, "forget")

Checks(p) ==
    /\ pc[p] = "checks" /\ gh.action \in Conclusions
    /\ OnlyMoves(p, IF gh.action = "success" THEN "forget" ELSE "completed")

(* The comment is read.  If it has statements, with nothing of anybody     *)
(* else's in between, what the last evaluation left is withdrawn.          *)
NoStatements(p) ==
    /\ pc[p] = "forget" /\ Diffs[gh.diff] = <<>>
    /\ OnlyMoves(p, "completed")

Forget(p) ==
    /\ pc[p] = "forget" /\ Diffs[gh.diff] # <<>>
    /\ comment' = [comment EXCEPT ![p] = gh.diff]
    /\ statements' = [k \in DOMAIN statements |-> CancelStatement(statements[k], copy[p].id)]
    /\ migs' = [k \in DOMAIN migs |-> Cancel(migs[k], copy[p].id)]
    /\ Go(p, "statements")
    /\ UNCHANGED <<gh, row, nextId, copy, found, mishaps>>

SubmitPRStatements(p) ==
    /\ pc[p] = "statements"
    /\ statements' = statements \o
           [i \in DOMAIN Diffs[comment[p]] |->
               [pr |-> copy[p].id, text |-> Diffs[comment[p]][i], status |-> "suggested"]]
    /\ comment' = [comment EXCEPT ![p] = 1]
    /\ Go(p, "read")
    /\ UNCHANGED <<gh, row, migs, nextId, copy, found, mishaps>>

ReadStatements(p) ==
    /\ pc[p] = "read"
    /\ found' = [found EXCEPT ![p] = StatementsOf(copy[p].id)]
    /\ Go(p, IF found'[p] = {} THEN "completed" ELSE "comment")
    /\ UNCHANGED <<gh, tables, copy, comment, mishaps>>

(* evaluateMigrations asks GitHub's inventory of clusters; the comment     *)
(* with the instructions follows.                                          *)
Comment(p) ==
    /\ pc[p] = "comment"
    /\ OnlyMoves(p, "migrations")

(* SubmitMigrations inserts them one by one, in no transaction.            *)
SubmitMigration(p) ==
    /\ pc[p] = "migrations" /\ found[p] # {}
    /\ \E k \in found[p] :
         /\ \A j \in found[p] : k <= j
         /\ migs' = Append(migs, [pr |-> copy[p].id, text |-> statements[k].text,
                                  status |-> "proposed"])
         /\ found' = [found EXCEPT ![p] = @ \ {k}]
    /\ UNCHANGED <<gh, row, statements, nextId, pc, copy, comment, mishaps>>

MigrationsSubmitted(p) ==
    /\ pc[p] = "migrations" /\ found[p] = {}
    /\ OnlyMoves(p, "label detected")

LabelDetected(p) ==
    /\ pc[p] = "label detected"
    /\ gh' = [gh EXCEPT !.detected = TRUE]
    /\ Go(p, "completed")
    /\ UNCHANGED <<tables, copy, found, comment, mishaps>>

(* requestReviewFromTeam                                                   *)
Ask(p) ==
    /\ pc[p] = "ask"
    /\ gh' = [gh EXCEPT !.asked = TRUE]
    /\ Go(p, "completed")
    /\ UNCHANGED <<tables, copy, found, comment, mishaps>>

(* queuePRMigrations *)

Queue(p) ==
    /\ pc[p] = "queue"
    /\ row' = IF IsRow(copy[p].id) /\ row.status = "detected"
              THEN [row EXCEPT !.status = "queued"] ELSE row
    /\ statements' = [k \in DOMAIN statements |->
           IF statements[k].pr = copy[p].id /\ statements[k].status = "suggested"
           THEN [statements[k] EXCEPT !.status = "approved"] ELSE statements[k]]
    /\ migs' = [k \in DOMAIN migs |->
           IF migs[k].pr = copy[p].id /\ migs[k].status = "proposed"
           THEN [migs[k] EXCEPT !.status = "queued"] ELSE migs[k]]
    /\ Go(p, IF copy[p].queued THEN "completed" ELSE "label queued")
    /\ UNCHANGED <<gh, nextId, copy, found, comment, mishaps>>

LabelQueued(p) ==
    /\ pc[p] = "label queued"
    /\ gh' = [gh EXCEPT !.queued = TRUE]
    /\ Go(p, "completed")
    /\ UNCHANGED <<tables, copy, found, comment, mishaps>>

(* detectAndMarkCompletedPRs *)

ReadCompleted(p) ==
    /\ pc[p] = "completed"
    /\ IF row.open /\ row.status # "complete" /\ AllDone(row.id)
       THEN Go(p, "complete") /\ copy' = [copy EXCEPT ![p] = row]
       ELSE Go(p, "idle") /\ Keeps(p, "idle")
    /\ UNCHANGED <<gh, tables, found, comment, mishaps>>

(* UpdatePRStatus; whoever changed the row comments, and removes the label *)
(* if the row had it.                                                      *)
Complete(p) ==
    /\ pc[p] = "complete"
    /\ row' = IF IsRow(copy[p].id) THEN [row EXCEPT !.status = "complete"] ELSE row
    /\ Go(p, IF row' # row /\ copy[p].queued THEN "unlabel" ELSE "idle")
    /\ Keeps(p, pc'[p])
    /\ UNCHANGED <<gh, statements, migs, nextId, found, comment, mishaps>>

(* A call that fails is logged, and is the last one.                       *)
UnlabelQueued(p) ==
    /\ pc[p] = "unlabel"
    /\ \E stays \in IF "unlabel" \in MayFail THEN BOOLEAN ELSE {FALSE} :
         gh' = [gh EXCEPT !.queued = @ /\ stays]
    /\ Go(p, "idle") /\ Keeps(p, "idle")
    /\ UNCHANGED <<tables, found, comment, mishaps>>

-----------------------------------------------------------------------------
(* forget-pr.  GitHub is asked for the labels there are, then the row is   *)
(* looked up, deleted with all that belongs to it, and the labels that     *)
(* there were are removed in the order GitHub lists them, here by name.    *)

ReadLabels(f) ==
    /\ pc[f] = "idle"
    /\ ForgetsDuringProbes \/ \A p \in Probers : ~Probing(p)
    /\ Mishap
    /\ copy' = [copy EXCEPT ![f] = [NoRow EXCEPT !.detected = gh.detected, !.queued = gh.queued]]
    /\ Go(f, "find row")
    /\ UNCHANGED <<gh, tables, found, comment>>

Begun(id) == \E k \in MigrationsOf(id) : migs[k].status \in {"running", "complete"}

(* ReadPR, and the statuses ForgetPR reads before its transaction.         *)
FindRow(f) ==
    /\ pc[f] = "find row"
    /\ IF row.id # 0 /\ ~Begun(row.id)
       THEN Go(f, "delete row") /\ copy' = [copy EXCEPT ![f].id = row.id]
       ELSE Go(f, "idle") /\ Keeps(f, "idle")
    /\ UNCHANGED <<gh, tables, found, comment, mishaps>>

(* A statement or migration that is deleted is one of no pull request and  *)
(* is never done.                                                          *)
Deleted(r, id) == IF r.pr = id THEN [r EXCEPT !.pr = 0, !.status = "cancelled"] ELSE r

NextRemoval(labels, place) ==
    IF labels.detected /\ place = "delete row" THEN "remove detected"
    ELSE IF labels.queued /\ place # "remove queued" THEN "remove queued"
    ELSE "idle"

(* The transaction of ForgetPR.                                            *)
DeleteRow(f) ==
    /\ pc[f] = "delete row"
    /\ row' = IF IsRow(copy[f].id) THEN NoRow ELSE row
    /\ statements' = [k \in DOMAIN statements |-> Deleted(statements[k], copy[f].id)]
    /\ migs' = [k \in DOMAIN migs |-> Deleted(migs[k], copy[f].id)]
    /\ Go(f, NextRemoval(copy[f], "delete row")) /\ Keeps(f, pc'[f])
    /\ UNCHANGED <<gh, nextId, found, comment, mishaps>>

RemoveDetected(f) ==
    /\ pc[f] = "remove detected"
    /\ gh' = [gh EXCEPT !.detected = FALSE]
    /\ Go(f, NextRemoval(copy[f], "remove detected")) /\ Keeps(f, pc'[f])
    /\ UNCHANGED <<tables, found, comment, mishaps>>

RemoveQueued(f) ==
    /\ pc[f] = "remove queued"
    /\ gh' = [gh EXCEPT !.queued = FALSE]
    /\ Go(f, "idle") /\ Keeps(f, "idle")
    /\ UNCHANGED <<tables, found, comment, mishaps>>

-----------------------------------------------------------------------------
(* Failures *)

(* A failed call ends the step of its pull request with a line in the log; *)
(* but after a failed probe the analysis goes on with what there is: new   *)
(* answers up to the call that failed, FALSE for its own, and then what    *)
(* was in the row.                                                         *)
Answered(r, n) ==
    [r EXCEPT !.reviewed = IF n = 1 THEN FALSE ELSE gh.reviewed,
              !.asked    = IF n = 1 THEN @ ELSE IF n = 2 THEN FALSE ELSE gh.asked,
              !.approved = IF n = 3 THEN FALSE ELSE @]

CallFails(w) ==
    /\ pc[w] \in Calls \cap MayFail
    /\ Mishap
    /\ IF w \in Probers /\ pc[w] \in {"reviews", "pull"}
       THEN /\ Go(w, "analyze")
            /\ \E r \in IF pc[w] = "pull" THEN {copy[w]} ELSE {Answered(copy[w], n) : n \in 1..3} :
                 copy' = [copy EXCEPT ![w] = r]
       ELSE Go(w, IF w \in Probers THEN "completed" ELSE "idle") /\ Keeps(w, pc'[w])
    /\ UNCHANGED <<gh, tables, found, comment>>

Dies ==
    /\ pc' = [w \in Workers |-> "idle"] /\ copy' = [w \in Workers |-> NoRow]
    /\ found' = [w \in Workers |-> {}] /\ comment' = [w \in Workers |-> 1]
    /\ UNCHANGED <<gh, tables>>

(* To a forget-pr a crash is a failed call.                                *)
Crash ==
    /\ Mishap
    /\ \A f \in Forgetters : pc[f] \in Calls => pc[f] \in MayFail
    /\ Dies

(* A check that is still running has no conclusion: to compare it is to    *)
(* dereference nil, in a goroutine that recovers from nothing.             *)
Panic(p) ==
    /\ pc[p] = "checks" /\ gh.action \in Running
    /\ Dies
    /\ UNCHANGED mishaps

SearchStep(s) == Search(s) \/ Recognize(s)
ProbeStep(w) == ProbeReviews(w) \/ ProbePull(w) \/ SubmitPR(w)
EvaluateStep(p) ==
    \/ Checks(p) \/ NoStatements(p) \/ Forget(p) \/ SubmitPRStatements(p) \/ ReadStatements(p)
    \/ Comment(p) \/ SubmitMigration(p) \/ MigrationsSubmitted(p) \/ LabelDetected(p)
ProberStep(p) ==
    \/ ReadOpen(p) \/ Analyze(p) \/ EvaluateStep(p) \/ Ask(p)
    \/ Queue(p) \/ LabelQueued(p) \/ ReadCompleted(p) \/ Complete(p) \/ UnlabelQueued(p)
ForgetStep(f) == FindRow(f) \/ DeleteRow(f) \/ RemoveDetected(f) \/ RemoveQueued(f)

Next ==
    \/ Human \/ Close \/ Relabel \/ Migrate \/ Crash \/ Commit \/ ActionStep
    \/ \E s \in Searchers : SearchStep(s)
    \/ \E w \in Searchers \cup Probers : ProbeStep(w)
    \/ \E p \in Probers : ProberStep(p) \/ Panic(p)
    \/ \E f \in Forgetters : ReadLabels(f) \/ ForgetStep(f)
    \/ \E w \in Workers : CallFails(w)

Spec == Init /\ [][Next]_vars

(* The ticks come every minute and goroutines get to run; developers ask   *)
(* for review and teams review what they are asked to; the queue gets a    *)
(* migration done.                                                         *)
Fairness ==
    /\ WF_vars(Human) /\ WF_vars(Migrate) /\ WF_vars(ActionStep)
    /\ \A s \in Searchers : WF_vars(SearchStep(s) \/ ProbeStep(s))
    /\ \A p \in Probers : WF_vars(ProberStep(p) \/ ProbeStep(p) \/ Panic(p))
    /\ \A f \in Forgetters : WF_vars(ForgetStep(f))

FairSpec == Spec /\ Fairness

-----------------------------------------------------------------------------
(* Properties *)

Alive(k) == migs[k].status # "cancelled"

(* A statement of the diff is never to be executed twice, although the     *)
(* evaluation is repeated whenever it was cut short.                       *)
NoDuplicates ==
    \A j, k \in DOMAIN migs : Alive(j) /\ Alive(k) /\ migs[j].text = migs[k].text => j = k

(* The detected label, which ends evaluation, is on a pull request only    *)
(* when the migrations in the backend are those of its diff comment as it  *)
(* is now, all of them and no others, or while a forget-pr is about to     *)
(* take it off.                                                            *)
DetectedIsSubmitted ==
    gh.detected =>
        \/ {migs[k].text : k \in {j \in MigrationsOf(row.id) : Alive(j)}} = Texts(gh.diff)
        \/ \E f \in Forgetters : pc[f] = "remove detected"

(* No migration is on its way before the infra team approved.              *)
QueuedIsApproved ==
    (\E k \in DOMAIN migs : Alive(k) /\ migs[k].status # "proposed") => gh.approved

(* "All migrations in this PR are in `complete` status": none is missing   *)
(* from an open pull request marked complete.                              *)
CompleteMeansComplete ==
    row.status = "complete" /\ gh.open =>
        \A t \in Texts(gh.diff) : \E k \in DOMAIN migs : migs[k].text = t /\ migs[k].status = "complete"

(* A pull request put up for review gets through, unless it is closed or   *)
(* loses its statements, whatever attempts fail or die on the way and      *)
(* however often its diff changes before it is approved.                   *)
GetsThrough == gh.forReview ~> (row.status = "complete" \/ ~gh.open \/ Diffs[gh.diff] = <<>>)
=============================================================================
