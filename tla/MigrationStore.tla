--------------------------- MODULE MigrationStore ---------------------------
(***************************************************************************)
(* The skeefree backend tables `migrations` and `pull_requests` and the    *)
(* SQL statements of go/db/backend.go that read and write them.  One       *)
(* statement (or one transaction) is atomic, so each is an operator from a *)
(* table to a table; the programs that issue them one after the other, and *)
(* interleave in between, are the modules that extend this one.            *)
(*                                                                         *)
(* Timestamps are kept as what the code asks of them: `stale` is "liveness *)
(* older than staleMigrationMinutes", `waited` is "ready for 300 seconds". *)
(***************************************************************************)
EXTENDS Integers, FiniteSets

CONSTANTS
    Migrations,     \* row ids of `migrations`, live or not yet inserted
    PRs,            \* pull requests
    PROf,           \* pull_requests_id of a migration
    PRId,           \* pull_requests.id, the second sort key of every reading
    TopologyOf,     \* the (mysql_cluster, mysql_shard) pair of a migration
    AutoStrategy,   \* core.EvaluateStrategy(statement, autoRun = true)
    Tokens,         \* host names and the direct applier's unique tokens
    Sites,          \* data-center sites, the values of token_hint
    Priorities,     \* values of pull_requests.priority
    NoToken,        \* the empty string in `token`
    NoSite          \* the empty string in `token_hint`

Statuses == {"proposed", "queued", "ready", "running", "complete", "failed",
             "cancelled"}
Strategies == {"manual", "direct", "gh-ost"}

(* "none": no row has had this id yet; "deleted": its row was deleted.     *)
NoRowStatuses == {"none", "deleted"}

ASSUME StoreAssumption ==
    /\ PROf \in [Migrations -> PRs]
    /\ PRId \in [PRs -> Int]
    /\ AutoStrategy \in [Migrations -> Strategies]
    /\ NoToken \notin Tokens
    /\ NoSite \notin Sites
    /\ Priorities \subseteq Int

VARIABLES
    mig,    \* the table `migrations`, with status "none" for an id with no row
    pr,     \* the table `pull_requests`
    applied \* not skeefree's: the migrations whose schema change has been
            \* made on the MySQL topology they are for

Row == [status   : Statuses \cup NoRowStatuses,
        strategy : Strategies,
        token    : Tokens \cup {NoToken},
        hint     : Sites \cup {NoSite},
        waited   : BOOLEAN,
        stale    : BOOLEAN]

(* The columns of `pull_requests` the queue of migrations depends on.      *)
PRRow == [known : BOOLEAN, open : BOOLEAN, priority : Priorities]

StoreTypeOK == mig \in [Migrations -> Row] /\ pr \in [PRs -> PRRow]
               /\ applied \subseteq Migrations

-----------------------------------------------------------------------------
(* Reads *)

MigrationsOf(p) == {m \in Migrations : PROf[m] = p}

Exists(m) == mig[m].status \notin NoRowStatuses

(* readMigrations: the inner join drops rows of forgotten pull requests.   *)
Readable == {m \in Migrations : /\ Exists(m) /\ mig[m].status # "cancelled"
                                /\ pr[PROf[m]].known}

OpenMigrations == {m \in Readable : pr[PROf[m]].open}

(* order by pull_requests.priority desc, pull_requests.id asc: rows of one *)
(* pull request come in no particular order.                               *)
Before(m, n) == \/ pr[PROf[m]].priority > pr[PROf[n]].priority
                \/ /\ pr[PROf[m]].priority = pr[PROf[n]].priority
                   /\ PRId[PROf[m]] < PRId[PROf[n]]

(* The rows the code may find first in the result set S.                   *)
FirstOf(S) == {m \in S : \A n \in S : ~Before(n, m)}

ByToken(t) == {m \in Readable : mig[m].token = t}

GhostReady(site) == {m \in Readable :
    /\ mig[m].token = NoToken
    /\ mig[m].strategy = "gh-ost"
    /\ mig[m].status = "ready"
    /\ mig[m].hint = site \/ mig[m].waited}

-----------------------------------------------------------------------------
(* Writes: each is the table `migrations` after the statement.             *)

Matches(m, from, strategy) ==
    mig[m].status = from /\ mig[m].strategy = strategy

(* The columns an update to status `to` sets.                              *)
WithStatus(row, to) ==
    [row EXCEPT !.status = to,
                !.waited = IF to = "ready" THEN FALSE ELSE @,
                !.stale  = IF to \in {"running", "complete"} THEN FALSE ELSE @,
                !.token  = IF to \in {"complete", "failed"} THEN NoToken ELSE @]

UpdateMigrationStatus(m, from, to, strategy) ==
    IF Matches(m, from, strategy)
    THEN [mig EXCEPT ![m] = WithStatus(mig[m], to)] ELSE mig

(* Unlike UpdateMigrationStatus this leaves ready_timestamp alone.         *)
UpdatePRMigrationsStatus(p, from, to, strategy) ==
    [m \in Migrations |->
        IF PROf[m] = p /\ Matches(m, from, strategy)
        THEN [mig[m] EXCEPT !.status = to] ELSE mig[m]]

UpdateMigrationTokenHint(m, site) ==
    IF Exists(m) THEN [mig EXCEPT ![m].hint = site] ELSE mig

UpdateMigrationStrategy(m, from, to) ==
    IF Exists(m) /\ mig[m].strategy = from
    THEN [mig EXCEPT ![m].strategy = to] ELSE mig

Assigned(m, t) == [mig[m] EXCEPT !.token = t, !.stale = FALSE]

(* Fault: the row is assigned whoever has it.                              *)
OwnMigrationFromAnyone(m, t) ==
    IF Exists(m) THEN [mig EXCEPT ![m] = Assigned(m, t)] ELSE mig

(* The statement asks for the row's id and an empty token, nothing else.   *)
OwnMigration(m, t) ==
    IF Exists(m) /\ mig[m].token = NoToken
    THEN [mig EXCEPT ![m] = Assigned(m, t)] ELSE mig

(* Fault: token='' left out of the condition.                              *)
OwnableReadyFromAnyone(strategy) == {m \in Migrations : Matches(m, "ready", strategy)}

(* Fault: status='ready' left out of the condition.                        *)
OwnableWhatever(strategy) ==
    {m \in Migrations : mig[m].token = NoToken /\ mig[m].strategy = strategy}

(* update ... limit 1: which of the matching rows is not specified.        *)
OwnableReady(strategy) ==
    {m \in Migrations : mig[m].token = NoToken /\ Matches(m, "ready", strategy)}

(* Fault: the token is cleared and the status is not.                      *)
ExpireTokenOnly(in, to) ==
    [m \in Migrations |->
        IF mig[m].token # NoToken /\ mig[m].status = in /\ mig[m].stale
        THEN [mig[m] EXCEPT !.token = NoToken] ELSE mig[m]]

ExpireStaleMigrations(in, to) ==
    [m \in Migrations |->
        IF mig[m].token # NoToken /\ mig[m].status = in /\ mig[m].stale
        THEN [mig[m] EXCEPT !.token = NoToken, !.status = to] ELSE mig[m]]

QueuePRMigrations(p) ==
    [m \in Migrations |->
        IF PROf[m] = p /\ mig[m].status = "proposed"
        THEN [mig[m] EXCEPT !.status = "queued"] ELSE mig[m]]

(* Fault: every migration of the pull request is cancelled.                *)
CancelWhatever(p) ==
    [m \in Migrations |->
        IF PROf[m] = p /\ Exists(m)
        THEN [mig[m] EXCEPT !.status = "cancelled"] ELSE mig[m]]

(* Fault: a status the program does not know.                              *)
CancelMisspelt(p) ==
    [m \in Migrations |->
        IF PROf[m] = p /\ mig[m].status \in {"proposed", "queued"}
        THEN [mig[m] EXCEPT !.status = "canceled"] ELSE mig[m]]

(* ForgetPRStatementsAndMigrations *)
CancelPRMigrations(p) ==
    [m \in Migrations |->
        IF PROf[m] = p /\ mig[m].status \in {"proposed", "queued"}
        THEN [mig[m] EXCEPT !.status = "cancelled"] ELSE mig[m]]

(* The statuses with which ForgetPR refuses.                               *)
Unforgettable == {"ready", "running", "complete"}

DeletePRMigrations(p) ==
    [m \in Migrations |->
        IF PROf[m] = p /\ Exists(m)
        THEN [mig[m] EXCEPT !.status = "deleted", !.token = NoToken] ELSE mig[m]]

(* core.NewMigration and one insert of SubmitMigrations.                   *)
NewRow(strategy) == [status |-> "proposed", strategy |-> strategy, token |-> NoToken,
                     hint |-> NoSite, waited |-> FALSE, stale |-> FALSE]

InsertMigration(m, strategy) == [mig EXCEPT ![m] = NewRow(strategy)]
=============================================================================
