----------------------------- MODULE Catalogue ------------------------------
(***************************************************************************)
(* The repositories skeefree knows, where they are mapped to, and the      *)
(* evaluations that rely on both: the tables repositories and              *)
(* repo_production_mapping, the chatops that write them (go/app/chatops.go)*)
(* and evaluatePRMigration (go/app/logic.go).                              *)
(*                                                                         *)
(* Operators type commands while leaders evaluate pull requests.  A        *)
(* command that changes a registration reads the row and then writes, with *)
(* the copy it has; an evaluation reads the registration and, in another   *)
(* statement, its mappings.  How several evaluations of one pull request   *)
(* get into each other's way is the module PullRequests; here each has one *)
(* at a time, which may stop anywhere.                                     *)
(***************************************************************************)
EXTENDS Statements

CONSTANTS
    Repos, Owners,
    Operators,          \* commands in progress at once
    PRs, RepoOf,        \* pull requests, and the repository of each
    Comments,           \* diff comments they may have
    HintOrder,          \* the hints of mappings as the database orders them
    Clusters, Schemas,
    ShardsOf,           \* per cluster: the shards of its instances
    MaxRegistrations,   \* bound on the registrations there ever are
    CanOverlap,         \* whether a registration may be written by another
                        \* while a command has a copy of it to write back
    NoRepo, NotRegistered, Unmapped

Targets == [cluster : Clusters, schema : Schemas]
Hints == {HintOrder[i] : i \in DOMAIN HintOrder}
Shards == {""} \cup UNION {ShardsOf[c] : c \in Clusters}
Registration == [id : Nat \ {0}, owner : Owners, autorun : BOOLEAN]
Migration == [statement_id : Nat \ {0}, shard : Shards, cluster : Clusters, schema : Schemas,
              repo_cluster : Clusters \cup {""}, table : Names, statement : Statement,
              strategy : Strategies]

ASSUME CatalogueAssumption ==
    /\ RepoOf \in [PRs -> Repos]
    /\ HintOrder \in Seq(Hints) /\ NoName \notin Hints
    /\ Schemas \subseteq Names
    /\ \A c \in Comments : ParseSkeemaDiffStatements(c).Statements \in Seq(Statement)
    /\ \A c \in Clusters : ShardsOf[c] # {}     \* ValidateMySQLCluster
    /\ MaxRegistrations \in Nat /\ CanOverlap \in BOOLEAN
    /\ Unmapped \notin Targets /\ NoRepo \notin Repos /\ NotRegistered \notin Registration

VARIABLES
    registered,     \* repositories: per repository its row, or NotRegistered
    lastId,         \* its AUTO_INCREMENT
    mapped,         \* repo_production_mapping: per repository and hint
    command,        \* per operator: the command in progress and its copy
    evaluation,     \* per pull request: its evaluation in progress
    proposed,       \* per pull request: its proposed migrations
    detected,       \* the pull requests labelled as detected
    ordered,        \* history: per repository, the autorun last asked for
    based,          \* history: per pull request, the evaluation proposed is from
    approved        \* history: per pull request, the migrations approved by hand

catalogue == <<registered, lastId, mapped>>
evaluations == <<evaluation, proposed, detected, based, approved>>
vars == <<catalogue, command, evaluations, ordered>>

NoCommand == [pc |-> "idle", repo |-> NoRepo, copy |-> NotRegistered]
NoEvaluation == [pc |-> "idle", autorun |-> FALSE, ordered |-> FALSE,
                 comment |-> <<>>, target |-> Unmapped]
Evaluation == [pc : {"idle", "read", "resolved", "withdrawn"}, autorun : BOOLEAN,
               ordered : BOOLEAN, comment : Comments \cup {<<>>}, target : Targets \cup {Unmapped}]

Diff(e) == ParseSkeemaDiffStatements(e.comment)

(* What evaluateMigrations returns for an evaluation.                      *)
Evaluated(e) == EvaluateMigrations(
    [cluster |-> e.target.cluster, schema |-> e.target.schema, autorun |-> e.autorun],
    ShardsOf[e.target.cluster], Diff(e).Statements)

Key(m) == <<m.statement_id, m.shard>>

TypeOK ==
    /\ registered \in [Repos -> Registration \cup {NotRegistered}]
    /\ lastId \in Nat
    /\ mapped \in [Repos -> [Hints -> Targets \cup {Unmapped}]]
    /\ command \in [Operators -> [pc : {"idle", "update", "autorun", "remove"},
                                  repo : Repos \cup {NoRepo},
                                  copy : Registration \cup {NotRegistered}]]
    /\ \A o \in Operators : command[o].pc # "idle" =>
            command[o].repo \in Repos /\ command[o].copy \in Registration
    /\ evaluation \in [PRs -> Evaluation] /\ based \in [PRs -> Evaluation]
    /\ \A p \in PRs : evaluation[p].pc \in {"resolved", "withdrawn"} =>
            evaluation[p].target \in Targets
    /\ \A p \in PRs : evaluation[p].pc # "idle" => evaluation[p].comment \in Comments
    /\ proposed \in [PRs -> SUBSET Migration]
    /\ approved \in [PRs -> SUBSET ((Nat \ {0}) \X Shards)]
    /\ detected \subseteq PRs
    /\ ordered \in [Repos -> BOOLEAN]

Init ==
    /\ registered = [r \in Repos |-> NotRegistered]
    /\ lastId = 0
    /\ mapped = [r \in Repos |-> [h \in Hints |-> Unmapped]]
    /\ command = [o \in Operators |-> NoCommand]
    /\ evaluation = [p \in PRs |-> NoEvaluation]
    /\ proposed = [p \in PRs |-> {}]
    /\ detected = {}
    /\ ordered = [r \in Repos |-> FALSE]
    /\ based = [p \in PRs |-> NoEvaluation]
    /\ approved = [p \in PRs |-> {}]

-----------------------------------------------------------------------------
(* Chatops on repositories *)

HasCopy(r) == \E o \in Operators :
    command[o].repo = r /\ command[o].pc \in {"update", "autorun"}

MayWrite(r) == CanOverlap \/ ~HasCopy(r)

(* add-repo: insert ignore, without autorun.                               *)
AddRepo(r, owner) ==
    /\ registered[r] = NotRegistered
    /\ lastId < MaxRegistrations
    /\ MayWrite(r)
    /\ lastId' = lastId + 1
    /\ registered' = [registered EXCEPT ![r] = [id |-> lastId + 1, owner |-> owner, autorun |-> FALSE]]
    /\ ordered' = [ordered EXCEPT ![r] = FALSE]
    /\ UNCHANGED <<mapped, command, evaluations>>

(* readRepository of the three that write afterwards.                      *)
ReadRegistration(o, r, pc) ==
    /\ command[o].pc = "idle"
    /\ registered[r] # NotRegistered
    /\ pc \in {"update", "autorun"} => MayWrite(r)
    /\ command' = [command EXCEPT ![o] = [pc |-> pc, repo |-> r, copy |-> registered[r]]]
    /\ UNCHANGED <<catalogue, evaluations, ordered>>

Done(o) == command' = [command EXCEPT ![o] = NoCommand]

(* UpdateRepository finds the row by name, whatever its id.                *)
UpdateRepository(r, owner, autorun) ==
    registered' = IF registered[r] = NotRegistered THEN registered
                  ELSE [registered EXCEPT ![r].owner = owner, ![r].autorun = autorun]

(* update-repo: the team it is given is not part of what it writes.        *)
UpdateRepo(o) ==
    /\ command[o].pc = "update"
    /\ UpdateRepository(command[o].repo, command[o].copy.owner, command[o].copy.autorun)
    /\ Done(o)
    /\ UNCHANGED <<lastId, mapped, evaluations, ordered>>

RepoAutorun(o, enable) ==
    /\ command[o].pc = "autorun"
    /\ UpdateRepository(command[o].repo, command[o].copy.owner, enable)
    /\ ordered' = [ordered EXCEPT ![command[o].repo] = enable]
    /\ Done(o)
    /\ UNCHANGED <<lastId, mapped, evaluations>>

(* Fault: the row is found by org and repo alone.                          *)
DeleteByName(copy, r) == registered[r] # NotRegistered

(* The where clause of DeleteRepository.                                   *)
Deletes(copy, r) == registered[r] # NotRegistered /\ registered[r].id = copy.id

(* remove-repo; the mappings stay.                                         *)
RemoveRepo(o) ==
    LET r == command[o].repo IN
    /\ command[o].pc = "remove"
    /\ MayWrite(r)
    /\ registered' = IF Deletes(command[o].copy, r)
                     THEN [registered EXCEPT ![r] = NotRegistered] ELSE registered
    /\ Done(o)
    /\ UNCHANGED <<lastId, mapped, evaluations, ordered>>

(* The backend is gone, or the service.                                    *)
CommandFails(o) ==
    /\ command[o].pc # "idle"
    /\ Done(o)
    /\ UNCHANGED <<catalogue, evaluations, ordered>>

(* repo-map and repo-unmap read the row only to refuse an unknown          *)
(* repository.  As mappings survive the registration, one removed before   *)
(* they write is as good as one removed after.                             *)
RepoMap(r, hint, target) ==
    /\ registered[r] # NotRegistered
    /\ mapped' = [mapped EXCEPT ![r][hint] = target]
    /\ UNCHANGED <<registered, lastId, command, evaluations, ordered>>

RepoUnmap(r, hint) ==
    /\ registered[r] # NotRegistered
    /\ mapped' = [mapped EXCEPT ![r][hint] = Unmapped]
    /\ UNCHANGED <<registered, lastId, command, evaluations, ordered>>

-----------------------------------------------------------------------------
(* The evaluation of a pull request *)

(* The mappings are gone through in their order, and the last one whose    *)
(* hint the comment names stays.                                           *)
ResolveMapping(mappings, info) ==
    LET matching == {i \in DOMAIN HintOrder :
                        /\ mappings[HintOrder[i]] # Unmapped
                        /\ HintOrder[i] \in {info.FileName, info.SchemaName}}
    IN  IF matching = {} THEN Unmapped ELSE mappings[HintOrder[Last(matching)]]

(* analyzeDetectedPR evaluates what is not labelled; the comment is read   *)
(* before the repository.                                                  *)
ReadRepository(p, comment) ==
    /\ evaluation[p].pc = "idle"
    /\ p \notin detected
    /\ registered[RepoOf[p]] # NotRegistered
    /\ evaluation' = [evaluation EXCEPT ![p] =
          [pc |-> "read", autorun |-> registered[RepoOf[p]].autorun,
           ordered |-> ordered[RepoOf[p]], comment |-> comment, target |-> Unmapped]]
    /\ UNCHANGED <<catalogue, command, proposed, detected, based, approved, ordered>>

(* Fault: not refused without a mapping.                                   *)
ReadMappingsAnyway(p) ==
    /\ evaluation[p].pc = "read"
    /\ evaluation' = [evaluation EXCEPT ![p].pc = "resolved",
          ![p].target = ResolveMapping(mapped[RepoOf[p]], Diff(evaluation[p]))]
    /\ UNCHANGED <<catalogue, command, proposed, detected, based, approved, ordered>>

ReadMappings(p) ==
    LET target == ResolveMapping(mapped[RepoOf[p]], Diff(evaluation[p])) IN
    /\ evaluation[p].pc = "read"
    /\ target # Unmapped
    /\ Diff(evaluation[p]).Statements # <<>>
    /\ evaluation' = [evaluation EXCEPT ![p].pc = "resolved", ![p].target = target]
    /\ UNCHANGED <<catalogue, command, proposed, detected, based, approved, ordered>>

(* ForgetPRStatementsAndMigrations.                                        *)
Withdraw(p) ==
    /\ evaluation[p].pc = "resolved"
    /\ evaluation' = [evaluation EXCEPT ![p].pc = "withdrawn"]
    /\ proposed' = [proposed EXCEPT ![p] = {}]
    /\ approved' = [approved EXCEPT ![p] = {}]
    /\ UNCHANGED <<catalogue, command, detected, based, ordered>>

Evaluable(e) == AllEvaluate(Diff(e).Statements, e.target.schema)

(* evaluateMigrations, SubmitMigrations and the label.                     *)
Submit(p) ==
    /\ evaluation[p].pc = "withdrawn"
    /\ Evaluable(evaluation[p])
    /\ proposed' = [proposed EXCEPT ![p] = {ReadBack(m) : m \in Evaluated(evaluation[p])}]
    /\ based' = [based EXCEPT ![p] = evaluation[p]]
    /\ detected' = detected \cup {p}
    /\ evaluation' = [evaluation EXCEPT ![p] = NoEvaluation]
    /\ UNCHANGED <<catalogue, command, approved, ordered>>

(* A call to GitHub, the inventory or the backend fails, or the service    *)
(* dies: what has been inserted by then stays, and there is no label.      *)
SubmitStops(p) ==
    /\ evaluation[p].pc = "withdrawn"
    /\ Evaluable(evaluation[p])
    /\ \E part \in SUBSET Evaluated(evaluation[p]) :
         proposed' = [proposed EXCEPT ![p] = {ReadBack(m) : m \in part}]
    /\ based' = [based EXCEPT ![p] = evaluation[p]]
    /\ evaluation' = [evaluation EXCEPT ![p] = NoEvaluation]
    /\ UNCHANGED <<catalogue, command, detected, approved, ordered>>

(* Any of the errors evaluatePRMigration returns before it has inserted    *)
(* anything: nothing to resolve, no statements, one that cannot be         *)
(* evaluated, or a failure outside.                                        *)
EvaluationErrs(p) ==
    /\ evaluation[p].pc # "idle"
    /\ evaluation' = [evaluation EXCEPT ![p] = NoEvaluation]
    /\ UNCHANGED <<catalogue, command, proposed, detected, based, approved, ordered>>

(* A human takes the label off to have the pull request evaluated anew.    *)
Unlabel(p) ==
    /\ p \in detected
    /\ detected' = detected \ {p}
    /\ UNCHANGED <<catalogue, command, evaluation, proposed, based, approved, ordered>>

Approved(m) == [m EXCEPT !.strategy = EvaluateStrategy(m.statement, TRUE)]

(* approve-autorun takes the first of the pull request's migrations with   *)
(* that table, and the query has no order among them.                      *)
ApproveAutorun(p, m) ==
    /\ m \in proposed[p]
    /\ m.table # <<>>       \* the command's regexp asks for a name
    /\ m.strategy = "manual"
    /\ proposed' = [proposed EXCEPT ![p] = (@ \ {m}) \cup {Approved(m)}]
    /\ approved' = [approved EXCEPT ![p] = @ \cup {Key(m)}]
    /\ UNCHANGED <<catalogue, command, evaluation, detected, based, ordered>>

-----------------------------------------------------------------------------
Chatops ==
    \/ \E r \in Repos :
         \/ \E owner \in Owners : AddRepo(r, owner)
         \/ \E hint \in Hints : RepoUnmap(r, hint) \/ \E t \in Targets : RepoMap(r, hint, t)
         \/ \E o \in Operators, pc \in {"update", "autorun", "remove"} : ReadRegistration(o, r, pc)
    \/ \E o \in Operators :
         \/ UpdateRepo(o) \/ RemoveRepo(o) \/ CommandFails(o)
         \/ \E enable \in BOOLEAN : RepoAutorun(o, enable)
    \/ \E p \in PRs : \E m \in proposed[p] : ApproveAutorun(p, m)

Evaluating == \E p \in PRs :
    \/ \E comment \in Comments : ReadRepository(p, comment)
    \/ ReadMappings(p) \/ Withdraw(p) \/ Submit(p) \/ SubmitStops(p)
    \/ EvaluationErrs(p) \/ Unlabel(p)

Next == Chatops \/ Evaluating

Spec == Init /\ [][Next]_vars

-----------------------------------------------------------------------------
(* chatops.md on approve-autorun and repo-autorun: nothing is executed     *)
(* automatically that neither the repository's autorun, as the humans had  *)
(* last ordered it when the evaluation read it, nor an approval of that    *)
(* very migration allows.                                                  *)
AutomaticIsAllowed == \A p \in PRs : \A m \in proposed[p] :
    m.strategy # "manual" => based[p].ordered \/ Key(m) \in approved[p]

(* chatops.go:494: approve-autorun is to give a migration what autorun     *)
(* would have given it, from a statement that was rewritten meanwhile.     *)
ApprovalIsAutorun == \A p \in PRs : \A m \in proposed[p] :
    Key(m) \in approved[p] =>
        m.strategy = EvaluateStrategy(Diff(based[p]).Statements[m.statement_id], TRUE)

MigrationsOf(p, n) == {m \in proposed[p] : m.statement_id = n}

(* migrations.md: based on whether the cluster is sharded a statement has  *)
(* one or more migrations.  A pull request labelled as detected has, for   *)
(* each statement of its comment, exactly one for each shard of the        *)
(* cluster, or one for all of them.                                        *)
CoversEveryShard == \A p \in detected : \A n \in DOMAIN Diff(based[p]).Statements :
    /\ {m.shard : m \in MigrationsOf(p, n)} =
          IF Diff(based[p]).Statements[n].verb \in {"ALTER TABLE", "DROP TABLE"}
          THEN ShardsOf[based[p].target.cluster] ELSE {""}
    /\ \A m1, m2 \in MigrationsOf(p, n) : m1.shard = m2.shard => m1 = m2

(* chatops.go:252: remove-repo unlists the registration it has read; one   *)
(* that was added since is not the one the operator meant.                 *)
RemovesOnlyWhatItRead == [][\A r \in Repos :
    registered[r] # NotRegistered /\ registered'[r] = NotRegistered
        => \E o \in Operators : /\ command[o].pc = "remove" /\ command[o].repo = r
                                /\ command[o].copy.id = registered[r].id]_vars
=============================================================================
