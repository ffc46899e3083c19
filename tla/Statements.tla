----------------------------- MODULE Statements -----------------------------
(***************************************************************************)
(* From the text of a diff comment to the migrations of a pull request     *)
(* (go/core/parse.go, migration.go, utils.go and evaluateMigrations of     *)
(* go/app/logic.go).  All of it is pure: what it is given is a comment, a  *)
(* repository with the cluster and schema it is mapped to, and the shards  *)
(* of that cluster.                                                        *)
(*                                                                         *)
(* Names are sequences of characters because drops are renamed and cut; a  *)
(* statement is the verb it starts with, the name its regular expression   *)
(* finds in it, and its last word.                                         *)
(***************************************************************************)
EXTENDS Integers, Sequences

CONSTANTS
    Char,                   \* characters of names
    MaxTableNameLength,     \* of MySQL: 64
    Now,                    \* the time of the evaluation, in dropTableTimeFormat
    NotFound,               \* a regular expression that does not match
    NoName                  \* the comment has no such line

DRP == <<"D", "R", "P">>
Under == <<"underscore">>

(* With fewer characters there is no room for the suffix, and the slice of *)
(* the base name would have a negative bound.                              *)
ASSUME StatementsAssumption ==
    /\ {"underscore", "D", "R", "P"} \subseteq Char
    /\ MaxTableNameLength \in Nat /\ MaxTableNameLength >= Len(Under \o DRP)
    /\ Now \in Seq(Char)
    /\ NotFound \notin Seq(Char)

Names == Seq(Char)
Verbs == {"CREATE TABLE", "DROP TABLE", "RENAME TABLE", "ALTER TABLE", "ALTER DATABASE", "other"}
Statement == [verb : Verbs, object : Names \cup {NotFound}, ending : Names]
Strategies == {"manual", "direct", "gh-ost"}

HasSuffix(s, suffix) ==
    /\ Len(s) >= Len(suffix)
    /\ SubSeq(s, Len(s) - Len(suffix) + 1, Len(s)) = suffix

-----------------------------------------------------------------------------
(* The comment: a sequence of lines, each of one kind, with a value.       *)

IndicesOf(body, kind) == {i \in DOMAIN body : body[i].kind = kind}
First(I) == CHOOSE i \in I : \A j \in I : i <= j
Last(I) == CHOOSE i \in I : \A j \in I : j <= i

(* What follows the last marker.                                           *)
Clause(body) ==
    LET magic == IndicesOf(body, "magic")
        diff  == IndicesOf(body, "diff")
    IN  IF magic # {} THEN SubSeq(body, Last(magic) + 1, Len(body))
        ELSE IF diff # {} THEN SubSeq(body, Last(diff) + 1, Len(body))
        ELSE <<>>

FirstValue(clause, kind) ==
    LET I == IndicesOf(clause, kind) IN IF I = {} THEN NoName ELSE clause[First(I)].value

ParseSkeemaDiffStatements(body) ==
    LET clause == Clause(body)
        ddl == SelectSeq(clause, LAMBDA line : line.kind = "ddl")
    IN  [FileName   |-> FirstValue(clause, "file"),
         SchemaName |-> FirstValue(clause, "use"),
         Statements |-> [i \in DOMAIN ddl |-> ddl[i].value]]

-----------------------------------------------------------------------------
(* One statement *)

(* Fault: the RENAME a drop is turned into is not recognized as a drop.    *)
MigrationTypeByVerb(s) ==
    CASE s.verb = "CREATE TABLE" -> "CreateTable"
      [] s.verb = "DROP TABLE" -> "DropTable"
      [] s.verb = "ALTER TABLE" -> "AlterTable"
      [] s.verb = "ALTER DATABASE" -> "AlterDatabase"
      [] OTHER -> "Unsupported"

GetMigrationType(s) ==
    CASE s.verb = "CREATE TABLE" -> "CreateTable"
      [] s.verb = "DROP TABLE" -> "DropTable"
      [] s.verb = "RENAME TABLE" /\ HasSuffix(s.ending, Under \o DRP) -> "DropTable"
      [] s.verb = "ALTER TABLE" -> "AlterTable"
      [] s.verb = "ALTER DATABASE" -> "AlterDatabase"
      [] OTHER -> "Unsupported"

(* Fault: automatic whatever the repository allows.                        *)
EvaluateAnyway(s, allowAuto) ==
    CASE GetMigrationType(s) \in {"CreateTable", "DropTable"} -> "direct"
      [] GetMigrationType(s) = "AlterTable" -> "gh-ost"
      [] OTHER -> "manual"

EvaluateStrategy(s, allowAuto) ==
    CASE allowAuto /\ GetMigrationType(s) \in {"CreateTable", "DropTable"} -> "direct"
      [] allowAuto /\ GetMigrationType(s) = "AlterTable" -> "gh-ost"
      [] OTHER -> "manual"

GetSafeTableNameWithSuffix(baseName, suffix) ==
    LET name == baseName \o Under \o suffix
        extraCharacters == Len(name) - MaxTableNameLength
    IN  IF Len(name) <= MaxTableNameLength THEN name
        ELSE SubSeq(baseName, 1, Len(baseName) - extraCharacters) \o Under \o suffix

(* The dissect functions find a name; that of a drop only in a DROP TABLE, *)
(* although a RENAME TABLE that ends in _DRP is a drop as well.            *)
Dissectable(s) == s.object # NotFound /\ s.verb # "RENAME TABLE"

(* Migration.Evaluate returns no error.                                    *)
Evaluates(s, schema) ==
    /\ GetMigrationType(s) # "Unsupported"
    /\ Dissectable(s)
    /\ GetMigrationType(s) = "AlterDatabase" => s.object = schema

TableName(s) == IF GetMigrationType(s) = "AlterDatabase" THEN <<>> ELSE s.object

DropAside(table) ==
    [verb |-> "RENAME TABLE", object |-> table,
     ending |-> GetSafeTableNameWithSuffix(Under \o Now \o Under \o table, DRP)]

(* The statement as Evaluate leaves it in the migration, to be executed.   *)
Rewritten(s) == IF GetMigrationType(s) = "DropTable" THEN DropAside(s.object) ELSE s

-----------------------------------------------------------------------------
(* The migrations of a pull request *)

requiresPerShardMigrationMap == {"DropTable", "AlterTable"}

(* Fault: one migration per statement, on the cluster.                     *)
OnTheCluster(s, shards) == {""}

MigrationShards(s, shards) ==
    IF GetMigrationType(s) \in requiresPerShardMigrationMap THEN shards ELSE {""}

(* NewMigration and Evaluate, of the n-th statement s on one shard.        *)
NewMigration(n, s, shard, repo) ==
    [statement_id |-> n, shard |-> shard, cluster |-> repo.cluster, schema |-> repo.schema,
     repo_cluster |-> repo.cluster, table |-> TableName(s), statement |-> Rewritten(s),
     strategy |-> EvaluateStrategy(s, repo.autorun)]

(* Whether evaluateMigrations returns no error: one statement that cannot  *)
(* be evaluated and there are no migrations at all.                        *)
AllEvaluate(statements, schema) ==
    \A n \in DOMAIN statements : Evaluates(statements[n], schema)

EvaluateMigrations(repo, shards, statements) ==
    UNION {{NewMigration(n, statements[n], shard, repo) :
                shard \in MigrationShards(statements[n], shards)} : n \in DOMAIN statements}

(* The name of the topology a migration runs on, as `cluster-shard`.       *)
EvalClusterName(m) == IF m.shard = "" THEN <<m.cluster>> ELSE <<m.repo_cluster, m.shard>>

(* A migration as readMigrations finds it in the table: there is no column *)
(* for the cluster the repository was mapped to.                           *)
ReadBack(m) == [m EXCEPT !.repo_cluster = ""]
=============================================================================
