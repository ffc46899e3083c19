-------------------------- MODULE CatalogueProofs ---------------------------
(***************************************************************************)
(* Theorems about Catalogue, for any repositories, operators, pull         *)
(* requests, comments and clusters.  What is proposed for a pull request   *)
(* is at any time exactly what its last evaluation and the approvals since *)
(* then make of its comment: that is the inductive invariant, and what     *)
(* reviewers rely on follows from it.  First comes what the pure part of   *)
(* an evaluation, Statements, guarantees for every name, every statement   *)
(* and every set of shards.                                                *)
(***************************************************************************)
EXTENDS Catalogue, SequenceTheorems, WellFoundedInduction, TLAPS

-----------------------------------------------------------------------------
(* Statements *)

LEMMA SuffixInNames == DRP \in Names /\ Under \in Names /\ Len(DRP) = 3 /\ Len(Under) = 1
<1>1. "underscore" \in Char /\ "D" \in Char /\ "R" \in Char /\ "P" \in Char
    BY Zenon, StatementsAssumption
<1>2. <<"D", "R", "P">> \in Seq(Char) /\ <<"underscore">> \in Seq(Char)
    BY <1>1
<1> QED BY <1>2 DEF DRP, Under, Names

LEMMA Concatenate ==
    ASSUME NEW s \in Names, NEW t \in Names
    PROVE  s \o t \in Names /\ Len(s \o t) = Len(s) + Len(t) /\ Len(s) \in Nat /\ Len(t) \in Nat
BY ConcatProperties, LenProperties DEF Names

LEMMA LengthsFit == MaxTableNameLength \in Nat /\ MaxTableNameLength >= 4 /\ Now \in Names
<1>1. Len(Under \o DRP) = Len(Under) + Len(DRP)
    BY Zenon, SuffixInNames, Concatenate
<1>2. /\ MaxTableNameLength \in Nat /\ MaxTableNameLength >= Len(Under \o DRP)
      /\ Now \in Names
    BY Zenon, StatementsAssumption DEF Names
<1> QED BY <1>1, <1>2, SuffixInNames

(* A concatenation ends with its second part.                              *)
LEMMA EndsWithLast ==
    ASSUME NEW s \in Names, NEW t \in Names
    PROVE  HasSuffix(s \o t, t)
<1>1. s \o t \in Names /\ Len(s \o t) = Len(s) + Len(t) /\ Len(s) \in Nat /\ Len(t) \in Nat
    BY Concatenate
<1>2. CASE t = <<>>
  <2>1. Len(t) = 0
      BY <1>2
  <2>2. SubSeq(s \o t, Len(s) + 1, Len(s)) = <<>>
      BY <1>1, SubSeqEmpty
  <2> QED BY <1>1, <1>2, <2>1, <2>2 DEF HasSuffix
<1>3. CASE t # <<>>
  <2>1. Len(t) >= 1
      BY <1>3, <1>1, EmptySeq DEF Names
  <2>2. SubSeq(s \o t, Len(s) + 1, Len(s) + Len(t)) = SubSeq(t, 1, Len(t))
      BY <1>1, <2>1, SubSeqOfConcat2 DEF Names
  <2>3. SubSeq(t, 1, Len(t)) = t
      BY SubSeqFull DEF Names
  <2> QED BY <1>1, <2>2, <2>3 DEF HasSuffix
<1> QED BY <1>2, <1>3

(* A name, an underscore and a suffix.                                     *)
LEMMA Suffixed ==
    ASSUME NEW base \in Names, NEW suffix \in Names
    PROVE  /\ base \o Under \o suffix = base \o (Under \o suffix)
           /\ base \o Under \o suffix \in Names
           /\ Len(base \o Under \o suffix) = Len(base) + 1 + Len(suffix)
           /\ Len(base) \in Nat /\ Len(suffix) \in Nat
           /\ HasSuffix(base \o Under \o suffix, Under \o suffix)
<1>1. Under \in Names /\ Len(Under) = 1
    BY SuffixInNames
<1>2. Under \o suffix \in Names /\ Len(Under \o suffix) = Len(Under) + Len(suffix)
    BY Zenon, <1>1, Concatenate
<1>3. /\ base \o (Under \o suffix) \in Names
      /\ Len(base \o (Under \o suffix)) = Len(base) + Len(Under \o suffix)
    BY Zenon, <1>2, Concatenate
<1>4. base \o Under \o suffix = base \o (Under \o suffix)
    BY <1>1, ConcatAssociative DEF Names
<1>5. Len(base) \in Nat /\ Len(suffix) \in Nat
    BY Zenon, Concatenate
<1>6. HasSuffix(base \o (Under \o suffix), Under \o suffix)
    BY Zenon, <1>2, EndsWithLast
<1>7. Len(base \o (Under \o suffix)) = Len(base) + 1 + Len(suffix)
    BY <1>1, <1>2, <1>3, <1>5
<1>8. base \o Under \o suffix \in Names
      /\ Len(base \o Under \o suffix) = Len(base) + 1 + Len(suffix)
      /\ HasSuffix(base \o Under \o suffix, Under \o suffix)
    BY Zenon, <1>3, <1>4, <1>6, <1>7
<1> QED BY Zenon, <1>4, <1>5, <1>8

(* The name is cut where the suffix still fits (parse.go:118).             *)
LEMMA WhereItIsCut ==
    ASSUME NEW base \in Names, NEW suffix \in Names, Len(suffix) < MaxTableNameLength,
           Len(base) > MaxTableNameLength - Len(suffix) - 1,
           NEW kept, kept = MaxTableNameLength - Len(suffix) - 1
    PROVE  /\ SubSeq(base, 1, kept) \in Names /\ Len(SubSeq(base, 1, kept)) = kept
           /\ GetSafeTableNameWithSuffix(base, suffix) = SubSeq(base, 1, kept) \o Under \o suffix
<1>1. Len(base) \in Nat /\ Len(suffix) \in Nat /\ kept \in Nat /\ MaxTableNameLength \in Nat
    BY Concatenate, LengthsFit
<1>2. \A i \in 1..kept : base[i] \in Char
    BY <1>1, ElementOfSeq DEF Names
<1>3. SubSeq(base, 1, kept) \in Names /\ Len(SubSeq(base, 1, kept)) = kept
    BY <1>1, <1>2, SubSeqProperties DEF Names
<1> DEFINE name == base \o Under \o suffix
<1>4. Len(name) = Len(base) + 1 + Len(suffix)
    BY Zenon, Suffixed
<1>5. GetSafeTableNameWithSuffix(base, suffix) =
          IF Len(name) <= MaxTableNameLength THEN name
          ELSE SubSeq(base, 1, Len(base) - (Len(name) - MaxTableNameLength)) \o Under \o suffix
    BY Zenon DEF GetSafeTableNameWithSuffix
<1> HIDE DEF name
<1>6. Len(base) - (Len(name) - MaxTableNameLength) = kept /\ ~(Len(name) <= MaxTableNameLength)
    BY <1>1, <1>4
<1>7. GetSafeTableNameWithSuffix(base, suffix) = SubSeq(base, 1, kept) \o Under \o suffix
    BY Zenon, <1>5, <1>6
<1> QED BY Zenon, <1>3, <1>7

(* GetSafeTableNameWithSuffix: MySQL accepts the name, and it ends in a    *)
(* way that GetMigrationType recognizes.                                   *)
THEOREM SafeNameFits ==
    ASSUME NEW base \in Names, NEW suffix \in Names, Len(suffix) < MaxTableNameLength
    PROVE  /\ GetSafeTableNameWithSuffix(base, suffix) \in Names
           /\ Len(GetSafeTableNameWithSuffix(base, suffix)) <= MaxTableNameLength
           /\ HasSuffix(GetSafeTableNameWithSuffix(base, suffix), Under \o suffix)
<1> DEFINE name == base \o Under \o suffix
           kept == MaxTableNameLength - Len(suffix) - 1
<1>1. Len(base) \in Nat /\ Len(suffix) \in Nat /\ MaxTableNameLength \in Nat
    BY Concatenate, LengthsFit
<1>2. /\ name \in Names /\ Len(name) = Len(base) + 1 + Len(suffix)
      /\ HasSuffix(name, Under \o suffix)
    BY Zenon, Suffixed
<1>3. CASE Len(name) <= MaxTableNameLength
  <2>1. GetSafeTableNameWithSuffix(base, suffix) = name
      BY Zenon, <1>3 DEF GetSafeTableNameWithSuffix
  <2> QED BY Zenon, <1>2, <1>3, <2>1
<1>4. CASE ~(Len(name) <= MaxTableNameLength)
  <2> DEFINE cut == SubSeq(base, 1, kept)
  <2>1. Len(base) > kept
    <3> HIDE DEF name
    <3> QED BY <1>1, <1>2, <1>4
  <2>2. /\ cut \in Names /\ Len(cut) = kept
        /\ GetSafeTableNameWithSuffix(base, suffix) = cut \o Under \o suffix
      BY Zenon, <2>1, WhereItIsCut
  <2> HIDE DEF cut
  <2>3. /\ cut \o Under \o suffix \in Names
        /\ Len(cut \o Under \o suffix) = Len(cut) + 1 + Len(suffix)
        /\ HasSuffix(cut \o Under \o suffix, Under \o suffix)
      BY Zenon, <2>2, Suffixed
  <2>4. Len(cut) + 1 + Len(suffix) = MaxTableNameLength
      BY <1>1, <2>2
  <2>5. MaxTableNameLength <= MaxTableNameLength
      BY <1>1
  <2> QED BY Zenon, <2>2, <2>3, <2>4, <2>5
<1> QED BY Zenon, <1>3, <1>4

(* Two names that are cut stay different exactly as far as they differ     *)
(* before the cut: two drops of one second collide when their tables agree *)
(* in all of the characters that are kept.                                 *)
THEOREM SafeNamesCollide ==
    ASSUME NEW a \in Names, NEW b \in Names, NEW suffix \in Names,
           Len(suffix) < MaxTableNameLength,
           Len(a) > MaxTableNameLength - Len(suffix) - 1,
           Len(b) > MaxTableNameLength - Len(suffix) - 1
    PROVE  LET kept == MaxTableNameLength - Len(suffix) - 1
           IN  GetSafeTableNameWithSuffix(a, suffix) = GetSafeTableNameWithSuffix(b, suffix)
                   <=> SubSeq(a, 1, kept) = SubSeq(b, 1, kept)
<1> DEFINE kept == MaxTableNameLength - Len(suffix) - 1
           cutA == SubSeq(a, 1, kept)
           cutB == SubSeq(b, 1, kept)
<1>1. /\ cutA \in Names /\ GetSafeTableNameWithSuffix(a, suffix) = cutA \o Under \o suffix
      /\ cutB \in Names /\ GetSafeTableNameWithSuffix(b, suffix) = cutB \o Under \o suffix
    BY WhereItIsCut
<1>2. cutA \o Under \in Names /\ cutB \o Under \in Names /\ Under \in Names
    BY <1>1, SuffixInNames, ConcatProperties DEF Names
<1>3. cutA \o Under \o suffix = cutB \o Under \o suffix => cutA \o Under = cutB \o Under
    BY <1>2, ConcatSimplifications DEF Names
<1>4. cutA \o Under = cutB \o Under => cutA = cutB
    BY <1>1, <1>2, ConcatSimplifications DEF Names
<1> QED BY <1>1, <1>3, <1>4

-----------------------------------------------------------------------------
(* The last of some indices exists: the least distance from the end does.  *)
LEMMA LastIsIn ==
    ASSUME NEW n \in Nat, NEW I \in SUBSET (1..n), I # {}
    PROVE  Last(I) \in I
<1> DEFINE Closer == OpToRel(<, Nat)
           Distances == {n - i : i \in I}
<1>1. \A i \in I : i \in Int /\ n - i \in Nat
    OBVIOUS
<1>2. Distances \subseteq Nat
    BY <1>1
<1>3. Distances # {}
    OBVIOUS
<1>4. IsWellFoundedOn(Closer, Nat)
    BY NatLessThanWellFounded
<1>5. \A x, y \in Nat : x < y => <<x, y>> \in Closer
    BY DEF OpToRel
<1> HIDE DEF Closer
<1>6. PICK d \in Distances : \A e \in Distances : <<e, d>> \notin Closer
    BY <1>2, <1>3, <1>4, WFMin
<1>7. PICK i \in I : d = n - i
    BY <1>6
<1>8. \A j \in I : j <= i
  <2> TAKE j \in I
  <2>1. n - j \in Distances /\ n - j \in Nat /\ d \in Nat
      BY <1>1, <1>2, <1>6
  <2>2. ~(n - j < d)
      BY <1>5, <1>6, <2>1
  <2> QED BY <1>1, <1>7, <2>2
<1> QED BY <1>8 DEF Last

LEMMA DroppedAside ==
    ASSUME NEW table \in Names
    PROVE  DropAside(table) \in Statement /\ GetMigrationType(DropAside(table)) = "DropTable"
<1> DEFINE base == Under \o Now \o Under \o table
<1>1. Under \in Names /\ Now \in Names /\ DRP \in Names /\ Len(DRP) = 3
    BY SuffixInNames, LengthsFit DEF Names
<1>2. Under \o Now \in Names
    BY <1>1, ConcatProperties DEF Names
<1>3. Under \o Now \o Under \in Names
    BY <1>1, <1>2, ConcatProperties DEF Names
<1>4. base \in Names
    BY <1>3, ConcatProperties DEF Names
<1>5. Len(DRP) < MaxTableNameLength
  <2>1. Len(Under \o DRP) = 4
      BY DEF Under, DRP
  <2> QED BY <1>1, <2>1, LengthsFit
<1>6. /\ GetSafeTableNameWithSuffix(base, DRP) \in Names
      /\ HasSuffix(GetSafeTableNameWithSuffix(base, DRP), Under \o DRP)
    BY <1>1, <1>4, <1>5, SafeNameFits
<1> QED BY <1>6 DEF DropAside, Statement, Verbs, GetMigrationType

(* A statement that is rewritten is still what it was for the strategy:    *)
(* what approve-autorun computes from the table is what autorun would have *)
(* computed from the comment.                                              *)
THEOREM RewrittenKeepsStrategy ==
    ASSUME NEW s \in Statement, NEW schema, Evaluates(s, schema), NEW auto \in BOOLEAN
    PROVE  EvaluateStrategy(Rewritten(s), auto) = EvaluateStrategy(s, auto)
<1>1. CASE GetMigrationType(s) = "DropTable"
  <2>1. s.object \in Names
      BY DEF Evaluates, Dissectable, Statement
  <2>2. GetMigrationType(DropAside(s.object)) = "DropTable"
      BY <2>1, DroppedAside
  <2> QED BY <1>1, <2>2 DEF Rewritten, EvaluateStrategy
<1>2. CASE GetMigrationType(s) # "DropTable"
    BY <1>2 DEF Rewritten
<1> QED BY <1>1, <1>2

(* Nothing is automatic that is not allowed to be, and a schema change of  *)
(* the whole database never is.                                            *)
LEMMA AutomaticNeedsLeave ==
    ASSUME NEW s, NEW auto \in BOOLEAN, EvaluateStrategy(s, auto) # "manual"
    PROVE  auto /\ GetMigrationType(s) \in {"CreateTable", "DropTable", "AlterTable"}
BY DEF EvaluateStrategy

(* The statements that go to every shard of their own are the ALTER TABLEs *)
(* and DROP TABLEs.                                                        *)
LEMMA PerShard ==
    ASSUME NEW s \in Statement, NEW schema, Evaluates(s, schema), NEW shards
    PROVE  MigrationShards(s, shards) =
               IF s.verb \in {"ALTER TABLE", "DROP TABLE"} THEN shards ELSE {""}
BY DEF MigrationShards, requiresPerShardMigrationMap, Evaluates, Dissectable,
       GetMigrationType, Statement, Verbs

(* cli.go:109: the cluster that the owner of a migration is told is the    *)
(* one it was evaluated for if and only if it is for the whole cluster: a  *)
(* migration of a shard is read back without the name of its cluster.      *)
THEOREM ToldClusterIffWhole ==
    ASSUME NEW n, NEW s, NEW shard, NEW repo, repo.cluster # ""
    PROVE  LET m == NewMigration(n, s, shard, repo)
           IN  EvalClusterName(ReadBack(m)) = EvalClusterName(m) <=> shard = ""
BY DEF NewMigration, EvalClusterName, ReadBack

-----------------------------------------------------------------------------
(* Mappings *)

(* What the target is resolved to is a mapping there is, or none.          *)
LEMMA ResolvedIsMapped ==
    ASSUME NEW mappings \in [Hints -> Targets \cup {Unmapped}], NEW info
    PROVE  ResolveMapping(mappings, info) \in Targets \cup {Unmapped}
<1> DEFINE matching == {i \in DOMAIN HintOrder :
                           /\ mappings[HintOrder[i]] # Unmapped
                           /\ HintOrder[i] \in {info.FileName, info.SchemaName}}
<1>1. Len(HintOrder) \in Nat /\ DOMAIN HintOrder = 1..Len(HintOrder)
    BY CatalogueAssumption, LenProperties
<1>2. matching \in SUBSET (1..Len(HintOrder))
    BY <1>1
<1>3. ResolveMapping(mappings, info) =
          IF matching = {} THEN Unmapped ELSE mappings[HintOrder[Last(matching)]]
    BY Zenon DEF ResolveMapping
<1> HIDE DEF matching
<1>4. CASE matching # {}
  <2>1. Last(matching) \in matching
      BY <1>1, <1>2, <1>4, LastIsIn
  <2>2. HintOrder[Last(matching)] \in Hints
      BY <1>1, <1>2, <2>1 DEF Hints
  <2> QED BY <1>3, <1>4, <2>2
<1> QED BY <1>3, <1>4

-----------------------------------------------------------------------------
(* Types *)

LEMMA IdleType ==
    /\ NoEvaluation \in Evaluation /\ NoEvaluation.pc = "idle"
    /\ NoCommand.pc = "idle"
    /\ NoCommand \in [pc : {"idle", "update", "autorun", "remove"},
                      repo : Repos \cup {NoRepo}, copy : Registration \cup {NotRegistered}]
BY DEF NoEvaluation, Evaluation, NoCommand

(* A migration of a sound evaluation, as it is read back from the table.   *)
LEMMA ProposedType ==
    ASSUME NEW e \in Evaluation, e.comment \in Comments, e.target \in Targets, Evaluable(e),
           NEW m \in Evaluated(e)
    PROVE  ReadBack(m) \in Migration
<1> DEFINE ss == Diff(e).Statements
           repo == [cluster |-> e.target.cluster, schema |-> e.target.schema,
                    autorun |-> e.autorun]
           shards == ShardsOf[e.target.cluster]
<1>1. Evaluated(e) = UNION {{NewMigration(n, ss[n], shard, repo) :
                                shard \in MigrationShards(ss[n], shards)} : n \in DOMAIN ss}
    BY Zenon DEF Evaluated, EvaluateMigrations
<1>2. ss \in Seq(Statement)
    BY CatalogueAssumption DEF Diff
<1>3. e.target.cluster \in Clusters /\ e.target.schema \in Schemas
    BY DEF Targets
<1>4. \A n \in DOMAIN ss : Evaluates(ss[n], e.target.schema)
    BY Zenon DEF Evaluable, AllEvaluate
<1> HIDE DEF ss, repo, shards
<1>5. PICK n \in DOMAIN ss : \E shard \in MigrationShards(ss[n], shards) :
          m = NewMigration(n, ss[n], shard, repo)
    BY <1>1
<1>a. PICK shard \in MigrationShards(ss[n], shards) : m = NewMigration(n, ss[n], shard, repo)
    BY <1>5
<1>6. n \in Nat \ {0} /\ ss[n] \in Statement /\ Evaluates(ss[n], e.target.schema)
    BY <1>2, <1>4, ElementOfSeq, LenProperties
<1>7. shard \in Shards
    BY <1>3 DEF Shards, MigrationShards, shards
<1>8. TableName(ss[n]) \in Names
    BY <1>6, EmptySeq DEF TableName, Evaluates, Dissectable, Statement, Names
<1>9. Rewritten(ss[n]) \in Statement
  <2>1. ss[n].object \in Names
      BY <1>6 DEF Evaluates, Dissectable, Statement
  <2> QED BY <1>6, <2>1, DroppedAside DEF Rewritten
<1>10. EvaluateStrategy(ss[n], repo.autorun) \in Strategies
    BY DEF EvaluateStrategy, Strategies
<1>11. repo.cluster \in Clusters /\ repo.schema \in Schemas
    BY <1>3 DEF repo
<1> QED BY <1>a, <1>6, <1>7, <1>8, <1>9, <1>10, <1>11 DEF ReadBack, NewMigration, Migration

LEMMA TypeInit == Init => TypeOK
BY IdleType, CatalogueAssumption DEF Init, TypeOK

LEMMA ChatopsType == TypeOK /\ Chatops => TypeOK'
<1> SUFFICES ASSUME TypeOK, Chatops PROVE TypeOK'
    OBVIOUS
<1> USE DEF TypeOK, catalogue, evaluations
<1>1. ASSUME NEW r \in Repos, NEW owner \in Owners, AddRepo(r, owner) PROVE TypeOK'
  <2>1. [id |-> lastId + 1, owner |-> owner, autorun |-> FALSE] \in Registration
      BY DEF Registration
  <2> QED BY <1>1, <2>1 DEF AddRepo
<1>2. ASSUME NEW r \in Repos, NEW hint \in Hints, NEW t \in Targets \cup {Unmapped},
             mapped' = [mapped EXCEPT ![r][hint] = t]
      PROVE  mapped' \in [Repos -> [Hints -> Targets \cup {Unmapped}]]
  <2>1. [mapped[r] EXCEPT ![hint] = t] \in [Hints -> Targets \cup {Unmapped}]
      OBVIOUS
  <2> QED BY <1>2, <2>1
<1>3. ASSUME NEW r \in Repos, NEW hint \in Hints, NEW t \in Targets,
             RepoMap(r, hint, t) PROVE TypeOK'
  <2>1. mapped' \in [Repos -> [Hints -> Targets \cup {Unmapped}]]
      BY <1>2, <1>3 DEF RepoMap
  <2> QED BY <1>3, <2>1 DEF RepoMap
<1>4. ASSUME NEW r \in Repos, NEW o \in Operators, NEW pc \in {"update", "autorun", "remove"},
             ReadRegistration(o, r, pc) PROVE TypeOK'
    BY <1>4 DEF ReadRegistration
<1>5. ASSUME NEW o \in Operators, Done(o), command[o].pc # "idle"
      PROVE  /\ command'[o].pc = "idle"
             /\ command' \in [Operators -> [pc : {"idle", "update", "autorun", "remove"},
                                            repo : Repos \cup {NoRepo},
                                            copy : Registration \cup {NotRegistered}]]
             /\ \A q \in Operators : command'[q].pc # "idle" =>
                    command'[q].repo \in Repos /\ command'[q].copy \in Registration
    BY <1>5, IdleType DEF Done
<1>6. ASSUME NEW r \in Repos, NEW c \in Registration, NEW enable \in BOOLEAN,
             UpdateRepository(r, c.owner, enable)
      PROVE  registered' \in [Repos -> Registration \cup {NotRegistered}]
    BY <1>6 DEF UpdateRepository, Registration
<1>7. ASSUME NEW o \in Operators, UpdateRepo(o) PROVE TypeOK'
  <2>1. command[o].copy.autorun \in BOOLEAN
      BY <1>7 DEF UpdateRepo, Registration
  <2> QED BY <1>5, <1>6, <1>7, <2>1 DEF UpdateRepo
<1>8. ASSUME NEW o \in Operators, NEW enable \in BOOLEAN, RepoAutorun(o, enable) PROVE TypeOK'
    BY <1>5, <1>6, <1>8 DEF RepoAutorun
<1>9. ASSUME NEW o \in Operators, RemoveRepo(o) PROVE TypeOK'
    BY <1>5, <1>9 DEF RemoveRepo
<1>10. ASSUME NEW o \in Operators, CommandFails(o) PROVE TypeOK'
    BY <1>5, <1>10 DEF CommandFails
<1>11. ASSUME NEW p \in PRs, NEW m \in proposed[p], ApproveAutorun(p, m) PROVE TypeOK'
  <2>1. m \in Migration
      OBVIOUS
  <2>2. EvaluateStrategy(m.statement, TRUE) \in Strategies
      BY DEF EvaluateStrategy, Strategies
  <2>3. Approved(m) \in Migration /\ Key(m) \in (Nat \ {0}) \X Shards
      BY <2>1, <2>2 DEF Approved, Migration, Key
  <2>4. /\ proposed' \in [PRs -> SUBSET Migration]
        /\ approved' \in [PRs -> SUBSET ((Nat \ {0}) \X Shards)]
      BY <1>11, <2>1, <2>3 DEF ApproveAutorun
  <2> QED BY <1>11, <2>4 DEF ApproveAutorun
<1>12. ASSUME NEW r \in Repos, NEW hint \in Hints, RepoUnmap(r, hint) PROVE TypeOK'
  <2>1. mapped' \in [Repos -> [Hints -> Targets \cup {Unmapped}]]
      BY <1>2, <1>12 DEF RepoUnmap
  <2> QED BY <1>12, <2>1 DEF RepoUnmap
<1> QED BY <1>1, <1>3, <1>12, <1>4, <1>7, <1>8, <1>9, <1>10, <1>11 DEF Chatops

LEMMA EvaluatingType == TypeOK /\ Evaluating => TypeOK'
<1> SUFFICES ASSUME TypeOK, NEW p \in PRs,
                    \/ \E comment \in Comments : ReadRepository(p, comment)
                    \/ ReadMappings(p) \/ Withdraw(p) \/ Submit(p) \/ SubmitStops(p)
                    \/ EvaluationErrs(p) \/ Unlabel(p)
             PROVE  TypeOK'
    BY DEF Evaluating
<1> USE DEF TypeOK, catalogue
<1>1. ASSUME NEW comment \in Comments, ReadRepository(p, comment) PROVE TypeOK'
  <2>1. RepoOf[p] \in Repos
      BY CatalogueAssumption
  <2>2. registered[RepoOf[p]].autorun \in BOOLEAN
      BY <1>1, <2>1 DEF ReadRepository, Registration
  <2>3. [pc |-> "read", autorun |-> registered[RepoOf[p]].autorun,
         ordered |-> ordered[RepoOf[p]], comment |-> comment, target |-> Unmapped] \in Evaluation
      BY <2>1, <2>2 DEF Evaluation
  <2> QED BY <1>1, <2>3 DEF ReadRepository
<1>2. CASE ReadMappings(p)
  <2> DEFINE target == ResolveMapping(mapped[RepoOf[p]], Diff(evaluation[p]))
  <2>1. mapped[RepoOf[p]] \in [Hints -> Targets \cup {Unmapped}]
      BY CatalogueAssumption
  <2>2. target \in Targets
      BY <1>2, <2>1, ResolvedIsMapped DEF ReadMappings
  <2> HIDE DEF target
  <2>3. evaluation' = [evaluation EXCEPT ![p].pc = "resolved", ![p].target = target]
      BY <1>2 DEF ReadMappings, target
  <2>4. evaluation'[p] \in Evaluation /\ evaluation'[p].target \in Targets
    <3> DEFINE e == [evaluation[p] EXCEPT !.pc = "resolved", !.target = target]
    <3>1. evaluation[p] \in Evaluation
        OBVIOUS
    <3>2. e \in Evaluation /\ e.target \in Targets
        BY <2>2, <3>1 DEF Evaluation
    <3>3. evaluation'[p] = e
        BY <2>3, <3>1 DEF Evaluation
    <3> QED BY <3>2, <3>3
  <2>5. /\ \A q \in PRs : q # p => evaluation'[q] = evaluation[q]
        /\ evaluation' \in [PRs -> Evaluation]
      BY <2>3, <2>4
  <2> QED BY <1>2, <2>4, <2>5 DEF ReadMappings
<1>3. CASE Withdraw(p)
  <2>1. evaluation'[p] \in Evaluation /\ evaluation'[p].target \in Targets
      BY <1>3 DEF Withdraw, Evaluation
  <2>2. /\ \A q \in PRs : q # p => evaluation'[q] = evaluation[q]
        /\ evaluation' \in [PRs -> Evaluation]
      BY <1>3, <2>1 DEF Withdraw
  <2> QED BY <1>3, <2>1, <2>2 DEF Withdraw
<1>4. ASSUME Submit(p) \/ SubmitStops(p),
             NEW part \in SUBSET Evaluated(evaluation[p]),
             proposed' = [proposed EXCEPT ![p] = {ReadBack(m) : m \in part}]
      PROVE  TypeOK'
  <2>1. /\ evaluation[p] \in Evaluation /\ evaluation[p].comment \in Comments
        /\ evaluation[p].target \in Targets /\ Evaluable(evaluation[p])
      BY <1>4 DEF Submit, SubmitStops
  <2>2. proposed' \in [PRs -> SUBSET Migration]
      BY <1>4, <2>1, ProposedType
  <2>3. /\ evaluation' = [evaluation EXCEPT ![p] = NoEvaluation]
        /\ based' \in [PRs -> Evaluation] /\ detected' \subseteq PRs
        /\ UNCHANGED <<catalogue, command, approved, ordered>>
      BY <1>4 DEF Submit, SubmitStops
  <2> QED BY <2>2, <2>3, IdleType
<1>6. CASE Submit(p)
    BY <1>4, <1>6 DEF Submit
<1>7. CASE SubmitStops(p)
  <2>1. PICK part \in SUBSET Evaluated(evaluation[p]) :
            proposed' = [proposed EXCEPT ![p] = {ReadBack(m) : m \in part}]
      BY <1>7 DEF SubmitStops
  <2> QED BY <1>4, <1>7, <2>1
<1>8. CASE EvaluationErrs(p)
    BY <1>8, IdleType DEF EvaluationErrs
<1>5. CASE Unlabel(p)
    BY <1>5 DEF Unlabel
<1> QED BY <1>1, <1>2, <1>3, <1>5, <1>6, <1>7, <1>8

LEMMA TypeStep == TypeOK /\ [Next]_vars => TypeOK'
<1>1. TypeOK /\ UNCHANGED vars => TypeOK'
    BY DEF TypeOK, vars, catalogue, evaluations
<1> QED BY <1>1, ChatopsType, EvaluatingType DEF Next

(* The tables, the commands and the evaluations have their types: what an  *)
(* evaluation goes on with after its mappings is a cluster and a schema.   *)
THEOREM CatalogueTypes == Spec => []TypeOK
BY TypeInit, TypeStep, PTL DEF Spec

-----------------------------------------------------------------------------
(* What is registered is what was last ordered, as long as nobody writes a *)
(* registration that another command has a copy of to write back.          *)

Writing(o) == command[o].pc \in {"update", "autorun"}

RowsObey == \A r \in Repos : registered[r] # NotRegistered => registered[r].autorun = ordered[r]
CopiesObey == \A o \in Operators :
    command[o].pc = "update" => command[o].copy.autorun = ordered[command[o].repo]
OneWriter == \A o, q \in Operators :
    Writing(o) /\ Writing(q) /\ command[o].repo = command[q].repo => o = q
EvaluationsObey == \A p \in PRs :
    evaluation[p].autorun = evaluation[p].ordered /\ based[p].autorun = based[p].ordered

ObeyInv == RowsObey /\ CopiesObey /\ OneWriter /\ EvaluationsObey

LEMMA ObeyInit == Init => ObeyInv
<1> SUFFICES ASSUME Init PROVE ObeyInv
    OBVIOUS
<1>1. \A o \in Operators : command[o].pc = "idle"
    BY DEF Init, NoCommand
<1>2. RowsObey /\ CopiesObey /\ OneWriter
    BY <1>1 DEF Init, RowsObey, CopiesObey, OneWriter, Writing
<1>3. EvaluationsObey
    BY DEF Init, EvaluationsObey, NoEvaluation
<1> QED BY <1>2, <1>3 DEF ObeyInv

(* A command that ends is nobody's copy any more.                          *)
LEMMA DoneObeys ==
    ASSUME TypeOK, CopiesObey, OneWriter, NEW o \in Operators, Done(o),
           \A q \in Operators : q # o /\ command[q].pc = "update" =>
               ordered'[command[q].repo] = ordered[command[q].repo]
    PROVE  CopiesObey' /\ OneWriter'
<1>1. /\ command'[o].pc = "idle"
      /\ \A q \in Operators : q # o => command'[q] = command[q]
    BY DEF Done, NoCommand, TypeOK
<1> QED BY <1>1 DEF CopiesObey, OneWriter, Writing

LEMMA ChatopsObey == ~CanOverlap /\ TypeOK /\ ObeyInv /\ Chatops => ObeyInv'
<1> SUFFICES ASSUME ~CanOverlap, TypeOK, ObeyInv, Chatops PROVE ObeyInv'
    OBVIOUS
<1> USE DEF ObeyInv, EvaluationsObey
<1>1. ASSUME NEW r \in Repos, NEW owner \in Owners, AddRepo(r, owner) PROVE ObeyInv'
  <2>1. \A o \in Operators : Writing(o) => command[o].repo # r
      BY <1>1 DEF AddRepo, MayWrite, HasCopy, Writing
  <2>2. /\ registered'[r].autorun = FALSE /\ ordered'[r] = FALSE
        /\ \A x \in Repos : x # r => registered'[x] = registered[x] /\ ordered'[x] = ordered[x]
      BY <1>1 DEF AddRepo, TypeOK
  <2>3. RowsObey'
      BY <2>2 DEF RowsObey
  <2>4. CopiesObey' /\ OneWriter'
      BY <1>1, <2>1, <2>2 DEF AddRepo, CopiesObey, OneWriter, Writing, TypeOK
  <2> QED BY <1>1, <2>3, <2>4 DEF AddRepo, evaluations
<1>2. ASSUME NEW r \in Repos, NEW hint \in Hints, NEW t \in Targets,
             RepoMap(r, hint, t) PROVE ObeyInv'
    BY <1>2 DEF RepoMap, evaluations, RowsObey, CopiesObey, OneWriter, Writing
<1>3. ASSUME NEW r \in Repos, NEW hint \in Hints, RepoUnmap(r, hint) PROVE ObeyInv'
    BY <1>3 DEF RepoUnmap, evaluations, RowsObey, CopiesObey, OneWriter, Writing
<1>4. ASSUME NEW r \in Repos, NEW o \in Operators, NEW pc \in {"update", "autorun", "remove"},
             ReadRegistration(o, r, pc) PROVE ObeyInv'
  <2>1. /\ command'[o] = [pc |-> pc, repo |-> r, copy |-> registered[r]]
        /\ \A q \in Operators : q # o => command'[q] = command[q]
      BY <1>4 DEF ReadRegistration, TypeOK
  <2>2. pc \in {"update", "autorun"} => \A q \in Operators : Writing(q) => command[q].repo # r
      BY <1>4 DEF ReadRegistration, MayWrite, HasCopy, Writing
  <2>3. CopiesObey' /\ OneWriter'
      BY <1>4, <2>1, <2>2 DEF ReadRegistration, RowsObey, CopiesObey, OneWriter, Writing
  <2> QED BY <1>4, <2>3 DEF ReadRegistration, catalogue, evaluations, RowsObey
<1>5. ASSUME NEW r \in Repos, NEW owner \in Owners, UpdateRepository(r, owner, ordered'[r]),
             \A x \in Repos : x # r => ordered'[x] = ordered[x]
      PROVE  RowsObey'
  <2>1. registered[r] # NotRegistered => registered'[r].autorun = ordered'[r]
      BY <1>5 DEF UpdateRepository, TypeOK, Registration
  <2>2. /\ registered[r] = NotRegistered => registered'[r] = NotRegistered
        /\ \A x \in Repos : x # r => registered'[x] = registered[x]
      BY <1>5 DEF UpdateRepository, TypeOK
  <2> QED BY <1>5, <2>1, <2>2 DEF RowsObey
<1>6. ASSUME NEW o \in Operators, UpdateRepo(o) PROVE ObeyInv'
  <2>1. /\ command[o].repo \in Repos /\ command[o].copy.owner \in Owners
        /\ command[o].copy.autorun = ordered[command[o].repo]
      BY <1>6 DEF UpdateRepo, TypeOK, Registration, CopiesObey
  <2>2. RowsObey'
      BY <1>5, <1>6, <2>1 DEF UpdateRepo
  <2>3. CopiesObey' /\ OneWriter'
      BY <1>6, DoneObeys DEF UpdateRepo
  <2> QED BY <1>6, <2>2, <2>3 DEF UpdateRepo, evaluations
<1>7. ASSUME NEW o \in Operators, NEW enable \in BOOLEAN, RepoAutorun(o, enable) PROVE ObeyInv'
  <2>1. command[o].repo \in Repos /\ command[o].copy.owner \in Owners
      BY <1>7 DEF RepoAutorun, TypeOK, Registration
  <2>2. /\ ordered'[command[o].repo] = enable
        /\ \A x \in Repos : x # command[o].repo => ordered'[x] = ordered[x]
      BY <1>7, <2>1 DEF RepoAutorun, TypeOK
  <2>3. RowsObey'
      BY <1>5, <1>7, <2>1, <2>2 DEF RepoAutorun
  <2>4. \A q \in Operators : q # o /\ command[q].pc = "update" =>
            command[q].repo \in Repos /\ command[q].repo # command[o].repo
      BY <1>7 DEF RepoAutorun, TypeOK, OneWriter, Writing
  <2>5. CopiesObey' /\ OneWriter'
      BY <1>7, <2>2, <2>4, DoneObeys DEF RepoAutorun
  <2> QED BY <1>7, <2>3, <2>5 DEF RepoAutorun, evaluations
<1>8. ASSUME NEW o \in Operators, RemoveRepo(o) PROVE ObeyInv'
  <2>1. RowsObey'
      BY <1>8 DEF RemoveRepo, RowsObey, TypeOK
  <2>2. CopiesObey' /\ OneWriter'
      BY <1>8, DoneObeys DEF RemoveRepo
  <2> QED BY <1>8, <2>1, <2>2 DEF RemoveRepo, evaluations
<1>9. ASSUME NEW o \in Operators, CommandFails(o) PROVE ObeyInv'
  <2>1. CopiesObey' /\ OneWriter'
      BY <1>9, DoneObeys DEF CommandFails
  <2> QED BY <1>9, <2>1 DEF CommandFails, catalogue, evaluations, RowsObey
<1>10. ASSUME NEW p \in PRs, NEW m \in proposed[p], ApproveAutorun(p, m) PROVE ObeyInv'
    BY <1>10 DEF ApproveAutorun, catalogue, RowsObey, CopiesObey, OneWriter, Writing
<1> QED BY <1>1, <1>2, <1>3, <1>4, <1>6, <1>7, <1>8, <1>9, <1>10 DEF Chatops

LEMMA EvaluatingObeys == TypeOK /\ ObeyInv /\ Evaluating => ObeyInv'
<1> SUFFICES ASSUME TypeOK, ObeyInv, NEW p \in PRs,
                    \/ \E comment \in Comments : ReadRepository(p, comment)
                    \/ ReadMappings(p) \/ Withdraw(p) \/ Submit(p) \/ SubmitStops(p)
                    \/ EvaluationErrs(p) \/ Unlabel(p)
             PROVE  ObeyInv'
    BY DEF Evaluating
<1>1. UNCHANGED <<registered, command, ordered>>
    BY DEF ReadRepository, ReadMappings, Withdraw, Submit, SubmitStops, EvaluationErrs, Unlabel,
           catalogue
<1>2. RowsObey' /\ CopiesObey' /\ OneWriter'
    BY <1>1 DEF ObeyInv, RowsObey, CopiesObey, OneWriter, Writing
<1>3. NoEvaluation.autorun = NoEvaluation.ordered
    BY DEF NoEvaluation
<1>4. evaluation'[p].autorun = evaluation'[p].ordered
  <2>1. ASSUME NEW comment \in Comments, ReadRepository(p, comment)
        PROVE  evaluation'[p].autorun = evaluation'[p].ordered
    <3>1. RepoOf[p] \in Repos
        BY CatalogueAssumption
    <3> QED BY <2>1, <3>1 DEF ReadRepository, ObeyInv, RowsObey, TypeOK
  <2>2. CASE ReadMappings(p)
    <3> DEFINE target == ResolveMapping(mapped[RepoOf[p]], Diff(evaluation[p]))
    <3>1. evaluation' = [evaluation EXCEPT ![p].pc = "resolved", ![p].target = target]
        BY <2>2 DEF ReadMappings
    <3> HIDE DEF target
    <3> QED BY <3>1 DEF ObeyInv, EvaluationsObey, TypeOK, Evaluation
  <2>3. CASE Withdraw(p)
      BY <2>3 DEF Withdraw, ObeyInv, EvaluationsObey, TypeOK, Evaluation
  <2>4. CASE Submit(p) \/ SubmitStops(p) \/ EvaluationErrs(p)
      BY <1>3, <2>4 DEF Submit, SubmitStops, EvaluationErrs, TypeOK
  <2>5. CASE Unlabel(p)
      BY <2>5 DEF Unlabel, ObeyInv, EvaluationsObey
  <2> QED BY <2>1, <2>2, <2>3, <2>4, <2>5
<1>5. \A q \in PRs : q # p => evaluation'[q] = evaluation[q] /\ based'[q] = based[q]
    BY DEF ReadRepository, ReadMappings, Withdraw, Submit, SubmitStops, EvaluationErrs, Unlabel,
           TypeOK
<1>6. based'[p] = based[p] \/ based'[p] = evaluation[p]
    BY DEF ReadRepository, ReadMappings, Withdraw, Submit, SubmitStops, EvaluationErrs, Unlabel,
           TypeOK
<1> QED BY <1>2, <1>4, <1>5, <1>6 DEF ObeyInv, EvaluationsObey

LEMMA ObeyStep == ~CanOverlap /\ TypeOK /\ ObeyInv /\ [Next]_vars => ObeyInv'
<1>1. ObeyInv /\ UNCHANGED vars => ObeyInv'
    BY DEF vars, catalogue, evaluations, ObeyInv, RowsObey, CopiesObey, OneWriter, Writing,
           EvaluationsObey
<1> QED BY <1>1, ChatopsObey, EvaluatingObeys DEF Next

-----------------------------------------------------------------------------
(* What is proposed: of the evaluation e, for the n-th statement and the   *)
(* shard, when the migrations with these keys have been approved since.    *)

Proposal(e, keys, n, shard) == ReadBack(NewMigration(n, Diff(e).Statements[n], shard,
    [cluster |-> e.target.cluster, schema |-> e.target.schema,
     autorun |-> e.autorun \/ <<n, shard>> \in keys]))

ShardsFor(e, n) == MigrationShards(Diff(e).Statements[n], ShardsOf[e.target.cluster])

Sound(e) == e.comment \in Comments /\ e.target \in Targets /\ Evaluable(e)

OnlyDerived(ms, e, keys) == \A m \in ms :
    \E n \in DOMAIN Diff(e).Statements : \E shard \in ShardsFor(e, n) :
        m = Proposal(e, keys, n, shard)
AllDerived(ms, e, keys) == \A n \in DOMAIN Diff(e).Statements : \A shard \in ShardsFor(e, n) :
    Proposal(e, keys, n, shard) \in ms

ProposedOf(p) ==
    /\ OnlyDerived(proposed[p], based[p], approved[p])
    /\ p \in detected => /\ AllDerived(proposed[p], based[p], approved[p])
                         /\ evaluation[p].pc = "idle"
    /\ proposed[p] # {} \/ p \in detected => Sound(based[p])
    /\ evaluation[p].pc = "withdrawn" => proposed[p] = {} /\ approved[p] = {}
    /\ evaluation[p].pc # "idle" => evaluation[p].comment \in Comments

ProposedInv == \A p \in PRs : ProposedOf(p)

LEMMA ProposedInit == Init => ProposedInv
BY DEF Init, ProposedInv, ProposedOf, OnlyDerived, NoEvaluation

(* A row by its columns.                                                   *)
Row(n, shard, cluster, schema, table, s, strategy) ==
    [statement_id |-> n, shard |-> shard, cluster |-> cluster, schema |-> schema,
     repo_cluster |-> "", table |-> table, statement |-> s, strategy |-> strategy]

LEMMA RowFields ==
    ASSUME NEW n, NEW h, NEW c, NEW d, NEW t, NEW s, NEW x
    PROVE  /\ Row(n, h, c, d, t, s, x).statement_id = n
           /\ Row(n, h, c, d, t, s, x).shard = h
           /\ Row(n, h, c, d, t, s, x).statement = s
           /\ Row(n, h, c, d, t, s, x).strategy = x
BY DEF Row

LEMMA RowExcept ==
    ASSUME NEW n, NEW h, NEW c, NEW d, NEW t, NEW s, NEW x, NEW y
    PROVE  [Row(n, h, c, d, t, s, x) EXCEPT !.strategy = y] = Row(n, h, c, d, t, s, y)
<1>1. ASSUME NEW r
      PROVE  [[statement_id |-> n, shard |-> h, cluster |-> c, schema |-> d, repo_cluster |-> r,
               table |-> t, statement |-> s, strategy |-> x] EXCEPT !.strategy = y] =
             [statement_id |-> n, shard |-> h, cluster |-> c, schema |-> d, repo_cluster |-> r,
              table |-> t, statement |-> s, strategy |-> y]
    OBVIOUS
<1> QED BY Zenon, <1>1 DEF Row

LEMMA ReadBackRow ==
    ASSUME NEW n, NEW h, NEW c, NEW d, NEW t, NEW s, NEW x
    PROVE  ReadBack([statement_id |-> n, shard |-> h, cluster |-> c, schema |-> d,
                     repo_cluster |-> c, table |-> t, statement |-> s, strategy |-> x])
               = Row(n, h, c, d, t, s, x)
<1>1. ASSUME NEW y
      PROVE  [[statement_id |-> n, shard |-> h, cluster |-> c, schema |-> d, repo_cluster |-> c,
               table |-> t, statement |-> s, strategy |-> x] EXCEPT !.repo_cluster = y] =
             [statement_id |-> n, shard |-> h, cluster |-> c, schema |-> d, repo_cluster |-> y,
              table |-> t, statement |-> s, strategy |-> x]
    OBVIOUS
<1> QED BY Zenon, <1>1 DEF ReadBack, Row

ProposedRow(e, n, shard, strategy) ==
    Row(n, shard, e.target.cluster, e.target.schema, TableName(Diff(e).Statements[n]),
        Rewritten(Diff(e).Statements[n]), strategy)

LEMMA ProposedRowFields ==
    ASSUME NEW e, NEW n, NEW shard, NEW x, NEW y
    PROVE  /\ ProposedRow(e, n, shard, x).statement_id = n
           /\ ProposedRow(e, n, shard, x).shard = shard
           /\ ProposedRow(e, n, shard, x).statement = Rewritten(Diff(e).Statements[n])
           /\ ProposedRow(e, n, shard, x).strategy = x
           /\ [ProposedRow(e, n, shard, x) EXCEPT !.strategy = y] = ProposedRow(e, n, shard, y)
<1> DEFINE s == Diff(e).Statements[n]
<1> HIDE DEF s
<1>1. ASSUME NEW z
      PROVE  ProposedRow(e, n, shard, z) = Row(n, shard, e.target.cluster, e.target.schema,
                                               TableName(s), Rewritten(s), z)
    BY Zenon DEF ProposedRow, s
<1>2. ProposedRow(e, n, shard, x).statement = Rewritten(s)
    BY <1>1, RowFields
<1>3. /\ ProposedRow(e, n, shard, x).statement_id = n
      /\ ProposedRow(e, n, shard, x).shard = shard
      /\ ProposedRow(e, n, shard, x).strategy = x
    BY <1>1, RowFields
<1>4. [ProposedRow(e, n, shard, x) EXCEPT !.strategy = y] = ProposedRow(e, n, shard, y)
    BY <1>1, RowExcept
<1> QED BY Zenon, <1>2, <1>3, <1>4 DEF s

LEMMA ProposalFields ==
    ASSUME NEW e, NEW keys, NEW n, NEW shard
    PROVE  Proposal(e, keys, n, shard) =
               ProposedRow(e, n, shard, EvaluateStrategy(Diff(e).Statements[n],
                                                         e.autorun \/ <<n, shard>> \in keys))
<1> DEFINE auto == e.autorun \/ <<n, shard>> \in keys
           s == Diff(e).Statements[n]
           repo == [cluster |-> e.target.cluster, schema |-> e.target.schema, autorun |-> auto]
<1>1. Proposal(e, keys, n, shard) = ReadBack(NewMigration(n, s, shard, repo))
    BY Zenon DEF Proposal
<1> HIDE DEF auto, s
<1>2. repo.cluster = e.target.cluster /\ repo.schema = e.target.schema /\ repo.autorun = auto
    BY Zenon
<1> HIDE DEF repo
<1>3. NewMigration(n, s, shard, repo) =
          [statement_id |-> n, shard |-> shard, cluster |-> repo.cluster,
           schema |-> repo.schema, repo_cluster |-> repo.cluster, table |-> TableName(s),
           statement |-> Rewritten(s), strategy |-> EvaluateStrategy(s, repo.autorun)]
    BY Zenon DEF NewMigration
<1>4. Proposal(e, keys, n, shard) =
          Row(n, shard, repo.cluster, repo.schema, TableName(s), Rewritten(s),
              EvaluateStrategy(s, repo.autorun))
    BY Zenon, <1>1, <1>3, ReadBackRow
<1>5. Proposal(e, keys, n, shard) =
          Row(n, shard, e.target.cluster, e.target.schema, TableName(s), Rewritten(s),
              EvaluateStrategy(s, auto))
    BY Zenon, <1>2, <1>4
<1>6. Proposal(e, keys, n, shard) = ProposedRow(e, n, shard, EvaluateStrategy(s, auto))
    BY Zenon, <1>5 DEF s, ProposedRow
<1> QED BY Zenon, <1>6 DEF auto, s

LEMMA ProposalKey ==
    ASSUME NEW e, NEW keys, NEW n, NEW shard
    PROVE  /\ Proposal(e, keys, n, shard).statement_id = n
           /\ Proposal(e, keys, n, shard).shard = shard
<1> DEFINE strategy == EvaluateStrategy(Diff(e).Statements[n], e.autorun \/ <<n, shard>> \in keys)
<1>1. Proposal(e, keys, n, shard) = ProposedRow(e, n, shard, strategy)
    BY Zenon, ProposalFields
<1> HIDE DEF strategy
<1> QED BY <1>1, ProposedRowFields

(* What an evaluation inserts is derived from it, without approvals.       *)
LEMMA SubmittedIsDerived ==
    ASSUME NEW e \in Evaluation
    PROVE  /\ \A part \in SUBSET Evaluated(e) : OnlyDerived({ReadBack(m) : m \in part}, e, {})
           /\ AllDerived({ReadBack(m) : m \in Evaluated(e)}, e, {})
<1> DEFINE ss == Diff(e).Statements
           repo == [cluster |-> e.target.cluster, schema |-> e.target.schema,
                    autorun |-> e.autorun]
<1>1. ASSUME NEW n, NEW shard
      PROVE  ReadBack(NewMigration(n, ss[n], shard, repo)) = Proposal(e, {}, n, shard)
  <2>1. (e.autorun \/ <<n, shard>> \in {}) = e.autorun
      BY DEF Evaluation
  <2> QED BY <2>1 DEF Proposal
<1>2. Evaluated(e) = UNION {{NewMigration(n, ss[n], shard, repo) : shard \in ShardsFor(e, n)} :
                                n \in DOMAIN ss}
    BY Zenon DEF Evaluated, EvaluateMigrations, ShardsFor
<1> HIDE DEF ss, repo
<1>3. ASSUME NEW m \in Evaluated(e)
      PROVE  \E n \in DOMAIN ss : \E shard \in ShardsFor(e, n) :
                 m = NewMigration(n, ss[n], shard, repo)
    BY <1>2
<1>4. ASSUME NEW n \in DOMAIN ss, NEW shard \in ShardsFor(e, n)
      PROVE  NewMigration(n, ss[n], shard, repo) \in Evaluated(e)
    BY <1>2
<1> QED BY <1>1, <1>3, <1>4 DEF ss, OnlyDerived, AllDerived

(* An approval makes of a proposal what the approvals now make of it.      *)
LEMMA ApprovedProposal ==
    ASSUME NEW e, Sound(e), NEW keys, NEW n \in DOMAIN Diff(e).Statements, NEW shard,
           NEW m, m = Proposal(e, keys, n, shard)
    PROVE  Approved(m) = Proposal(e, keys \cup {<<n, shard>>}, n, shard)
<1> DEFINE s == Diff(e).Statements[n]
<1>1. s \in Statement
  <2>1. Diff(e).Statements \in Seq(Statement)
      BY CatalogueAssumption DEF Sound, Diff
  <2> QED BY <2>1, ElementOfSeq, LenProperties
<1>2. Evaluates(s, e.target.schema)
    BY DEF Sound, Evaluable, AllEvaluate
<1>3. EvaluateStrategy(Rewritten(s), TRUE) = EvaluateStrategy(s, TRUE)
    BY <1>1, <1>2, RewrittenKeepsStrategy
<1> DEFINE strategy == EvaluateStrategy(s, e.autorun \/ <<n, shard>> \in keys)
           approvedStrategy == EvaluateStrategy(s, TRUE)
<1>4. m = ProposedRow(e, n, shard, strategy)
    BY Zenon, ProposalFields
<1>5. (e.autorun \/ <<n, shard>> \in keys \cup {<<n, shard>>}) = TRUE
    OBVIOUS
<1>6. Proposal(e, keys \cup {<<n, shard>>}, n, shard) = ProposedRow(e, n, shard, approvedStrategy)
    BY Zenon, <1>5, ProposalFields
<1>7. /\ m.statement = Rewritten(s)
      /\ [m EXCEPT !.strategy = approvedStrategy] = ProposedRow(e, n, shard, approvedStrategy)
  <2> HIDE DEF strategy, approvedStrategy
  <2> QED BY <1>4, ProposedRowFields
<1>8. EvaluateStrategy(m.statement, TRUE) = approvedStrategy
  <2> HIDE DEF s
  <2> QED BY Zenon, <1>3, <1>7
<1> HIDE DEF approvedStrategy
<1> QED BY Zenon, <1>6, <1>7, <1>8 DEF Approved

LEMMA ApprovedIsDerived ==
    ASSUME NEW e, Sound(e), NEW keys, NEW ms, NEW m \in ms,
           OnlyDerived(ms, e, keys),
           NEW next, next = (ms \ {m}) \cup {Approved(m)}
    PROVE  /\ OnlyDerived(next, e, keys \cup {Key(m)})
           /\ AllDerived(ms, e, keys) => AllDerived(next, e, keys \cup {Key(m)})
<1>1. PICK n \in DOMAIN Diff(e).Statements : \E shard \in ShardsFor(e, n) :
          m = Proposal(e, keys, n, shard)
    BY DEF OnlyDerived
<1>2. PICK shard \in ShardsFor(e, n) : m = Proposal(e, keys, n, shard)
    BY <1>1
<1>3. m.statement_id = n /\ m.shard = shard /\ Key(m) = <<n, shard>>
    BY <1>2, ProposalKey DEF Key
<1>4. Approved(m) = Proposal(e, keys \cup {Key(m)}, n, shard)
  <2>1. Approved(m) = Proposal(e, keys \cup {<<n, shard>>}, n, shard)
      BY <1>2, ApprovedProposal
  <2> QED BY Zenon, <1>3, <2>1
<1>5. ASSUME NEW n2, NEW shard2, <<n2, shard2>> # <<n, shard>>
      PROVE  /\ Proposal(e, keys \cup {Key(m)}, n2, shard2) = Proposal(e, keys, n2, shard2)
             /\ Proposal(e, keys, n2, shard2) # m
  <2>1. (<<n2, shard2>> \in keys \cup {Key(m)}) = (<<n2, shard2>> \in keys)
      BY <1>3, <1>5
  <2>2. Proposal(e, keys \cup {Key(m)}, n2, shard2) = Proposal(e, keys, n2, shard2)
      BY Zenon, <2>1 DEF Proposal
  <2>3. /\ Proposal(e, keys, n2, shard2).statement_id = n2
        /\ Proposal(e, keys, n2, shard2).shard = shard2
      BY ProposalKey
  <2> QED BY <1>3, <1>5, <2>2, <2>3
<1>6. OnlyDerived(next, e, keys \cup {Key(m)})
  <2>1. ASSUME NEW x \in ms, x # m
        PROVE  \E n2 \in DOMAIN Diff(e).Statements : \E shard2 \in ShardsFor(e, n2) :
                   x = Proposal(e, keys \cup {Key(m)}, n2, shard2)
    <3>1. PICK n2 \in DOMAIN Diff(e).Statements : \E shard2 \in ShardsFor(e, n2) :
              x = Proposal(e, keys, n2, shard2)
        BY DEF OnlyDerived
    <3>2. PICK shard2 \in ShardsFor(e, n2) : x = Proposal(e, keys, n2, shard2)
        BY <3>1
    <3> QED BY <1>2, <1>5, <2>1, <3>2
  <2>2. \E n2 \in DOMAIN Diff(e).Statements : \E shard2 \in ShardsFor(e, n2) :
            Approved(m) = Proposal(e, keys \cup {Key(m)}, n2, shard2)
      BY <1>2, <1>4
  <2>3. \A x \in next : x = Approved(m) \/ (x \in ms /\ x # m)
      OBVIOUS
  <2> QED BY <2>1, <2>2, <2>3 DEF OnlyDerived
<1>7. ASSUME AllDerived(ms, e, keys) PROVE AllDerived(next, e, keys \cup {Key(m)})
    BY <1>4, <1>5, <1>7 DEF AllDerived
<1> QED BY <1>6, <1>7

(* Only the evaluation of p goes on, to a state in which it is not         *)
(* withdrawn.                                                              *)
LEMMA EvaluationGoesOn ==
    ASSUME ProposedInv, NEW p \in PRs, UNCHANGED <<proposed, detected, based, approved>>,
           \A q \in PRs : q # p => evaluation'[q] = evaluation[q],
           evaluation'[p].pc # "withdrawn", p \in detected => evaluation'[p].pc = "idle",
           evaluation'[p].pc # "idle" => evaluation'[p].comment \in Comments
    PROVE  ProposedInv'
<1>1. ProposedOf(p)'
    BY DEF ProposedInv, ProposedOf
<1>2. ASSUME NEW q \in PRs, q # p PROVE ProposedOf(q)'
    BY <1>2 DEF ProposedInv, ProposedOf
<1> QED BY <1>1, <1>2 DEF ProposedInv

(* Only the proposals of p, its label and its evaluation change.           *)
LEMMA ProposalsChange ==
    ASSUME ProposedInv, NEW p \in PRs, ProposedOf(p)',
           \A q \in PRs : q # p => /\ evaluation'[q] = evaluation[q] /\ based'[q] = based[q]
                                   /\ proposed'[q] = proposed[q] /\ approved'[q] = approved[q]
                                   /\ (q \in detected') = (q \in detected)
    PROVE  ProposedInv'
<1>1. ASSUME NEW q \in PRs, q # p PROVE ProposedOf(q)'
    BY <1>1 DEF ProposedInv, ProposedOf
<1> QED BY <1>1 DEF ProposedInv

LEMMA EvaluatingProposes == TypeOK /\ ProposedInv /\ Evaluating => ProposedInv'
<1> SUFFICES ASSUME TypeOK, ProposedInv, NEW p \in PRs,
                    \/ \E comment \in Comments : ReadRepository(p, comment)
                    \/ ReadMappings(p) \/ Withdraw(p) \/ Submit(p) \/ SubmitStops(p)
                    \/ EvaluationErrs(p) \/ Unlabel(p)
             PROVE  ProposedInv'
    BY DEF Evaluating
<1>a. ProposedOf(p) /\ evaluation[p] \in Evaluation
    BY DEF ProposedInv, TypeOK
<1>b. evaluation[p].pc # "idle" => p \notin detected /\ evaluation[p].comment \in Comments
    BY <1>a DEF ProposedOf
<1>1. ASSUME NEW comment \in Comments, ReadRepository(p, comment) PROVE ProposedInv'
  <2>1. /\ evaluation'[p].pc = "read" /\ evaluation'[p].comment = comment
        /\ \A q \in PRs : q # p => evaluation'[q] = evaluation[q]
      BY <1>1 DEF ReadRepository, TypeOK
  <2> QED BY <1>1, <2>1, EvaluationGoesOn DEF ReadRepository
<1>2. CASE ReadMappings(p)
  <2> DEFINE target == ResolveMapping(mapped[RepoOf[p]], Diff(evaluation[p]))
  <2>1. evaluation' = [evaluation EXCEPT ![p].pc = "resolved", ![p].target = target]
      BY <1>2 DEF ReadMappings
  <2> HIDE DEF target
  <2>2. /\ evaluation'[p].pc = "resolved" /\ evaluation'[p].comment = evaluation[p].comment
        /\ \A q \in PRs : q # p => evaluation'[q] = evaluation[q]
      BY <1>a, <2>1 DEF TypeOK, Evaluation
  <2> QED BY <1>2, <1>b, <2>2, EvaluationGoesOn DEF ReadMappings
<1>3. CASE Withdraw(p)
  <2>1. /\ evaluation'[p].pc = "withdrawn" /\ evaluation'[p].comment = evaluation[p].comment
        /\ proposed'[p] = {} /\ approved'[p] = {} /\ p \notin detected'
        /\ evaluation[p].comment \in Comments
      BY <1>3, <1>a, <1>b DEF Withdraw, TypeOK, Evaluation, ProposedOf, OnlyDerived
  <2>2. ProposedOf(p)'
      BY <2>1 DEF ProposedOf, OnlyDerived
  <2> QED BY <1>3, <2>2, ProposalsChange DEF Withdraw, TypeOK
<1>4. ASSUME Submit(p) \/ SubmitStops(p)
      PROVE  /\ based'[p] = evaluation[p] /\ Sound(evaluation[p])
             /\ evaluation'[p].pc = "idle" /\ approved'[p] = {}
             /\ \A q \in PRs : q # p => evaluation'[q] = evaluation[q] /\ based'[q] = based[q]
  <2>1. evaluation[p].target \in Targets
      BY <1>4 DEF Submit, SubmitStops, TypeOK
  <2>2. Sound(evaluation[p]) /\ approved[p] = {}
      BY <1>4, <1>a, <1>b, <2>1 DEF Submit, SubmitStops, Sound, ProposedOf
  <2> QED BY <1>4, <2>2, IdleType DEF Submit, SubmitStops, TypeOK
<1>5. CASE Submit(p)
  <2>1. proposed'[p] = {ReadBack(m) : m \in Evaluated(evaluation[p])} /\ based'[p] = evaluation[p]
      BY <1>5, <1>4 DEF Submit, TypeOK
  <2>2. /\ OnlyDerived(proposed'[p], based'[p], approved'[p])
        /\ AllDerived(proposed'[p], based'[p], approved'[p])
      BY <1>a, <1>4, <1>5, <2>1, SubmittedIsDerived
  <2>3. ProposedOf(p)'
      BY <1>4, <1>5, <2>2 DEF ProposedOf
  <2> QED BY <1>4, <1>5, <2>3, ProposalsChange DEF Submit
<1>6. CASE SubmitStops(p)
  <2>1. PICK part \in SUBSET Evaluated(evaluation[p]) : proposed'[p] = {ReadBack(m) : m \in part}
      BY <1>6 DEF SubmitStops, TypeOK
  <2>2. OnlyDerived(proposed'[p], based'[p], approved'[p])
      BY <1>a, <1>4, <1>6, <2>1, SubmittedIsDerived
  <2>3. p \notin detected'
      BY <1>6, <1>b DEF SubmitStops
  <2>4. ProposedOf(p)'
      BY <1>4, <1>6, <2>2, <2>3 DEF ProposedOf
  <2> QED BY <1>4, <1>6, <2>4, ProposalsChange DEF SubmitStops
<1>7. CASE EvaluationErrs(p)
  <2>1. /\ evaluation'[p].pc = "idle"
        /\ \A q \in PRs : q # p => evaluation'[q] = evaluation[q]
      BY <1>7, IdleType DEF EvaluationErrs, TypeOK
  <2> QED BY <1>7, <2>1, EvaluationGoesOn DEF EvaluationErrs
<1>8. CASE Unlabel(p)
  <2>1. ProposedOf(p)'
      BY <1>8, <1>a DEF Unlabel, ProposedOf
  <2> QED BY <1>8, <2>1, ProposalsChange DEF Unlabel
<1> QED BY <1>1, <1>2, <1>3, <1>5, <1>6, <1>7, <1>8

LEMMA ApprovingProposes ==
    ASSUME TypeOK, ProposedInv, NEW p \in PRs, NEW m \in proposed[p], ApproveAutorun(p, m)
    PROVE  ProposedInv'
<1>1. ProposedOf(p)
    BY DEF ProposedInv
<1>2. /\ proposed'[p] = (proposed[p] \ {m}) \cup {Approved(m)}
      /\ approved'[p] = approved[p] \cup {Key(m)}
      /\ UNCHANGED <<evaluation, detected, based>>
      /\ \A q \in PRs : q # p => proposed'[q] = proposed[q] /\ approved'[q] = approved[q]
    BY DEF ApproveAutorun, TypeOK
<1>3. Sound(based[p]) /\ OnlyDerived(proposed[p], based[p], approved[p])
    BY <1>1 DEF ProposedOf
<1>4. /\ OnlyDerived(proposed'[p], based[p], approved'[p])
      /\ AllDerived(proposed[p], based[p], approved[p]) =>
             AllDerived(proposed'[p], based[p], approved'[p])
    BY <1>2, <1>3, ApprovedIsDerived
<1>5. evaluation[p].pc # "withdrawn"
    BY <1>1 DEF ProposedOf
<1>6. ProposedOf(p)'
    BY <1>1, <1>2, <1>3, <1>4, <1>5 DEF ProposedOf
<1> QED BY <1>2, <1>6, ProposalsChange

LEMMA ChatopsProposes == TypeOK /\ ProposedInv /\ Chatops => ProposedInv'
<1> SUFFICES ASSUME TypeOK, ProposedInv, Chatops PROVE ProposedInv'
    OBVIOUS
<1>1. UNCHANGED evaluations => ProposedInv'
    BY DEF evaluations, ProposedInv, ProposedOf
<1>2. ASSUME NEW r \in Repos,
             \/ \E owner \in Owners : AddRepo(r, owner)
             \/ \E hint \in Hints : RepoUnmap(r, hint) \/ \E t \in Targets : RepoMap(r, hint, t)
             \/ \E o \in Operators, pc \in {"update", "autorun", "remove"} :
                    ReadRegistration(o, r, pc)
      PROVE  UNCHANGED evaluations
    BY <1>2 DEF AddRepo, RepoUnmap, RepoMap, ReadRegistration
<1>3. ASSUME NEW o \in Operators,
             \/ UpdateRepo(o) \/ RemoveRepo(o) \/ CommandFails(o)
             \/ \E enable \in BOOLEAN : RepoAutorun(o, enable)
      PROVE  UNCHANGED evaluations
    BY <1>3 DEF UpdateRepo, RemoveRepo, CommandFails, RepoAutorun
<1>4. ASSUME NEW p \in PRs, NEW m \in proposed[p], ApproveAutorun(p, m) PROVE ProposedInv'
    BY <1>4, ApprovingProposes
<1> QED BY <1>1, <1>2, <1>3, <1>4 DEF Chatops

LEMMA ProposedStep == TypeOK /\ ProposedInv /\ [Next]_vars => ProposedInv'
<1>1. ProposedInv /\ UNCHANGED vars => ProposedInv'
    BY DEF vars, evaluations, ProposedInv, ProposedOf
<1> QED BY <1>1, ChatopsProposes, EvaluatingProposes DEF Next

-----------------------------------------------------------------------------
(* What a proposed migration is.                                           *)
LEMMA WhatIsProposed ==
    ASSUME ProposedInv, NEW p \in PRs, NEW m \in proposed[p]
    PROVE  \E n \in DOMAIN Diff(based[p]).Statements :
             /\ \E shard \in ShardsFor(based[p], n) : m = Proposal(based[p], approved[p], n, shard)
             /\ m.statement_id = n /\ m.shard \in ShardsFor(based[p], n)
             /\ m = Proposal(based[p], approved[p], m.statement_id, m.shard)
<1>1. PICK n \in DOMAIN Diff(based[p]).Statements : \E shard \in ShardsFor(based[p], n) :
          m = Proposal(based[p], approved[p], n, shard)
    BY DEF ProposedInv, ProposedOf, OnlyDerived
<1>2. PICK shard \in ShardsFor(based[p], n) : m = Proposal(based[p], approved[p], n, shard)
    BY <1>1
<1>3. m.statement_id = n /\ m.shard = shard
    BY <1>2, ProposalKey
<1> QED BY <1>1, <1>2, <1>3

LEMMA StrategyProposed ==
    ASSUME ProposedInv, NEW p \in PRs, NEW m \in proposed[p]
    PROVE  m.strategy = EvaluateStrategy(Diff(based[p]).Statements[m.statement_id],
                                         based[p].autorun \/ Key(m) \in approved[p])
<1>1. PICK e, keys, n, shard : /\ e = based[p] /\ keys = approved[p]
                               /\ n = m.statement_id /\ shard = m.shard
    OBVIOUS
<1>2. m = Proposal(e, keys, n, shard)
    BY <1>1, WhatIsProposed
<1>3. Key(m) = <<n, shard>>
    BY Zenon, <1>1 DEF Key
<1> DEFINE strategy == EvaluateStrategy(Diff(e).Statements[n], e.autorun \/ <<n, shard>> \in keys)
<1>4. Proposal(e, keys, n, shard) = ProposedRow(e, n, shard, strategy)
    BY Zenon, ProposalFields
<1>5. strategy = EvaluateStrategy(Diff(based[p]).Statements[m.statement_id],
                                  based[p].autorun \/ Key(m) \in approved[p])
    BY Zenon, <1>1, <1>3
<1> HIDE DEF strategy
<1>6. m.strategy = strategy
    BY <1>2, <1>4, ProposedRowFields
<1> QED BY Zenon, <1>5, <1>6

(* The approval of a migration gives it what autorun would have given it,  *)
(* although its statement has been rewritten.                              *)
THEOREM ApprovalIsAutorunTheorem == Spec => []ApprovalIsAutorun
<1>1. TypeOK /\ ProposedInv => ApprovalIsAutorun
  <2> SUFFICES ASSUME TypeOK, ProposedInv, NEW p \in PRs, NEW m \in proposed[p],
                      Key(m) \in approved[p]
               PROVE  m.strategy = EvaluateStrategy(
                                       Diff(based[p]).Statements[m.statement_id], TRUE)
      BY DEF ApprovalIsAutorun
  <2>1. (based[p].autorun \/ Key(m) \in approved[p]) = TRUE
      OBVIOUS
  <2> QED BY Zenon, <2>1, StrategyProposed
<1> QED BY <1>1, TypeInit, TypeStep, ProposedInit, ProposedStep, PTL DEF Spec

(* Nothing automatic that nobody has asked for, as long as commands on one *)
(* registration do not overlap.                                            *)
THEOREM AutomaticIsAllowedTheorem == ~CanOverlap => (Spec => []AutomaticIsAllowed)
<1> SUFFICES ASSUME ~CanOverlap PROVE Spec => []AutomaticIsAllowed
    OBVIOUS
<1>1. ObeyInv /\ ProposedInv => AutomaticIsAllowed
  <2> SUFFICES ASSUME ObeyInv, ProposedInv, NEW p \in PRs, NEW m \in proposed[p],
                      m.strategy # "manual", Key(m) \notin approved[p]
               PROVE  based[p].ordered
      BY DEF AutomaticIsAllowed
  <2> DEFINE s == Diff(based[p]).Statements[m.statement_id]
  <2>1. m.strategy = EvaluateStrategy(s, based[p].autorun \/ Key(m) \in approved[p])
      BY Zenon, StrategyProposed
  <2>2. based[p].autorun
      BY Zenon, <2>1 DEF EvaluateStrategy
  <2> QED BY <2>2 DEF ObeyInv, EvaluationsObey
<1>2. ObeyInv /\ TypeOK /\ [Next]_vars => ObeyInv'
    BY ObeyStep
<1> QED BY <1>1, <1>2, TypeInit, TypeStep, ObeyInit, ProposedInit, ProposedStep, PTL DEF Spec

(* What is labelled as detected is all there: one migration per statement  *)
(* and shard, or per statement.                                            *)
THEOREM CoversEveryShardTheorem == Spec => []CoversEveryShard
<1>1. TypeOK /\ ProposedInv => CoversEveryShard
  <2> SUFFICES ASSUME TypeOK, ProposedInv, NEW p \in detected,
                      NEW n \in DOMAIN Diff(based[p]).Statements
               PROVE  /\ {m.shard : m \in MigrationsOf(p, n)} =
                            IF Diff(based[p]).Statements[n].verb \in {"ALTER TABLE", "DROP TABLE"}
                            THEN ShardsOf[based[p].target.cluster] ELSE {""}
                      /\ \A m1, m2 \in MigrationsOf(p, n) : m1.shard = m2.shard => m1 = m2
      BY Zenon DEF CoversEveryShard
  <2> DEFINE s == Diff(based[p]).Statements[n]
  <2>1. p \in PRs /\ Sound(based[p]) /\ AllDerived(proposed[p], based[p], approved[p])
      BY DEF TypeOK, ProposedInv, ProposedOf
  <2>2. s \in Statement /\ Evaluates(s, based[p].target.schema)
    <3>1. Diff(based[p]).Statements \in Seq(Statement)
        BY <2>1, CatalogueAssumption DEF Sound, Diff
    <3>2. s \in Statement
        BY <3>1, ElementOfSeq, LenProperties
    <3> QED BY <2>1, <3>2 DEF Sound, Evaluable, AllEvaluate
  <2>3. ShardsFor(based[p], n) =
            IF s.verb \in {"ALTER TABLE", "DROP TABLE"}
            THEN ShardsOf[based[p].target.cluster] ELSE {""}
      BY Zenon, <2>2, PerShard DEF ShardsFor
  <2>4. \A m \in MigrationsOf(p, n) : m.shard \in ShardsFor(based[p], n)
                     /\ m = Proposal(based[p], approved[p], n, m.shard)
      BY <2>1, WhatIsProposed DEF MigrationsOf
  <2>5. ASSUME NEW shard \in ShardsFor(based[p], n)
        PROVE  \E m \in MigrationsOf(p, n) : m.shard = shard
    <3> DEFINE m == Proposal(based[p], approved[p], n, shard)
    <3>1. m \in proposed[p] /\ m.statement_id = n /\ m.shard = shard
        BY <2>1, ProposalKey DEF AllDerived
    <3> HIDE DEF m
    <3> QED BY <3>1 DEF MigrationsOf
  <2>6. {m.shard : m \in MigrationsOf(p, n)} = ShardsFor(based[p], n)
      BY <2>4, <2>5
  <2>7. ASSUME NEW m1 \in MigrationsOf(p, n), NEW m2 \in MigrationsOf(p, n), m1.shard = m2.shard
        PROVE  m1 = m2
      BY Zenon, <2>4, <2>7
  <2> QED BY Zenon, <2>3, <2>6, <2>7
<1> QED BY <1>1, TypeInit, TypeStep, ProposedInit, ProposedStep, PTL DEF Spec

(* remove-repo removes the registration that it has read and no other.     *)
THEOREM RemovesOnlyWhatItReadTheorem == Spec => RemovesOnlyWhatItRead
<1> DEFINE Removal(r) == \E o \in Operators :
               command[o].pc = "remove" /\ command[o].repo = r
               /\ command[o].copy.id = registered[r].id
<1>1. ASSUME TypeOK, [Next]_vars, NEW r \in Repos,
             registered[r] # NotRegistered, registered'[r] = NotRegistered
      PROVE  Removal(r)
  <2>1. registered' # registered
      BY <1>1
  <2>2. ASSUME NEW x \in Repos, NEW owner, NEW autorun \in BOOLEAN,
               owner \in Owners, UpdateRepository(x, owner, autorun)
        PROVE  FALSE
    <3>1. x = r
        BY <1>1, <2>2 DEF UpdateRepository, TypeOK
    <3>2. registered'[r] \in Registration
      <4>1. registered[r] \in Registration
          BY <1>1 DEF TypeOK
      <4>2. [registered[r] EXCEPT !.owner = owner, !.autorun = autorun] \in Registration
          BY <2>2, <4>1 DEF Registration
      <4>3. registered' = [registered EXCEPT ![r].owner = owner, ![r].autorun = autorun]
          BY <1>1, <2>2, <3>1 DEF UpdateRepository
      <4>4. registered'[r] = [registered[r] EXCEPT !.owner = owner, !.autorun = autorun]
          BY <1>1, <4>1, <4>3 DEF TypeOK, Registration
      <4> QED BY <4>2, <4>4
    <3> QED BY <1>1, <3>2, CatalogueAssumption
  <2>3. ASSUME NEW x \in Repos, NEW owner \in Owners, AddRepo(x, owner) PROVE FALSE
    <3>1. r # x
        BY <1>1, <2>3 DEF AddRepo
    <3> QED BY <1>1, <2>3, <3>1 DEF AddRepo, TypeOK
  <2>4. ASSUME NEW o \in Operators, UpdateRepo(o) PROVE FALSE
      BY <1>1, <2>2, <2>4 DEF UpdateRepo, TypeOK, Registration
  <2>5. ASSUME NEW o \in Operators, NEW enable \in BOOLEAN, RepoAutorun(o, enable) PROVE FALSE
      BY <1>1, <2>2, <2>5 DEF RepoAutorun, TypeOK, Registration
  <2>6. ASSUME NEW o \in Operators, RemoveRepo(o) PROVE Removal(r)
      BY <1>1, <2>6 DEF RemoveRepo, Deletes, TypeOK
  <2>7. UNCHANGED registered \/ Chatops
      BY <1>1 DEF Next, Evaluating, vars, catalogue, ReadRepository, ReadMappings, Withdraw,
                  Submit, SubmitStops, EvaluationErrs, Unlabel
  <2> QED BY <2>1, <2>3, <2>4, <2>5, <2>6, <2>7
          DEF Chatops, RepoMap, RepoUnmap, ReadRegistration, CommandFails, ApproveAutorun,
              catalogue
<1>2. TypeOK /\ [Next]_vars =>
          [\A r \in Repos : registered[r] # NotRegistered /\ registered'[r] = NotRegistered
               => \E o \in Operators :
                      /\ command[o].pc = "remove" /\ command[o].repo = r
                      /\ command[o].copy.id = registered[r].id]_vars
    BY <1>1
<1> QED BY <1>2, TypeInit, TypeStep, PTL DEF Spec, RemovesOnlyWhatItRead
=============================================================================
