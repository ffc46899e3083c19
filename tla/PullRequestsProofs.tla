------------------------- MODULE PullRequestsProofs -------------------------
(***************************************************************************)
(* Theorems about PullRequests, for any number of searchers and forget-pr  *)
(* commands at once and any diffs.                                         *)
(*                                                                         *)
(* Whatever fails and whatever races, no migration is queued before the    *)
(* infra team's approval.  The approval a goroutine acts on may be old, or *)
(* come from the row another one wrote; what makes it hold is that an      *)
(* approval is never made up and, once given, stays.                       *)
(*                                                                         *)
(* The other three take hypotheses, each a behaviour without which TLC     *)
(* finds the property violated: with one prober at a time (OneProber) no   *)
(* statement has two migrations; if labels come off when they are taken    *)
(* off (LabelsComeOff) the detected label is on what has been submitted;   *)
(* and if only the last calls of a step fail (Steadily) complete is what   *)
(* has been migrated.  Each invariant builds on the one before.            *)
(***************************************************************************)
EXTENDS PullRequests, SequenceTheorems, TLAPS

ApprovalIsReal == /\ row.approved => gh.approved
                  /\ \A w \in Workers : copy[w].approved => gh.approved
QueuesApproved == \A w \in Workers : pc[w] = "queue" => copy[w].approved
OnItsWay(m) == m.status \notin {"cancelled", "proposed"}
MovingIsApproved == \A k \in DOMAIN migs : OnItsWay(migs[k]) => gh.approved

ApprovalInv == TypeOK /\ ApprovalIsReal /\ QueuesApproved /\ MovingIsApproved

(* Whatever is read, it is a diff of statements.                           *)
LEMMA DiffsType ==
    /\ DOMAIN Diffs = 1..Len(Diffs) /\ 1 \in 1..Len(Diffs)
    /\ \A v \in 1..Len(Diffs) : Diffs[v] \in Seq(AllTexts)
<1>1. Diffs \in Seq(Seq(AllTexts)) /\ Len(Diffs) > 0
      BY PullRequestsAssumption
<1> HIDE DEF AllTexts
<1>2. Len(Diffs) \in Nat /\ DOMAIN Diffs = 1..Len(Diffs)
      BY <1>1, LenProperties
<1>3. \A v \in 1..Len(Diffs) : Diffs[v] \in Seq(AllTexts)
      BY <1>1, ElementOfSeq
<1> QED  BY <1>1, <1>2, <1>3

LEMMA NoRowType == NoRow \in PRRow /\ ~NoRow.approved
BY DEF NoRow, PRRow, PRStatuses

(* What the statements on the tables return is of the tables' types.       *)
LEMMA SubmittedType ==
    ASSUME TypeOK, NEW r \in PRRow
    PROVE  /\ SubmittedPR(r) \in PRRow
           /\ SubmittedPR(r).id # 0
           /\ SubmittedPR(r).approved = r.approved
BY DEF TypeOK, SubmittedPR, PRRow

LEMMA CancelType ==
    ASSUME NEW m \in Migration, NEW id
    PROVE  Cancel(m, id) \in Migration /\ (OnItsWay(Cancel(m, id)) => OnItsWay(m))
BY DEF Cancel, Migration, OnItsWay

LEMMA CancelStatementType ==
    ASSUME NEW s \in Statement, NEW id
    PROVE  CancelStatement(s, id) \in Statement
BY DEF CancelStatement, Statement

LEMMA ApprovalInit == Init => ApprovalInv
<1> SUFFICES ASSUME Init PROVE ApprovalInv
    OBVIOUS
<1>1. TypeOK
  <2>1. statements \in Seq(Statement) /\ migs \in Seq(Migration)
        BY DEF Init
  <2>2. pc \in [Workers -> Places] /\ copy \in [Workers -> PRRow]
        BY NoRowType DEF Init, Places
  <2>3. found \in [Workers -> SUBSET (1..Len(statements))]
        BY DEF Init
  <2>4. gh \in GitHub /\ comment \in [Workers -> 1..Len(Diffs)]
        BY DiffsType DEF Init, GitHub, Conclusions
  <2>5. mishaps \in 0..MaxMishaps /\ nextId \in Nat \ {0}
    <3>1. MaxMishaps \in Nat
          BY PullRequestsAssumption
    <3> QED  BY <3>1 DEF Init
  <2> QED
    BY <2>1, <2>2, <2>3, <2>4, <2>5, NoRowType DEF Init, TypeOK
<1> QED
    BY <1>1, NoRowType
    DEF Init, ApprovalInv, ApprovalIsReal, QueuesApproved, MovingIsApproved

(* A step that only takes a goroutine elsewhere, not to "queue".           *)
LEMMA MovesOnly ==
    ASSUME ApprovalInv, NEW w \in Workers, NEW place \in Places, OnlyMoves(w, place),
           place = "queue" => copy[w].approved
    PROVE  ApprovalInv'
BY DEF ApprovalInv, TypeOK, ApprovalIsReal, QueuesApproved, MovingIsApproved, OnlyMoves, Go,
       tables

(* A step of GitHub's after which an approval still stands.                *)
LEMMA GitHubStep ==
    ASSUME ApprovalInv, gh' \in GitHub, gh.approved => gh'.approved,
           mishaps' \in 0..MaxMishaps, UNCHANGED <<tables, pc, copy, found, comment>>
    PROVE  ApprovalInv'
<1>1. TypeOK'
      BY DEF ApprovalInv, TypeOK, tables
<1> QED
      BY <1>1 DEF ApprovalInv, ApprovalIsReal, QueuesApproved, MovingIsApproved, tables

(* A migration gets another status.                                        *)
LEMMA MigrationsStep ==
    ASSUME ApprovalInv, migs' \in Seq(Migration),
           \A k \in DOMAIN migs' : OnItsWay(migs'[k]) => gh.approved,
           UNCHANGED <<gh, row, statements, nextId, pc, copy, found, comment, mishaps>>
    PROVE  ApprovalInv'
<1>1. TypeOK'
      BY DEF ApprovalInv, TypeOK
<1> QED
      BY <1>1 DEF ApprovalInv, ApprovalIsReal, QueuesApproved, MovingIsApproved

(* The service dies: every goroutine is gone, and what it knew.            *)
LEMMA DeathStep ==
    ASSUME ApprovalInv, Dies, mishaps' \in 0..MaxMishaps
    PROVE  ApprovalInv'
<1>1. /\ copy' \in [Workers -> PRRow] /\ \A w \in Workers : ~copy'[w].approved
      /\ pc' \in [Workers -> Places] /\ \A w \in Workers : pc'[w] # "queue"
      /\ found' \in [Workers -> SUBSET (1..Len(statements))]
      /\ comment' \in [Workers -> 1..Len(Diffs)]
      BY NoRowType, DiffsType DEF Dies, Places
<1>2. TypeOK'
      BY <1>1 DEF Dies, tables, ApprovalInv, TypeOK
<1> QED  BY <1>1, <1>2
         DEF Dies, tables, ApprovalInv, ApprovalIsReal, QueuesApproved, MovingIsApproved

LEMMA OutsideStep ==
    ASSUME ApprovalInv, Human \/ Close \/ Relabel \/ Migrate \/ Crash \/ Commit \/ ActionStep
    PROVE  ApprovalInv'
<1>a. gh \in GitHub /\ mishaps \in 0..MaxMishaps /\ MaxMishaps \in Nat
      BY PullRequestsAssumption DEF ApprovalInv, TypeOK
<1>1. CASE Human
  <2>1. gh' \in GitHub /\ (gh.approved => gh'.approved)
        BY <1>1, <1>a DEF Human, GitHub
  <2> QED  BY <1>1, <1>a, <2>1, GitHubStep DEF Human
<1>2. CASE Close
  <2>1. gh' \in GitHub /\ (gh.approved => gh'.approved)
        BY <1>2, <1>a DEF Close, GitHub
  <2> QED  BY <1>2, <1>a, <2>1, GitHubStep DEF Close
<1>3. CASE Relabel
  <2>1. gh' \in GitHub /\ (gh.approved => gh'.approved)
        BY <1>3, <1>a DEF Relabel, GitHub
  <2>2. mishaps' \in 0..MaxMishaps
        BY <1>3, <1>a DEF Relabel, Mishap
  <2> QED  BY <1>3, <2>1, <2>2, GitHubStep DEF Relabel
<1>4. CASE Migrate
  <2>1. PICK k \in MigrationsOf(row.id) :
           \/ migs[k].status = "queued"  /\ migs' = [migs EXCEPT ![k].status = "running"]
           \/ migs[k].status = "running" /\ migs' = [migs EXCEPT ![k].status = "complete"]
        BY <1>4 DEF Migrate
  <2> DEFINE m(status) == [migs[k] EXCEPT !.status = status]
  <2>2. k \in 1..Len(migs) /\ migs \in Seq(Migration) /\ migs[k] \in Migration
        BY DEF MigrationsOf, ApprovalInv, TypeOK
  <2>3. gh.approved
        BY <2>1, <2>2 DEF OnItsWay, ApprovalInv, MovingIsApproved
  <2>4. m("running") \in Migration /\ m("complete") \in Migration
        BY <2>2 DEF Migration
  <2>5. migs' \in Seq(Migration)
        BY <2>1, <2>2, <2>4, ExceptSeq
  <2> QED  BY <1>4, <2>3, <2>5, MigrationsStep DEF Migrate
<1>5. CASE Crash
  <2>1. mishaps' \in 0..MaxMishaps
        BY <1>5, <1>a DEF Crash, Mishap
  <2> QED  BY <1>5, <2>1, DeathStep DEF Crash
<1>6. CASE Commit
  <2>1. gh' \in GitHub /\ (gh.approved => gh'.approved)
        BY <1>6, <1>a DEF Commit, GitHub, Running, Conclusions
  <2>2. mishaps' \in 0..MaxMishaps
    <3>1. Mishap
          BY <1>6 DEF Commit
    <3> QED  BY <3>1, <1>a DEF Mishap
  <2> QED  BY <1>6, <2>1, <2>2, GitHubStep DEF Commit
<1>7. CASE Validate
  <2>1. gh' \in GitHub /\ (gh.approved => gh'.approved)
        BY <1>7, <1>a DEF Validate, GitHub, Running, Conclusions
  <2> QED  BY <1>7, <1>a, <2>1, GitHubStep DEF Validate
<1>8. CASE DropLabel
  <2>1. PICK stays \in BOOLEAN :
           gh' = [gh EXCEPT !.action = "edit", !.detected = @ /\ stays]
        BY <1>8 DEF DropLabel
  <2>2. gh' \in GitHub /\ (gh.approved => gh'.approved)
        BY <2>1, <1>a DEF GitHub, Running
  <2> QED  BY <1>8, <1>a, <2>2, GitHubStep DEF DropLabel
<1>9. CASE EditComment
  <2>1. PICK v \in 1..Len(Diffs) : gh' = [gh EXCEPT !.action = "success", !.diff = v]
        BY <1>9, DiffsType DEF EditComment
  <2>2. gh' \in GitHub /\ (gh.approved => gh'.approved)
        BY <2>1, <1>a DEF GitHub, Conclusions
  <2> QED  BY <1>9, <1>a, <2>2, GitHubStep DEF EditComment
<1> QED  BY <1>1, <1>2, <1>3, <1>4, <1>5, <1>6, <1>7, <1>8, <1>9 DEF ActionStep

(* A goroutine's copy is replaced, and nothing else.                       *)
LEMMA CopyStep ==
    ASSUME ApprovalInv, NEW w \in Workers, NEW r \in PRRow, r.approved => gh.approved,
           copy' = [copy EXCEPT ![w] = r],
           NEW place \in Places, place # "queue", Go(w, place),
           mishaps' \in 0..MaxMishaps, UNCHANGED <<gh, tables, found, comment>>
    PROVE  ApprovalInv'
<1>1. TypeOK'
      BY DEF ApprovalInv, TypeOK, Go, tables
<1> QED
      BY <1>1 DEF ApprovalInv, TypeOK, ApprovalIsReal, QueuesApproved, MovingIsApproved, Go,
                  tables

LEMMA EndStep ==
    ASSUME ApprovalInv, NEW w \in Workers, NEW place \in Places, place # "queue",
           Go(w, place), Keeps(w, place),
           mishaps' \in 0..MaxMishaps, UNCHANGED <<gh, tables, found, comment>>
    PROVE  ApprovalInv'
<1>1. CASE place = "idle"
      BY <1>1, NoRowType, CopyStep DEF Keeps
<1>2. CASE place # "idle"
  <2>1. copy' = [copy EXCEPT ![w] = copy[w]] /\ copy[w] \in PRRow
        BY <1>2 DEF Keeps, ApprovalInv, TypeOK
  <2> QED  BY <2>1, CopyStep DEF ApprovalInv, ApprovalIsReal
<1> QED  BY <1>1, <1>2

(* The row after the answers about reviews.                                *)
LEMMA AnsweredType ==
    ASSUME NEW c \in PRRow, NEW x \in BOOLEAN, NEW y \in BOOLEAN, NEW z \in BOOLEAN
    PROVE  /\ [c EXCEPT !.reviewed = x, !.asked = y, !.approved = z] \in PRRow
           /\ [c EXCEPT !.reviewed = x, !.asked = y, !.approved = z].approved = z
BY DEF PRRow

(* The goroutines that search, and those steps all have in common.         *)
LEMMA SearchOrProbeStep ==
    ASSUME ApprovalInv, NEW w \in Workers, SearchStep(w) \/ ProbeStep(w) \/ CallFails(w)
    PROVE  ApprovalInv'
<1>a. /\ gh \in GitHub /\ row \in PRRow /\ copy[w] \in PRRow
      /\ mishaps \in 0..MaxMishaps /\ MaxMishaps \in Nat
      /\ row.approved => gh.approved
      /\ copy[w].approved => gh.approved
      BY PullRequestsAssumption DEF ApprovalInv, TypeOK, ApprovalIsReal
<1>1. CASE Search(w)
      BY <1>1, MovesOnly DEF Search, Places
<1>2. CASE Recognize(w)
  <2>1. CASE copy' = [copy EXCEPT ![w] = row] /\ Go(w, "reviews")
        BY <1>2, <1>a, <2>1, CopyStep DEF Recognize, Places, Calls
  <2>2. CASE Go(w, "idle") /\ UNCHANGED copy
        BY <1>2, <2>2, MovesOnly DEF Recognize, Places, OnlyMoves
  <2> QED  BY <1>2, <2>1, <2>2 DEF Recognize
<1>3. CASE ProbeReviews(w)
  <2> DEFINE r == [copy[w] EXCEPT !.reviewed = gh.reviewed, !.asked = gh.asked,
                                  !.approved = gh.approved]
  <2>1. r \in PRRow /\ (r.approved => gh.approved)
        BY <1>a DEF PRRow, GitHub
  <2>2. copy' = [copy EXCEPT ![w] = r] /\ Go(w, "pull")
        BY <1>3 DEF ProbeReviews
  <2> QED  BY <1>3, <1>a, <2>1, <2>2, CopyStep DEF ProbeReviews, Places, Calls
<1>4. CASE ProbePull(w)
  <2> DEFINE r == [copy[w] EXCEPT !.open = gh.open, !.forReview = gh.forReview,
                                  !.detected = gh.detected, !.queued = gh.queued]
  <2>1. r \in PRRow /\ (r.approved => gh.approved)
        BY <1>a DEF PRRow, GitHub
  <2>2. copy' = [copy EXCEPT ![w] = r] /\ Go(w, "submit")
        BY <1>4 DEF ProbePull
  <2> QED  BY <1>4, <1>a, <2>1, <2>2, CopyStep DEF ProbePull, Places
<1>5. CASE SubmitPR(w)
  <2>1. /\ row' \in PRRow /\ row'.id # 0
        /\ row'.approved => gh.approved
        BY <1>5, <1>a, SubmittedType DEF SubmitPR, ApprovalInv
  <2>2. /\ copy' \in [Workers -> PRRow]
        /\ \A v \in Workers : copy'[v].approved => gh.approved
        /\ \A v \in Workers : v # w => copy'[v] = copy[v]
        BY <1>5, <1>a, NoRowType
        DEF SubmitPR, Keeps, ApprovalInv, TypeOK, ApprovalIsReal
  <2>3. /\ pc' \in [Workers -> Places] /\ pc'[w] # "queue"
        /\ \A v \in Workers : v # w => pc'[v] = pc[v]
        BY <1>5 DEF SubmitPR, Go, ApprovalInv, TypeOK, Places
  <2>4. nextId' \in Nat \ {0}
        BY <1>5 DEF SubmitPR, ApprovalInv, TypeOK
  <2>5. TypeOK'
        BY <1>5, <2>1, <2>2, <2>3, <2>4 DEF SubmitPR, ApprovalInv, TypeOK
  <2>6. ApprovalIsReal' /\ QueuesApproved'
        BY <1>5, <2>1, <2>2, <2>3 DEF SubmitPR, ApprovalInv, ApprovalIsReal, QueuesApproved
  <2> QED  BY <1>5, <2>5, <2>6 DEF SubmitPR, ApprovalInv, MovingIsApproved
<1>6. CASE CallFails(w)
  <2>1. mishaps' \in 0..MaxMishaps
        BY <1>6, <1>a DEF CallFails, Mishap
  <2>2. CASE w \in Probers /\ pc[w] \in {"reviews", "pull"}
    <3>1. PICK r \in {copy[w]} \cup {Answered(copy[w], n) : n \in 1..3} :
             Go(w, "analyze") /\ copy' = [copy EXCEPT ![w] = r]
          BY <1>6, <2>2 DEF CallFails
    <3>2. ASSUME NEW n \in 1..3
          PROVE  /\ Answered(copy[w], n) \in PRRow
                 /\ Answered(copy[w], n).approved => copy[w].approved
      <4> DEFINE x == IF n = 1 THEN FALSE ELSE gh.reviewed
                 y == IF n = 1 THEN copy[w].asked ELSE IF n = 2 THEN FALSE ELSE gh.asked
                 z == IF n = 3 THEN FALSE ELSE copy[w].approved
      <4>1. Answered(copy[w], n) = [copy[w] EXCEPT !.reviewed = x, !.asked = y, !.approved = z]
            BY DEF Answered
      <4>2. /\ copy[w].asked \in BOOLEAN /\ copy[w].approved \in BOOLEAN
            /\ gh.reviewed \in BOOLEAN /\ gh.asked \in BOOLEAN
            BY <1>a DEF PRRow, GitHub
      <4>3. x \in BOOLEAN /\ y \in BOOLEAN /\ z \in BOOLEAN /\ (z => copy[w].approved)
            BY <4>2
      <4> HIDE DEF x, y, z
      <4>4. /\ [copy[w] EXCEPT !.reviewed = x, !.asked = y, !.approved = z] \in PRRow
            /\ [copy[w] EXCEPT !.reviewed = x, !.asked = y, !.approved = z].approved = z
            BY <1>a, <4>3 DEF PRRow
      <4> QED  BY <4>1, <4>3, <4>4, ZenonT(20)
    <3>3. r \in PRRow /\ (r.approved => gh.approved)
          BY <1>a, <3>2
    <3> QED  BY <1>6, <1>a, <2>1, <3>1, <3>3, CopyStep DEF CallFails, Places
  <2>3. CASE ~(w \in Probers /\ pc[w] \in {"reviews", "pull"})
    <3> DEFINE place == IF w \in Probers THEN "completed" ELSE "idle"
    <3>1. place \in Places /\ place # "queue"
          BY DEF Places
    <3>2. pc' = [pc EXCEPT ![w] = place] /\ pc'[w] = place
          BY <1>6, <2>3 DEF CallFails, Go, ApprovalInv, TypeOK
    <3>3. Go(w, place) /\ Keeps(w, place)
          BY <1>6, <2>3, <3>2 DEF CallFails, Go
    <3> HIDE DEF place
    <3> QED  BY <1>6, <2>1, <3>1, <3>3, EndStep DEF CallFails
  <2> QED  BY <2>2, <2>3
<1> QED  BY <1>1, <1>2, <1>3, <1>4, <1>5, <1>6 DEF SearchStep, ProbeStep

(* Evaluation: the tables grow by what is proposed, or shrink.             *)
LEMMA EvaluateKeeps ==
    ASSUME ApprovalInv, NEW p \in Probers, EvaluateStep(p)
    PROVE  ApprovalInv'
<1>a. /\ p \in Workers /\ gh \in GitHub /\ copy[p] \in PRRow
      /\ statements \in Seq(Statement) /\ migs \in Seq(Migration)
      /\ found[p] \subseteq 1..Len(statements)
      BY DEF Workers, ApprovalInv, TypeOK
<1>b. \A place : Go(p, place) /\ place \in Places /\ place # "queue" =>
          /\ pc' \in [Workers -> Places]
          /\ \A w \in Workers : pc'[w] = "queue" => pc[w] = "queue"
      BY <1>a DEF Go, ApprovalInv, TypeOK
<1>1. CASE Checks(p)
  <2> DEFINE place == IF gh.action = "success" THEN "forget" ELSE "completed"
  <2>1. place \in Places /\ place # "queue" /\ OnlyMoves(p, place)
        BY <1>1 DEF Checks, Places
  <2> HIDE DEF place
  <2> QED  BY <1>a, <2>1, MovesOnly
<1>2. CASE Forget(p)
  <2>1. statements' \in Seq(Statement) /\ Len(statements') = Len(statements)
    <3>1. \A k \in 1..Len(statements) : CancelStatement(statements[k], copy[p].id) \in Statement
          BY <1>a, CancelStatementType
    <3>2. DOMAIN statements = 1..Len(statements) /\ Len(statements) \in Nat
          BY <1>a
    <3>3. statements' = [k \in 1..Len(statements) |-> CancelStatement(statements[k], copy[p].id)]
          BY <1>2, <3>2 DEF Forget
    <3> QED  BY <3>1, <3>2, <3>3
  <2>2. migs' \in Seq(Migration) /\ DOMAIN migs' = DOMAIN migs
    <3>1. \A k \in 1..Len(migs) : Cancel(migs[k], copy[p].id) \in Migration
          BY <1>a, CancelType
    <3>2. DOMAIN migs = 1..Len(migs) /\ Len(migs) \in Nat
          BY <1>a
    <3>3. migs' = [k \in 1..Len(migs) |-> Cancel(migs[k], copy[p].id)]
          BY <1>2, <3>2 DEF Forget
    <3> QED  BY <3>1, <3>2, <3>3
  <2>3. \A k \in DOMAIN migs' : OnItsWay(migs'[k]) => OnItsWay(migs[k])
        BY <1>2, <1>a, CancelType DEF Forget
  <2>4. pc' \in [Workers -> Places] /\ \A w \in Workers : pc'[w] = "queue" => pc[w] = "queue"
        BY <1>2, <1>b DEF Forget, Places
  <2>6. comment' \in [Workers -> 1..Len(Diffs)]
    <3>1. gh.diff \in 1..Len(Diffs)
          BY <1>a DEF GitHub
    <3> QED  BY <1>2, <1>a, <3>1 DEF Forget, ApprovalInv, TypeOK
  <2>5. TypeOK'
        BY <1>2, <2>1, <2>2, <2>4, <2>6 DEF Forget, ApprovalInv, TypeOK
  <2> QED  BY <1>2, <2>2, <2>3, <2>4, <2>5
           DEF Forget, ApprovalInv, ApprovalIsReal, QueuesApproved, MovingIsApproved
<1>3. CASE SubmitPRStatements(p)
  <2> DEFINE diff == Diffs[comment[p]]
             new == [i \in DOMAIN diff |-> [pr |-> copy[p].id, text |-> diff[i],
                                            status |-> "suggested"]]
  <2>a. diff \in Seq(AllTexts)
    <3>1. comment[p] \in 1..Len(Diffs)
          BY <1>3, <1>a DEF SubmitPRStatements, ApprovalInv, TypeOK
    <3> QED  BY <3>1, DiffsType
  <2>1. new \in Seq(Statement)
    <3> HIDE DEF diff
    <3>1. DOMAIN diff = 1..Len(diff) /\ Len(diff) \in Nat
          BY <2>a
    <3>2. \A i \in 1..Len(diff) : [pr |-> copy[p].id, text |-> diff[i],
                                    status |-> "suggested"] \in Statement
          BY <1>a, <2>a, <3>1 DEF Statement, PRRow
    <3> QED  BY <3>1, <3>2
  <2>2. statements' = statements \o new
        BY <1>3 DEF SubmitPRStatements
  <2> HIDE DEF new
  <2>3. /\ statements' \in Seq(Statement) /\ Len(statements') >= Len(statements)
        /\ Len(statements) \in Nat /\ Len(statements') \in Nat
        BY <1>a, <2>1, <2>2, ConcatProperties
  <2>4. found' \in [Workers -> SUBSET (1..Len(statements'))]
    <3>1. (1..Len(statements)) \subseteq (1..Len(statements'))
          BY <2>3
    <3>2. found' = found /\ found \in [Workers -> SUBSET (1..Len(statements))]
          BY <1>3 DEF SubmitPRStatements, ApprovalInv, TypeOK
    <3> QED  BY <3>1, <3>2
  <2>5. pc' \in [Workers -> Places] /\ \A w \in Workers : pc'[w] = "queue" => pc[w] = "queue"
        BY <1>3, <1>b DEF SubmitPRStatements, Places
  <2>7. comment' \in [Workers -> 1..Len(Diffs)]
        BY <1>3, DiffsType DEF SubmitPRStatements, ApprovalInv, TypeOK
  <2>6. TypeOK'
        BY <1>3, <2>3, <2>4, <2>5, <2>7 DEF SubmitPRStatements, ApprovalInv, TypeOK
  <2> QED  BY <1>3, <2>5, <2>6 DEF SubmitPRStatements, ApprovalInv, ApprovalIsReal,
                                   QueuesApproved, MovingIsApproved
<1>4. CASE ReadStatements(p)
  <2>1. StatementsOf(copy[p].id) \subseteq 1..Len(statements)
        BY <1>a DEF StatementsOf
  <2>2. found' \in [Workers -> SUBSET (1..Len(statements))]
        BY <1>4, <1>a, <2>1 DEF ReadStatements, ApprovalInv, TypeOK
  <2>3. pc' \in [Workers -> Places] /\ \A w \in Workers : pc'[w] = "queue" => pc[w] = "queue"
        BY <1>4, <1>b DEF ReadStatements, Places, Calls
  <2>4. TypeOK'
        BY <1>4, <2>2, <2>3 DEF ReadStatements, tables, ApprovalInv, TypeOK
  <2> QED  BY <1>4, <2>3, <2>4 DEF ReadStatements, tables, ApprovalInv, ApprovalIsReal,
                                   QueuesApproved, MovingIsApproved
<1>5. CASE Comment(p)
      BY <1>5, <1>a, MovesOnly DEF Comment, Places
<1>6. CASE SubmitMigration(p)
  <2>1. PICK k \in found[p] :
           /\ migs' = Append(migs, [pr |-> copy[p].id, text |-> statements[k].text,
                                    status |-> "proposed"])
           /\ found' = [found EXCEPT ![p] = @ \ {k}]
        BY <1>6 DEF SubmitMigration
  <2> DEFINE m == [pr |-> copy[p].id, text |-> statements[k].text, status |-> "proposed"]
  <2>2. m \in Migration /\ ~OnItsWay(m)
    <3>1. statements[k] \in Statement
          BY <1>a
    <3> QED  BY <1>a, <3>1 DEF Statement, Migration, PRRow, OnItsWay
  <2>3. migs' = Append(migs, m)
        BY <2>1
  <2> HIDE DEF m
  <2>4. migs' \in Seq(Migration)
        BY <1>a, <2>2, <2>3, AppendProperties
  <2>5. \A j \in DOMAIN migs' : OnItsWay(migs'[j]) => j \in DOMAIN migs /\ OnItsWay(migs[j])
        BY <1>a, <2>2, <2>3
  <2>6. found' \in [Workers -> SUBSET (1..Len(statements))]
        BY <2>1, <1>a DEF ApprovalInv, TypeOK
  <2>7. TypeOK'
        BY <1>6, <2>4, <2>6 DEF SubmitMigration, ApprovalInv, TypeOK
  <2> QED  BY <1>6, <2>5, <2>7 DEF SubmitMigration, ApprovalInv, ApprovalIsReal,
                                   QueuesApproved, MovingIsApproved
<1>7. CASE MigrationsSubmitted(p)
      BY <1>7, <1>a, MovesOnly DEF MigrationsSubmitted, Places, Calls
<1>8. CASE LabelDetected(p)
  <2>1. gh' \in GitHub /\ gh'.approved = gh.approved
        BY <1>8, <1>a DEF LabelDetected, GitHub
  <2>2. pc' \in [Workers -> Places] /\ \A w \in Workers : pc'[w] = "queue" => pc[w] = "queue"
        BY <1>8, <1>b DEF LabelDetected, Places
  <2>3. TypeOK'
        BY <1>8, <2>1, <2>2 DEF LabelDetected, tables, ApprovalInv, TypeOK
  <2> QED  BY <1>8, <2>1, <2>2, <2>3 DEF LabelDetected, tables, ApprovalInv,
                          ApprovalIsReal, QueuesApproved, MovingIsApproved
<1>9. CASE NoStatements(p)
      BY <1>9, <1>a, MovesOnly DEF NoStatements, Places
<1> QED  BY <1>1, <1>2, <1>3, <1>4, <1>5, <1>6, <1>7, <1>8, <1>9 DEF EvaluateStep

(* A prober asks, queues, and marks what is done.                          *)
LEMMA ProberKeeps ==
    ASSUME ApprovalInv, NEW p \in Probers, ProberStep(p)
    PROVE  ApprovalInv'
<1>a. /\ p \in Workers /\ gh \in GitHub /\ copy[p] \in PRRow /\ row \in PRRow
      /\ statements \in Seq(Statement) /\ migs \in Seq(Migration)
      /\ row.approved => gh.approved
      /\ mishaps \in 0..MaxMishaps
      BY DEF Workers, ApprovalInv, TypeOK, ApprovalIsReal
<1>b. \A place : Go(p, place) /\ place \in Places /\ place # "queue" =>
          /\ pc' \in [Workers -> Places]
          /\ \A w \in Workers : pc'[w] = "queue" => pc[w] = "queue"
      BY <1>a DEF Go, ApprovalInv, TypeOK
<1>1. CASE ReadOpen(p)
  <2> DEFINE place == IF row.open THEN "reviews" ELSE "completed"
  <2>1. place \in Places /\ place # "queue"
        BY DEF Places, Calls
  <2>2. Go(p, place) /\ copy' = [copy EXCEPT ![p] = row]
        BY <1>1 DEF ReadOpen
  <2> HIDE DEF place
  <2> QED  BY <1>1, <1>a, <2>1, <2>2, CopyStep DEF ReadOpen
<1>2. CASE Analyze(p)
  <2> DEFINE place == IF ~Active(copy[p]) THEN "completed"
                      ELSE IF ~copy[p].detected THEN "checks"
                      ELSE IF MayQueue(copy[p]) THEN "queue"
                      ELSE IF NeedsAsking(copy[p]) THEN "ask" ELSE "completed"
  <2>1. place \in Places
        BY DEF Places, Calls
  <2>2. place = "queue" => copy[p].approved
        BY DEF MayQueue
  <2>3. OnlyMoves(p, place)
        BY <1>2 DEF Analyze
  <2> HIDE DEF place
  <2> QED  BY <1>a, <2>1, <2>2, <2>3, MovesOnly
<1>3. CASE EvaluateStep(p)
      BY <1>3, EvaluateKeeps
<1>4. CASE Ask(p)
  <2>1. gh' \in GitHub /\ gh'.approved = gh.approved
        BY <1>4, <1>a DEF Ask, GitHub
  <2>2. pc' \in [Workers -> Places] /\ \A w \in Workers : pc'[w] = "queue" => pc[w] = "queue"
        BY <1>4, <1>b DEF Ask, Places
  <2>3. TypeOK'
        BY <1>4, <2>1, <2>2 DEF Ask, tables, ApprovalInv, TypeOK
  <2> QED  BY <1>4, <2>1, <2>2, <2>3 DEF Ask, tables, ApprovalInv, ApprovalIsReal,
                                         QueuesApproved, MovingIsApproved
<1>5. CASE Queue(p)
  <2>1. gh.approved
        BY <1>5, <1>a DEF Queue, ApprovalInv, QueuesApproved, ApprovalIsReal
  <2>2. row' \in PRRow /\ row'.id = row.id /\ (row.id = 0 => row' = row)
    <3>1. row.id = 0 => row = NoRow
          BY DEF ApprovalInv, TypeOK
    <3> QED  BY <1>5, <1>a, <3>1 DEF Queue, IsRow, PRRow, PRStatuses
  <2>3. statements' \in Seq(Statement) /\ Len(statements') = Len(statements)
    <3>1. \A k \in 1..Len(statements) :
             [statements[k] EXCEPT !.status = "approved"] \in Statement
      <4> TAKE k \in 1..Len(statements)
      <4>1. statements[k] \in Statement
            BY <1>a
      <4> QED  BY <4>1 DEF Statement
    <3> DEFINE s(k) == IF statements[k].pr = copy[p].id /\ statements[k].status = "suggested"
                       THEN [statements[k] EXCEPT !.status = "approved"] ELSE statements[k]
    <3>2. \A k \in 1..Len(statements) : s(k) \in Statement
          BY <1>a, <3>1
    <3>3. statements' = [k \in DOMAIN statements |-> s(k)]
          BY <1>5 DEF Queue
    <3>4. DOMAIN statements = 1..Len(statements) /\ Len(statements) \in Nat
          BY <1>a
    <3> HIDE DEF s
    <3> QED  BY <3>2, <3>3, <3>4
  <2>4. migs' \in Seq(Migration)
    <3>1. \A k \in 1..Len(migs) : [migs[k] EXCEPT !.status = "queued"] \in Migration
      <4> TAKE k \in 1..Len(migs)
      <4>1. migs[k] \in Migration
            BY <1>a
      <4> QED  BY <4>1 DEF Migration
    <3> DEFINE m(k) == IF migs[k].pr = copy[p].id /\ migs[k].status = "proposed"
                       THEN [migs[k] EXCEPT !.status = "queued"] ELSE migs[k]
    <3>2. \A k \in 1..Len(migs) : m(k) \in Migration
          BY <1>a, <3>1
    <3>3. migs' = [k \in DOMAIN migs |-> m(k)]
          BY <1>5 DEF Queue
    <3>4. DOMAIN migs = 1..Len(migs) /\ Len(migs) \in Nat
          BY <1>a
    <3> HIDE DEF m
    <3> QED  BY <3>2, <3>3, <3>4
  <2>5. pc' \in [Workers -> Places] /\ \A w \in Workers : pc'[w] = "queue" => pc[w] = "queue"
        BY <1>5, <1>b DEF Queue, Places, Calls
  <2>6. TypeOK'
        BY <1>5, <2>2, <2>3, <2>4, <2>5 DEF Queue, ApprovalInv, TypeOK
  <2>7. QueuesApproved'
        BY <1>5, <2>5 DEF Queue, ApprovalInv, QueuesApproved
  <2> QED  BY <1>5, <2>1, <2>6, <2>7
           DEF Queue, ApprovalInv, ApprovalIsReal, MovingIsApproved
<1>6. CASE LabelQueued(p)
  <2>1. gh' \in GitHub /\ gh'.approved = gh.approved
        BY <1>6, <1>a DEF LabelQueued, GitHub
  <2>2. pc' \in [Workers -> Places] /\ \A w \in Workers : pc'[w] = "queue" => pc[w] = "queue"
        BY <1>6, <1>b DEF LabelQueued, Places
  <2>3. TypeOK'
        BY <1>6, <2>1, <2>2 DEF LabelQueued, tables, ApprovalInv, TypeOK
  <2> QED  BY <1>6, <2>1, <2>2, <2>3 DEF LabelQueued, tables, ApprovalInv,
                          ApprovalIsReal, QueuesApproved, MovingIsApproved
<1>7. CASE ReadCompleted(p)
  <2>1. CASE Go(p, "complete") /\ copy' = [copy EXCEPT ![p] = row]
        BY <1>7, <1>a, <2>1, CopyStep DEF ReadCompleted, Places
  <2>2. CASE Go(p, "idle") /\ Keeps(p, "idle")
        BY <1>7, <1>a, <2>2, EndStep DEF ReadCompleted, Places
  <2> QED  BY <1>7, <2>1, <2>2 DEF ReadCompleted
<1>8. CASE Complete(p)
  <2>1. /\ row' \in PRRow /\ row'.id = row.id /\ row'.approved = row.approved
        /\ row.id = 0 => row' = row
        BY <1>8, <1>a DEF Complete, IsRow, PRRow, PRStatuses
  <2>2. /\ copy' \in [Workers -> PRRow]
        /\ \A w \in Workers : copy'[w].approved => gh.approved
        /\ \A w \in Workers : w # p => copy'[w] = copy[w]
        BY <1>8, NoRowType DEF Complete, Keeps, ApprovalInv, TypeOK, ApprovalIsReal
  <2>3. /\ pc' \in [Workers -> Places] /\ pc'[p] # "queue"
        /\ \A w \in Workers : w # p => pc'[w] = pc[w]
        BY <1>8, <1>a DEF Complete, Go, ApprovalInv, TypeOK, Places
  <2>4. TypeOK'
        BY <1>8, <2>1, <2>2, <2>3 DEF Complete, ApprovalInv, TypeOK
  <2>5. ApprovalIsReal' /\ QueuesApproved'
        BY <1>8, <1>a, <2>1, <2>2, <2>3
        DEF Complete, ApprovalInv, ApprovalIsReal, QueuesApproved
  <2> QED  BY <1>8, <2>4, <2>5 DEF Complete, ApprovalInv, MovingIsApproved
<1>9. CASE UnlabelQueued(p)
  <2>1. gh' \in GitHub /\ gh'.approved = gh.approved
        BY <1>9, <1>a DEF UnlabelQueued, GitHub
  <2>2. /\ copy' \in [Workers -> PRRow]
        /\ \A w \in Workers : copy'[w].approved => gh.approved
        /\ \A w \in Workers : w # p => copy'[w] = copy[w]
        BY <1>9, NoRowType DEF UnlabelQueued, Keeps, ApprovalInv, TypeOK, ApprovalIsReal
  <2>3. /\ pc' \in [Workers -> Places] /\ pc'[p] # "queue"
        /\ \A w \in Workers : w # p => pc'[w] = pc[w]
        BY <1>9, <1>a DEF UnlabelQueued, Go, ApprovalInv, TypeOK, Places
  <2>4. TypeOK'
        BY <1>9, <2>1, <2>2, <2>3 DEF UnlabelQueued, tables, ApprovalInv, TypeOK
  <2> QED  BY <1>9, <1>a, <2>1, <2>2, <2>3, <2>4 DEF UnlabelQueued, tables, ApprovalInv,
                          ApprovalIsReal, QueuesApproved, MovingIsApproved
<1> QED
    BY <1>1, <1>2, <1>3, <1>4, <1>5, <1>6, <1>7, <1>8, <1>9 DEF ProberStep

(* What is deleted stays of the tables' types.                             *)
LEMMA DeletedType ==
    ASSUME NEW id
    PROVE  /\ \A m \in Migration : /\ Deleted(m, id) \in Migration
                                   /\ OnItsWay(Deleted(m, id)) => OnItsWay(m)
           /\ \A s \in Statement : Deleted(s, id) \in Statement
BY DEF Deleted, Migration, Statement, OnItsWay

(* forget-pr deletes what others have written and removes labels.          *)
LEMMA ForgetKeeps ==
    ASSUME ApprovalInv, NEW f \in Forgetters, ReadLabels(f) \/ ForgetStep(f)
    PROVE  ApprovalInv'
<1>a. /\ f \in Workers /\ gh \in GitHub /\ copy[f] \in PRRow /\ row \in PRRow
      /\ statements \in Seq(Statement) /\ migs \in Seq(Migration)
      /\ copy[f].approved => gh.approved
      /\ mishaps \in 0..MaxMishaps /\ MaxMishaps \in Nat
      BY PullRequestsAssumption DEF Workers, ApprovalInv, TypeOK, ApprovalIsReal
<1>b. ASSUME NEW place \in Places, place # "queue", Go(f, place), Keeps(f, place)
      PROVE  /\ pc' \in [Workers -> Places]
             /\ \A w \in Workers : pc'[w] = "queue" => pc[w] = "queue"
             /\ \A w \in Workers : pc'[w] = "queue" => copy'[w] = copy[w]
             /\ copy' \in [Workers -> PRRow]
             /\ \A w \in Workers : copy'[w].approved => gh.approved
  <2>1. /\ pc' \in [Workers -> Places] /\ pc'[f] # "queue"
        /\ \A w \in Workers : w # f => pc'[w] = pc[w]
        BY <1>a, <1>b DEF Go, ApprovalInv, TypeOK
  <2>2. /\ copy' \in [Workers -> PRRow]
        /\ \A w \in Workers : w # f => copy'[w] = copy[w]
        /\ \A w \in Workers : copy'[w].approved => gh.approved
        BY <1>a, <1>b, NoRowType DEF Keeps, ApprovalInv, TypeOK, ApprovalIsReal
  <2> QED  BY <2>1, <2>2
<1>c. ASSUME NEW labels, NEW place
      PROVE  NextRemoval(labels, place) \in Places /\ NextRemoval(labels, place) # "queue"
      BY DEF NextRemoval, Places, Calls
<1>1. CASE ReadLabels(f)
  <2> DEFINE r == [NoRow EXCEPT !.detected = gh.detected, !.queued = gh.queued]
  <2>1. r \in PRRow /\ ~r.approved
        BY <1>a, NoRowType DEF PRRow, GitHub
  <2>2. copy' = [copy EXCEPT ![f] = r] /\ Go(f, "find row")
        BY <1>1 DEF ReadLabels
  <2>3. mishaps' \in 0..MaxMishaps
    <3>1. Mishap
          BY <1>1 DEF ReadLabels
    <3> QED  BY <3>1, <1>a DEF Mishap
  <2> HIDE DEF r
  <2> QED  BY <1>1, <1>a, <2>1, <2>2, <2>3, CopyStep DEF ReadLabels, Places
<1>2. CASE FindRow(f)
  <2>1. CASE Go(f, "delete row") /\ copy' = [copy EXCEPT ![f].id = row.id]
    <3> DEFINE r == [copy[f] EXCEPT !.id = row.id]
    <3>1. r \in PRRow /\ (r.approved => gh.approved)
          BY <1>a DEF PRRow
    <3>2. copy' = [copy EXCEPT ![f] = r]
          BY <2>1
    <3> HIDE DEF r
    <3> QED  BY <1>2, <1>a, <2>1, <3>1, <3>2, CopyStep DEF FindRow, Places
  <2>2. CASE Go(f, "idle") /\ Keeps(f, "idle")
        BY <1>2, <1>a, <2>2, EndStep DEF FindRow, Places
  <2> QED  BY <1>2, <2>1, <2>2 DEF FindRow
<1>3. CASE DeleteRow(f)
  <2> DEFINE place == NextRemoval(copy[f], "delete row")
             id == copy[f].id
  <2>1. Go(f, place) /\ pc'[f] = place
        BY <1>3, <1>a DEF DeleteRow, Go, ApprovalInv, TypeOK
  <2>2. Keeps(f, place)
        BY <1>3, <2>1 DEF DeleteRow
  <2>3. place \in Places /\ place # "queue"
        BY <1>c
  <2> HIDE DEF place
  <2>4. /\ pc' \in [Workers -> Places] /\ \A w \in Workers : pc'[w] = "queue" => pc[w] = "queue"
        /\ \A w \in Workers : pc'[w] = "queue" => copy'[w] = copy[w]
        /\ copy' \in [Workers -> PRRow]
             /\ \A w \in Workers : copy'[w].approved => gh.approved
        BY <1>b, <2>1, <2>2, <2>3
  <2>5. row' \in PRRow /\ (row'.id = 0 => row' = NoRow) /\ (row'.approved => gh.approved)
        BY <1>3, <1>a, NoRowType DEF DeleteRow, ApprovalInv, TypeOK, ApprovalIsReal
  <2>6. statements' \in Seq(Statement) /\ Len(statements') = Len(statements)
    <3>1. \A k \in 1..Len(statements) : Deleted(statements[k], id) \in Statement
          BY <1>a, DeletedType
    <3>2. statements' = [k \in DOMAIN statements |-> Deleted(statements[k], id)]
          BY <1>3 DEF DeleteRow
    <3>3. DOMAIN statements = 1..Len(statements) /\ Len(statements) \in Nat
          BY <1>a
    <3> HIDE DEF id
    <3> QED  BY <3>1, <3>2, <3>3
  <2>7. /\ migs' \in Seq(Migration) /\ DOMAIN migs' = DOMAIN migs
        /\ \A k \in DOMAIN migs : OnItsWay(migs'[k]) => OnItsWay(migs[k])
    <3> DEFINE d(k) == Deleted(migs[k], id)
    <3>1. \A k \in 1..Len(migs) : d(k) \in Migration /\ (OnItsWay(d(k)) => OnItsWay(migs[k]))
          BY <1>a, DeletedType
    <3>2. migs' = [k \in DOMAIN migs |-> d(k)]
          BY <1>3 DEF DeleteRow
    <3>3. DOMAIN migs = 1..Len(migs) /\ Len(migs) \in Nat
          BY <1>a
    <3> HIDE DEF d
    <3>4. DOMAIN migs' = DOMAIN migs /\ \A k \in DOMAIN migs : migs'[k] = d(k)
          BY <3>2
    <3>5. migs' \in Seq(Migration)
          BY <3>1, <3>2, <3>3
    <3>6. \A k \in DOMAIN migs : OnItsWay(migs'[k]) => OnItsWay(migs[k])
          BY <3>1, <3>3, <3>4
    <3> QED  BY <3>4, <3>5, <3>6
  <2>8. TypeOK'
        BY <1>3, <2>4, <2>5, <2>6, <2>7 DEF DeleteRow, ApprovalInv, TypeOK
  <2>9. ApprovalIsReal' /\ QueuesApproved'
        BY <1>3, <2>4, <2>5 DEF DeleteRow, ApprovalInv, ApprovalIsReal, QueuesApproved
  <2>10. MovingIsApproved'
        BY <1>3, <2>7 DEF DeleteRow, ApprovalInv, MovingIsApproved
  <2> QED  BY <2>8, <2>9, <2>10 DEF ApprovalInv
<1>4. ASSUME NEW place, RemoveDetected(f) \/ RemoveQueued(f),
             Go(f, place), Keeps(f, place), place \in Places, place # "queue"
      PROVE  ApprovalInv'
  <2>1. gh' \in GitHub /\ gh'.approved = gh.approved
        BY <1>4, <1>a DEF RemoveDetected, RemoveQueued, GitHub
  <2>2. /\ pc' \in [Workers -> Places] /\ \A w \in Workers : pc'[w] = "queue" => pc[w] = "queue"
        /\ \A w \in Workers : pc'[w] = "queue" => copy'[w] = copy[w]
        /\ copy' \in [Workers -> PRRow]
             /\ \A w \in Workers : copy'[w].approved => gh.approved
        BY <1>b, <1>4
  <2>3. UNCHANGED <<tables, found, comment, mishaps>>
        BY <1>4 DEF RemoveDetected, RemoveQueued
  <2>4. TypeOK'
        BY <2>1, <2>2, <2>3 DEF tables, ApprovalInv, TypeOK
  <2> QED  BY <2>1, <2>2, <2>3, <2>4 DEF tables, ApprovalInv, ApprovalIsReal, QueuesApproved,
                                         MovingIsApproved
<1>5. CASE RemoveDetected(f)
  <2> DEFINE place == NextRemoval(copy[f], "remove detected")
  <2>1. Go(f, place) /\ pc'[f] = place
        BY <1>5, <1>a DEF RemoveDetected, Go, ApprovalInv, TypeOK
  <2>2. Keeps(f, place)
        BY <1>5, <2>1 DEF RemoveDetected
  <2>3. place \in Places /\ place # "queue"
        BY <1>c
  <2> HIDE DEF place
  <2> QED  BY <1>4, <1>5, <2>1, <2>2, <2>3
<1>6. CASE RemoveQueued(f)
      BY <1>4, <1>6 DEF RemoveQueued, Places
<1> QED  BY <1>1, <1>2, <1>3, <1>5, <1>6 DEF ForgetStep

LEMMA ApprovalStep == ApprovalInv /\ [Next]_vars => ApprovalInv'
<1> SUFFICES ASSUME ApprovalInv, [Next]_vars PROVE ApprovalInv'
    OBVIOUS
<1>1. CASE Human \/ Close \/ Relabel \/ Migrate \/ Crash \/ Commit \/ ActionStep
      BY <1>1, OutsideStep
<1>7. ASSUME NEW p \in Probers, Panic(p) PROVE ApprovalInv'
      BY <1>7, DeathStep DEF Panic, ApprovalInv, TypeOK
<1>2. ASSUME NEW s \in Searchers, SearchStep(s) PROVE ApprovalInv'
      BY <1>2, SearchOrProbeStep DEF Workers
<1>3. ASSUME NEW w \in Workers, ProbeStep(w) \/ CallFails(w) PROVE ApprovalInv'
      BY <1>3, SearchOrProbeStep
<1>6. ASSUME NEW f \in Forgetters, ReadLabels(f) \/ ForgetStep(f) PROVE ApprovalInv'
      BY <1>6, ForgetKeeps
<1>4. ASSUME NEW p \in Probers, ProberStep(p) PROVE ApprovalInv'
      BY <1>4, ProberKeeps
<1>5. CASE UNCHANGED vars
      BY <1>5 DEF vars, tables, ApprovalInv, TypeOK, ApprovalIsReal, QueuesApproved,
                  MovingIsApproved
<1> QED  BY <1>1, <1>2, <1>3, <1>4, <1>5, <1>6, <1>7 DEF Next, Workers

(* The row, the copies and the tables of a pull request have their types.  *)
THEOREM PullRequestTypes == Spec => []TypeOK
<1>1. ApprovalInv => TypeOK
      BY DEF ApprovalInv
<1> QED  BY <1>1, ApprovalInit, ApprovalStep, PTL DEF Spec

(* probePR, analyzeDetectedPR and queuePRMigrations let no migration start *)
(* that the database infrastructure team has not approved.                 *)
THEOREM NothingUnapprovedQueued == Spec => []QueuedIsApproved
<1>1. ApprovalInv => QueuedIsApproved
      BY DEF ApprovalInv, MovingIsApproved, OnItsWay, QueuedIsApproved, Alive
<1> QED  BY <1>1, ApprovalInit, ApprovalStep, PTL DEF Spec

-----------------------------------------------------------------------------
(* One prober at a time, nothing forgotten and no commit while it is at    *)
(* work, and no failing probe: no statement of the diff has two migrations.*)
(* An evaluation begins by withdrawing what the last one left, which is    *)
(* all of it as long as nothing is queued; and while the label is off      *)
(* nothing is, since neither a human nor the Action takes it off an        *)
(* approved pull request, and forget-pr does so after it deleted the rows. *)

OneProber ==
    /\ \A p, q \in Probers : p = q
    /\ ForgetsDuringProbes = FALSE /\ CommitsRace = FALSE
    /\ MayFail \cap {"reviews", "pull"} = {}

NoneAlive == \A k \in DOMAIN migs : ~Alive(k)

AliveInRow == \A k \in DOMAIN migs : Alive(k) => row.id # 0 /\ migs[k].pr = row.id

ProbesRow ==
    \A p \in Probers : Probing(p) => row.id # 0 /\ copy[p].id = row.id /\ ~BeingForgotten

DeletesAll ==
    \A f \in Forgetters :
        /\ pc[f] = "delete row" => copy[f].id = row.id \/ NoneAlive
        /\ pc[f] \in {"remove detected", "remove queued"} => NoneAlive

ApprovedIsSettled == gh.approved => gh.action \in Conclusions
MovingIsDetected == \A k \in DOMAIN migs : OnItsWay(migs[k]) => gh.detected

QueuesDetected ==
    \A p \in Probers :
        /\ pc[p] = "queue" => copy[p].detected
        /\ pc[p] \in {"submit", "analyze", "queue"} /\ copy[p].approved /\ copy[p].detected
               => gh.detected

Evaluating == {"checks", "forget", "statements", "read", "comment", "migrations",
               "label detected"}

EvaluatesUndetected ==
    \A p \in Probers :
        /\ pc[p] \in {"submit", "analyze"} /\ ~copy[p].detected => ~gh.detected
        /\ pc[p] \in Evaluating => ~gh.detected

Distinct(S) == \A j, k \in S : statements[j].text = statements[k].text => j = k

(* What is left to submit, and what has been submitted.                    *)
Prepares ==
    \A p \in Probers :
        /\ pc[p] \in {"statements", "read", "comment"} => NoneAlive
        /\ pc[p] = "statements" => StatementsOf(row.id) = {}
        /\ pc[p] = "read" => Distinct(StatementsOf(row.id))
        /\ pc[p] \in {"comment", "migrations"} => Distinct(found[p])
        /\ pc[p] = "migrations" =>
               \A j \in found[p], k \in DOMAIN migs :
                   Alive(k) => migs[k].text # statements[j].text

LabelInv == ApprovedIsSettled /\ MovingIsDetected /\ QueuesDetected /\ EvaluatesUndetected
SubmissionInv == /\ AliveInRow /\ ProbesRow /\ DeletesAll /\ LabelInv
                 /\ Prepares /\ NoDuplicates

LEMMA SubmissionInit == Init => SubmissionInv
<1> SUFFICES ASSUME Init PROVE SubmissionInv
    OBVIOUS
<1>1. \A w \in Workers : pc[w] = "idle"
      BY DEF Init
<1>2. DOMAIN migs = {} /\ ~gh.approved
      BY DEF Init
<1> QED
    BY <1>1, <1>2
    DEF Workers, SubmissionInv, AliveInRow, ProbesRow, DeletesAll, LabelInv, ApprovedIsSettled,
        MovingIsDetected, QueuesDetected, EvaluatesUndetected, Evaluating, Prepares,
        NoDuplicates, Probing

(* What the world around the goroutines does: a label comes off only where *)
(* nobody has approved.                                                    *)
LEMMA WorldSteps ==
    ASSUME OneProber, ApprovalInv, ApprovedIsSettled,
           Human \/ Close \/ Relabel \/ Commit \/ ActionStep
    PROVE  /\ UNCHANGED <<row, statements, migs, nextId, pc, copy, found, comment>>
           /\ ApprovedIsSettled'
           /\ gh'.detected => gh.detected
           /\ gh.approved => gh'.approved /\ gh'.detected = gh.detected
<1>1. gh \in GitHub
      BY DEF ApprovalInv, TypeOK
<1>2. CASE Human
      BY <1>1, <1>2 DEF Human, tables, OneProber, ApprovedIsSettled, GitHub
<1>3. CASE Close
      BY <1>1, <1>3 DEF Close, tables, ApprovedIsSettled, GitHub
<1>4. CASE Relabel
      BY <1>1, <1>4 DEF Relabel, tables, ApprovedIsSettled, GitHub
<1>5. CASE Commit
      BY <1>1, <1>5 DEF Commit, tables, OneProber, ApprovedIsSettled, GitHub
<1>6. CASE ActionStep
  <2>1. ~gh.approved
        BY <1>6 DEF ActionStep, Validate, DropLabel, EditComment, ApprovedIsSettled, Conclusions
  <2>2. CASE Validate
        BY <1>1, <2>1, <2>2 DEF Validate, tables, ApprovedIsSettled, GitHub
  <2>3. CASE DropLabel
        BY <1>1, <2>1, <2>3 DEF DropLabel, tables, ApprovedIsSettled, GitHub
  <2>4. CASE EditComment
        BY <1>1, <2>1, <2>4 DEF EditComment, tables, ApprovedIsSettled, GitHub
  <2> QED  BY <1>6, <2>2, <2>3, <2>4 DEF ActionStep
<1> QED  BY <1>2, <1>3, <1>4, <1>5, <1>6

(* A step that leaves goroutines, row and statements alone, and in which   *)
(* no migration comes to life or under way.                                *)
LEMMA SubmissionStays ==
    ASSUME ApprovalInv, SubmissionInv, ApprovedIsSettled',
           UNCHANGED <<row, statements, pc, copy, found>>,
           DOMAIN migs' = DOMAIN migs,
           \A k \in DOMAIN migs :
               /\ migs'[k].pr = migs[k].pr /\ migs'[k].text = migs[k].text
               /\ Alive(k)' => Alive(k)
               /\ OnItsWay(migs'[k]) => OnItsWay(migs[k]),
           gh'.detected => gh.detected, gh.approved => gh'.detected = gh.detected
    PROVE  SubmissionInv'
<1>1. NoneAlive => NoneAlive'
      BY DEF NoneAlive
<1>2. StatementsOf(row.id)' = StatementsOf(row.id) /\ (BeingForgotten' = BeingForgotten)
      BY DEF StatementsOf, BeingForgotten
<1>3. AliveInRow' /\ ProbesRow' /\ DeletesAll'
      BY <1>1, <1>2 DEF SubmissionInv, AliveInRow, ProbesRow, DeletesAll, Probing
<1>4. MovingIsDetected'
      BY DEF ApprovalInv, MovingIsApproved, SubmissionInv, LabelInv, MovingIsDetected
<1>5. QueuesDetected' /\ EvaluatesUndetected'
      BY DEF ApprovalInv, ApprovalIsReal, SubmissionInv, LabelInv, QueuesDetected,
             EvaluatesUndetected, Workers
<1>6. Prepares' /\ NoDuplicates'
      BY <1>1, <1>2 DEF SubmissionInv, Prepares, Distinct, NoDuplicates
<1> QED  BY <1>3, <1>4, <1>5, <1>6 DEF SubmissionInv, LabelInv

LEMMA SubmissionOutside ==
    ASSUME OneProber, ApprovalInv, SubmissionInv,
           Human \/ Close \/ Relabel \/ Commit \/ ActionStep \/ Migrate \/ UNCHANGED vars
    PROVE  SubmissionInv'
<1>s. ApprovedIsSettled
      BY DEF SubmissionInv, LabelInv
<1>1. CASE Human \/ Close \/ Relabel \/ Commit \/ ActionStep
  <2>1. UNCHANGED <<row, statements, migs, nextId, pc, copy, found, comment>>
        BY <1>1, <1>s, WorldSteps
  <2>2. \A k \in DOMAIN migs : (Alive(k)' => Alive(k))
        BY <2>1 DEF Alive
  <2> QED  BY <1>1, <1>s, <2>1, <2>2, WorldSteps, SubmissionStays
<1>2. CASE Migrate
  <2>1. PICK k \in MigrationsOf(row.id) :
            \/ migs[k].status = "queued"  /\ migs' = [migs EXCEPT ![k].status = "running"]
            \/ migs[k].status = "running" /\ migs' = [migs EXCEPT ![k].status = "complete"]
        BY <1>2 DEF Migrate
  <2>2. k \in DOMAIN migs /\ migs \in Seq(Migration)
        BY DEF MigrationsOf, ApprovalInv, TypeOK
  <2>3. \A j \in DOMAIN migs : migs[j] \in Migration
        BY <2>2
  <2>4. DOMAIN migs' = DOMAIN migs
        BY <2>1
  <2>5. \A j \in DOMAIN migs :
            /\ migs'[j].pr = migs[j].pr /\ migs'[j].text = migs[j].text
            /\ Alive(j)' => Alive(j)
            /\ OnItsWay(migs'[j]) => OnItsWay(migs[j])
    <3> TAKE j \in DOMAIN migs
    <3>1. CASE j # k
          BY <2>1, <2>2, <3>1 DEF Alive, OnItsWay
    <3>2. CASE j = k
      <4>1. migs[k] \in Migration /\ migs[k].status \in {"queued", "running"}
            BY <2>1, <2>2, <2>3
      <4>2. PICK status \in {"running", "complete"} :
                migs' = [migs EXCEPT ![k].status = status]
            BY <2>1
      <4>3. migs'[k] = [migs[k] EXCEPT !.status = status]
            BY <2>2, <4>2
      <4> QED  BY <3>2, <4>1, <4>3 DEF Migration, Alive, OnItsWay
    <3> QED  BY <3>1, <3>2
  <2>6. UNCHANGED <<gh, row, statements, pc, copy, found>>
        BY <1>2 DEF Migrate
  <2>7. ApprovedIsSettled'
        BY <1>s, <2>6 DEF ApprovedIsSettled
  <2> QED  BY <2>4, <2>5, <2>6, <2>7, SubmissionStays
<1>3. CASE UNCHANGED vars
  <2>1. UNCHANGED <<gh, row, statements, migs, pc, copy, found>>
        BY <1>3 DEF vars, tables
  <2>2. \A k \in DOMAIN migs : (Alive(k)' => Alive(k))
        BY <2>1 DEF Alive
  <2> QED  BY <1>s, <2>1, <2>2, SubmissionStays DEF ApprovedIsSettled
<1> QED  BY <1>1, <1>2, <1>3

LEMMA SubmissionDies ==
    ASSUME SubmissionInv, Dies PROVE SubmissionInv'
<1>1. /\ \A w \in Workers : pc'[w] = "idle"
      /\ UNCHANGED <<gh, row, statements, migs>>
      BY DEF Dies, tables
<1> QED
    BY <1>1
    DEF Workers, SubmissionInv, AliveInRow, ProbesRow, DeletesAll, LabelInv, ApprovedIsSettled,
        MovingIsDetected, QueuesDetected, EvaluatesUndetected, Evaluating, Prepares,
        NoDuplicates, Probing, Alive

(* Goroutines that search change at most the row, and no id of it that     *)
(* anything hangs on.                                                      *)
LEMMA SearcherMoves ==
    ASSUME ApprovalInv, SubmissionInv, NEW s \in Searchers,
           UNCHANGED <<gh, statements, migs, found>>,
           \A v \in Workers : v # s => pc'[v] = pc[v] /\ copy'[v] = copy[v],
           row.id # 0 => row'.id = row.id
    PROVE  SubmissionInv'
<1>1. \A v \in Probers \cup Forgetters : v \in Workers /\ v # s
      BY PullRequestsAssumption DEF Workers
<1>2. (BeingForgotten' = BeingForgotten) /\ (NoneAlive' = NoneAlive)
      BY <1>1 DEF BeingForgotten, NoneAlive, Alive
<1>3. row.id = 0 => NoneAlive
      BY DEF SubmissionInv, AliveInRow, NoneAlive
<1>4. AliveInRow' /\ DeletesAll'
      BY <1>1, <1>2, <1>3 DEF SubmissionInv, AliveInRow, DeletesAll, NoneAlive, Alive
<1>5. \A p \in Probers : Probing(p)' => Probing(p)
      BY <1>1 DEF Probing
<1>6. ProbesRow'
      BY <1>1, <1>2, <1>5 DEF SubmissionInv, ProbesRow
<1>7. LabelInv'
      BY <1>1 DEF SubmissionInv, LabelInv, ApprovedIsSettled, MovingIsDetected, QueuesDetected,
                  EvaluatesUndetected
<1>8. \A p \in Probers : pc'[p] \in {"statements", "read"} =>
          StatementsOf(row.id)' = StatementsOf(row.id)
      BY <1>1 DEF SubmissionInv, ProbesRow, Probing, StatementsOf
<1>9. Prepares' /\ NoDuplicates'
      BY <1>1, <1>2, <1>8 DEF SubmissionInv, Prepares, Distinct, NoDuplicates, Alive
<1> QED  BY <1>4, <1>6, <1>7, <1>9 DEF SubmissionInv

LEMMA SubmissionSearcher ==
    ASSUME ApprovalInv, SubmissionInv, NEW s \in Searchers,
           SearchStep(s) \/ ProbeStep(s) \/ CallFails(s)
    PROVE  SubmissionInv'
<1>1. s \in Workers /\ pc \in [Workers -> Places] /\ copy \in [Workers -> PRRow]
      BY DEF Workers, ApprovalInv, TypeOK
<1>2. UNCHANGED <<gh, statements, migs, found>>
      BY DEF SearchStep, Search, Recognize, ProbeStep, ProbeReviews, ProbePull, SubmitPR,
             CallFails, OnlyMoves, tables
<1>3. \A v \in Workers : v # s => pc'[v] = pc[v] /\ copy'[v] = copy[v]
      BY <1>1 DEF SearchStep, Search, Recognize, ProbeStep, ProbeReviews, ProbePull, SubmitPR,
                  CallFails, OnlyMoves, Go, Keeps
<1>4. row.id # 0 => row'.id = row.id
  <2>1. CASE SubmitPR(s)
        BY <1>1, <2>1 DEF SubmitPR, SubmittedPR, PRRow
  <2>2. CASE ~SubmitPR(s)
        BY <2>2 DEF SearchStep, Search, Recognize, ProbeStep, ProbeReviews, ProbePull,
                    CallFails, OnlyMoves, tables
  <2> QED  BY <2>1, <2>2
<1> QED  BY <1>2, <1>3, <1>4, SearcherMoves

(* While one forgets no one probes, and what is forgotten is all there is. *)
LEMMA SubmissionForgetter ==
    ASSUME OneProber, ApprovalInv, SubmissionInv, NEW f \in Forgetters,
           ReadLabels(f) \/ ForgetStep(f) \/ CallFails(f)
    PROVE  SubmissionInv'
<1>1. /\ f \in Workers /\ pc \in [Workers -> Places] /\ copy \in [Workers -> PRRow]
      /\ gh \in GitHub /\ migs \in Seq(Migration)
      BY DEF Workers, ApprovalInv, TypeOK
<1>2. \A v \in Workers : v # f => pc'[v] = pc[v] /\ copy'[v] = copy[v]
      BY <1>1 DEF ReadLabels, ForgetStep, FindRow, DeleteRow, RemoveDetected, RemoveQueued,
                  CallFails, Go, Keeps
<1>3. \A p \in Probers : p # f /\ p \in Workers
      BY PullRequestsAssumption DEF Workers
<1>4. \A p \in Probers : ~Probing(p)
  <2>1. CASE ReadLabels(f)
        BY <2>1 DEF ReadLabels, OneProber
  <2>2. CASE ForgetStep(f) \/ CallFails(f)
    <3>1. pc[f] # "idle"
          BY <2>2, PullRequestsAssumption
          DEF ForgetStep, FindRow, DeleteRow, RemoveDetected, RemoveQueued, CallFails, Calls
    <3> QED  BY <3>1 DEF SubmissionInv, ProbesRow, BeingForgotten
  <2> QED  BY <2>1, <2>2
<1>5. \A p \in Probers : /\ ~Probing(p)'
                         /\ pc'[p] \in {"idle", "completed", "complete", "unlabel"}
      BY <1>2, <1>3, <1>4 DEF Probing
<1>6. ProbesRow' /\ QueuesDetected' /\ EvaluatesUndetected' /\ Prepares'
      BY <1>5 DEF ProbesRow, QueuesDetected, EvaluatesUndetected, Evaluating, Prepares
<1>7. gh'.action = gh.action /\ gh'.approved = gh.approved
      BY <1>1 DEF ReadLabels, ForgetStep, FindRow, DeleteRow, RemoveDetected, RemoveQueued,
                  CallFails, GitHub
<1>8. ApprovedIsSettled'
      BY <1>7 DEF ApprovedIsSettled, SubmissionInv, LabelInv
<1>9. CASE DeleteRow(f)
  <2> DEFINE id == copy[f].id
  <2>1. /\ DOMAIN migs' = DOMAIN migs
        /\ \A k \in DOMAIN migs : migs'[k] = Deleted(migs[k], id)
        BY <1>9 DEF DeleteRow
  <2>2. row' = (IF IsRow(id) THEN NoRow ELSE row) /\ UNCHANGED gh
        BY <1>9 DEF DeleteRow
  <2>3. id = row.id \/ NoneAlive
        BY <1>9 DEF DeleteRow, SubmissionInv, DeletesAll
  <2> HIDE DEF id
  <2>4. \A k \in DOMAIN migs :
            /\ Alive(k)' => Alive(k) /\ migs[k].pr # id /\ migs'[k] = migs[k]
            /\ OnItsWay(migs'[k]) => OnItsWay(migs[k])
    <3> TAKE k \in DOMAIN migs
    <3>1. migs[k] \in Migration
          BY <1>1
    <3>2. CASE migs[k].pr = id
      <4>1. migs'[k].status = "cancelled"
            BY <2>1, <3>1, <3>2 DEF Deleted, Migration
      <4> QED  BY <4>1 DEF Alive, OnItsWay
    <3>3. CASE migs[k].pr # id
      <4>1. migs'[k] = migs[k]
            BY <2>1, <3>3 DEF Deleted
      <4> QED  BY <3>3, <4>1 DEF Alive
    <3> QED  BY <3>2, <3>3
  <2>5. NoneAlive'
        BY <2>1, <2>3, <2>4 DEF NoneAlive, SubmissionInv, AliveInRow
  <2>6. AliveInRow' /\ DeletesAll' /\ NoDuplicates'
        BY <2>5 DEF NoneAlive, AliveInRow, DeletesAll, NoDuplicates
  <2>7. MovingIsDetected'
        BY <2>1, <2>2, <2>4 DEF SubmissionInv, LabelInv, MovingIsDetected
  <2> QED  BY <1>6, <1>8, <2>6, <2>7 DEF SubmissionInv, LabelInv
<1>10. CASE ~DeleteRow(f)
  <2>1. UNCHANGED <<row, statements, migs>>
        BY <1>10 DEF ReadLabels, ForgetStep, FindRow, RemoveDetected, RemoveQueued, CallFails,
                     tables
  <2>2. AliveInRow' /\ NoDuplicates' /\ (NoneAlive' = NoneAlive)
        BY <2>1 DEF SubmissionInv, AliveInRow, NoDuplicates, NoneAlive, Alive
  <2>3. /\ pc'[f] = "delete row" => copy'[f].id = row.id
        /\ pc'[f] \in {"remove detected", "remove queued"} => NoneAlive
        /\ gh'.detected = gh.detected \/ NoneAlive
    <3>1. CASE ReadLabels(f)
          BY <1>1, <3>1 DEF ReadLabels, Go
    <3>2. CASE FindRow(f)
          BY <1>1, <3>2 DEF FindRow, Go, PRRow
    <3>3. CASE RemoveDetected(f)
          BY <1>1, <3>3 DEF RemoveDetected, Go, NextRemoval, SubmissionInv, DeletesAll
    <3>4. CASE RemoveQueued(f)
          BY <1>1, <3>4 DEF RemoveQueued, Go, GitHub
    <3>5. CASE CallFails(f)
      <4>1. f \notin Probers
            BY <1>3
      <4> QED  BY <1>1, <3>5, <4>1 DEF CallFails, Go
    <3> QED  BY <1>10, <3>1, <3>2, <3>3, <3>4, <3>5 DEF ForgetStep
  <2>4. \A g \in Forgetters : g \in Workers
        BY DEF Workers
  <2>5. DeletesAll'
        BY <1>2, <2>1, <2>2, <2>3, <2>4 DEF SubmissionInv, DeletesAll
  <2>6. MovingIsDetected'
        BY <2>1, <2>3 DEF SubmissionInv, LabelInv, MovingIsDetected, NoneAlive, Alive, OnItsWay
  <2> QED  BY <1>6, <1>8, <2>2, <2>5, <2>6 DEF SubmissionInv, LabelInv
<1> QED  BY <1>9, <1>10

(* What an evaluation makes of the tables.                                 *)
LEMMA Withdrawn ==
    ASSUME ApprovalInv, SubmissionInv, NEW p \in Probers, Forget(p)
    PROVE  /\ NoneAlive' /\ StatementsOf(row.id)' = {}
           /\ \A k \in DOMAIN migs' : ~OnItsWay(migs'[k])
           /\ UNCHANGED <<gh, row, found, copy>>
<1>1. /\ copy[p].id = row.id /\ ~gh.detected
      /\ migs \in Seq(Migration) /\ statements \in Seq(Statement)
      BY DEF Forget, Probing, SubmissionInv, ProbesRow, LabelInv, EvaluatesUndetected, Evaluating,
             ApprovalInv, TypeOK
<1>2. /\ DOMAIN migs' = DOMAIN migs
      /\ \A k \in DOMAIN migs : migs'[k] = Cancel(migs[k], row.id)
      BY <1>1 DEF Forget
<1>3. \A k \in DOMAIN migs' : migs'[k].status = "cancelled"
  <2> TAKE k \in DOMAIN migs'
  <2>1. migs[k] \in Migration /\ ~OnItsWay(migs[k])
        BY <1>1, <1>2 DEF SubmissionInv, LabelInv, MovingIsDetected
  <2>2. CASE Alive(k)
    <3>1. migs[k].pr = row.id /\ migs[k].status = "proposed"
          BY <1>2, <2>1, <2>2 DEF SubmissionInv, AliveInRow, OnItsWay, Alive
    <3> QED  BY <1>2, <2>1, <3>1 DEF Cancel, Migration
  <2>3. CASE ~Alive(k)
        BY <1>2, <2>1, <2>3 DEF Alive, Cancel
  <2> QED  BY <2>2, <2>3
<1>4. /\ DOMAIN statements' = DOMAIN statements
      /\ \A k \in DOMAIN statements : statements'[k] = CancelStatement(statements[k], row.id)
      BY <1>1 DEF Forget
<1>5. row' = row
      BY DEF Forget
<1>6. \A k \in DOMAIN statements : k \notin StatementsOf(row.id)'
  <2> TAKE k \in DOMAIN statements
  <2>1. statements[k] \in Statement
        BY <1>1
  <2> QED  BY <1>4, <1>5, <2>1 DEF StatementsOf, CancelStatement, Statement
<1>7. StatementsOf(row.id)' = {}
      BY <1>4, <1>6 DEF StatementsOf
<1> QED  BY <1>3, <1>7 DEF Forget, NoneAlive, Alive, OnItsWay

LEMMA StatementsSubmitted ==
    ASSUME ApprovalInv, SubmissionInv, NEW p \in Probers, SubmitPRStatements(p)
    PROVE  LET diff == Diffs[comment[p]]
               n == Len(statements)
           IN  /\ diff \in Seq(AllTexts) /\ comment[p] \in 1..Len(Diffs) /\ n \in Nat
               /\ \A k \in StatementsOf(row.id)' :
                      k - n \in DOMAIN diff /\ statements'[k].text = diff[k - n]
               /\ \A i \in DOMAIN diff :
                      n + i \in StatementsOf(row.id)' /\ statements'[n + i].text = diff[i]
               /\ UNCHANGED <<gh, row, migs, found, copy>>
<1> DEFINE diff == Diffs[comment[p]]
           n == Len(statements)
           new == [i \in DOMAIN diff |-> [pr |-> copy[p].id, text |-> diff[i],
                                          status |-> "suggested"]]
<1>1. /\ copy[p].id = row.id /\ StatementsOf(row.id) = {} /\ statements \in Seq(Statement)
      /\ comment[p] \in 1..Len(Diffs) /\ row.id \in Nat
      BY DEF SubmitPRStatements, Probing, SubmissionInv, ProbesRow, Prepares, ApprovalInv, TypeOK,
             PRRow, Workers
<1>2. diff \in Seq(AllTexts)
      BY <1>1, DiffsType
<1>3. statements' = statements \o new /\ UNCHANGED <<gh, row, migs, found, copy>>
      BY DEF SubmitPRStatements
<1> HIDE DEF diff
<1>4. DOMAIN diff = 1..Len(diff) /\ Len(diff) \in Nat
      BY <1>2
<1>5. new \in Seq(Statement) /\ Len(new) = Len(diff)
  <2>1. \A i \in 1..Len(diff) : [pr |-> copy[p].id, text |-> diff[i],
                                  status |-> "suggested"] \in Statement
        BY <1>1, <1>2, <1>4 DEF Statement
  <2> QED  BY <1>4, <2>1
<1>6. \A i \in DOMAIN diff :
          new[i].pr = row.id /\ new[i].text = diff[i] /\ new[i].status = "suggested"
      BY <1>1
<1> HIDE DEF new
<1>7. /\ n \in Nat /\ Len(statements') = n + Len(diff)
      /\ DOMAIN statements' = 1..(n + Len(diff)) /\ DOMAIN statements = 1..n
      /\ \A k \in 1..n : statements'[k] = statements[k]
      /\ \A i \in DOMAIN diff : statements'[n + i] = new[i]
  <2>1. /\ Len(statements') = n + Len(diff) /\ n \in Nat /\ statements' \in Seq(Statement)
        /\ \A k \in 1..(n + Len(diff)) :
              statements'[k] = IF k <= n THEN statements[k] ELSE new[k - n]
        BY <1>1, <1>3, <1>5, ConcatProperties, LenProperties
  <2>2. \A k \in 1..n : statements'[k] = statements[k]
        BY <1>4, <2>1
  <2>3. \A i \in DOMAIN diff : statements'[n + i] = new[i]
    <3> TAKE i \in DOMAIN diff
    <3>1. i \in Nat /\ n + i \in 1..(n + Len(diff)) /\ ~(n + i <= n) /\ (n + i) - n = i
          BY <1>4, <2>1
    <3> HIDE DEF n
    <3> QED  BY <2>1, <3>1
  <2>4. DOMAIN statements' = 1..(n + Len(diff)) /\ DOMAIN statements = 1..n
        BY <1>1, <2>1, LenProperties
  <2> QED  BY <2>1, <2>2, <2>3, <2>4
<1> HIDE DEF n
<1>8. \A k \in StatementsOf(row.id)' : k - n \in DOMAIN diff /\ statements'[k].text = diff[k - n]
  <2> TAKE k \in StatementsOf(row.id)'
  <2>1. /\ k \in 1..(n + Len(diff)) /\ statements'[k].pr = row.id
        /\ statements'[k].status # "cancelled"
        BY <1>3, <1>7 DEF StatementsOf
  <2>2. k \notin 1..n
    <3>1. k \in 1..n => k \in StatementsOf(row.id)
          BY <1>7, <2>1 DEF StatementsOf
    <3> QED  BY <1>1, <3>1
  <2>3. k - n \in DOMAIN diff /\ n + (k - n) = k
        BY <1>4, <1>7, <2>1, <2>2
  <2> QED  BY <1>6, <1>7, <2>3
<1>9. \A i \in DOMAIN diff : n + i \in StatementsOf(row.id)' /\ statements'[n + i].text = diff[i]
  <2> TAKE i \in DOMAIN diff
  <2>1. n + i \in 1..(n + Len(diff))
        BY <1>4, <1>7
  <2> QED  BY <1>3, <1>6, <1>7, <2>1 DEF StatementsOf
<1> QED  BY <1>1, <1>2, <1>3, <1>7, <1>8, <1>9 DEF diff, n

LEMMA MigrationSubmitted ==
    ASSUME ApprovalInv, SubmissionInv, NEW p \in Probers, SubmitMigration(p)
    PROVE  \E k \in found[p], m \in Nat :
               /\ m \notin DOMAIN migs /\ DOMAIN migs' = DOMAIN migs \cup {m}
               /\ \A j \in DOMAIN migs : migs'[j] = migs[j]
               /\ migs'[m] = [pr |-> row.id, text |-> statements[k].text, status |-> "proposed"]
               /\ found'[p] = found[p] \ {k}
               /\ UNCHANGED <<gh, row, statements, pc, copy>>
<1>1. /\ copy[p].id = row.id /\ p \in Workers /\ migs \in Seq(Migration)
      /\ found \in [Workers -> SUBSET (1..Len(statements))] /\ statements \in Seq(Statement)
      /\ row.id \in Nat
      BY DEF SubmitMigration, Probing, SubmissionInv, ProbesRow, ApprovalInv, TypeOK, Workers,
             PRRow
<1>2. PICK k \in found[p] :
          /\ migs' = Append(migs, [pr |-> copy[p].id, text |-> statements[k].text,
                                   status |-> "proposed"])
          /\ found' = [found EXCEPT ![p] = @ \ {k}]
      BY DEF SubmitMigration
<1> DEFINE e == [pr |-> row.id, text |-> statements[k].text, status |-> "proposed"]
           m == Len(migs) + 1
<1>3. e \in Migration
  <2>1. k \in 1..Len(statements)
        BY <1>1
  <2>2. statements[k] \in Statement
        BY <1>1, <2>1
  <2> QED  BY <1>1, <2>2 DEF Statement, Migration
<1>4. migs' = Append(migs, e)
      BY <1>1, <1>2
<1> HIDE DEF e
<1>5. /\ m \notin DOMAIN migs /\ DOMAIN migs' = DOMAIN migs \cup {m}
      /\ \A j \in DOMAIN migs : migs'[j] = migs[j]
      /\ migs'[m] = e
      BY <1>1, <1>3, <1>4, AppendProperties
<1>6. found'[p] = found[p] \ {k}
      BY <1>1, <1>2
<1>7. UNCHANGED <<gh, row, statements, pc, copy>>
      BY DEF SubmitMigration
<1> QED  BY <1>5, <1>6, <1>7 DEF e

(* A prober's step that leaves migrations, statements and label alone.     *)
LEMMA ProberMoves ==
    ASSUME ApprovalInv, SubmissionInv, NEW p \in Probers,
           \A v \in Workers : v # p => pc'[v] = pc[v] /\ copy'[v] = copy[v],
           UNCHANGED <<statements, migs>>, row'.id = row.id,
           gh'.detected = gh.detected, gh'.approved = gh.approved, gh'.action = gh.action
    PROVE  /\ AliveInRow' /\ DeletesAll' /\ ApprovedIsSettled' /\ MovingIsDetected'
           /\ NoDuplicates' /\ (NoneAlive' = NoneAlive)
           /\ ~BeingForgotten => ~BeingForgotten'
<1>1. \A f \in Forgetters : f \in Workers /\ f # p
      BY PullRequestsAssumption DEF Workers
<1>2. NoneAlive' = NoneAlive
      BY DEF NoneAlive, Alive
<1>3. DeletesAll'
      BY <1>1, <1>2 DEF SubmissionInv, DeletesAll
<1>4. ~BeingForgotten => ~BeingForgotten'
      BY <1>1 DEF BeingForgotten
<1> QED  BY <1>2, <1>3, <1>4
         DEF SubmissionInv, LabelInv, AliveInRow, ApprovedIsSettled, MovingIsDetected,
             NoDuplicates, Alive

LEMMA SubmissionProbe ==
    ASSUME OneProber, ApprovalInv, SubmissionInv, NEW p \in Probers,
           ReadOpen(p) \/ ProbeStep(p) \/ Analyze(p)
    PROVE  SubmissionInv'
<1>1. /\ p \in Workers /\ pc \in [Workers -> Places] /\ copy \in [Workers -> PRRow]
      /\ gh \in GitHub /\ row \in PRRow /\ (row.open => row.id # 0)
      /\ \A q \in Probers : q = p
      BY NoRowType DEF Workers, ApprovalInv, TypeOK, OneProber, NoRow
<1>2. \A v \in Workers : v # p => pc'[v] = pc[v] /\ copy'[v] = copy[v]
      BY <1>1 DEF ReadOpen, ProbeStep, ProbeReviews, ProbePull, SubmitPR, Analyze, OnlyMoves,
                  Go, Keeps
<1>3. UNCHANGED <<gh, statements, migs, found>>
      BY DEF ReadOpen, ProbeStep, ProbeReviews, ProbePull, SubmitPR, Analyze, OnlyMoves, tables
<1>4. Probing(p) => row.id # 0 /\ copy[p].id = row.id /\ ~BeingForgotten
      BY DEF SubmissionInv, ProbesRow
<1>5. row'.id = row.id
  <2>1. CASE SubmitPR(p)
        BY <1>1, <1>4, <2>1 DEF SubmitPR, SubmittedPR, PRRow, Probing
  <2>2. CASE ~SubmitPR(p)
        BY <2>2 DEF ReadOpen, ProbeStep, ProbeReviews, ProbePull, Analyze, OnlyMoves, tables
  <2> QED  BY <2>1, <2>2
<1>6. /\ AliveInRow' /\ DeletesAll' /\ ApprovedIsSettled' /\ MovingIsDetected' /\ NoDuplicates'
      /\ ~BeingForgotten => ~BeingForgotten'
      BY <1>2, <1>3, <1>5, ProberMoves
<1>7. Prepares'
  <2>1. pc'[p] \notin {"statements", "read", "comment", "migrations"}
        BY <1>1 DEF ReadOpen, ProbeStep, ProbeReviews, ProbePull, SubmitPR, Analyze, OnlyMoves, Go
  <2> QED  BY <1>1, <2>1 DEF Prepares
<1>8. ProbesRow' /\ QueuesDetected' /\ EvaluatesUndetected'
  <2>1. CASE ReadOpen(p)
    <3>1. /\ pc'[p] \in {"reviews", "completed"} /\ copy'[p] = row /\ ~BeingForgotten
          /\ pc'[p] = "reviews" => row.id # 0
          BY <1>1, <2>1 DEF ReadOpen, Go, OneProber
    <3> QED  BY <1>1, <1>5, <1>6, <3>1
             DEF ProbesRow, Probing, QueuesDetected, EvaluatesUndetected, Evaluating
  <2>2. CASE ProbeReviews(p)
    <3>1. pc'[p] = "pull" /\ copy'[p].id = copy[p].id /\ Probing(p)
          BY <1>1, <2>2 DEF ProbeReviews, Go, PRRow, Probing
    <3> QED  BY <1>1, <1>4, <1>5, <1>6, <3>1
             DEF ProbesRow, QueuesDetected, EvaluatesUndetected, Evaluating
  <2>3. CASE ProbePull(p)
    <3>1. /\ pc'[p] = "submit" /\ copy'[p].id = copy[p].id /\ Probing(p)
          /\ copy'[p].detected = gh.detected
          BY <1>1, <2>3 DEF ProbePull, Go, PRRow, Probing
    <3> QED  BY <1>1, <1>3, <1>4, <1>5, <1>6, <3>1
             DEF ProbesRow, QueuesDetected, EvaluatesUndetected, Evaluating
  <2>4. CASE SubmitPR(p)
    <3>1. pc'[p] = "analyze" /\ copy'[p] = copy[p] /\ pc[p] = "submit" /\ Probing(p)
          BY <1>1, <2>4 DEF SubmitPR, Go, Keeps, Probing
    <3> QED  BY <1>1, <1>3, <1>4, <1>5, <1>6, <3>1
             DEF ProbesRow, QueuesDetected, EvaluatesUndetected, Evaluating, SubmissionInv,
                 LabelInv
  <2>5. CASE Analyze(p)
    <3>1. /\ pc[p] = "analyze" /\ copy'[p] = copy[p] /\ Probing(p)
          /\ pc'[p] \in {"completed", "checks", "queue", "ask"}
          /\ pc'[p] = "checks" => ~copy[p].detected
          /\ pc'[p] = "queue" => copy[p].detected
          BY <1>1, <2>5 DEF Analyze, OnlyMoves, Go, Probing, MayQueue
    <3> QED  BY <1>1, <1>3, <1>4, <1>5, <1>6, <3>1
             DEF ProbesRow, QueuesDetected, EvaluatesUndetected, Evaluating, SubmissionInv,
                 LabelInv
  <2> QED  BY <2>1, <2>2, <2>3, <2>4, <2>5 DEF ProbeStep
<1> QED  BY <1>6, <1>7, <1>8 DEF SubmissionInv, LabelInv

LEMMA SubmissionEvaluate ==
    ASSUME OneProber, ApprovalInv, SubmissionInv, NEW p \in Probers, EvaluateStep(p)
    PROVE  SubmissionInv'
<1>1. /\ p \in Workers /\ pc \in [Workers -> Places] /\ copy \in [Workers -> PRRow]
      /\ gh \in GitHub /\ \A q \in Probers : q = p
      /\ found \in [Workers -> SUBSET (1..Len(statements))]
      BY DEF Workers, ApprovalInv, TypeOK, OneProber
<1>2. /\ \A v \in Workers : v # p => pc'[v] = pc[v]
      /\ copy' = copy
      BY <1>1 DEF EvaluateStep, Checks, NoStatements, Forget, SubmitPRStatements, ReadStatements,
                  Comment, SubmitMigration, MigrationsSubmitted, LabelDetected, OnlyMoves, Go
<1>3. pc[p] \in Evaluating /\ Probing(p)
      BY DEF EvaluateStep, Checks, NoStatements, Forget, SubmitPRStatements, ReadStatements,
             Comment, SubmitMigration, MigrationsSubmitted, LabelDetected, Evaluating, Probing
<1>4. row.id # 0 /\ copy[p].id = row.id /\ ~BeingForgotten /\ ~gh.detected
      BY <1>3 DEF SubmissionInv, ProbesRow, LabelInv, EvaluatesUndetected
<1>5. \A f \in Forgetters : f # p /\ f \in Workers /\ pc[f] = "idle" /\ pc'[f] = "idle"
      BY <1>2, <1>4, PullRequestsAssumption DEF BeingForgotten, Workers
<1>6. DeletesAll' /\ ~BeingForgotten'
      BY <1>5 DEF DeletesAll, BeingForgotten
<1>7. /\ pc'[p] \in Evaluating \cup {"completed"}
      /\ pc'[p] \in Evaluating => UNCHANGED gh
      /\ row' = row /\ gh'.approved = gh.approved /\ gh'.action = gh.action
      BY <1>1, <1>3 DEF EvaluateStep, Checks, NoStatements, Forget, SubmitPRStatements,
                  ReadStatements, Comment, SubmitMigration, MigrationsSubmitted, LabelDetected, OnlyMoves, Go, Evaluating,
                  tables, GitHub
<1>8. ProbesRow' /\ QueuesDetected' /\ EvaluatesUndetected' /\ ApprovedIsSettled'
      BY <1>1, <1>2, <1>4, <1>6, <1>7 DEF ProbesRow, QueuesDetected, EvaluatesUndetected,
                 Evaluating, ApprovedIsSettled, SubmissionInv, LabelInv
<1>9. CASE Forget(p)
  <2>1. pc'[p] = "statements"
        BY <1>1, <1>9 DEF Forget, Go
  <2>2. /\ NoneAlive' /\ StatementsOf(row.id)' = {}
        /\ \A k \in DOMAIN migs' : ~OnItsWay(migs'[k])
        BY <1>9, Withdrawn
  <2>3. Prepares'
        BY <1>1, <2>1, <2>2 DEF Prepares
  <2>4. AliveInRow' /\ MovingIsDetected' /\ NoDuplicates'
        BY <2>2 DEF AliveInRow, MovingIsDetected, NoDuplicates, NoneAlive
  <2> QED  BY <1>6, <1>8, <2>3, <2>4 DEF SubmissionInv, LabelInv
<1>10. CASE SubmitPRStatements(p)
  <2> DEFINE diff == Diffs[comment[p]]
             n == Len(statements)
  <2>1. /\ comment[p] \in 1..Len(Diffs) /\ n \in Nat /\ diff \in Seq(AllTexts)
        /\ \A k \in StatementsOf(row.id)' :
              k - n \in DOMAIN diff /\ statements'[k].text = diff[k - n]
        /\ UNCHANGED <<gh, row, migs, found, copy>>
        BY <1>10, StatementsSubmitted
  <2>2. \A i, j \in DOMAIN diff : diff[i] = diff[j] => i = j
        BY <2>1, DiffsType, PullRequestsAssumption
  <2>3. StatementsOf(row.id)' \subseteq Int
    <3>1. statements' \in Seq(Statement)
      <4>1. ApprovalInv'
            BY <1>10, EvaluateKeeps DEF EvaluateStep
      <4> QED  BY <4>1 DEF ApprovalInv, TypeOK
    <3> QED  BY <3>1 DEF StatementsOf
  <2> HIDE DEF diff, n
  <2>4. Distinct(StatementsOf(row.id))'
    <3> SUFFICES ASSUME NEW j \in StatementsOf(row.id)', NEW k \in StatementsOf(row.id)',
                        statements'[j].text = statements'[k].text
                 PROVE  j = k
        BY DEF Distinct
    <3>1. j - n = k - n
          BY <2>1, <2>2
    <3> QED  BY <2>1, <2>3, <3>1
  <2>5. pc[p] = "statements" /\ pc'[p] = "read"
        BY <1>1, <1>10 DEF SubmitPRStatements, Go
  <2>6. NoneAlive /\ (NoneAlive' = NoneAlive)
        BY <2>1, <2>5 DEF SubmissionInv, Prepares, NoneAlive, Alive
  <2>7. Prepares'
        BY <1>1, <2>4, <2>5, <2>6 DEF Prepares
  <2>8. AliveInRow' /\ MovingIsDetected' /\ NoDuplicates'
        BY <2>1, <2>6 DEF AliveInRow, MovingIsDetected, NoDuplicates, NoneAlive, SubmissionInv,
                          LabelInv
  <2> QED  BY <1>6, <1>8, <2>7, <2>8 DEF SubmissionInv, LabelInv
<1>11. CASE SubmitMigration(p)
  <2>1. PICK k \in found[p], m \in Nat :
            /\ m \notin DOMAIN migs /\ DOMAIN migs' = DOMAIN migs \cup {m}
            /\ \A j \in DOMAIN migs : migs'[j] = migs[j]
            /\ migs'[m] = [pr |-> row.id, text |-> statements[k].text, status |-> "proposed"]
            /\ found'[p] = found[p] \ {k}
            /\ UNCHANGED <<gh, row, statements, pc, copy>>
        BY <1>11, MigrationSubmitted
  <2>2. pc[p] = "migrations"
        BY <1>11 DEF SubmitMigration
  <2>3. /\ Distinct(found[p])
        /\ \A j \in found[p], i \in DOMAIN migs : Alive(i) => migs[i].text # statements[j].text
        BY <2>2 DEF SubmissionInv, Prepares
  <2>4. \A i \in DOMAIN migs : Alive(i)' = Alive(i)
        BY <2>1 DEF Alive
  <2>5. Distinct(found[p])'
        BY <2>1, <2>3 DEF Distinct
  <2>6. \A j \in found'[p], i \in DOMAIN migs' :
            Alive(i)' => migs'[i].text # statements'[j].text
        BY <2>1, <2>3, <2>4 DEF Distinct
  <2>7. Prepares'
        BY <1>1, <2>1, <2>2, <2>5, <2>6 DEF Prepares
  <2>8. NoDuplicates'
        BY <2>1, <2>3, <2>4 DEF SubmissionInv, NoDuplicates
  <2>9. AliveInRow' /\ MovingIsDetected'
        BY <1>4, <2>1, <2>4 DEF SubmissionInv, AliveInRow, LabelInv, MovingIsDetected, OnItsWay
  <2> QED  BY <1>6, <1>8, <2>7, <2>8, <2>9 DEF SubmissionInv, LabelInv
<1>12. CASE Checks(p) \/ NoStatements(p) \/ ReadStatements(p) \/ Comment(p) \/ MigrationsSubmitted(p)
            \/ LabelDetected(p)
  <2>1. UNCHANGED <<statements, migs>> /\ row' = row
        BY <1>12 DEF Checks, NoStatements, ReadStatements, Comment, MigrationsSubmitted,
                     LabelDetected,
                     OnlyMoves, tables
  <2>2. gh'.detected = gh.detected \/ gh'.detected
        BY <1>1, <1>12 DEF Checks, NoStatements, ReadStatements, Comment, MigrationsSubmitted,
                     LabelDetected,
                     OnlyMoves, GitHub
  <2>3. (NoneAlive' = NoneAlive) /\ AliveInRow' /\ MovingIsDetected' /\ NoDuplicates'
        BY <2>1, <2>2 DEF NoneAlive, Alive, AliveInRow, MovingIsDetected, NoDuplicates,
                          SubmissionInv, LabelInv
  <2>4. Prepares'
    <3>1. CASE ReadStatements(p)
      <4>1. /\ pc[p] = "read" /\ pc'[p] \in {"comment", "completed"}
            /\ found'[p] = StatementsOf(row.id)
            BY <1>1, <1>4, <3>1 DEF ReadStatements, Go
      <4>2. NoneAlive /\ Distinct(found'[p])
            BY <4>1 DEF SubmissionInv, Prepares
      <4> QED  BY <1>1, <2>1, <2>3, <4>1, <4>2 DEF Prepares, Distinct
    <3>2. CASE Comment(p)
      <4>1. pc[p] = "comment" /\ pc'[p] = "migrations" /\ found' = found
            BY <1>1, <3>2 DEF Comment, OnlyMoves, Go
      <4> QED  BY <1>1, <2>1, <2>3, <4>1 DEF SubmissionInv, Prepares, Distinct, NoneAlive
    <3>3. CASE Checks(p) \/ NoStatements(p) \/ MigrationsSubmitted(p) \/ LabelDetected(p)
      <4>1. pc'[p] \in {"forget", "completed", "label detected"}
            BY <1>1, <3>3 DEF Checks, NoStatements, MigrationsSubmitted, LabelDetected, OnlyMoves, Go
      <4> QED  BY <1>1, <4>1 DEF Prepares
    <3> QED  BY <1>12, <3>1, <3>2, <3>3
  <2> QED  BY <1>6, <1>8, <2>3, <2>4 DEF SubmissionInv, LabelInv
<1> QED  BY <1>9, <1>10, <1>11, <1>12 DEF EvaluateStep

LEMMA SubmissionQueue ==
    ASSUME OneProber, ApprovalInv, SubmissionInv, NEW p \in Probers, Queue(p)
    PROVE  SubmissionInv'
<1>1. /\ p \in Workers /\ pc \in [Workers -> Places] /\ copy \in [Workers -> PRRow]
      /\ \A q \in Probers : q = p
      /\ migs \in Seq(Migration)
      BY DEF Workers, ApprovalInv, TypeOK, OneProber
<1>2. /\ \A v \in Workers : v # p => pc'[v] = pc[v]
      /\ pc'[p] \in {"completed", "label queued"} /\ UNCHANGED <<gh, copy, found>>
      BY <1>1 DEF Queue, Go
<1>3. row.id # 0 /\ copy[p].id = row.id /\ ~BeingForgotten
      BY DEF Queue, Probing, SubmissionInv, ProbesRow
<1>4. gh.detected
      BY <1>1 DEF Queue, ApprovalInv, QueuesApproved, SubmissionInv, LabelInv, QueuesDetected
<1>5. \A f \in Forgetters : f # p /\ f \in Workers /\ pc[f] = "idle" /\ pc'[f] = "idle"
      BY <1>2, <1>3, PullRequestsAssumption DEF BeingForgotten, Workers
<1>6. DeletesAll' /\ ~BeingForgotten'
      BY <1>5 DEF DeletesAll, BeingForgotten
<1>7. row'.id = row.id
      BY DEF Queue, ApprovalInv, TypeOK, PRRow
<1>8. /\ DOMAIN migs' = DOMAIN migs
      /\ \A k \in DOMAIN migs : /\ migs'[k].pr = migs[k].pr /\ migs'[k].text = migs[k].text
                                /\ Alive(k)' = Alive(k)
  <2>1. \A k \in DOMAIN migs : migs[k] \in Migration
        BY <1>1
  <2>2. /\ DOMAIN migs' = DOMAIN migs
        /\ \A k \in DOMAIN migs : migs'[k] =
              IF migs[k].pr = copy[p].id /\ migs[k].status = "proposed"
              THEN [migs[k] EXCEPT !.status = "queued"] ELSE migs[k]
        BY DEF Queue
  <2>3. ASSUME NEW k \in DOMAIN migs
        PROVE  /\ migs'[k].pr = migs[k].pr /\ migs'[k].text = migs[k].text
               /\ Alive(k)' = Alive(k)
    <3>1. CASE migs[k].pr = copy[p].id /\ migs[k].status = "proposed"
      <4>1. migs'[k] = [migs[k] EXCEPT !.status = "queued"]
            BY <2>2, <3>1
      <4>2. migs[k] \in Migration
            BY <2>1
      <4> QED  BY <3>1, <4>1, <4>2 DEF Migration, Alive
    <3>2. CASE ~(migs[k].pr = copy[p].id /\ migs[k].status = "proposed")
          BY <2>2, <3>2 DEF Alive
    <3> QED  BY <3>1, <3>2
  <2> QED  BY <2>2, <2>3
<1>9. AliveInRow' /\ NoDuplicates'
      BY <1>7, <1>8 DEF SubmissionInv, AliveInRow, NoDuplicates
<1>10. LabelInv'
      BY <1>1, <1>2, <1>4 DEF SubmissionInv, LabelInv, ApprovedIsSettled, MovingIsDetected,
                 QueuesDetected, EvaluatesUndetected, Evaluating
<1>11. ProbesRow' /\ Prepares'
      BY <1>1, <1>2, <1>3, <1>6, <1>7 DEF ProbesRow, Prepares
<1> QED  BY <1>6, <1>9, <1>10, <1>11 DEF SubmissionInv

LEMMA SubmissionRest ==
    ASSUME OneProber, ApprovalInv, SubmissionInv, NEW p \in Probers,
           Ask(p) \/ LabelQueued(p) \/ ReadCompleted(p) \/ Complete(p) \/ UnlabelQueued(p)
             \/ CallFails(p)
    PROVE  SubmissionInv'
<1>1. /\ p \in Workers /\ pc \in [Workers -> Places] /\ copy \in [Workers -> PRRow]
      /\ \A q \in Probers : q = p
      /\ gh \in GitHub /\ row \in PRRow
      BY DEF Workers, ApprovalInv, TypeOK, OneProber
<1>2. \A v \in Workers : v # p => pc'[v] = pc[v] /\ copy'[v] = copy[v]
      BY <1>1 DEF Ask, LabelQueued, ReadCompleted, Complete, UnlabelQueued, CallFails, Go, Keeps
<1>3. /\ UNCHANGED <<statements, migs>> /\ row'.id = row.id
      /\ gh'.detected = gh.detected /\ gh'.approved = gh.approved /\ gh'.action = gh.action
      BY <1>1 DEF Ask, LabelQueued, ReadCompleted, Complete, UnlabelQueued, CallFails, tables,
                  GitHub, PRRow
<1>4. pc'[p] \in {"idle", "completed", "complete", "unlabel"}
      BY <1>1 DEF Ask, LabelQueued, ReadCompleted, Complete, UnlabelQueued, CallFails, Go,
                  OneProber
<1>5. /\ AliveInRow' /\ DeletesAll' /\ ApprovedIsSettled' /\ MovingIsDetected' /\ NoDuplicates'
      BY <1>2, <1>3, ProberMoves
<1>6. ProbesRow' /\ QueuesDetected' /\ EvaluatesUndetected' /\ Prepares'
      BY <1>1, <1>4 DEF ProbesRow, Probing, QueuesDetected, EvaluatesUndetected, Evaluating,
                        Prepares
<1> QED  BY <1>5, <1>6 DEF SubmissionInv, LabelInv

LEMMA SubmissionStep ==
    OneProber /\ ApprovalInv /\ SubmissionInv /\ [Next]_vars => SubmissionInv'
<1> SUFFICES ASSUME OneProber, ApprovalInv, SubmissionInv, [Next]_vars PROVE SubmissionInv'
    OBVIOUS
<1>1. CASE Human \/ Close \/ Relabel \/ Commit \/ ActionStep \/ Migrate \/ UNCHANGED vars
      BY <1>1, SubmissionOutside
<1>2. CASE Crash
      BY <1>2, SubmissionDies DEF Crash
<1>3. ASSUME NEW p \in Probers, Panic(p) PROVE SubmissionInv'
      BY <1>3, SubmissionDies DEF Panic
<1>4. ASSUME NEW s \in Searchers, SearchStep(s) \/ ProbeStep(s) \/ CallFails(s)
      PROVE  SubmissionInv'
      BY <1>4, SubmissionSearcher
<1>5. ASSUME NEW p \in Probers, ProberStep(p) \/ ProbeStep(p) \/ CallFails(p)
      PROVE  SubmissionInv'
      BY <1>5, SubmissionProbe, SubmissionEvaluate, SubmissionQueue, SubmissionRest
      DEF ProberStep
<1>6. ASSUME NEW f \in Forgetters, ReadLabels(f) \/ ForgetStep(f) \/ CallFails(f)
      PROVE  SubmissionInv'
      BY <1>6, SubmissionForgetter
<1> QED  BY <1>1, <1>2, <1>3, <1>4, <1>5, <1>6 DEF Next, Workers

(* Evaluations repeated for whatever reason give no statement of the diff  *)
(* a second migration (ForgetPRStatementsAndMigrations in                  *)
(* evaluatePRMigration), as long as one goroutine at a time evaluates, its *)
(* probes succeed, and forget-pr and commits keep clear of it.             *)
THEOREM NothingTwice == OneProber => (Spec => []NoDuplicates)
<1> SUFFICES ASSUME OneProber PROVE Spec => []NoDuplicates
    OBVIOUS
<1> DEFINE Inv == ApprovalInv /\ SubmissionInv
<1>1. Init => Inv
      BY ApprovalInit, SubmissionInit
<1>2. Inv /\ [Next]_vars => Inv'
      BY ApprovalStep, SubmissionStep
<1>3. Inv => NoDuplicates
      BY DEF SubmissionInv
<1> QED  BY <1>1, <1>2, <1>3, PTL DEF Spec

-----------------------------------------------------------------------------
(* If moreover no label refuses to come off, neither from the Action nor   *)
(* from forget-pr, the detected label says what it should: the diff that   *)
(* was read is the diff there is until the label is set, since the Action  *)
(* has ended when the evaluation begins and no commit starts another.      *)

LabelsComeOff == MayFail \cap {"drop label", "remove detected"} = {}

AliveTexts == {migs[k].text : k \in {j \in DOMAIN migs : Alive(j)}}
TextsIn(S) == {statements[k].text : k \in S}

EditsUndetected == gh.action = "edit" => ~gh.detected

RemovesWhatItSaw ==
    \A f \in Forgetters :
        pc[f] \in {"find row", "delete row"} /\ gh.detected => copy[f].detected

Reading == Evaluating \ {"checks"}

SubmitsAll ==
    \A p \in Probers :
        /\ pc[p] \in Reading => gh.action \in Conclusions
        /\ pc[p] = "statements" => comment[p] = gh.diff
        /\ pc[p] = "read" => TextsIn(StatementsOf(row.id)) = Texts(gh.diff)
        /\ pc[p] \in {"comment", "migrations"} =>
               AliveTexts \cup TextsIn(found[p]) = Texts(gh.diff)
        /\ pc[p] = "label detected" => AliveTexts = Texts(gh.diff)

Submitted ==
    gh.detected =>
        \/ AliveTexts = Texts(gh.diff)
        \/ \E f \in Forgetters : pc[f] = "remove detected"

DetectionInv == EditsUndetected /\ RemovesWhatItSaw /\ SubmitsAll /\ Submitted

LEMMA DetectionInit == Init => DetectionInv
<1> SUFFICES ASSUME Init PROVE DetectionInv
    OBVIOUS
<1>1. (\A w \in Workers : pc[w] = "idle") /\ ~gh.detected
      BY DEF Init
<1> QED
    BY <1>1
    DEF Workers, DetectionInv, EditsUndetected, RemovesWhatItSaw, SubmitsAll, Submitted,
        Reading, Evaluating

(* A step that leaves goroutines, row and statements alone, and the diff   *)
(* as well while the label is on or an evaluation rests on it.             *)
LEMMA DetectionStays ==
    ASSUME DetectionInv, UNCHANGED <<row, statements, pc, copy, found, comment>>,
           AliveTexts' = AliveTexts, gh'.detected => gh.detected /\ gh'.diff = gh.diff,
           EditsUndetected',
           (\E p \in Probers : pc[p] \in Reading) =>
               gh'.diff = gh.diff /\ gh'.action = gh.action
    PROVE  DetectionInv'
<1>1. RemovesWhatItSaw' /\ Submitted'
      BY DEF DetectionInv, RemovesWhatItSaw, Submitted
<1>2. /\ StatementsOf(row.id)' = StatementsOf(row.id)
      /\ \A p \in Probers : TextsIn(found[p])' = TextsIn(found[p])
      /\ TextsIn(StatementsOf(row.id))' = TextsIn(StatementsOf(row.id))
      BY DEF StatementsOf, TextsIn
<1>3. SubmitsAll'
      BY <1>2 DEF DetectionInv, SubmitsAll, Reading, Evaluating
<1> QED  BY <1>1, <1>3 DEF DetectionInv

LEMMA DetectionOutside ==
    ASSUME OneProber, LabelsComeOff, ApprovalInv, SubmissionInv, DetectionInv,
           Human \/ Close \/ Relabel \/ Commit \/ ActionStep \/ Migrate \/ UNCHANGED vars
    PROVE  DetectionInv'
<1>1. gh \in GitHub /\ migs \in Seq(Migration)
      BY DEF ApprovalInv, TypeOK
<1>2. CASE Human \/ Close \/ Relabel
  <2>1. /\ UNCHANGED <<row, statements, migs, pc, copy, found, comment>>
        /\ gh'.detected => gh.detected
        /\ gh'.diff = gh.diff /\ gh'.action = gh.action
        BY <1>1, <1>2 DEF Human, Close, Relabel, tables, GitHub
  <2>2. AliveTexts' = AliveTexts
        BY <2>1 DEF AliveTexts, Alive
  <2> QED  BY <2>1, <2>2, DetectionStays DEF DetectionInv, EditsUndetected
<1>3. CASE Commit
  <2>1. /\ UNCHANGED <<row, statements, migs, pc, copy, found, comment>>
        /\ gh'.detected = gh.detected
        /\ gh'.diff = gh.diff /\ gh'.action = "validate"
        /\ \A p \in Probers : ~Probing(p)
        BY <1>1, <1>3 DEF Commit, tables, GitHub, OneProber
  <2>2. AliveTexts' = AliveTexts
        BY <2>1 DEF AliveTexts, Alive
  <2>3. \A p \in Probers : pc[p] \notin Reading
        BY <2>1 DEF Probing, Reading, Evaluating
  <2> QED  BY <2>1, <2>2, <2>3, DetectionStays DEF EditsUndetected
<1>4. CASE ActionStep
  <2>1. /\ UNCHANGED <<row, statements, migs, pc, copy, found, comment>>
        /\ gh.action \notin Conclusions
        /\ gh'.detected => gh.detected
        BY <1>1, <1>4 DEF ActionStep, Validate, DropLabel, EditComment, tables, GitHub,
                     Conclusions
  <2>2. \A p \in Probers : pc[p] \notin Reading
        BY <2>1 DEF DetectionInv, SubmitsAll
  <2>3. AliveTexts' = AliveTexts
        BY <2>1 DEF AliveTexts, Alive
  <2>4. EditsUndetected' /\ (gh'.detected => gh'.diff = gh.diff)
    <3>1. CASE Validate
          BY <1>1, <3>1 DEF Validate, EditsUndetected, GitHub
    <3>2. CASE DropLabel
          BY <1>1, <3>2 DEF DropLabel, LabelsComeOff, EditsUndetected, GitHub
    <3>3. CASE EditComment
          BY <1>1, <2>1, <3>3 DEF EditComment, DetectionInv, EditsUndetected, GitHub
    <3> QED  BY <1>4, <3>1, <3>2, <3>3 DEF ActionStep
  <2> QED  BY <2>1, <2>2, <2>3, <2>4, DetectionStays
<1>5. CASE Migrate
  <2>1. PICK k \in DOMAIN migs, status \in {"running", "complete"} :
            /\ migs[k].status \in {"queued", "running"}
            /\ migs' = [migs EXCEPT ![k].status = status]
        BY <1>5 DEF Migrate, MigrationsOf
  <2>2. UNCHANGED <<gh, row, statements, pc, copy, found, comment>>
        BY <1>5 DEF Migrate
  <2>3. \A j \in DOMAIN migs : migs'[j].text = migs[j].text /\ Alive(j)' = Alive(j)
    <3> TAKE j \in DOMAIN migs
    <3>1. migs[j] \in Migration
          BY <1>1
    <3>2. migs'[j] = IF j = k THEN [migs[k] EXCEPT !.status = status] ELSE migs[j]
          BY <2>1
    <3> QED  BY <2>1, <3>1, <3>2 DEF Alive, Migration
  <2>4. DOMAIN migs' = DOMAIN migs
        BY <2>1
  <2>5. AliveTexts' = AliveTexts
        BY <2>3, <2>4 DEF AliveTexts
  <2> QED  BY <2>2, <2>5, DetectionStays DEF DetectionInv, EditsUndetected
<1>6. CASE UNCHANGED vars
  <2>1. UNCHANGED <<gh, row, statements, migs, pc, copy, found, comment>>
        BY <1>6 DEF vars, tables
  <2>2. AliveTexts' = AliveTexts
        BY <2>1 DEF AliveTexts, Alive
  <2> QED  BY <2>1, <2>2, DetectionStays DEF DetectionInv, EditsUndetected
<1> QED  BY <1>2, <1>3, <1>4, <1>5, <1>6

LEMMA DetectionDies ==
    ASSUME DetectionInv, Dies, \A f \in Forgetters : pc[f] # "remove detected"
    PROVE  DetectionInv'
<1>1. (\A w \in Workers : pc'[w] = "idle") /\ UNCHANGED <<gh, row, statements, migs>>
      BY DEF Dies, tables
<1>2. AliveTexts' = AliveTexts
      BY <1>1 DEF AliveTexts, Alive
<1> QED
    BY <1>1, <1>2
    DEF Workers, DetectionInv, EditsUndetected, RemovesWhatItSaw, SubmitsAll, Submitted,
        Reading, Evaluating

LEMMA DetectionSearcher ==
    ASSUME ApprovalInv, SubmissionInv, DetectionInv, NEW s \in Searchers,
           SearchStep(s) \/ ProbeStep(s) \/ CallFails(s)
    PROVE  DetectionInv'
<1>1. /\ s \in Workers /\ pc \in [Workers -> Places] /\ copy \in [Workers -> PRRow]
      /\ \A v \in Probers \cup Forgetters : v \in Workers /\ v # s
      BY PullRequestsAssumption DEF Workers, ApprovalInv, TypeOK
<1>2. UNCHANGED <<gh, statements, migs, found, comment>>
      BY DEF SearchStep, Search, Recognize, ProbeStep, ProbeReviews, ProbePull, SubmitPR,
             CallFails, OnlyMoves, tables
<1>3. \A v \in Probers \cup Forgetters : pc'[v] = pc[v] /\ copy'[v] = copy[v]
      BY <1>1 DEF SearchStep, Search, Recognize, ProbeStep, ProbeReviews, ProbePull, SubmitPR,
                  CallFails, OnlyMoves, Go, Keeps
<1>4. row.id # 0 => row'.id = row.id
  <2>1. CASE SubmitPR(s)
        BY <1>1, <2>1 DEF SubmitPR, SubmittedPR, PRRow
  <2>2. CASE ~SubmitPR(s)
        BY <2>2 DEF SearchStep, Search, Recognize, ProbeStep, ProbeReviews, ProbePull,
                    CallFails, OnlyMoves, tables
  <2> QED  BY <2>1, <2>2
<1>5. AliveTexts' = AliveTexts
      BY <1>2 DEF AliveTexts, Alive
<1>6. \A p \in Probers : pc[p] = "read" =>
          TextsIn(StatementsOf(row.id))' = TextsIn(StatementsOf(row.id))
      BY <1>2, <1>4 DEF SubmissionInv, ProbesRow, Probing, StatementsOf, TextsIn
<1>7. \A p \in Probers : TextsIn(found[p])' = TextsIn(found[p])
      BY <1>2 DEF TextsIn
<1>8. SubmitsAll'
      BY <1>2, <1>3, <1>5, <1>6, <1>7 DEF DetectionInv, SubmitsAll
<1> QED  BY <1>2, <1>3, <1>5, <1>8
         DEF DetectionInv, EditsUndetected, RemovesWhatItSaw, Submitted

LEMMA DetectionForgetter ==
    ASSUME OneProber, LabelsComeOff, ApprovalInv, SubmissionInv, SubmissionInv', DetectionInv,
           NEW f \in Forgetters, ReadLabels(f) \/ ForgetStep(f) \/ CallFails(f)
    PROVE  DetectionInv'
<1>1. /\ f \in Workers /\ pc \in [Workers -> Places] /\ copy \in [Workers -> PRRow]
      /\ gh \in GitHub /\ row \in PRRow
      /\ \A g \in Forgetters : g \in Workers
      BY DEF Workers, ApprovalInv, TypeOK
<1>2. \A v \in Workers : v # f => pc'[v] = pc[v] /\ copy'[v] = copy[v]
      BY <1>1 DEF ReadLabels, ForgetStep, FindRow, DeleteRow, RemoveDetected, RemoveQueued,
                  CallFails, Go, Keeps
<1>3. \A p \in Probers : p # f /\ p \in Workers
      BY PullRequestsAssumption DEF Workers
<1>4. \A p \in Probers : ~Probing(p)
  <2>1. CASE ReadLabels(f)
        BY <2>1 DEF ReadLabels, OneProber
  <2>2. CASE ForgetStep(f) \/ CallFails(f)
    <3>1. pc[f] # "idle"
          BY <2>2, PullRequestsAssumption
          DEF ForgetStep, FindRow, DeleteRow, RemoveDetected, RemoveQueued, CallFails, Calls
    <3> QED  BY <3>1 DEF SubmissionInv, ProbesRow, BeingForgotten
  <2> QED  BY <2>1, <2>2
<1>5. SubmitsAll'
  <2>1. \A p \in Probers : pc'[p] \notin Reading
        BY <1>2, <1>3, <1>4 DEF Probing, Reading, Evaluating
  <2> QED  BY <2>1 DEF SubmitsAll, Reading, Evaluating
<1>6. gh'.action = gh.action /\ gh'.diff = gh.diff /\ (gh'.detected => gh.detected)
      BY <1>1 DEF ReadLabels, ForgetStep, FindRow, DeleteRow, RemoveDetected, RemoveQueued,
                  CallFails, GitHub
<1>7. EditsUndetected'
      BY <1>6 DEF DetectionInv, EditsUndetected
<1>8. RemovesWhatItSaw'
  <2>1. pc'[f] \in {"find row", "delete row"} /\ gh.detected => copy'[f].detected
    <3>1. CASE ReadLabels(f)
          BY <1>1, NoRowType, <3>1 DEF ReadLabels, Go, PRRow
    <3>2. CASE FindRow(f)
          BY <1>1, <3>2 DEF FindRow, Go, PRRow, DetectionInv, RemovesWhatItSaw
    <3>3. CASE DeleteRow(f) \/ RemoveDetected(f) \/ RemoveQueued(f)
          BY <1>1, <3>3 DEF DeleteRow, RemoveDetected, RemoveQueued, Go, NextRemoval
    <3>4. CASE CallFails(f)
          BY <1>1, <1>3, <3>4 DEF CallFails, Go
    <3> QED  BY <3>1, <3>2, <3>3, <3>4 DEF ForgetStep
  <2> QED  BY <1>1, <1>2, <1>6, <2>1 DEF DetectionInv, RemovesWhatItSaw
<1>9. Submitted'
  <2>1. CASE DeleteRow(f)
    <3>1. gh' = gh /\ (gh.detected => pc'[f] = "remove detected")
          BY <1>1, <2>1 DEF DeleteRow, Go, NextRemoval, DetectionInv, RemovesWhatItSaw
    <3> QED  BY <3>1 DEF Submitted
  <2>2. CASE RemoveDetected(f)
        BY <1>1, <2>2 DEF RemoveDetected, Submitted, GitHub
  <2>3. CASE ~DeleteRow(f) /\ ~RemoveDetected(f)
    <3>1. pc[f] # "remove detected" /\ UNCHANGED migs
          BY <2>3 DEF ReadLabels, ForgetStep, FindRow, RemoveQueued, CallFails, LabelsComeOff,
                      tables
    <3>2. AliveTexts' = AliveTexts
          BY <3>1 DEF AliveTexts, Alive
    <3> QED  BY <1>1, <1>2, <1>6, <3>1, <3>2 DEF DetectionInv, Submitted
  <2> QED  BY <2>1, <2>2, <2>3
<1> QED  BY <1>5, <1>7, <1>8, <1>9 DEF DetectionInv

LEMMA DetectionProber ==
    ASSUME OneProber, ApprovalInv, SubmissionInv, DetectionInv, NEW p \in Probers,
           ProberStep(p) \/ ProbeStep(p) \/ CallFails(p)
    PROVE  DetectionInv'
<1>1. /\ p \in Workers /\ pc \in [Workers -> Places] /\ copy \in [Workers -> PRRow]
      /\ gh \in GitHub /\ row \in PRRow /\ \A q \in Probers : q = p
      /\ found \in [Workers -> SUBSET (1..Len(statements))]
      /\ migs \in Seq(Migration)
      /\ comment \in [Workers -> 1..Len(Diffs)]
      /\ \A f \in Forgetters : f \in Workers /\ f # p
      BY PullRequestsAssumption DEF Workers, ApprovalInv, TypeOK, OneProber
<1>2. \A v \in Workers : v # p => pc'[v] = pc[v] /\ copy'[v] = copy[v]
      BY <1>1
      DEF ProberStep, ProbeStep, CallFails, ReadOpen, ProbeReviews, ProbePull, SubmitPR, Analyze,
          EvaluateStep, Checks, NoStatements, Forget, SubmitPRStatements, ReadStatements, Comment,
          SubmitMigration, MigrationsSubmitted, LabelDetected, Ask, Queue, LabelQueued,
          ReadCompleted, Complete, UnlabelQueued, OnlyMoves, Go, Keeps
<1>3. ASSUME AliveTexts' = AliveTexts, gh'.detected = gh.detected, gh'.diff = gh.diff,
             gh'.action = gh.action
      PROVE  EditsUndetected' /\ RemovesWhatItSaw' /\ Submitted'
      BY <1>1, <1>2, <1>3 DEF DetectionInv, EditsUndetected, RemovesWhatItSaw, Submitted
<1>4. UNCHANGED migs => AliveTexts' = AliveTexts
      BY DEF AliveTexts, Alive
<1>e. /\ EvaluateStep(p) => Probing(p)
      /\ Probing(p) => /\ row.id # 0 /\ copy[p].id = row.id
                       /\ \A f \in Forgetters : pc[f] = "idle" /\ pc'[f] = "idle"
      BY <1>1, <1>2
      DEF EvaluateStep, Checks, NoStatements, Forget, SubmitPRStatements, ReadStatements, Comment,
          BeingForgotten,
          SubmitMigration, MigrationsSubmitted, LabelDetected, Probing, SubmissionInv, ProbesRow
<1>5. CASE ReadOpen(p) \/ ProbeStep(p) \/ Analyze(p) \/ Ask(p) \/ LabelQueued(p)
           \/ ReadCompleted(p) \/ Complete(p) \/ UnlabelQueued(p) \/ CallFails(p)
  <2>1. /\ UNCHANGED migs /\ gh'.detected = gh.detected /\ gh'.diff = gh.diff
        /\ gh'.action = gh.action
        BY <1>1, <1>5
        DEF ReadOpen, ProbeStep, ProbeReviews, ProbePull, SubmitPR, Analyze, Ask, LabelQueued,
            ReadCompleted, Complete, UnlabelQueued, CallFails, OnlyMoves, tables, GitHub
  <2>2. pc'[p] \notin Reading
        BY <1>1, <1>5
        DEF ReadOpen, ProbeStep, ProbeReviews, ProbePull, SubmitPR, Analyze, Ask, LabelQueued,
            ReadCompleted, Complete, UnlabelQueued, CallFails, OnlyMoves, Go, Reading, Evaluating
  <2>3. SubmitsAll'
        BY <1>1, <2>2 DEF SubmitsAll, Reading, Evaluating
  <2> QED  BY <1>3, <1>4, <2>1, <2>3 DEF DetectionInv
<1>6. CASE Queue(p)
  <2>1. pc'[p] \notin Reading /\ gh' = gh
        BY <1>1, <1>6 DEF Queue, Go, Reading, Evaluating
  <2>2. SubmitsAll'
        BY <1>1, <2>1 DEF SubmitsAll, Reading, Evaluating
  <2>3. /\ DOMAIN migs' = DOMAIN migs
        /\ \A k \in DOMAIN migs : migs'[k] =
              IF migs[k].pr = copy[p].id /\ migs[k].status = "proposed"
              THEN [migs[k] EXCEPT !.status = "queued"] ELSE migs[k]
        BY <1>6 DEF Queue
  <2>4. ASSUME NEW k \in DOMAIN migs
        PROVE  migs'[k].text = migs[k].text /\ Alive(k)' = Alive(k)
    <3>1. migs[k] \in Migration
          BY <1>1
    <3>2. CASE migs[k].pr = copy[p].id /\ migs[k].status = "proposed"
      <4>1. migs'[k] = [migs[k] EXCEPT !.status = "queued"]
            BY <2>3, <3>2
      <4> QED  BY <3>1, <3>2, <4>1 DEF Migration, Alive
    <3>3. CASE ~(migs[k].pr = copy[p].id /\ migs[k].status = "proposed")
          BY <2>3, <3>3 DEF Alive
    <3> QED  BY <3>2, <3>3
  <2>5. AliveTexts' = AliveTexts
        BY <2>3, <2>4 DEF AliveTexts
  <2> QED  BY <1>3, <2>1, <2>2, <2>5 DEF DetectionInv
<1>7. CASE Checks(p) \/ NoStatements(p) \/ ReadStatements(p) \/ Comment(p) \/ MigrationsSubmitted(p)
  <2>1. /\ UNCHANGED <<gh, row, statements, migs, comment>>
        BY <1>7 DEF Checks, NoStatements, ReadStatements, Comment, MigrationsSubmitted, OnlyMoves,
                    tables
  <2>2. AliveTexts' = AliveTexts
        BY <1>4, <2>1
  <2>3. SubmitsAll'
    <3>1. CASE Checks(p)
      <4>1. pc'[p] \in {"forget", "completed"} /\ gh.action \in Conclusions
            BY <1>1, <3>1 DEF Checks, OnlyMoves, Go
      <4> QED  BY <1>1, <2>1, <4>1 DEF SubmitsAll, Reading, Evaluating
    <3>2. CASE ReadStatements(p)
      <4>1. /\ pc[p] = "read" /\ pc'[p] \in {"comment", "completed"}
            /\ found'[p] = StatementsOf(row.id)
            BY <1>1, <1>e, <3>2 DEF ReadStatements, Go, Probing
      <4>2. TextsIn(found[p])' = Texts(gh.diff) /\ gh.action \in Conclusions
            BY <2>1, <4>1 DEF TextsIn, DetectionInv, SubmitsAll, Reading, Evaluating
      <4>3. AliveTexts = {}
            BY <4>1 DEF SubmissionInv, Prepares, NoneAlive, AliveTexts
      <4> QED  BY <1>1, <2>1, <2>2, <4>1, <4>2, <4>3 DEF SubmitsAll, Reading, Evaluating
    <3>3. CASE Comment(p)
      <4>1. pc[p] = "comment" /\ pc'[p] = "migrations" /\ found' = found
            BY <1>1, <3>3 DEF Comment, OnlyMoves, Go
      <4>2. TextsIn(found[p])' = TextsIn(found[p])
            BY <2>1, <4>1 DEF TextsIn
      <4> QED  BY <1>1, <2>1, <2>2, <4>1, <4>2
               DEF DetectionInv, SubmitsAll, Reading, Evaluating
    <3>4. CASE MigrationsSubmitted(p)
      <4>1. pc[p] = "migrations" /\ pc'[p] = "label detected" /\ found[p] = {}
            BY <1>1, <3>4 DEF MigrationsSubmitted, OnlyMoves, Go
      <4>2. TextsIn(found[p]) = {}
            BY <4>1 DEF TextsIn
      <4> QED  BY <1>1, <2>1, <2>2, <4>1, <4>2
               DEF DetectionInv, SubmitsAll, Reading, Evaluating
    <3>5. CASE NoStatements(p)
      <4>1. pc'[p] = "completed"
            BY <1>1, <3>5 DEF NoStatements, OnlyMoves, Go
      <4> QED  BY <1>1, <4>1 DEF SubmitsAll, Reading, Evaluating
    <3> QED  BY <1>7, <3>1, <3>2, <3>3, <3>4, <3>5
  <2> QED  BY <1>3, <2>1, <2>2, <2>3 DEF DetectionInv
<1>8. CASE Forget(p)
  <2>1. /\ pc[p] = "forget" /\ pc'[p] = "statements" /\ gh' = gh /\ comment'[p] = gh.diff
        /\ EvaluateStep(p)
        BY <1>1, <1>8 DEF Forget, Go, EvaluateStep
  <2>2. ~gh.detected /\ gh.action \in Conclusions
        BY <2>1 DEF SubmissionInv, LabelInv, EvaluatesUndetected, Evaluating, DetectionInv,
                    SubmitsAll, Reading
  <2>3. SubmitsAll'
        BY <1>1, <2>1, <2>2 DEF SubmitsAll, Reading, Evaluating
  <2> QED  BY <1>e, <2>1, <2>2, <2>3
           DEF DetectionInv, EditsUndetected, RemovesWhatItSaw, Submitted
<1>9. CASE SubmitPRStatements(p)
  <2> DEFINE diff == Diffs[comment[p]]
             n == Len(statements)
  <2>1. /\ \A k \in StatementsOf(row.id)' :
              k - n \in DOMAIN diff /\ statements'[k].text = diff[k - n]
        /\ \A i \in DOMAIN diff :
              n + i \in StatementsOf(row.id)' /\ statements'[n + i].text = diff[i]
        /\ UNCHANGED <<gh, row, migs, found, copy>>
        BY <1>9, StatementsSubmitted
  <2>2. pc[p] = "statements" /\ pc'[p] = "read"
        BY <1>1, <1>9 DEF SubmitPRStatements, Go
  <2>3. comment[p] = gh.diff /\ gh.action \in Conclusions
        BY <2>2 DEF DetectionInv, SubmitsAll, Reading, Evaluating
  <2>4. TextsIn(StatementsOf(row.id))' = Texts(gh.diff)
    <3>1. Texts(gh.diff) = {diff[i] : i \in DOMAIN diff}
          BY <2>3 DEF Texts
    <3> HIDE DEF diff, n
    <3>2. TextsIn(StatementsOf(row.id))' = {diff[i] : i \in DOMAIN diff}
          BY <2>1 DEF TextsIn
    <3> QED  BY <3>1, <3>2
  <2>5. SubmitsAll'
        BY <1>1, <2>1, <2>2, <2>3, <2>4 DEF SubmitsAll, Reading, Evaluating
  <2> QED  BY <1>3, <1>4, <2>1, <2>5 DEF DetectionInv
<1>10. CASE SubmitMigration(p)
  <2>1. PICK k \in found[p], m \in Nat :
            /\ m \notin DOMAIN migs /\ DOMAIN migs' = DOMAIN migs \cup {m}
            /\ \A j \in DOMAIN migs : migs'[j] = migs[j]
            /\ migs'[m] = [pr |-> row.id, text |-> statements[k].text, status |-> "proposed"]
            /\ found'[p] = found[p] \ {k}
            /\ UNCHANGED <<gh, row, statements, pc, copy>>
        BY <1>10, MigrationSubmitted
  <2>2. pc[p] = "migrations" /\ ~gh.detected /\ gh.action \in Conclusions
        BY <1>10 DEF SubmitMigration, SubmissionInv, LabelInv, EvaluatesUndetected, Evaluating,
                     DetectionInv, SubmitsAll, Reading
  <2>3. AliveTexts' = AliveTexts \cup {statements[k].text}
    <3>1. (\A j \in DOMAIN migs : Alive(j)' = Alive(j)) /\ Alive(m)'
          BY <2>1 DEF Alive
    <3> QED  BY <2>1, <3>1 DEF AliveTexts
  <2>4. TextsIn(found[p])' \cup {statements[k].text} = TextsIn(found[p])
        BY <2>1 DEF TextsIn
  <2>5. SubmitsAll'
        BY <1>1, <2>1, <2>2, <2>3, <2>4 DEF DetectionInv, SubmitsAll, Reading, Evaluating
  <2> QED  BY <2>1, <2>2, <2>5
           DEF DetectionInv, EditsUndetected, RemovesWhatItSaw, Submitted
<1>11. CASE LabelDetected(p)
  <2>1. /\ pc[p] = "label detected" /\ pc'[p] = "completed" /\ UNCHANGED migs
        /\ gh'.diff = gh.diff /\ gh'.action = gh.action /\ EvaluateStep(p)
        BY <1>1, <1>11 DEF LabelDetected, Go, tables, GitHub, EvaluateStep
  <2>2. AliveTexts = Texts(gh.diff) /\ gh.action \in Conclusions
        BY <2>1 DEF DetectionInv, SubmitsAll, Reading, Evaluating
  <2>3. SubmitsAll'
        BY <1>1, <2>1 DEF SubmitsAll, Reading, Evaluating
  <2> QED  BY <1>4, <1>e, <2>1, <2>2, <2>3
           DEF DetectionInv, EditsUndetected, RemovesWhatItSaw, Submitted, Conclusions
<1> QED  BY <1>5, <1>6, <1>7, <1>8, <1>9, <1>10, <1>11 DEF ProberStep, EvaluateStep

LEMMA DetectionStep ==
    OneProber /\ LabelsComeOff /\ ApprovalInv /\ SubmissionInv /\ DetectionInv /\ [Next]_vars
        => DetectionInv'
<1> SUFFICES ASSUME OneProber, LabelsComeOff, ApprovalInv, SubmissionInv, DetectionInv,
                    [Next]_vars
             PROVE  DetectionInv'
    OBVIOUS
<1>1. CASE Human \/ Close \/ Relabel \/ Commit \/ ActionStep \/ Migrate \/ UNCHANGED vars
      BY <1>1, DetectionOutside
<1>2. CASE Crash
  <2>1. \A f \in Forgetters : pc[f] # "remove detected"
        BY <1>2 DEF Crash, LabelsComeOff, Calls
  <2> QED  BY <1>2, <2>1, DetectionDies DEF Crash
<1>3. ASSUME NEW p \in Probers, Panic(p) PROVE DetectionInv'
  <2>1. \A f \in Forgetters : pc[f] # "remove detected"
        BY <1>3 DEF Panic, Probing, SubmissionInv, ProbesRow, BeingForgotten
  <2> QED  BY <1>3, <2>1, DetectionDies DEF Panic
<1>4. ASSUME NEW s \in Searchers, SearchStep(s) \/ ProbeStep(s) \/ CallFails(s)
      PROVE  DetectionInv'
      BY <1>4, DetectionSearcher
<1>5. ASSUME NEW p \in Probers, ProberStep(p) \/ ProbeStep(p) \/ CallFails(p)
      PROVE  DetectionInv'
      BY <1>5, DetectionProber
<1>6. ASSUME NEW f \in Forgetters, ReadLabels(f) \/ ForgetStep(f) \/ CallFails(f)
      PROVE  DetectionInv'
      BY <1>6, SubmissionStep, DetectionForgetter
<1> QED  BY <1>1, <1>2, <1>3, <1>4, <1>5, <1>6 DEF Next, Workers

LEMMA LabelSaysSubmitted == SubmissionInv /\ Submitted => DetectedIsSubmitted
<1> SUFFICES ASSUME SubmissionInv, Submitted PROVE DetectedIsSubmitted
    OBVIOUS
<1>1. {migs[k].text : k \in {j \in MigrationsOf(row.id) : Alive(j)}} = AliveTexts
      BY DEF SubmissionInv, AliveInRow, MigrationsOf, AliveTexts
<1> QED  BY <1>1 DEF Submitted, DetectedIsSubmitted

(* The detected label that evaluatePRMigration sets last, and that ends    *)
(* evaluation, is only on a pull request whose migrations are those of its *)
(* diff comment, after any crashes, repeated evaluations and new diffs.    *)
THEOREM DetectionIsSubmission ==
    OneProber /\ LabelsComeOff => (Spec => []DetectedIsSubmitted)
<1> SUFFICES ASSUME OneProber, LabelsComeOff PROVE Spec => []DetectedIsSubmitted
    OBVIOUS
<1> DEFINE Inv == ApprovalInv /\ SubmissionInv /\ DetectionInv
<1>1. Init => Inv
      BY ApprovalInit, SubmissionInit, DetectionInit
<1>2. Inv /\ [Next]_vars => Inv'
      BY ApprovalStep, SubmissionStep, DetectionStep
<1>3. Inv => DetectedIsSubmitted
      BY LabelSaysSubmitted DEF DetectionInv
<1> QED  BY <1>1, <1>2, <1>3, PTL DEF Spec

-----------------------------------------------------------------------------
(* If only those calls fail after which the next tick takes up where this  *)
(* one stopped, and no diff is empty, complete means complete.  The danger *)
(* is a pull request whose migrations are all withdrawn: it would count as *)
(* done.  Nobody looks whether it is done before it has new migrations.    *)
(* (A diff that becomes empty, after an evaluation was cut short by a      *)
(* crash, has the next one end before it submits any.)                     *)

Steadily ==
    /\ MayFail \subseteq {"label detected", "ask", "label queued", "remove queued", "unlabel"}
    /\ \A v \in 1..Len(Diffs) : Texts(v) # {}

AllComplete ==
    \A t \in Texts(gh.diff) : \E k \in DOMAIN migs :
        migs[k].text = t /\ migs[k].status = "complete"

KnownIds ==
    /\ row.id < nextId
    /\ \A w \in Workers : copy[w].id < nextId
    /\ \A k \in DOMAIN migs : migs[k].pr < nextId

QueuedIsFinal ==
    /\ gh.queued => gh.approved
    /\ gh.action # "failure"
    /\ \A p \in Probers : pc[p] = "label queued" => gh.approved

OpenAsSeen ==
    /\ row.id # 0 /\ gh.open => row.open
    /\ \A w \in Workers : pc[w] \in {"submit", "analyze"} /\ gh.open => copy[w].open

ForReviewAsSeen ==
    /\ row.id # 0 /\ MigrationsOf(row.id) # {} => gh.forReview
    /\ \A p \in Probers :
           /\ pc[p] \in {"submit", "analyze"} /\ copy[p].forReview => gh.forReview
           /\ pc[p] \in Evaluating => gh.forReview

CompleteAsSeen ==
    /\ \A s \in Searchers :
           pc[s] \in {"reviews", "pull", "submit"} => copy[s].status # "complete"
    /\ \A p \in Probers :
           /\ Probing(p) /\ gh.open /\ copy[p].status = "complete" => AllComplete
           /\ pc[p] = "complete" /\ gh.open /\ copy[p].id = row.id => AllComplete
           /\ pc[p] = "complete" => copy[p].id # 0

Hollow == gh.open /\ row.id # 0 /\ MigrationsOf(row.id) # {} /\ NoneAlive

FillsUp ==
    \A p \in Probers : Hollow =>
        /\ pc[p] \notin {"completed", "complete", "queue", "ask", "label queued",
                         "label detected", "remove queued"}
        /\ pc[p] \in {"submit", "analyze"} => copy[p].forReview /\ ~copy[p].detected

CompletionInv ==
    /\ KnownIds /\ QueuedIsFinal /\ OpenAsSeen /\ ForReviewAsSeen
    /\ CompleteAsSeen /\ FillsUp /\ CompleteMeansComplete

StepInv == ApprovalInv /\ SubmissionInv /\ DetectionInv

LEMMA CompletionInit == Init => CompletionInv
<1> SUFFICES ASSUME Init PROVE CompletionInv
    OBVIOUS
<1>1. /\ \A w \in Workers : pc[w] = "idle" /\ copy[w].id = 0
      /\ row.id = 0 /\ row.status = "detected" /\ nextId = 1 /\ DOMAIN migs = {}
      /\ ~gh.queued /\ gh.action = "success"
      BY DEF Init, NoRow
<1>2. KnownIds
      BY <1>1 DEF KnownIds
<1>3. QueuedIsFinal /\ OpenAsSeen /\ CompleteMeansComplete
      BY <1>1 DEF Workers, QueuedIsFinal, OpenAsSeen, CompleteMeansComplete
<1>4. ForReviewAsSeen /\ CompleteAsSeen
      BY <1>1 DEF Workers, ForReviewAsSeen, CompleteAsSeen, Evaluating, Probing
<1>5. FillsUp
      BY <1>1 DEF FillsUp, Hollow
<1> QED  BY <1>2, <1>3, <1>4, <1>5 DEF CompletionInv

(* A complete diff is an approved one.                                     *)
LEMMA CompleteIsApproved ==
    ASSUME Steadily, StepInv, AllComplete
    PROVE  gh.approved /\ gh.detected /\ ~NoneAlive /\ gh.action \in Conclusions
<1>1. gh.diff \in 1..Len(Diffs)
      BY DEF StepInv, ApprovalInv, TypeOK, GitHub
<1>2. PICK k \in DOMAIN migs : migs[k].status = "complete"
      BY <1>1 DEF Steadily, AllComplete
<1>3. OnItsWay(migs[k]) /\ Alive(k)
      BY <1>2 DEF OnItsWay, Alive
<1> QED  BY <1>3 DEF StepInv, ApprovalInv, MovingIsApproved, SubmissionInv, LabelInv,
                     MovingIsDetected, NoneAlive, ApprovedIsSettled

(* What the label stands for is not hollow.                                *)
LEMMA DetectedIsNotHollow ==
    ASSUME Steadily, StepInv, NoneAlive, gh.detected
    PROVE  \E f \in Forgetters : pc[f] = "remove detected"
<1>1. Texts(gh.diff) # {}
      BY DEF StepInv, ApprovalInv, TypeOK, GitHub, Steadily
<1>2. AliveTexts = {}
      BY DEF NoneAlive, AliveTexts
<1> QED  BY <1>1, <1>2 DEF StepInv, DetectionInv, Submitted

LEMMA CompletionOutside ==
    ASSUME OneProber, Steadily, StepInv, CompletionInv,
           Human \/ Close \/ Relabel \/ Commit \/ ActionStep \/ Migrate \/ UNCHANGED vars
    PROVE  CompletionInv'
<1>1. gh \in GitHub /\ migs \in Seq(Migration) /\ ApprovedIsSettled
      BY DEF StepInv, ApprovalInv, TypeOK, SubmissionInv, LabelInv
<1>2. UNCHANGED <<row, statements, nextId, pc, copy, found, comment>>
      BY DEF Human, Close, Relabel, Commit, ActionStep, Validate, DropLabel, EditComment, Migrate,
             tables, vars
<1>3. /\ gh'.open => gh.open
      /\ gh.forReview => gh'.forReview
      /\ gh.approved => gh'.approved
      /\ gh'.queued = gh.queued
      BY <1>1 DEF Human, Close, Relabel, Commit, ActionStep, Validate, DropLabel, EditComment,
                  Migrate, vars, GitHub
<1>4. gh'.action # "failure"
  <2>1. CASE Validate
    <3>1. ~gh.queued
          BY <1>1, <2>1 DEF Validate, CompletionInv, QueuedIsFinal, ApprovedIsSettled, Conclusions
    <3> QED  BY <1>1, <2>1, <3>1 DEF Validate, GitHub
  <2>2. CASE ~Validate
        BY <1>1, <2>2 DEF Human, Close, Relabel, Commit, ActionStep, DropLabel, EditComment,
                          Migrate, vars, GitHub, CompletionInv, QueuedIsFinal
  <2> QED  BY <2>1, <2>2
<1>5. /\ DOMAIN migs' = DOMAIN migs
      /\ \A k \in DOMAIN migs :
            /\ migs'[k].pr = migs[k].pr /\ migs'[k].text = migs[k].text
            /\ Alive(k)' = Alive(k)
            /\ migs[k].status = "complete" => migs'[k].status = "complete"
  <2>1. CASE Migrate
    <3>1. PICK k \in DOMAIN migs, status \in {"running", "complete"} :
              /\ migs[k].status \in {"queued", "running"}
              /\ migs' = [migs EXCEPT ![k].status = status]
          BY <2>1 DEF Migrate, MigrationsOf
    <3>2. ASSUME NEW j \in DOMAIN migs
          PROVE  /\ migs'[j].pr = migs[j].pr /\ migs'[j].text = migs[j].text
                 /\ Alive(j)' = Alive(j)
                 /\ migs[j].status = "complete" => migs'[j].status = "complete"
      <4>1. migs[j] \in Migration
            BY <1>1
      <4>2. migs'[j] = IF j = k THEN [migs[k] EXCEPT !.status = status] ELSE migs[j]
            BY <3>1
      <4> QED  BY <3>1, <4>1, <4>2 DEF Alive, Migration
    <3> QED  BY <3>1, <3>2
  <2>2. CASE ~Migrate
    <3>1. migs' = migs
          BY <2>2 DEF Human, Close, Relabel, Commit, ActionStep, Validate, DropLabel, EditComment,
                      tables, vars
    <3> QED  BY <3>1 DEF Alive
  <2> QED  BY <2>1, <2>2
<1>6. AllComplete => AllComplete'
  <2> SUFFICES ASSUME AllComplete PROVE AllComplete'
      OBVIOUS
  <2>1. gh.action \in Conclusions
        BY CompleteIsApproved
  <2>2. gh'.diff = gh.diff
        BY <1>1, <2>1 DEF Human, Close, Relabel, Commit, ActionStep, Validate, DropLabel,
                          EditComment, Migrate, vars, GitHub, Conclusions
  <2> QED  BY <1>5, <2>2 DEF AllComplete
<1>7. (MigrationsOf(row.id)' = MigrationsOf(row.id)) /\ (NoneAlive' = NoneAlive)
      BY <1>2, <1>5 DEF MigrationsOf, NoneAlive
<1>8. KnownIds' /\ QueuedIsFinal' /\ OpenAsSeen' /\ ForReviewAsSeen'
      BY <1>2, <1>3, <1>4, <1>5, <1>7
      DEF CompletionInv, KnownIds, QueuedIsFinal, OpenAsSeen, ForReviewAsSeen
<1>9. CompleteAsSeen' /\ FillsUp'
      BY <1>2, <1>3, <1>6, <1>7 DEF CompletionInv, CompleteAsSeen, FillsUp, Hollow, Probing
<1>10. CompleteMeansComplete'
      BY <1>2, <1>3, <1>6 DEF CompletionInv, CompleteMeansComplete, AllComplete
<1> QED  BY <1>8, <1>9, <1>10 DEF CompletionInv

LEMMA CompletionDies ==
    ASSUME StepInv, CompletionInv, Dies PROVE CompletionInv'
<1>1. /\ \A w \in Workers : pc'[w] = "idle" /\ copy'[w].id = 0
      /\ UNCHANGED <<gh, row, statements, migs, nextId>>
      BY DEF Dies, tables, NoRow
<1>2. row.id \in Nat /\ nextId \in Nat \ {0}
      BY DEF StepInv, ApprovalInv, TypeOK, PRRow
<1>3. KnownIds'
      BY <1>1, <1>2 DEF CompletionInv, KnownIds
<1> QED
    BY <1>1, <1>3
    DEF Workers, CompletionInv, QueuedIsFinal, OpenAsSeen, ForReviewAsSeen, MigrationsOf,
        CompleteAsSeen, FillsUp, CompleteMeansComplete, Evaluating, Probing

LEMMA CompletionSearcher ==
    ASSUME OneProber, Steadily, StepInv, CompletionInv, NEW s \in Searchers,
           SearchStep(s) \/ ProbeStep(s) \/ CallFails(s)
    PROVE  CompletionInv'
<1>1. /\ s \in Workers /\ pc \in [Workers -> Places] /\ copy \in [Workers -> PRRow]
      /\ gh \in GitHub /\ row \in PRRow /\ nextId \in Nat \ {0}
      /\ s \notin Probers
      /\ \A v \in Probers : v \in Workers /\ v # s
      BY PullRequestsAssumption DEF Workers, StepInv, ApprovalInv, TypeOK
<1>2. UNCHANGED <<gh, statements, migs, found, comment>>
      BY DEF SearchStep, Search, Recognize, ProbeStep, ProbeReviews, ProbePull, SubmitPR,
             CallFails, OnlyMoves, tables
<1>3. \A v \in Workers : v # s => pc'[v] = pc[v] /\ copy'[v] = copy[v]
      BY <1>1 DEF SearchStep, Search, Recognize, ProbeStep, ProbeReviews, ProbePull, SubmitPR,
                  CallFails, OnlyMoves, Go, Keeps
<1>4. (NoneAlive' = NoneAlive) /\ (AllComplete' = AllComplete)
      BY <1>2 DEF NoneAlive, Alive, AllComplete
<1>5. CASE SubmitPR(s)
  <2>1. /\ pc[s] = "submit" /\ row' = SubmittedPR(copy[s])
        /\ nextId' = IF row.id = 0 THEN nextId + 1 ELSE nextId
        /\ pc'[s] = "idle" /\ copy'[s] = NoRow
        BY <1>1, <1>5 DEF SubmitPR, Go, Keeps
  <2>2. copy[s] \in PRRow /\ copy[s].status # "complete" /\ (gh.open => copy[s].open)
        BY <1>1, <2>1 DEF CompletionInv, CompleteAsSeen, OpenAsSeen
  <2>3. /\ row.id # 0 => row'.id = row.id /\ nextId' = nextId
        /\ row.id = 0 => row'.id = nextId /\ nextId' = nextId + 1
        /\ row'.status # "complete" /\ (gh.open => row'.open)
        BY <1>1, <2>1, <2>2 DEF SubmittedPR, PRRow
  <2>4. row.id = 0 => MigrationsOf(row.id)' = {}
    <3>1. \A k \in DOMAIN migs : migs[k].pr # nextId
      <4>1. migs \in Seq(Migration)
            BY DEF StepInv, ApprovalInv, TypeOK
      <4>2. \A k \in DOMAIN migs : migs[k] \in Migration
            BY <4>1
      <4>3. \A k \in DOMAIN migs : migs[k].pr \in Nat /\ migs[k].pr < nextId
            BY <4>2 DEF Migration, CompletionInv, KnownIds
      <4> QED  BY <1>1, <4>3
    <3> QED  BY <1>2, <2>3, <3>1 DEF MigrationsOf
  <2>5. row.id # 0 => MigrationsOf(row.id)' = MigrationsOf(row.id)
        BY <1>2, <2>3 DEF MigrationsOf
  <2>6. KnownIds'
    <3>1. migs \in Seq(Migration)
          BY DEF StepInv, ApprovalInv, TypeOK
    <3>4. \A k \in DOMAIN migs : migs[k] \in Migration
          BY <3>1
    <3>2. \A k \in DOMAIN migs : migs[k].pr \in Nat
          BY <3>4 DEF Migration
    <3>3. row.id \in Nat /\ NoRow.id = 0 /\ \A w \in Workers : copy[w].id \in Nat
          BY <1>1 DEF PRRow, NoRow
    <3> QED  BY <1>1, <1>2, <1>3, <2>1, <2>3, <3>2, <3>3 DEF CompletionInv, KnownIds
  <2>7. QueuedIsFinal' /\ OpenAsSeen'
        BY <1>1, <1>2, <1>3, <2>1, <2>3 DEF CompletionInv, QueuedIsFinal, OpenAsSeen
  <2>8. ForReviewAsSeen'
        BY <1>1, <1>2, <1>3, <2>3, <2>4, <2>5 DEF CompletionInv, ForReviewAsSeen
  <2>9. CompleteAsSeen'
    <3>1. \A p \in Probers : pc[p] = "complete" /\ copy[p].id = row'.id => copy[p].id = row.id
      <4>1. \A p \in Probers : copy[p].id \in Nat /\ copy[p].id < nextId
            BY <1>1 DEF PRRow, CompletionInv, KnownIds
      <4> QED  BY <1>1, <2>3, <4>1
    <3>2. \A t \in Searchers : t \in Workers
          BY DEF Workers
    <3> QED  BY <1>1, <1>2, <1>3, <1>4, <2>1, <3>1, <3>2
             DEF CompletionInv, CompleteAsSeen, Probing
  <2>10. FillsUp'
    <3>1. Hollow' => Hollow
          BY <1>2, <1>4, <2>3, <2>4, <2>5 DEF Hollow
    <3> QED  BY <1>1, <1>3, <3>1 DEF CompletionInv, FillsUp
  <2>11. CompleteMeansComplete'
        BY <2>3 DEF CompleteMeansComplete
  <2> QED  BY <2>6, <2>7, <2>8, <2>9, <2>10, <2>11 DEF CompletionInv
<1>6. CASE ~SubmitPR(s)
  <2>1. row' = row /\ nextId' = nextId
        BY <1>6 DEF SearchStep, Search, Recognize, ProbeStep, ProbeReviews, ProbePull,
                    CallFails, OnlyMoves, tables
  <2>2. /\ copy'[s].id < nextId
        /\ pc'[s] \in {"submit", "analyze"} /\ gh.open => copy'[s].open
        /\ pc'[s] \in {"reviews", "pull", "submit"} => copy'[s].status # "complete"
    <3>0. /\ copy[s] \in PRRow /\ copy[s].id < nextId /\ row.id < nextId /\ NoRow.id < nextId
          /\ pc[s] \in {"reviews", "pull", "submit"} => copy[s].status # "complete"
          /\ pc[s] \in {"submit", "analyze"} /\ gh.open => copy[s].open
          BY <1>1 DEF CompletionInv, KnownIds, CompleteAsSeen, OpenAsSeen, NoRow
    <3>1. CASE Search(s)
          BY <1>1, <3>0, <3>1 DEF Search, OnlyMoves, Go
    <3>2. CASE Recognize(s)
          BY <1>1, <3>0, <3>2 DEF Recognize, Go
    <3>3. CASE ProbeReviews(s)
          BY <1>1, <3>0, <3>3 DEF ProbeReviews, Go, PRRow
    <3>4. CASE ProbePull(s)
          BY <1>1, <3>0, <3>4 DEF ProbePull, Go, PRRow
    <3>5. CASE CallFails(s)
          BY <1>1, <3>0, <3>5 DEF CallFails, Go, Keeps
    <3> QED  BY <1>6, <3>1, <3>2, <3>3, <3>4, <3>5 DEF SearchStep, ProbeStep
  <2>3. MigrationsOf(row.id)' = MigrationsOf(row.id)
        BY <1>2, <2>1 DEF MigrationsOf
  <2>4. Hollow' = Hollow
        BY <1>2, <1>4, <2>1, <2>3 DEF Hollow
  <2>5. \A t \in Searchers : t \in Workers
        BY DEF Workers
  <2>6. KnownIds' /\ QueuedIsFinal' /\ OpenAsSeen'
        BY <1>1, <1>2, <1>3, <2>1, <2>2 DEF CompletionInv, KnownIds, QueuedIsFinal, OpenAsSeen
  <2>7. ForReviewAsSeen' /\ FillsUp'
        BY <1>1, <1>2, <1>3, <2>1, <2>3, <2>4 DEF CompletionInv, ForReviewAsSeen, FillsUp
  <2>8. CompleteAsSeen'
        BY <1>1, <1>2, <1>3, <1>4, <2>1, <2>2, <2>5 DEF CompletionInv, CompleteAsSeen, Probing
  <2>9. CompleteMeansComplete'
        BY <1>2, <1>4, <2>1 DEF CompletionInv, CompleteMeansComplete, AllComplete
  <2> QED  BY <2>6, <2>7, <2>8, <2>9 DEF CompletionInv
<1> QED  BY <1>5, <1>6

LEMMA CompletionForgetter ==
    ASSUME OneProber, Steadily, StepInv, CompletionInv, NEW f \in Forgetters,
           ReadLabels(f) \/ ForgetStep(f) \/ CallFails(f)
    PROVE  CompletionInv'
<1>1. /\ f \in Workers /\ pc \in [Workers -> Places] /\ copy \in [Workers -> PRRow]
      /\ gh \in GitHub /\ row \in PRRow /\ (row.id = 0 => row = NoRow)
      /\ nextId \in Nat \ {0}
      /\ \A v \in Probers \cup Searchers : v # f /\ v \in Workers
      BY PullRequestsAssumption DEF Workers, StepInv, ApprovalInv, TypeOK
<1>2. \A v \in Workers : v # f => pc'[v] = pc[v] /\ copy'[v] = copy[v]
      BY <1>1 DEF ReadLabels, ForgetStep, FindRow, DeleteRow, RemoveDetected, RemoveQueued,
                  CallFails, Go, Keeps
<1>3. \A p \in Probers : ~Probing(p)
  <2>1. CASE ReadLabels(f)
        BY <2>1 DEF ReadLabels, OneProber
  <2>2. CASE ForgetStep(f) \/ CallFails(f)
    <3>1. pc[f] # "idle"
          BY <2>2, PullRequestsAssumption
          DEF ForgetStep, FindRow, DeleteRow, RemoveDetected, RemoveQueued, CallFails, Calls
    <3> QED  BY <3>1 DEF StepInv, SubmissionInv, ProbesRow, BeingForgotten
  <2> QED  BY <2>1, <2>2
<1>4. /\ UNCHANGED nextId /\ gh'.open = gh.open /\ gh'.forReview = gh.forReview
      /\ gh'.approved = gh.approved /\ gh'.action = gh.action /\ gh'.diff = gh.diff
      /\ gh'.queued => gh.queued
      /\ row' = row \/ row' = NoRow
      BY <1>1 DEF ReadLabels, ForgetStep, FindRow, DeleteRow, RemoveDetected, RemoveQueued,
                  CallFails, tables, GitHub
<1>m. /\ pc'[f] \notin {"submit", "analyze"}
      /\ copy'[f] \in {NoRow, copy[f], [copy[f] EXCEPT !.id = row.id]} \/ copy'[f].id = 0
  <2>1. NoRow.id = 0 /\ f \notin Probers
        BY <1>1 DEF NoRow
  <2>2. CASE ReadLabels(f)
    <3>1. copy'[f] = [NoRow EXCEPT !.detected = gh.detected, !.queued = gh.queued]
          BY <1>1, <2>2 DEF ReadLabels
    <3> QED  BY <1>1, <2>2, <3>1 DEF ReadLabels, Go, NoRow
  <2>3. CASE FindRow(f)
        BY <1>1, <2>3 DEF FindRow, Go, Keeps
  <2>4. CASE DeleteRow(f)
        BY <1>1, <2>4 DEF DeleteRow, Go, Keeps, NextRemoval
  <2>5. CASE RemoveDetected(f)
        BY <1>1, <2>5 DEF RemoveDetected, Go, Keeps, NextRemoval
  <2>6. CASE RemoveQueued(f)
        BY <1>1, <2>6 DEF RemoveQueued, Go, Keeps
  <2>7. CASE CallFails(f)
        BY <1>1, <2>1, <2>7 DEF CallFails, Go, Keeps
  <2> QED  BY <2>2, <2>3, <2>4, <2>5, <2>6, <2>7 DEF ForgetStep
<1>i. copy'[f].id < nextId
  <2>1. copy[f] \in PRRow /\ copy[f].id < nextId /\ row.id < nextId /\ NoRow.id = 0
        BY <1>1 DEF CompletionInv, KnownIds, NoRow
  <2> QED  BY <1>1, <1>m, <2>1 DEF PRRow
(* Either the row goes, or nothing in it was alive, or nothing changes.    *)
<1>5. /\ DOMAIN migs' = DOMAIN migs
      /\ \A k \in DOMAIN migs : migs'[k].pr \in {0, migs[k].pr}
      /\ row'.id # 0 => row' = row /\ (NoneAlive \/ UNCHANGED migs)
  <2>1. CASE DeleteRow(f)
    <3>1. \A k \in DOMAIN migs : migs[k] \in Migration
      <4>1. migs \in Seq(Migration)
            BY DEF StepInv, ApprovalInv, TypeOK
      <4> QED  BY <4>1
    <3>2. /\ DOMAIN migs' = DOMAIN migs
          /\ \A k \in DOMAIN migs : migs'[k] = Deleted(migs[k], copy[f].id)
          BY <2>1 DEF DeleteRow
    <3>3. row' = IF IsRow(copy[f].id) THEN NoRow ELSE row
          BY <2>1 DEF DeleteRow
    <3>4. copy[f].id = row.id \/ NoneAlive
          BY <2>1 DEF DeleteRow, StepInv, SubmissionInv, DeletesAll
    <3>5. \A k \in DOMAIN migs : migs'[k].pr \in {0, migs[k].pr}
          BY <3>1, <3>2 DEF Deleted, Migration
    <3> QED  BY <3>2, <3>3, <3>4, <3>5 DEF IsRow, NoRow
  <2>2. CASE ~DeleteRow(f)
    <3>1. UNCHANGED <<migs, row>>
          BY <2>2 DEF ReadLabels, ForgetStep, FindRow, RemoveDetected, RemoveQueued, CallFails,
                      tables
    <3> QED  BY <3>1
  <2> QED  BY <2>1, <2>2
<1>6. row'.id # 0 => (MigrationsOf(row.id)' # {} => MigrationsOf(row.id) # {})
      BY <1>5 DEF MigrationsOf
<1>7. row'.id # 0 => (AllComplete => AllComplete') /\ (NoneAlive' => NoneAlive)
  <2>1. AllComplete => ~NoneAlive
        BY CompleteIsApproved
  <2> QED  BY <1>4, <1>5, <2>1 DEF AllComplete, NoneAlive, Alive
<1>8. KnownIds'
  <2>1. NoRow.id = 0
        BY DEF NoRow
  <2> QED  BY <1>1, <1>2, <1>4, <1>5, <1>i, <2>1 DEF CompletionInv, KnownIds
<1>9. QueuedIsFinal' /\ OpenAsSeen'
      BY <1>1, <1>2, <1>4, <1>5, <1>m DEF CompletionInv, QueuedIsFinal, OpenAsSeen
<1>10. ForReviewAsSeen'
      BY <1>1, <1>2, <1>4, <1>5, <1>6 DEF CompletionInv, ForReviewAsSeen
<1>11. CompleteAsSeen'
      BY <1>1, <1>2, <1>3, <1>4, <1>5, <1>7 DEF CompletionInv, CompleteAsSeen, Probing
<1>12. FillsUp'
  <2>1. Hollow' => Hollow
        BY <1>4, <1>5, <1>6, <1>7 DEF Hollow
  <2> QED  BY <1>1, <1>2, <2>1 DEF CompletionInv, FillsUp
<1>13. CompleteMeansComplete'
  <2>1. row'.status = "complete" => row'.id # 0
        BY <1>1, <1>4 DEF NoRow
  <2>2. row.status = "complete" /\ gh.open => AllComplete
        BY DEF CompletionInv, CompleteMeansComplete, AllComplete
  <2>3. row'.status = "complete" /\ gh'.open => AllComplete'
        BY <1>4, <1>5, <1>7, <2>1, <2>2
  <2> QED  BY <2>3 DEF CompleteMeansComplete, AllComplete
<1> QED  BY <1>8, <1>9, <1>10, <1>11, <1>12, <1>13 DEF CompletionInv

(* What a step of the prober has to see to, the others being elsewhere.    *)
LEMMA CompletionMoves ==
    ASSUME OneProber, CompletionInv, NEW p \in Probers,
           pc \in [Workers -> Places], copy \in [Workers -> PRRow],
           \A v \in Workers : v # p => pc'[v] = pc[v] /\ copy'[v] = copy[v],
           row'.id = row.id, nextId' = nextId,
           gh'.open = gh.open, gh'.forReview = gh.forReview, gh'.approved = gh.approved,
           gh'.action = gh.action,
           copy'[p].id < nextId, \A k \in DOMAIN migs' : migs'[k].pr < nextId,
           gh'.queued \/ pc'[p] = "label queued" => gh.approved,
           row.id # 0 /\ gh.open => row'.open,
           row.id # 0 /\ MigrationsOf(row.id)' # {} => gh.forReview,
           pc'[p] \in {"submit", "analyze"} =>
               (gh.open => copy'[p].open) /\ (copy'[p].forReview => gh.forReview),
           pc'[p] \in Evaluating => gh.forReview,
           Probing(p)' /\ gh.open /\ copy'[p].status = "complete" => AllComplete',
           pc'[p] = "complete" =>
               copy'[p].id # 0 /\ (gh.open /\ copy'[p].id = row.id => AllComplete'),
           row'.status = "complete" /\ gh.open => AllComplete',
           Hollow' => /\ pc'[p] \notin {"completed", "complete", "queue", "ask",
                                        "label queued", "label detected", "remove queued"}
                      /\ pc'[p] \in {"submit", "analyze"} =>
                             copy'[p].forReview /\ ~copy'[p].detected
    PROVE  CompletionInv'
<1>1. /\ p \in Workers /\ \A q \in Probers : q = p
      /\ \A s \in Searchers : s \in Workers /\ s # p
      BY PullRequestsAssumption DEF Workers, OneProber
<1>2. KnownIds' /\ OpenAsSeen'
      BY <1>1 DEF CompletionInv, KnownIds, OpenAsSeen
<1>3. QueuedIsFinal' /\ ForReviewAsSeen'
      BY <1>1 DEF CompletionInv, QueuedIsFinal, ForReviewAsSeen
<1>4. CompleteAsSeen'
      BY <1>1 DEF CompletionInv, CompleteAsSeen
<1>5. FillsUp'
      BY <1>1 DEF FillsUp
<1>6. CompleteMeansComplete'
      BY DEF CompleteMeansComplete, AllComplete
<1> QED  BY <1>2, <1>3, <1>4, <1>5, <1>6 DEF CompletionInv

(* Where nothing is alive nobody looks whether all is done, and the one    *)
(* who evaluates goes on until something is.                               *)
LEMMA CompletionProber ==
    ASSUME OneProber, Steadily, StepInv, CompletionInv, NEW p \in Probers,
           ProberStep(p) \/ ProbeStep(p) \/ CallFails(p)
    PROVE  CompletionInv'
<1>1. /\ p \in Workers /\ pc \in [Workers -> Places] /\ copy \in [Workers -> PRRow]
      /\ gh \in GitHub /\ row \in PRRow /\ (row.id = 0 => row = NoRow)
      /\ migs \in Seq(Migration) /\ nextId \in Nat \ {0}
      /\ found \in [Workers -> SUBSET (1..Len(statements))]
      /\ Texts(gh.diff) # {}
      BY DEF Workers, StepInv, ApprovalInv, TypeOK, GitHub, Steadily
<1>2. \A v \in Workers : v # p => pc'[v] = pc[v] /\ copy'[v] = copy[v]
      BY <1>1
      DEF ProberStep, ProbeStep, CallFails, ReadOpen, ProbeReviews, ProbePull, SubmitPR, Analyze,
          EvaluateStep, Checks, NoStatements, Forget, SubmitPRStatements, ReadStatements, Comment,
          SubmitMigration, MigrationsSubmitted, LabelDetected, Ask, Queue, LabelQueued,
          ReadCompleted, Complete, UnlabelQueued, OnlyMoves, Go, Keeps
<1>3. /\ Probing(p) => row.id # 0 /\ copy[p].id = row.id /\ ~BeingForgotten
      /\ copy[p].id < nextId /\ row.id < nextId /\ NoRow.id < nextId
      /\ copy[p].id \in Nat /\ row.id \in Nat
      /\ \A k \in DOMAIN migs : migs[k].pr < nextId
      BY <1>1 DEF StepInv, SubmissionInv, ProbesRow, CompletionInv, KnownIds, NoRow, PRRow
<1>4. /\ gh'.open = gh.open /\ gh'.forReview = gh.forReview /\ gh'.approved = gh.approved
      /\ gh'.action = gh.action /\ gh'.diff = gh.diff
      /\ gh'.queued => gh.queued \/ pc[p] = "label queued"
      BY <1>1
      DEF ProberStep, ProbeStep, CallFails, ReadOpen, ProbeReviews, ProbePull, SubmitPR, Analyze,
          EvaluateStep, Checks, NoStatements, Forget, SubmitPRStatements, ReadStatements, Comment,
          SubmitMigration, MigrationsSubmitted, LabelDetected, Ask, Queue, LabelQueued,
          ReadCompleted, Complete, UnlabelQueued, OnlyMoves, tables, GitHub
<1>5. gh'.queued => gh.approved
      BY <1>4 DEF CompletionInv, QueuedIsFinal
<1>6. /\ row.id # 0 /\ gh.open => row.open
      /\ pc[p] \in {"submit", "analyze"} =>
             (gh.open => copy[p].open) /\ (copy[p].forReview => gh.forReview)
      /\ pc[p] \in Evaluating => gh.forReview
      /\ row.id # 0 /\ MigrationsOf(row.id) # {} => gh.forReview
      /\ Probing(p) /\ gh.open /\ copy[p].status = "complete" => AllComplete
      /\ row.status = "complete" /\ gh.open => AllComplete
      /\ pc[p] = "label queued" => gh.approved
      BY <1>1 DEF CompletionInv, OpenAsSeen, ForReviewAsSeen, CompleteAsSeen,
                  CompleteMeansComplete, AllComplete, QueuedIsFinal
<1>7. Hollow => /\ pc[p] \notin {"completed", "complete", "queue", "ask", "label queued",
                                 "label detected", "remove queued"}
                /\ pc[p] \in {"submit", "analyze"} => copy[p].forReview /\ ~copy[p].detected
                /\ ~AllComplete
      BY CompleteIsApproved DEF CompletionInv, FillsUp, Hollow
<1>8. ASSUME UNCHANGED migs, row'.id = row.id
      PROVE  /\ \A k \in DOMAIN migs' : migs'[k].pr < nextId
             /\ MigrationsOf(row.id)' = MigrationsOf(row.id)
             /\ (AllComplete' <=> AllComplete) /\ (Hollow' => Hollow)
  <2>1. \A k \in DOMAIN migs' : migs'[k].pr < nextId
        BY <1>3, <1>8
  <2>2. MigrationsOf(row.id)' = MigrationsOf(row.id)
        BY <1>8 DEF MigrationsOf
  <2>3. AllComplete' <=> AllComplete
    <3>1. Texts(gh.diff)' = Texts(gh.diff)
          BY <1>4
    <3> QED  BY <1>8, <3>1 DEF AllComplete
  <2>4. NoneAlive' <=> NoneAlive
        BY <1>8 DEF NoneAlive, Alive
  <2> QED  BY <1>4, <1>8, <2>1, <2>2, <2>3, <2>4 DEF Hollow
<1>m. ASSUME row'.id = row.id, nextId' = nextId,
             copy'[p].id < nextId, \A k \in DOMAIN migs' : migs'[k].pr < nextId,
             MigrationsOf(row.id)' = MigrationsOf(row.id) \/ gh.forReview,
             row.id # 0 /\ gh.open => row'.open,
             pc'[p] = "label queued" => gh.approved,
             pc'[p] \in {"submit", "analyze"} =>
                 (gh.open => copy'[p].open) /\ (copy'[p].forReview => gh.forReview),
             pc'[p] \in Evaluating => gh.forReview,
             Probing(p)' /\ gh.open /\ copy'[p].status = "complete" => AllComplete',
             pc'[p] = "complete" =>
                 copy'[p].id # 0 /\ (gh.open /\ copy'[p].id = row.id => AllComplete'),
             row'.status = "complete" /\ gh.open => AllComplete',
             Hollow' => /\ pc'[p] \notin {"completed", "complete", "queue", "ask",
                                          "label queued", "label detected", "remove queued"}
                        /\ pc'[p] \in {"submit", "analyze"} =>
                               copy'[p].forReview /\ ~copy'[p].detected
      PROVE  CompletionInv'
  <2>1. row.id # 0 /\ MigrationsOf(row.id)' # {} => gh.forReview
        BY <1>6, <1>m
  <2> QED  BY <1>1, <1>2, <1>4, <1>5, <1>m, <2>1, CompletionMoves
(* Reading and probing.                                                    *)
<1>9. CASE ReadOpen(p)
  <2>1. /\ UNCHANGED <<row, migs, nextId>> /\ copy'[p] = row
        /\ pc'[p] = IF row.open THEN "reviews" ELSE "completed"
        BY <1>1, <1>9 DEF ReadOpen, Go, tables
  <2>2. Hollow => pc'[p] = "reviews"
        BY <1>6, <2>1 DEF Hollow
  <2> QED  BY <1>3, <1>6, <1>8, <1>m, <2>1, <2>2
           DEF Evaluating
<1>10. CASE ProbeReviews(p)
  <2>1. /\ UNCHANGED <<row, migs, nextId>> /\ pc[p] = "reviews" /\ pc'[p] = "pull"
        /\ copy'[p].id = copy[p].id /\ copy'[p].status = copy[p].status
        BY <1>1, <1>10 DEF ProbeReviews, Go, tables, PRRow
  <2> QED  BY <1>3, <1>6, <1>8, <1>m, <2>1
           DEF Evaluating, Probing
<1>11. CASE ProbePull(p)
  <2>1. /\ UNCHANGED <<row, migs, nextId>> /\ pc[p] = "pull" /\ pc'[p] = "submit"
        /\ copy'[p].id = copy[p].id /\ copy'[p].status = copy[p].status
        /\ copy'[p].open = gh.open /\ copy'[p].forReview = gh.forReview
        /\ copy'[p].detected = gh.detected
        BY <1>1, <1>11 DEF ProbePull, Go, tables, PRRow
  <2>2. Hollow => gh.forReview /\ ~gh.detected
    <3>1. ~BeingForgotten
          BY <1>3, <2>1 DEF Probing
    <3>2. NoneAlive => ~gh.detected
          BY <3>1, DetectedIsNotHollow DEF BeingForgotten
    <3> QED  BY <1>6, <3>2 DEF Hollow
  <2> QED  BY <1>3, <1>6, <1>8, <1>m, <2>1, <2>2
           DEF Evaluating, Probing
<1>12. CASE SubmitPR(p)
  <2>1. /\ pc[p] = "submit" /\ pc'[p] = "analyze" /\ copy' = copy /\ migs' = migs
        /\ row' = SubmittedPR(copy[p])
        /\ nextId' = IF row.id = 0 THEN nextId + 1 ELSE nextId
        BY <1>1, <1>12 DEF SubmitPR, Go, Keeps
  <2>2. row.id # 0
        BY <1>3, <2>1 DEF Probing
  <2>3. row'.id = row.id /\ row'.status = copy[p].status /\ row'.open = copy[p].open
        BY <1>1, <2>1, <2>2 DEF SubmittedPR, PRRow
  <2> QED  BY <1>3, <1>6, <1>7, <1>8, <1>m, <2>1, <2>2, <2>3
           DEF Evaluating, Probing
<1>13. CASE Analyze(p)
  <2>1. /\ UNCHANGED <<row, migs, nextId, copy>> /\ pc[p] = "analyze"
        /\ pc'[p] \in {"completed", "checks", "queue", "ask"}
        /\ Active(copy[p]) /\ ~copy[p].detected => pc'[p] = "checks"
        /\ pc'[p] = "checks" => Active(copy[p])
        BY <1>1, <1>13 DEF Analyze, OnlyMoves, Go, tables
  <2>2. Hollow => pc'[p] = "checks"
        BY <1>6, <1>7, <2>1 DEF Hollow, Active, Probing
  <2>3. pc'[p] \in Evaluating => gh.forReview
        BY <1>6, <2>1 DEF Evaluating, Active
  <2> QED  BY <1>3, <1>6, <1>8, <1>m, <2>1, <2>2, <2>3
           DEF Probing
(* Evaluation.                                                             *)
<1>14. CASE Checks(p) \/ SubmitPRStatements(p) \/ ReadStatements(p) \/ Comment(p)
            \/ MigrationsSubmitted(p) \/ LabelDetected(p)
  <2>1. UNCHANGED <<row, migs, nextId, copy>> /\ pc[p] \in Evaluating
        BY <1>14 DEF Checks, SubmitPRStatements, ReadStatements, Comment, MigrationsSubmitted,
                     LabelDetected, OnlyMoves, tables, Evaluating
  <2>2. /\ pc'[p] \in (Evaluating \cup {"completed"})
        /\ Hollow => pc'[p] \notin {"completed", "label detected"}
    <3>1. CASE Checks(p)
      <4>1. gh.action = "success"
            BY <3>1 DEF Checks, Conclusions, CompletionInv, QueuedIsFinal
      <4> QED  BY <1>1, <3>1, <4>1 DEF Checks, OnlyMoves, Go, Evaluating
    <3>2. CASE SubmitPRStatements(p)
          BY <1>1, <3>2 DEF SubmitPRStatements, Go, Evaluating
    <3>3. CASE ReadStatements(p)
      <4>1. pc[p] = "read" /\ found'[p] = StatementsOf(row.id)
            BY <1>1, <1>3, <3>3 DEF ReadStatements, Probing
      <4>2. TextsIn(StatementsOf(row.id)) = Texts(gh.diff)
            BY <4>1 DEF StepInv, DetectionInv, SubmitsAll
      <4>3. found'[p] # {}
            BY <1>1, <4>1, <4>2 DEF TextsIn
      <4> QED  BY <1>1, <3>3, <4>3 DEF ReadStatements, Go, Evaluating
    <3>4. CASE Comment(p)
          BY <1>1, <3>4 DEF Comment, OnlyMoves, Go, Evaluating
    <3>5. CASE MigrationsSubmitted(p)
      <4>1. pc[p] = "migrations" /\ found[p] = {}
            BY <3>5 DEF MigrationsSubmitted
      <4>2. AliveTexts # {}
            BY <1>1, <4>1 DEF StepInv, DetectionInv, SubmitsAll, TextsIn
      <4>3. ~NoneAlive
            BY <4>2 DEF AliveTexts, NoneAlive
      <4> QED  BY <1>1, <3>5, <4>3 DEF MigrationsSubmitted, OnlyMoves, Go, Evaluating, Hollow
    <3>6. CASE LabelDetected(p)
          BY <1>1, <1>7, <3>6 DEF LabelDetected, Go
    <3> QED  BY <1>14, <3>1, <3>2, <3>3, <3>4, <3>5, <3>6
  <2> QED  BY <1>3, <1>6, <1>8, <1>m, <2>1, <2>2
           DEF Evaluating, Probing
<1>15. CASE Forget(p) \/ SubmitMigration(p)
  <2>1. /\ pc[p] \in {"forget", "migrations"} /\ pc'[p] \in {"statements", "migrations"}
        /\ UNCHANGED <<row, nextId, copy>>
        BY <1>1, <1>15 DEF Forget, SubmitMigration, Go
  <2>2. ~AllComplete
    <3>1. ~gh.detected
          BY <2>1 DEF StepInv, SubmissionInv, LabelInv, EvaluatesUndetected, Evaluating
    <3> QED  BY <3>1, CompleteIsApproved
  <2>3. \A k \in DOMAIN migs' : migs'[k].pr < nextId
    <3>1. CASE Forget(p)
      <4>1. \A k \in DOMAIN migs : migs[k] \in Migration
            BY <1>1
      <4>2. \A k \in DOMAIN migs : Cancel(migs[k], copy[p].id).pr = migs[k].pr
            BY <4>1 DEF Cancel, Migration
      <4>3. /\ DOMAIN migs' = DOMAIN migs
            /\ \A k \in DOMAIN migs : migs'[k] = Cancel(migs[k], copy[p].id)
            BY <3>1 DEF Forget
      <4> QED  BY <1>3, <4>2, <4>3
    <3>2. CASE SubmitMigration(p)
      <4>1. PICK k \in found[p], m \in Nat :
                /\ DOMAIN migs' = DOMAIN migs \cup {m}
                /\ \A j \in DOMAIN migs : migs'[j] = migs[j]
                /\ migs'[m] = [pr |-> row.id, text |-> statements[k].text,
                               status |-> "proposed"]
            BY <3>2, MigrationSubmitted DEF StepInv
      <4> QED  BY <1>3, <4>1
    <3> QED  BY <1>15, <3>1, <3>2
  <2> QED  BY <1>3, <1>6, <1>m, <2>1, <2>2, <2>3
           DEF Evaluating, Probing
<1>20. CASE NoStatements(p)
  <2>1. Diffs[gh.diff] = <<>>
        BY <1>20 DEF NoStatements
  <2> QED  BY <1>1, <2>1 DEF Texts
(* The queue.                                                              *)
<1>16. CASE Queue(p)
  <2>1. /\ pc[p] = "queue" /\ pc'[p] \in {"completed", "label queued"}
        /\ UNCHANGED <<nextId, copy>> /\ gh.approved
        BY <1>1, <1>16 DEF Queue, Go, StepInv, ApprovalInv, ApprovalIsReal, QueuesApproved
  <2>2. /\ row'.id = row.id /\ row'.open = row.open
        /\ row'.status = "complete" => row.status = "complete"
        BY <1>1, <1>16 DEF Queue, PRRow
  <2>3. /\ DOMAIN migs' = DOMAIN migs
        /\ \A k \in DOMAIN migs :
              /\ migs'[k].pr = migs[k].pr /\ migs'[k].text = migs[k].text
              /\ Alive(k)' = Alive(k)
              /\ migs[k].status = "complete" => migs'[k].status = "complete"
    <3>1. /\ DOMAIN migs' = DOMAIN migs
          /\ \A k \in DOMAIN migs : migs'[k] =
                IF migs[k].pr = copy[p].id /\ migs[k].status = "proposed"
                THEN [migs[k] EXCEPT !.status = "queued"] ELSE migs[k]
          BY <1>16 DEF Queue
    <3>2. ASSUME NEW k \in DOMAIN migs
          PROVE  /\ migs'[k].pr = migs[k].pr /\ migs'[k].text = migs[k].text
                 /\ Alive(k)' = Alive(k)
                 /\ migs[k].status = "complete" => migs'[k].status = "complete"
      <4>1. migs[k] \in Migration
            BY <1>1
      <4>2. CASE migs[k].pr = copy[p].id /\ migs[k].status = "proposed"
        <5>1. migs'[k] = [migs[k] EXCEPT !.status = "queued"]
              BY <3>1, <4>2
        <5> QED  BY <4>1, <4>2, <5>1 DEF Migration, Alive
      <4>3. CASE ~(migs[k].pr = copy[p].id /\ migs[k].status = "proposed")
            BY <3>1, <4>3 DEF Alive
      <4> QED  BY <4>2, <4>3
    <3> QED  BY <3>1, <3>2
  <2>4. /\ \A k \in DOMAIN migs' : migs'[k].pr < nextId
        /\ MigrationsOf(row.id)' = MigrationsOf(row.id)
        /\ AllComplete => AllComplete'
        /\ NoneAlive' => NoneAlive
    <3>1. \A k \in DOMAIN migs' : migs'[k].pr < nextId
          BY <1>3, <2>3
    <3>2. MigrationsOf(row.id)' = MigrationsOf(row.id)
          BY <2>2, <2>3 DEF MigrationsOf
    <3>3. AllComplete => AllComplete'
      <4>1. Texts(gh.diff)' = Texts(gh.diff)
            BY <1>4
      <4> QED  BY <2>3, <4>1 DEF AllComplete
    <3>4. NoneAlive' => NoneAlive
          BY <2>3 DEF NoneAlive
    <3> QED  BY <3>1, <3>2, <3>3, <3>4
  <2>5. ~Hollow'
        BY <1>4, <1>7, <2>1, <2>2, <2>4 DEF Hollow
  <2> QED  BY <1>3, <1>6, <1>m, <2>1, <2>2, <2>4, <2>5
           DEF Evaluating, Probing
<1>17. CASE Ask(p) \/ LabelQueued(p) \/ CallFails(p) \/ UnlabelQueued(p)
  <2>1. /\ UNCHANGED <<row, migs, nextId>> /\ pc'[p] \in {"completed", "idle"}
        /\ pc[p] \in {"ask", "label queued", "label detected", "remove queued"}
               \/ pc'[p] = "idle"
        /\ copy'[p] \in {copy[p], NoRow}
    <3>1. CASE CallFails(p)
      <4>1. pc[p] \in {"ask", "label queued", "label detected", "remove queued"}
            BY <3>1 DEF CallFails, Calls, Steadily
      <4>2. pc'[p] = "completed" /\ copy' = copy
            BY <1>1, <3>1, <4>1 DEF CallFails, Go, Keeps
      <4> QED  BY <3>1, <4>1, <4>2 DEF CallFails, tables
    <3>2. CASE Ask(p) \/ LabelQueued(p) \/ UnlabelQueued(p)
          BY <1>1, <3>2 DEF Ask, LabelQueued, UnlabelQueued, tables, Go, Keeps
    <3> QED  BY <1>17, <3>1, <3>2
  <2> QED  BY <1>3, <1>6, <1>7, <1>8, <1>m, <2>1
           DEF Evaluating, Probing
(* Completion.                                                             *)
<1>18. CASE ReadCompleted(p)
  <2>1. /\ UNCHANGED <<row, migs, nextId>> /\ pc[p] = "completed"
        /\ \/ pc'[p] = "idle" /\ copy'[p] = NoRow
           \/ pc'[p] = "complete" /\ copy'[p] = row /\ row.open /\ AllDone(row.id)
        BY <1>1, <1>18 DEF ReadCompleted, tables, Go, Keeps
  <2>2. row.open => row.id # 0
        BY <1>1 DEF NoRow
  <2>3. AllDone(row.id) /\ row.open /\ gh.open => AllComplete
    <3> SUFFICES ASSUME AllDone(row.id), row.open, gh.open PROVE AllComplete
        OBVIOUS
    <3>1. ~NoneAlive
          BY <1>7, <2>1, <2>2 DEF AllDone, Hollow
    <3>2. \A k \in DOMAIN migs : Alive(k) => migs[k].status = "complete"
          BY DEF StepInv, SubmissionInv, AliveInRow, AllDone, MigrationsOf, Alive
    <3>3. gh.detected
          BY <3>1, <3>2 DEF NoneAlive, StepInv, SubmissionInv, LabelInv, MovingIsDetected,
                               OnItsWay
    <3>4. AliveTexts = Texts(gh.diff)
          BY <3>1, <3>3 DEF StepInv, DetectionInv, Submitted, SubmissionInv, DeletesAll
    <3> QED  BY <3>2, <3>4 DEF AliveTexts, AllComplete
  <2> QED  BY <1>3, <1>6, <1>7, <1>8, <1>m, <2>1, <2>2, <2>3
           DEF Evaluating, Probing
<1>19. CASE Complete(p)
  <2>1. /\ UNCHANGED <<migs, nextId>> /\ pc[p] = "complete" /\ pc'[p] \in {"idle", "unlabel"}
        /\ copy'[p] \in {copy[p], NoRow}
        /\ row' = IF IsRow(copy[p].id) THEN [row EXCEPT !.status = "complete"] ELSE row
        BY <1>1, <1>19 DEF Complete, Go, Keeps
  <2>2. /\ row'.id = row.id /\ row'.open = row.open
        /\ row'.status = "complete" /\ gh.open => AllComplete
        BY <1>1, <1>6, <2>1 DEF IsRow, PRRow, CompletionInv, CompleteAsSeen
  <2> QED  BY <1>3, <1>6, <1>7, <1>8, <1>m, <2>1, <2>2
           DEF Evaluating, Probing
<1> QED  BY <1>9, <1>10, <1>11, <1>12, <1>13, <1>14, <1>15, <1>16, <1>17, <1>18, <1>19, <1>20
         DEF ProberStep, ProbeStep, EvaluateStep

LEMMA CompletionStep ==
    OneProber /\ Steadily /\ StepInv /\ CompletionInv /\ [Next]_vars => CompletionInv'
<1> SUFFICES ASSUME OneProber, Steadily, StepInv, CompletionInv, [Next]_vars
             PROVE  CompletionInv'
    OBVIOUS
<1>1. CASE Human \/ Close \/ Relabel \/ Commit \/ ActionStep \/ Migrate \/ UNCHANGED vars
      BY <1>1, CompletionOutside
<1>2. CASE Crash
      BY <1>2, CompletionDies DEF Crash
<1>3. ASSUME NEW p \in Probers, Panic(p) PROVE CompletionInv'
      BY <1>3, CompletionDies DEF Panic
<1>4. ASSUME NEW s \in Searchers, SearchStep(s) \/ ProbeStep(s) \/ CallFails(s)
      PROVE  CompletionInv'
      BY <1>4, CompletionSearcher
<1>5. ASSUME NEW p \in Probers, ProberStep(p) \/ ProbeStep(p) \/ CallFails(p)
      PROVE  CompletionInv'
      BY <1>5, CompletionProber
<1>6. ASSUME NEW f \in Forgetters, ReadLabels(f) \/ ForgetStep(f) \/ CallFails(f)
      PROVE  CompletionInv'
      BY <1>6, CompletionForgetter
<1> QED  BY <1>1, <1>2, <1>3, <1>4, <1>5, <1>6 DEF Next, Workers

(* An open pull request that detectAndMarkCompletedPRs marks complete has  *)
(* every statement of its diff migrated, though it marks those as well of  *)
(* which all migrations are cancelled: an evaluation cut short is taken up *)
(* again before anybody looks.                                             *)
THEOREM CompletionIsComplete ==
    OneProber /\ Steadily => (Spec => []CompleteMeansComplete)
<1> SUFFICES ASSUME OneProber, Steadily PROVE Spec => []CompleteMeansComplete
    OBVIOUS
<1> DEFINE Inv == StepInv /\ CompletionInv
<1>1. LabelsComeOff
      BY DEF Steadily, LabelsComeOff
<1>2. Init => Inv
      BY ApprovalInit, SubmissionInit, DetectionInit, CompletionInit DEF StepInv
<1>3. Inv /\ [Next]_vars => Inv'
      BY <1>1, ApprovalStep, SubmissionStep, DetectionStep, CompletionStep DEF StepInv
<1>4. Inv => CompleteMeansComplete
      BY DEF CompletionInv
<1> QED  BY <1>2, <1>3, <1>4, PTL DEF Spec
=============================================================================
