-------------------------- MODULE OperationsProofs --------------------------
(***************************************************************************)
(* Theorems about several services on one backend.  What they do together  *)
(* is an election and a queue, so what ElectionProofs and the proofs about *)
(* MigrationQueue say holds of it; and schedulers of a service that has    *)
(* the lease all along need not be told to take turns with those of        *)
(* another, which the proof about topologies in ExecutionProofs had to     *)
(* assume.                                                                 *)
(***************************************************************************)
EXTENDS ContinuousOperations, ExecutionProofs

Lease == INSTANCE ElectionProofs WITH working <- Working

LEMMA ElectionAssumed == Lease!ElectionAssumption
BY OperationsAssumption DEF Lease!ElectionAssumption

(* The election of ElectionProofs is that of ContinuousOperations.         *)
LEMMA SameElection == Leader!Spec <=> Lease!Spec
<1>1. Leader!Init <=> Lease!Init
  BY DEF Leader!Init, Lease!Init
<1>2. Leader!Next <=> Lease!Next
  BY DEF Leader!Next, Leader!Tick, Leader!Start, Leader!Die, Leader!AttemptLeadership,
         Leader!AttemptFails, Leader!ReadLeadership, Leader!ReadFails, Leader!StartJob,
         Leader!EndJob, Leader!Up, Leader!Leads, Leader!HolderAfter, Leader!AgeAfter,
         Leader!IsHolder, Leader!OneMore,
         Lease!Next, Lease!Tick, Lease!Start, Lease!Die, Lease!AttemptLeadership,
         Lease!AttemptFails, Lease!ReadLeadership, Lease!ReadFails, Lease!StartJob,
         Lease!EndJob, Lease!Up, Lease!Leads, Lease!HolderAfter, Lease!AgeAfter,
         Lease!IsHolder, Lease!OneMore
<1>3. UNCHANGED Leader!vars <=> UNCHANGED Lease!vars
  BY DEF Leader!vars, Lease!vars
<1> QED
  BY <1>1, <1>2, <1>3, PTL DEF Leader!Spec, Lease!Spec

-----------------------------------------------------------------------------
(* The two components *)

GoroutinesOK ==
    /\ goroutine \in [Goroutines -> {"none", "started", "decided"}]
    /\ swept \in [Sweepers -> 0..(Len(Sweep) - 1)]

LEMMA FourStatements == Len(Sweep) = 4
BY DEF Sweep

LEMMA StatementInHand ==
    ASSUME GoroutinesOK, NEW w \in Sweepers, Expires(w)
    PROVE  Expiry
<1>1. swept[w] \in 0..3
  BY FourStatements DEF GoroutinesOK
<1>2. swept[w] = 0 \/ swept[w] = 1 \/ swept[w] = 2 \/ swept[w] = 3
  BY <1>1
<1> QED
  BY <1>2 DEF Expires, Statement, Sweep, Expiry

LEMMA GoroutineMoves ==
    ASSUME NEW g \in Goroutines, Work(g)
    PROVE  GoesOn(g) \/ Decides(g) \/ Returns(g)
BY DEF Work, GhostScheduling, DirectScheduling, Applying, Sweeping, Expires, ExpiresInVain,
       SweepsOn, Probing, HasNothing

LEMMA GoroutinesStep == GoroutinesOK /\ [OperationsNext]_allVars => GoroutinesOK'
<1> SUFFICES ASSUME GoroutinesOK, [OperationsNext]_allVars PROVE GoroutinesOK'
  OBVIOUS
<1> USE DEF GoroutinesOK
<1>1. ASSUME NEW g \in Goroutines, StartJob(g) PROVE GoroutinesOK'
  BY <1>1 DEF StartJob
<1>2. ASSUME NEW g \in Goroutines, Work(g) PROVE GoroutinesOK'
  <2>1. goroutine' \in [Goroutines -> {"none", "started", "decided"}]
    BY <1>2, GoroutineMoves DEF GoesOn, Decides, Returns
  <2>2. CASE UNCHANGED swept
    BY <2>1, <2>2
  <2>3. CASE g \in Sweepers /\ SweepsOn(g)
    BY <2>1, <2>3, FourStatements DEF SweepsOn
  <2> QED BY <1>2, <2>2, <2>3
          DEF Work, GhostScheduling, DirectScheduling, Applying, Sweeping, Expires,
              ExpiresInVain, Probing, HasNothing
<1>3. CASE UNCHANGED operations
  BY <1>3 DEF operations
<1> QED
  BY <1>1, <1>2, <1>3
  DEF OperationsNext, Steps, SecondPasses, Elects, Attempts, Reads, Elsewhere, allVars

(* A step of a goroutine leaves the election alone, but that the job of    *)
(* its service may end.                                                    *)
LEMMA WorkIsAJob ==
    ASSUME GoroutinesOK, NEW g \in Goroutines, Work(g)
    PROVE  Working' = Working \/ Leader!EndJob(ServiceOf[g])
<1> DEFINE v == ServiceOf[g]
<1>0. v \in Services /\ g \in Alive
  BY OperationsAssumption DEF Work
<1>1. CASE GoesOn(g) \/ Decides(g)
  <2>1. Alive' = Alive
    BY <1>1, <1>0 DEF GoesOn, Decides, Alive, GoroutinesOK
  <2> QED BY <2>1 DEF Working
<1>2. CASE Returns(g)
  <2>1. Alive' = Alive \ {g}
    BY <1>2 DEF Returns, Alive, GoroutinesOK
  <2>2. Working[v]
    BY <1>0 DEF Working
  <2>3. Working' = [Working EXCEPT ![v] = \E h \in Alive \ {g} : ServiceOf[h] = v]
    BY <2>1 DEF Working
  <2>4. CASE \E h \in Alive \ {g} : ServiceOf[h] = v
    BY <2>1, <2>4 DEF Working
  <2>5. CASE ~\E h \in Alive \ {g} : ServiceOf[h] = v
    <3>1. Working' = [Working EXCEPT ![v] = FALSE]
      BY <2>3, <2>5
    <3> QED BY <2>2, <3>1 DEF Leader!EndJob, Work, election
  <2> QED BY <2>4, <2>5
<1> QED
  BY <1>1, <1>2, GoroutineMoves

LEMMA ElectionStep ==
    GoroutinesOK /\ [OperationsNext]_allVars => [Leader!Next]_(Leader!vars)
<1> SUFFICES ASSUME GoroutinesOK, [OperationsNext]_allVars
             PROVE  Leader!Next \/ UNCHANGED Leader!vars
  OBVIOUS
<1>1. CASE SecondPasses
  BY <1>1 DEF SecondPasses, Leader!Next
<1>2. ASSUME NEW v \in Services, Elects(v) PROVE Leader!Next
  BY <1>2 DEF Elects, Attempts, Reads, DieIdle, Leader!Next
<1>3. ASSUME NEW g \in Goroutines, StartJob(g) PROVE Leader!Next
  BY <1>3, OperationsAssumption DEF StartJob, Leader!Next
<1>4. ASSUME NEW g \in Goroutines, Work(g) PROVE Leader!Next \/ UNCHANGED Leader!vars
  <2>1. ServiceOf[g] \in Services /\ UNCHANGED election
    BY <1>4, OperationsAssumption DEF Work
  <2> QED BY <1>4, <2>1, WorkIsAJob DEF Leader!Next, Leader!vars, election
<1>5. CASE UNCHANGED <<election, goroutine>>
  BY <1>5 DEF Leader!vars, election, Working, Alive
<1> QED
  BY <1>1, <1>2, <1>3, <1>4, <1>5
  DEF OperationsNext, Steps, Elsewhere, allVars, operations

LEMMA QueueStep == GoroutinesOK /\ [OperationsNext]_allVars => [Next]_vars
<1> SUFFICES ASSUME GoroutinesOK, [OperationsNext]_allVars PROVE Next \/ UNCHANGED vars
  OBVIOUS
<1>1. CASE SecondPasses
  BY <1>1 DEF SecondPasses
<1>2. ASSUME NEW v \in Services, Elects(v) PROVE UNCHANGED vars
  BY <1>2 DEF Elects, Attempts, Reads
<1>3. ASSUME NEW g \in Goroutines, StartJob(g) PROVE UNCHANGED vars
  BY <1>3 DEF StartJob
<1>4. ASSUME NEW g \in Goroutines, Work(g) PROVE Next \/ UNCHANGED vars
  <2>1. CASE g \in GhostSchedulers /\ GhostScheduling(g)
    BY <2>1 DEF GhostScheduling, Next, Schedule, SchedulerNext
  <2>2. CASE g \in DirectSchedulers /\ DirectScheduling(g)
    BY <2>2 DEF DirectScheduling, Next, Schedule, SchedulerNext
  <2>3. CASE g \in Appliers /\ Applying(g)
    BY <2>3 DEF Applying, Next, RunDirect, ApplierNext, ApplierStep
  <2>4. CASE g \in Sweepers /\ Sweeping(g)
    BY <2>4, StatementInHand DEF Sweeping, ExpiresInVain, Next, Time
  <2>5. CASE Probing(g)
    BY <2>5 DEF Probing, Next
  <2>6. CASE HasNothing(g)
    BY <2>6 DEF HasNothing
  <2> QED BY <1>4, <2>1, <2>2, <2>3, <2>4, <2>5, <2>6 DEF Work
<1>5. CASE Elsewhere
  BY <1>5 DEF Elsewhere, Next, Time
<1>6. CASE UNCHANGED allVars
  BY <1>6 DEF allVars
<1> QED
  BY <1>1, <1>2, <1>3, <1>4, <1>5, <1>6 DEF OperationsNext, Steps

LEMMA OperationsStart == OperationsInit => GoroutinesOK /\ Alive = {}
BY FourStatements DEF OperationsInit, GoroutinesOK, Alive

LEMMA GoroutinesHold == OperationsSpec => []GoroutinesOK
BY OperationsStart, GoroutinesStep, PTL DEF OperationsSpec

(* Whatever several services do, the election in it is that of Election:   *)
(* the work of all goroutines of a service is the job it started as leader.*)
THEOREM OperationsImplementElection == OperationsSpec => ImplementsElection
<1>1. OperationsInit => Leader!Init
  BY DEF OperationsInit
<1> QED
  BY <1>1, ElectionStep, GoroutinesHold, PTL DEF OperationsSpec, ImplementsElection, Leader!Spec

(* And all of their goroutines together do nothing that MigrationQueue     *)
(* does not, so that every theorem about it holds of several services.     *)
THEOREM OperationsImplementQueue == OperationsSpec => Spec
<1>1. OperationsInit => Init
  BY DEF OperationsInit
<1> QED
  BY <1>1, QueueStep, GoroutinesHold, PTL DEF OperationsSpec, Spec

(* Tables, goroutines and leases have their types.                         *)
THEOREM OperationsTypes == OperationsSpec => []OperationsTypeOK
<1> DEFINE HistoryOK == /\ deposed \subseteq GhostSchedulers \cap Alive
                        /\ strays \subseteq Migrations
<1>1. OperationsInit => HistoryOK
  BY DEF OperationsInit
<1>2. TypeOK /\ HistoryOK /\ [OperationsNext]_allVars => HistoryOK'
  <2> SUFFICES ASSUME TypeOK, HistoryOK, [OperationsNext]_allVars PROVE HistoryOK'
    OBVIOUS
  <2>1. CASE Recorded
    <3>1. \A s \in GhostSchedulers : Marks(s) => ghostSched[s].mig \in Migrations
      BY DEF Marks, TypeOK, SchedulerTypeOK, GhostSchedIdle
    <3> QED BY <2>1, <3>1 DEF Recorded, Marked
  <2>2. CASE UNCHANGED allVars
    BY <2>2 DEF allVars, operations, Alive
  <2> QED BY <2>1, <2>2 DEF OperationsNext
<1>3. Lease!TypeOK => Leader!TypeOK
  BY DEF Lease!TypeOK, Leader!TypeOK
<1>4. TypeOK /\ Lease!TypeOK /\ GoroutinesOK /\ HistoryOK => OperationsTypeOK
  BY <1>3 DEF OperationsTypeOK, GoroutinesOK
<1>5. Lease!Spec => []Lease!TypeOK
  BY Lease!ElectionTypes, ElectionAssumed
<1> QED
  BY <1>1, <1>2, <1>4, <1>5, GoroutinesHold, OperationsImplementElection,
     OperationsImplementQueue, SameElection, TypeCorrect, PTL
  DEF ImplementsElection, OperationsSpec

-----------------------------------------------------------------------------
(* Topologies under several services *)

(* What a gh-ost scheduler has in hand it has while it is alive.           *)
BusyIsAlive == \A s \in GhostSchedulers : ghostSched[s].pc # "idle" => s \in Alive

(* One service's ticks do not overlap; those of two services may.          *)
OneTickEach == \A s, t \in GhostSchedulers : ServiceOf[s] = ServiceOf[t] => s = t

Trusted == {s \in GhostSchedulers : s \in Alive /\ s \notin deposed}

(* Those that have not been deposed are all of the service with the lease. *)
TrustedLead == \A s \in Trusted : holder = ServiceOf[s]

(* What such a one has picked is free of conflict, but for strays.         *)
TrustedPick == \A s \in Trusted : ghostSched[s].pc # "idle" =>
    \A n \in Migrations \ strays :
        GhostActive(n) /\ n # ghostSched[s].mig
            => TopologyOf[n] # TopologyOf[ghostSched[s].mig]

LedInv ==
    /\ GoroutinesOK /\ OpenInv /\ BusyIsAlive
    /\ TrustedLead /\ TrustedPick /\ LedTopologies

LEMMA LedStart == OperationsInit => LedInv
<1> SUFFICES ASSUME OperationsInit PROVE LedInv
  OBVIOUS
<1>1. Init
  BY DEF OperationsInit
<1>2. \A s \in GhostSchedulers : ghostSched[s].pc = "idle"
  BY <1>1 DEF Init, SchedulerInit, GhostSchedIdle
<1>3. OpenInv /\ OneGhostPerTopology
  BY <1>1, TopologyInit DEF TopologyInv
<1>4. Trusted = {}
  BY OperationsStart DEF Trusted
<1> QED
  BY <1>2, <1>3, <1>4, OperationsStart
  DEF LedInv, BusyIsAlive, TrustedLead, TrustedPick, LedTopologies, OneGhostPerTopology

LEMMA BusyStep == LedInv /\ [OperationsNext]_allVars => BusyIsAlive'
<1> SUFFICES ASSUME LedInv, [OperationsNext]_allVars,
                    NEW s \in GhostSchedulers, ghostSched'[s].pc # "idle"
             PROVE  goroutine'[s] # "none"
  BY DEF BusyIsAlive, Alive, Goroutines
<1> USE DEF LedInv, GoroutinesOK
<1>0. /\ s \in Goroutines
      /\ ghostSched \in [GhostSchedulers ->
            {GhostSchedIdle} \cup [pc : {"picked", "hinted"}, mig : Migrations]]
      /\ ghostSched[s].pc # "idle" => goroutine[s] # "none"
  BY DEF OpenInv, OwnershipInv, TypeOK, SchedulerTypeOK, BusyIsAlive, Alive, Goroutines
<1>1. ASSUME NEW g \in Goroutines, StartJob(g) PROVE goroutine'[s] # "none"
  BY <1>0, <1>1 DEF StartJob, vars
<1>2. ASSUME NEW g \in Goroutines, Work(g) PROVE goroutine'[s] # "none"
  <2>1. CASE g = s
    <3>1. GhostScheduling(s) \/ (ghostSched[s].pc = "idle" /\ UNCHANGED ghostSched)
      BY <1>2, <2>1, OperationsAssumption DEF Work, HasNothing, vars
    <3>2. ~MarkGhostReady(s) /\ ~AbandonGhost(s)
      BY <1>0 DEF MarkGhostReady, AbandonGhost, GhostSchedIdle
    <3>3. Decides(s) \/ (HintGhost(s) /\ GoesOn(s))
      BY <3>1, <3>2 DEF GhostScheduling
    <3>4. CASE Decides(s)
      BY <1>0, <3>4 DEF Decides
    <3>5. CASE HintGhost(s) /\ GoesOn(s)
      BY <1>0, <3>5 DEF HintGhost, GoesOn
    <3> QED BY <3>3, <3>4, <3>5
  <2>2. CASE g # s
    <3>1. goroutine'[s] = goroutine[s]
      BY <1>0, <1>2, <2>2, GoroutineMoves DEF GoesOn, Decides, Returns
    <3>2. CASE g \in GhostSchedulers /\ GhostScheduling(g)
      <4>1. ghostSched'[s] = ghostSched[s]
        BY <1>0, <2>2, <3>2
        DEF GhostScheduling, PickGhost, HintGhost, MarkGhostReady, AbandonGhost
      <4> QED BY <1>0, <3>1, <4>1
    <3>3. CASE UNCHANGED ghostSched
      BY <1>0, <3>1, <3>3
    <3> QED
      BY <1>2, <3>2, <3>3
      DEF Work, DirectScheduling, PickDirect, MarkDirectReady, AbandonDirect, Applying,
          Sweeping, Expires, ExpiresInVain, Expire, workers, Probing, Workflow, ProbePR,
          WithdrawPR, QueuePR, ProposeMigration, HasNothing, vars
  <2> QED BY <2>1, <2>2
<1>3. CASE UNCHANGED operations /\ UNCHANGED ghostSched
  BY <1>0, <1>3 DEF operations
<1>4. CASE Elsewhere
  <2>1. UNCHANGED ghostSched
    BY <1>4
    DEF Elsewhere, RunGhost, Chatops, RetryMigration, MarkCompleteByHand, ApproveAutorun,
        PrioritizePR, ForgetReads, ForgetDeletes, LivenessAges, ReadyAges, workers
  <2> QED BY <1>3, <1>4, <2>1 DEF Elsewhere
<1> QED
  BY <1>1, <1>2, <1>3, <1>4
  DEF OperationsNext, Steps, SecondPasses, Elects, Attempts, Reads, allVars, vars

LEMMA MarksIsMark ==
    ASSUME TypeOK, Next, NEW s \in GhostSchedulers, Marks(s)
    PROVE  MarkGhostReady(s)
<1>0. ghostSched \in [GhostSchedulers ->
          {GhostSchedIdle} \cup [pc : {"picked", "hinted"}, mig : Migrations]]
  BY DEF TypeOK, SchedulerTypeOK
<1>1. CASE Schedule
  <2>1. ASSUME NEW t \in GhostSchedulers, t # s,
               PickGhost(t) \/ HintGhost(t) \/ MarkGhostReady(t) \/ AbandonGhost(t)
        PROVE  FALSE
    BY <1>0, <2>1 DEF Marks, PickGhost, HintGhost, MarkGhostReady, AbandonGhost
  <2>2. ~PickGhost(s) /\ ~HintGhost(s) /\ ~AbandonGhost(s)
    BY <1>0 DEF Marks, PickGhost, HintGhost, AbandonGhost
  <2>3. ~UNCHANGED ghostSched
    BY DEF Marks
  <2> QED BY <1>1, <2>1, <2>2, <2>3
          DEF Schedule, SchedulerNext, PickDirect, MarkDirectReady, AbandonDirect
<1>2. CASE ~Schedule
  <2>1. UNCHANGED ghostSched
    BY <1>2 DEF Next, RunGhost, RunDirect, Chatops, RetryMigration, MarkCompleteByHand,
         ApproveAutorun, PrioritizePR, ForgetReads, ForgetDeletes, Workflow, ProbePR,
         WithdrawPR, QueuePR, ProposeMigration, Time, LivenessAges, ReadyAges, Expiry,
         Expire, workers
  <2> QED BY <2>1 DEF Marks
<1> QED
  BY <1>1, <1>2

(* Whoever makes a gh-ost migration active writes it down, if deposed.     *)
LEMMA ActivatedBy ==
    ASSUME OpenInv, Next, Recorded, NEW m \in Migrations, m \notin strays',
           GhostActive(m)', ~GhostActive(m)
    PROVE  \E s \in GhostSchedulers \ deposed :
               MarkGhostReady(s) /\ ghostSched[s].mig = m
<1>1. PICK s \in GhostSchedulers : MarkGhostReady(s) /\ ghostSched[s].mig = m
  BY OnlySchedulersActivate
<1>2. Marks(s)
  <2>1. mig' # mig
    BY DEF GhostActive
  <2>2. ghostSched'[s] = GhostSchedIdle
    BY <1>1 DEF MarkGhostReady, OpenInv, OwnershipInv, TypeOK, SchedulerTypeOK
  <2> QED BY <1>1, <2>1, <2>2 DEF Marks, MarkGhostReady, GhostSchedIdle
<1>3. s \notin deposed
  BY <1>1, <1>2 DEF Recorded, Marked
<1> QED
  BY <1>1, <1>3

(* And no active one ceases to be a stray.                                 *)
LEMMA StraysRemain ==
    ASSUME OpenInv, Next, Recorded, NEW m \in Migrations, m \notin strays', GhostActive(m)
    PROVE  m \notin strays
<1>1. ASSUME NEW s \in GhostSchedulers, Marks(s), ghostSched[s].mig = m PROVE FALSE
  <2>1. MarkGhostReady(s)
    BY <1>1, MarksIsMark DEF OpenInv, OwnershipInv
  <2>2. mig' = mig
    BY <1>1, <2>1
    DEF MarkGhostReady, UpdateMigrationStatus, Matches, GhostActive
  <2> QED BY <1>1, <2>2 DEF Marks
<1> QED
  BY <1>1 DEF Recorded, Marked

(* The trust is lost, if it is, in the step that loses the lease.          *)
LEMMA TrustStep ==
    ASSUME LedInv, BusyIsAlive', Recorded, NEW s \in GhostSchedulers,
           s \in Alive', s \notin deposed'
    PROVE  holder' = ServiceOf[s] /\ s \notin deposed
BY DEF Recorded

LEMMA TrustedPickStep ==
    ASSUME OneTickEach, LedInv, BusyIsAlive', Next, Recorded
    PROVE  TrustedPick'
<1> SUFFICES ASSUME NEW s \in GhostSchedulers, s \in Alive', s \notin deposed',
                    ghostSched'[s].pc # "idle",
                    NEW n \in Migrations, n \notin strays', GhostActive(n)',
                    n # ghostSched'[s].mig
             PROVE  TopologyOf[n] # TopologyOf[ghostSched'[s].mig]
  BY DEF TrustedPick, Trusted
<1>0. OpenInv /\ TypeOK /\ s \notin deposed
  BY TrustStep DEF LedInv, OpenInv, OwnershipInv
<1>1. GhostActive(n)
  <2> SUFFICES ASSUME ~GhostActive(n) PROVE FALSE
    OBVIOUS
  <2>1. PICK t \in GhostSchedulers \ deposed : MarkGhostReady(t) /\ ghostSched[t].mig = n
    BY <1>0, ActivatedBy
  <2>2. ~PickGhost(s)
    BY DEF PickGhost, GhostActive
  <2>3. ghostSched[s].pc # "idle"
    BY <1>0, <2>2, SchedulerMoves
  <2>4. s \in Trusted /\ t \in Trusted
    BY <1>0, <2>1, <2>3 DEF Trusted, LedInv, BusyIsAlive, MarkGhostReady
  <2>5. s = t
    BY <2>4 DEF LedInv, TrustedLead, OneTickEach, Trusted
  <2> QED BY <1>0, <2>1, <2>5, SchedulerMoves
<1>2. n \notin strays
  BY <1>0, <1>1, StraysRemain
<1>3. ghostSched[s].pc # "idle" /\ n # ghostSched[s].mig =>
          TopologyOf[n] # TopologyOf[ghostSched[s].mig]
  BY <1>0, <1>1, <1>2 DEF LedInv, TrustedPick, Trusted, BusyIsAlive
<1> QED
  BY <1>0, <1>1, <1>3, PickedIsFree

LEMMA LedTopologiesStep == LedInv /\ Next /\ Recorded => LedTopologies'
<1> SUFFICES ASSUME LedInv, Next, Recorded PROVE LedTopologies'
  OBVIOUS
<1>0. OpenInv
  BY DEF LedInv
<1>1. ASSUME NEW m \in Migrations, NEW n \in Migrations, m \notin strays', n \notin strays',
             GhostActive(m)', GhostActive(n)', TopologyOf[m] = TopologyOf[n], m # n,
             ~GhostActive(m)
      PROVE  FALSE
  <2>1. PICK s \in GhostSchedulers \ deposed : MarkGhostReady(s) /\ ghostSched[s].mig = m
    BY <1>0, <1>1, ActivatedBy
  <2>2. mig'[n] = mig[n]
    BY <1>1, <2>1 DEF MarkGhostReady, UpdateMigrationStatus
  <2>3. GhostActive(n)
    BY <1>1, <2>2 DEF GhostActive
  <2>4. n \notin strays
    BY <1>0, <1>1, <2>3, StraysRemain
  <2>5. s \in Trusted /\ ghostSched[s].pc # "idle"
    BY <2>1 DEF Trusted, LedInv, BusyIsAlive, MarkGhostReady
  <2> QED BY <1>1, <2>1, <2>3, <2>4, <2>5 DEF LedInv, TrustedPick
<1>2. ASSUME NEW m \in Migrations, NEW n \in Migrations, m \notin strays', n \notin strays',
             GhostActive(m)', GhostActive(n)', TopologyOf[m] = TopologyOf[n], m # n,
             GhostActive(m), GhostActive(n)
      PROVE  FALSE
  <2>1. m \notin strays /\ n \notin strays
    BY <1>0, <1>2, StraysRemain
  <2> QED BY <1>2, <2>1 DEF LedInv, LedTopologies, GhostActive
<1> QED
  BY <1>1, <1>2 DEF LedTopologies, GhostActive

LEMMA LedStep ==
    ASSUME HostsAndPRs, OneTickEach, LedInv, [OperationsNext]_allVars
    PROVE  LedInv'
<1>0. GoroutinesOK' /\ BusyIsAlive' /\ [Next]_vars
  BY GoroutinesStep, BusyStep, QueueStep DEF LedInv
<1>1. OwnershipInv'
  BY <1>0, OwnershipStep DEF HostsAndPRs, LedInv, OpenInv
<1>2. CASE Recorded /\ Next
  <2>1. OpenInv'
    BY <1>1, <1>2, ManualStep, OpenStep, GhostSeenStep DEF LedInv, OpenInv, HostsAndPRs
  <2>2. TrustedLead'
    BY <1>2, <1>0, TrustStep DEF TrustedLead, Trusted
  <2> QED BY <1>0, <1>2, <2>1, <2>2, TrustedPickStep, LedTopologiesStep DEF LedInv
<1>3. CASE Recorded /\ UNCHANGED vars
  <2>1. \A s \in GhostSchedulers : ~Marks(s)
    BY <1>3 DEF Marks, vars
  <2>2. strays' = strays
    BY <1>3, <2>1 DEF Recorded, Marked
  <2>3. OpenInv' /\ LedTopologies'
    BY <1>1, <1>3, <2>2
    DEF LedInv, OpenInv, NoManualActive, AllOpen, GhostSeen, GhostActive, Seen, Exists,
        LedTopologies, vars
  <2>4. TrustedLead'
    BY <1>3, <1>0, TrustStep DEF TrustedLead, Trusted
  <2>5. TrustedPick'
    <3> SUFFICES ASSUME NEW s \in Trusted', ghostSched'[s].pc # "idle" PROVE s \in Trusted
      BY <1>3, <2>2 DEF TrustedPick, LedInv, GhostActive, vars
    <3> QED BY <1>0, <1>3, TrustStep DEF Trusted, LedInv, BusyIsAlive, vars
  <2> QED BY <1>0, <2>3, <2>4, <2>5 DEF LedInv
<1>4. CASE UNCHANGED allVars
  BY <1>0, <1>1, <1>4
  DEF LedInv, OpenInv, NoManualActive, AllOpen, TrustedLead, TrustedPick, Trusted, Alive,
      LedTopologies, GhostActive, GhostSeen, Seen, Exists, allVars, vars, election, operations
<1> QED
  BY <1>0, <1>2, <1>3, <1>4 DEF OperationsNext

(* scheduler.go:102 for any number of services, whatever becomes of the    *)
(* leadership between what a scheduler reads and what it writes: when no   *)
(* scheduler goroutines of the same service overlap, two gh-ost migrations *)
(* are active on a cluster and shard only if a scheduler whose service had *)
(* lost the lease marked one of them ready.                                *)
THEOREM LedTopologiesTheorem ==
    ASSUME HostsAndPRs, OneTickEach PROVE OperationsSpec => []LedTopologies
<1>1. LedInv /\ [OperationsNext]_allVars => LedInv'
  BY LedStep
<1>2. LedInv => LedTopologies
  BY DEF LedInv
<1> QED
  BY <1>1, <1>2, LedStart, PTL DEF OperationsSpec
=============================================================================
