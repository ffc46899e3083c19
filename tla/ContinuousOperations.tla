------------------------ MODULE ContinuousOperations ------------------------
(***************************************************************************)
(* Several skeefree services on one backend: Election and MigrationQueue   *)
(* together, as the tickers of go/app/logic.go join them.  Every service   *)
(* takes part in the election.  On a tick a service that believes it leads *)
(* starts goroutines, and none of them asks again: they go on, whoever     *)
(* leads by then, until they are done or the process ends.                 *)
(*                                                                         *)
(* The goroutines of MigrationQueue that a ticker starts have a place here *)
(* too: schedulers and direct appliers with what they have in hand, the    *)
(* sweepers, which issue the four expiry statements one after the other,   *)
(* and the probers, which do to the table what the pull request workflow   *)
(* does.  Utility hosts and chatops need no leader.                        *)
(***************************************************************************)
EXTENDS MigrationQueue, Sequences

CONSTANTS
    Services, NoService, ElectionExpireSeconds, \* as in Election
    Sweepers,       \* goroutines that expire stale migrations
    Probers,        \* goroutines that search and probe pull requests
    ServiceOf       \* the service that starts a goroutine

Goroutines == GhostSchedulers \cup DirectSchedulers \cup Appliers \cup Sweepers \cup Probers

(* A goroutine is of one kind.                                             *)
ASSUME OperationsAssumption ==
    /\ NoService \notin Services
    /\ ElectionExpireSeconds \in Nat
    /\ ServiceOf \in [Goroutines -> Services]
    /\ GhostSchedulers \cap (DirectSchedulers \cup Appliers \cup Sweepers \cup Probers) = {}
    /\ DirectSchedulers \cap (Appliers \cup Sweepers \cup Probers) = {}
    /\ Appliers \cap (Sweepers \cup Probers) = {}
    /\ Sweepers \cap Probers = {}

VARIABLES
    holder, age, life, attempted, leaderState, unrenewed, \* as in Election
    goroutine,  \* per goroutine: not there, started, or past its decision what
                \* to work on, which it takes once
    swept,      \* per sweeper: how many of its statements are behind it
    deposed,    \* history: gh-ost schedulers whose service has been without
                \* the lease at some moment of their life
    strays      \* history: migrations that such a one was the last to mark
                \* ready

Alive == {g \in Goroutines : goroutine[g] # "none"}

Working == [v \in Services |-> \E g \in Alive : ServiceOf[g] = v]

(* A service works as long as a goroutine of it is alive.                  *)
Leader == INSTANCE Election WITH working <- Working

election == <<holder, age, life, attempted, leaderState, unrenewed>>
operations == <<goroutine, swept>>
allVars == <<vars, election, operations, deposed, strays>>

(* The statements of one sweep, in their order.                            *)
Sweep == << <<"ready", "ready">>, <<"running", "failed">>,
            <<"complete", "complete">>, <<"failed", "failed">> >>

OperationsTypeOK ==
    /\ TypeOK
    /\ Leader!TypeOK
    /\ goroutine \in [Goroutines -> {"none", "started", "decided"}]
    /\ swept \in [Sweepers -> 0..(Len(Sweep) - 1)]
    /\ deposed \subseteq GhostSchedulers \cap Alive
    /\ strays \subseteq Migrations

OperationsInit ==
    /\ Init
    /\ goroutine = [g \in Goroutines |-> "none"]
    /\ swept = [w \in Sweepers |-> 0]
    /\ deposed = {}
    /\ strays = {}
    /\ Leader!Init

-----------------------------------------------------------------------------
(* The services *)

(* Fault: no ticker asks for leadership.                                   *)
StartUnasked(g) ==
    /\ g \notin Alive
    /\ goroutine' = [goroutine EXCEPT ![g] = "started"]
    /\ Leader!Up(ServiceOf[g])
    /\ UNCHANGED <<vars, election, swept>>

(* A ticker looks at the copy of the leadership and starts the goroutine.  *)
(* One that finds nothing to do leaves no trace, so each may be started    *)
(* without the others of its tick.                                         *)
StartJob(g) ==
    /\ g \notin Alive
    /\ goroutine' = [goroutine EXCEPT ![g] = "started"]
    /\ Leader!StartJob(ServiceOf[g])
    /\ UNCHANGED <<vars, swept>>

(* What a goroutine has in hand nobody else sees, so the end of a process  *)
(* is that of its goroutines, one by one, and then its own.                *)
DieIdle(v) == ~Working[v] /\ Leader!Die(v)

SecondPasses == UNCHANGED <<vars, operations>> /\ Leader!Tick
Attempts(v) == UNCHANGED <<vars, operations>> /\ Leader!AttemptLeadership(v)
Reads(v) == UNCHANGED <<vars, operations>> /\ Leader!ReadLeadership(v)

Elects(v) ==
    \/ Attempts(v) \/ Reads(v)
    \/ /\ UNCHANGED <<vars, operations>>
       /\ Leader!Start(v) \/ DieIdle(v) \/ Leader!AttemptFails(v) \/ Leader!ReadFails(v)

-----------------------------------------------------------------------------
(* Their goroutines *)

Decides(g) == goroutine[g] = "started" /\ goroutine' = [goroutine EXCEPT ![g] = "decided"]
GoesOn(g) == UNCHANGED goroutine
Returns(g) == goroutine' = [goroutine EXCEPT ![g] = "none"]

GhostScheduling(g) ==
    /\ \/ PickGhost(g) /\ Decides(g)
       \/ HintGhost(g) /\ GoesOn(g)
       \/ (MarkGhostReady(g) \/ AbandonGhost(g)) /\ Returns(g)
    /\ UNCHANGED <<script, applier, forget, history, swept>>

DirectScheduling(g) ==
    /\ \/ PickDirect(g) /\ Decides(g)
       \/ (MarkDirectReady(g) \/ AbandonDirect(g)) /\ Returns(g)
    /\ UNCHANGED <<script, applier, forget, history, swept>>

Applying(g) ==
    /\ \/ OwnReady(g) /\ Decides(g)
       \/ (ReadBack(g) \/ MarkRunning(g) \/ Execute(g) \/ ExecuteErrs(g)) /\ GoesOn(g)
       \/ (ReadNothingBack(g) \/ MarkComplete(g) \/ MarkFailed(g) \/ ApplierGivesUp(g))
          /\ Returns(g)
    /\ UNCHANGED <<ghostSched, directSched, script, forget, history, swept>>

(* The next statement of a sweep is behind it, and perhaps the sweep.      *)
SweepsOn(g) ==
    LET last == swept[g] = Len(Sweep) - 1 IN
    /\ swept' = [swept EXCEPT ![g] = IF last THEN 0 ELSE @ + 1]
    /\ IF last THEN Returns(g) ELSE GoesOn(g)

Statement(g) == Sweep[swept[g] + 1]

Expires(g) == Expire(Statement(g)[1], Statement(g)[2]) /\ SweepsOn(g)

(* An error is logged, and the next statement is issued all the same.  A   *)
(* sweep cut short by the end of the process is one that errs to its end.  *)
ExpiresInVain(g) == SweepsOn(g) /\ UNCHANGED vars

Sweeping(g) == Expires(g) \/ ExpiresInVain(g)

Probing(g) == Workflow /\ GoesOn(g) /\ UNCHANGED swept

(* Nothing to do, an error, the death of the service, or, for a direct     *)
(* scheduler whose pull request was forgotten, no row to write.            *)
HasNothing(g) ==
    /\ \/ g \in GhostSchedulers /\ ghostSched[g].pc = "idle"
       \/ g \in DirectSchedulers /\ directSched[g] = NoPR
       \/ g \in Appliers /\ applier[g].pc = "idle"
       \/ g \in Probers
    /\ Returns(g)
    /\ UNCHANGED <<vars, swept>>

Work(g) ==
    /\ g \in Alive
    /\ \/ g \in GhostSchedulers /\ GhostScheduling(g)
       \/ g \in DirectSchedulers /\ DirectScheduling(g)
       \/ g \in Appliers /\ Applying(g)
       \/ g \in Sweepers /\ Sweeping(g)
       \/ g \in Probers /\ Probing(g)
       \/ HasNothing(g)
    /\ UNCHANGED election

-----------------------------------------------------------------------------
(* The others: hosts, humans and time.                                     *)
Elsewhere ==
    /\ RunGhost \/ Chatops \/ \E m \in Migrations : LivenessAges(m) \/ ReadyAges(m)
    /\ UNCHANGED <<election, operations>>

Steps ==
    \/ SecondPasses
    \/ \E v \in Services : Elects(v)
    \/ \E g \in Goroutines : StartJob(g) \/ Work(g)
    \/ Elsewhere

(* MarkGhostReady, when it has an effect.                                  *)
Marks(s) == ghostSched[s].pc = "hinted" /\ ghostSched'[s].pc = "idle" /\ mig' # mig

Marked(S) == {ghostSched[s].mig : s \in S}

(* The history of it: no step depends on what is written down here.        *)
Recorded ==
    LET marking == {s \in GhostSchedulers : Marks(s)} IN
    /\ deposed' = {s \in GhostSchedulers :
                     s \in Alive' /\ (s \in deposed \/ holder' # ServiceOf[s])}
    /\ strays' = (strays \ Marked(marking)) \cup Marked(marking \cap deposed)

OperationsNext == Steps /\ Recorded

OperationsSpec == OperationsInit /\ [][OperationsNext]_allVars

(* Seconds pass, a service that is up comes around to elect, and as leader *)
(* to sweep; the backend answers again and again, though not every time.   *)
OperationsFairSpec ==
    /\ OperationsSpec
    /\ WF_allVars(SecondPasses /\ Recorded)
    /\ \A v \in Services : /\ SF_allVars(Attempts(v) /\ Recorded)
                          /\ SF_allVars(Reads(v) /\ Recorded)
    /\ \A w \in Sweepers :
         /\ WF_allVars((StartJob(w) \/ Work(w)) /\ Recorded)
         /\ SF_allVars(Work(w) /\ Expires(w) /\ Statement(w)[1] = "running" /\ Recorded)
    /\ \A m \in Migrations :
         WF_allVars(LivenessAges(m) /\ UNCHANGED <<election, operations>> /\ Recorded)

-----------------------------------------------------------------------------
(* A ticker asks a copy of the leadership that may be old, and what it     *)
(* starts outlasts elections, so schedulers of two services may be at work *)
(* at once, and each reads the table, asks other services and only then    *)
(* writes.  Two gh-ost migrations come to be active on one topology in     *)
(* that way alone: one of the two was marked ready by a scheduler whose    *)
(* service had lost the lease.  A leader that has it all along never does  *)
(* this to another, nor does one to a later one.                           *)
LedTopologies == \A m, n \in Migrations \ strays :
    /\ mig[m].strategy = "gh-ost" /\ mig[m].status \in {"ready", "running"}
    /\ mig[n].strategy = "gh-ost" /\ mig[n].status \in {"ready", "running"}
    /\ TopologyOf[m] = TopologyOf[n]
    => m = n

(* A goroutine of a service is the job that Election has it start as       *)
(* leader, and work on, whatever it believes by then.                      *)
ImplementsElection == Leader!Spec

(* MigrationQueue!FairSpec takes for granted that running migrations are   *)
(* expired again and again.  The services see to it, whichever of them     *)
(* died holding the lease or in the middle of a sweep, and whatever the    *)
(* backend fails to do now and then: the statement is executed for ever,   *)
(* unless all services end up dead (or, for ever, one that is up lets its  *)
(* lease lapse: see LeaderEmerges).                                        *)
RunningIsSwept ==
    \/ []<><<\E w \in Sweepers : Expires(w) /\ Statement(w)[1] = "running">>_allVars
    \/ <>[](\A v \in Services : ~Leader!Up(v))
    \/ []<>Leader!Lapsed
=============================================================================
