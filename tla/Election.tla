------------------------------ MODULE Election ------------------------------
(***************************************************************************)
(* Which skeefree service acts: the lease in the table `service_election`  *)
(* (go/db/backend.go) and what a service makes of it.  Once a second a     *)
(* service tries to take or renew the lease, then reads who has it and     *)
(* keeps the answer; the tickers of go/app/logic.go ask that copy, once,   *)
(* before they start a job.                                                *)
(*                                                                         *)
(* Seconds pass by Tick, at any moment: a service may be kept for any time *)
(* from reaching the backend, and then goes on believing what it last      *)
(* read, while another takes the lease.  A service id is new with every    *)
(* process (HostnameBasedToken: host name and start time), so an id lives  *)
(* once.                                                                   *)
(***************************************************************************)
EXTENDS Integers

CONSTANTS
    Services,               \* service ids
    NoService,              \* no row in service_election
    ElectionExpireSeconds   \* electionExpireSeconds

ASSUME ElectionAssumption ==
    /\ NoService \notin Services
    /\ ElectionExpireSeconds \in Nat

VARIABLES
    holder,     \* service_id of the row
    age,        \* seconds since its last_seen_active
    life,       \* per service: not started, up, or dead
    attempted,  \* per service: between AttemptLeadership and ReadLeadership
    leaderState,\* per service: the copy that IsLeader returns
    unrenewed,  \* per service: seconds since it last took or renewed the
                \* lease, if it ever did; history, which no service knows
    working     \* per service: whether a job it started as leader still runs

vars == <<holder, age, life, attempted, leaderState, unrenewed, working>>

TypeOK ==
    /\ holder \in Services \cup {NoService}
    /\ age \in 0..(ElectionExpireSeconds + 1)
    /\ life \in [Services -> {"new", "up", "dead"}]
    /\ attempted \in [Services -> BOOLEAN]
    /\ leaderState \in [Services -> BOOLEAN]
    /\ unrenewed \in [Services -> 0..(ElectionExpireSeconds + 1)]
    /\ working \in [Services -> BOOLEAN]

Init ==
    /\ holder = NoService
    /\ age = 0
    /\ life = [s \in Services |-> "new"]
    /\ attempted = [s \in Services |-> FALSE]
    /\ leaderState = [s \in Services |-> FALSE]
    /\ unrenewed = [s \in Services |-> ElectionExpireSeconds + 1]
    /\ working = [s \in Services |-> FALSE]

Up(s) == life[s] = "up"
Leads(s) == Up(s) /\ leaderState[s]

-----------------------------------------------------------------------------
Start(s) ==
    /\ life[s] = "new"
    /\ life' = [life EXCEPT ![s] = "up"]
    /\ UNCHANGED <<holder, age, attempted, leaderState, unrenewed, working>>

(* The process ends, and its goroutines with it; the row stays.            *)
Die(s) ==
    /\ Up(s)
    /\ life' = [life EXCEPT ![s] = "dead"]
    /\ attempted' = [attempted EXCEPT ![s] = FALSE]
    /\ leaderState' = [leaderState EXCEPT ![s] = FALSE]
    /\ working' = [working EXCEPT ![s] = FALSE]
    /\ UNCHANGED <<holder, age, unrenewed>>

(* Fault: a lease is taken before it has expired.                          *)
TakenEarly(s) == IF age >= ElectionExpireSeconds - 1 THEN s ELSE holder

(* Fault: whoever asks renews the lease.                                   *)
RenewedByAll(s) == 0

(* service_id after the insert or the `on duplicate key update`.           *)
HolderAfter(s) == IF holder = NoService \/ age > ElectionExpireSeconds THEN s ELSE holder

(* last_seen_active, assigned after service_id and by its new value.       *)
AgeAfter(s) == IF HolderAfter(s) = s THEN 0 ELSE age

AttemptLeadership(s) ==
    /\ Up(s) /\ ~attempted[s]
    /\ holder' = HolderAfter(s)
    /\ age' = AgeAfter(s)
    /\ unrenewed' = [unrenewed EXCEPT ![s] = IF HolderAfter(s) = s THEN 0 ELSE @]
    /\ attempted' = [attempted EXCEPT ![s] = TRUE]
    /\ UNCHANGED <<life, leaderState, working>>

(* The error is logged, and the row is read all the same.                  *)
AttemptFails(s) ==
    /\ Up(s) /\ ~attempted[s]
    /\ attempted' = [attempted EXCEPT ![s] = TRUE]
    /\ UNCHANGED <<holder, age, life, leaderState, unrenewed, working>>

(* Fault: who has once been the leader remains it.                         *)
OnceHolder(s) == holder = s \/ leaderState[s]

(* Fault: the name of the leader is kept, not whether it is this service.  *)
LeaderName(s) == holder

IsHolder(s) == holder = s

ReadLeadership(s) ==
    /\ Up(s) /\ attempted[s]
    /\ leaderState' = [leaderState EXCEPT ![s] = IsHolder(s)]
    /\ attempted' = [attempted EXCEPT ![s] = FALSE]
    /\ UNCHANGED <<holder, age, life, unrenewed, working>>

(* "maintain leader state: graceful response to backend errors"            *)
ReadFails(s) ==
    /\ Up(s) /\ attempted[s]
    /\ attempted' = [attempted EXCEPT ![s] = FALSE]
    /\ UNCHANGED <<holder, age, life, leaderState, unrenewed, working>>

(* A ticker of ContinuousOperations starts its goroutines.                 *)
StartJob(s) ==
    /\ Leads(s)
    /\ working' = [working EXCEPT ![s] = TRUE]
    /\ UNCHANGED <<holder, age, life, attempted, leaderState, unrenewed>>

EndJob(s) ==
    /\ working[s]
    /\ working' = [working EXCEPT ![s] = FALSE]
    /\ UNCHANGED <<holder, age, life, attempted, leaderState, unrenewed>>

(* A second passes.  Beyond the end of the lease nobody counts.            *)
OneMore(seconds) == IF seconds <= ElectionExpireSeconds THEN seconds + 1 ELSE seconds

Tick ==
    /\ age' = OneMore(age)
    /\ unrenewed' = [s \in Services |-> OneMore(unrenewed[s])]
    /\ UNCHANGED <<holder, life, attempted, leaderState, working>>

Next ==
    \/ Tick
    \/ \E s \in Services :
         \/ Start(s) \/ Die(s)
         \/ AttemptLeadership(s) \/ AttemptFails(s)
         \/ ReadLeadership(s) \/ ReadFails(s)
         \/ StartJob(s) \/ EndJob(s)

Spec == Init /\ [][Next]_vars

(* A service that is up comes around, and the backend answers it again and *)
(* again, though not every time.                                           *)
FairSpec ==
    /\ Spec
    /\ WF_vars(Tick)
    /\ \A s \in Services :
         SF_vars(AttemptLeadership(s)) /\ SF_vars(ReadLeadership(s))

-----------------------------------------------------------------------------
Renewed(s) == unrenewed[s] <= ElectionExpireSeconds

(* Two services may think that they lead, since each believes a copy that  *)
(* is old when reads fail; but of those that have renewed the lease within *)
(* its length only one does.  The other has not reached the backend for    *)
(* that long, and could know it.                                           *)
OneLeader == \A s, t \in Services :
    Leads(s) /\ Leads(t) /\ Renewed(s) /\ Renewed(t) => s = t

(* So it is with the schedulers, the probes and the sweeps, though a job   *)
(* asks for leadership only when it starts, and may outlast any number of  *)
(* elections: when two services work, one of them is late with the lease.  *)
OneWorker == \A s, t \in Services :
    working[s] /\ working[t] /\ Renewed(s) /\ Renewed(t) => s = t

(* A leader stays in office for as long as it is up and renews in time:    *)
(* no other service takes the lease from it.                               *)
NeverDeposed ==
    [][\A s \in Services : Leads(s) /\ Renewed(s) /\ Up(s)' => Leads(s)']_vars

(* A leader that has lost the lease to another comes to know, or gets the  *)
(* lease back: it does not go on starting jobs for ever.                   *)
DeposedStepsDown == \A s \in Services :
    Leads(s) /\ holder # s ~> ~Leads(s) \/ holder = s

Lapsed == \E t \in Services : Up(t) /\ holder = t /\ ~Renewed(t)

(* A lease whose holder died does not keep the others waiting for ever:    *)
(* while a service is up, some service comes to lead.  (Or one that is up  *)
(* takes the lease and lets it lapse: if all do that, again and again, it  *)
(* may go round with nobody ever reading that it is the leader.)           *)
LeaderEmerges == \A s \in Services :
    Up(s) ~> ~Up(s) \/ Lapsed \/ \E t \in Services : Leads(t)
=============================================================================
