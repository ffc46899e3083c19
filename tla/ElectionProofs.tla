--------------------------- MODULE ElectionProofs ---------------------------
(***************************************************************************)
(* Theorems about Election, for any number of services, any length of the  *)
(* lease, and whatever keeps services from the backend for any time.       *)
(***************************************************************************)
EXTENDS Election, TLAPS

(* The row is as old as its holder says it is.  Whoever leads or works     *)
(* either is the holder still or has not renewed the lease for longer than *)
(* it lasts; and whoever is to take a lease waits that long.               *)
LeaseInv ==
    /\ TypeOK
    /\ \A s \in Services : holder = s => unrenewed[s] = age
    /\ \A s \in Services : leaderState[s] \/ working[s] => holder = s \/ ~Renewed(s)

LEMMA InitLease == Init => LeaseInv
BY ElectionAssumption DEF Init, LeaseInv, TypeOK, Renewed

(* The lease of one that renewed it in time is not taken by an attempt.    *)
LEMMA NotTaken ==
    ASSUME LeaseInv, NEW s \in Services, NEW t \in Services, Renewed(s), holder = s
    PROVE  HolderAfter(t) = s
BY ElectionAssumption DEF HolderAfter, LeaseInv, TypeOK, Renewed

LEMMA StepLease == LeaseInv /\ [Next]_vars => LeaseInv'
<1> SUFFICES ASSUME LeaseInv, [Next]_vars PROVE LeaseInv'
  OBVIOUS
<1> USE ElectionAssumption DEF LeaseInv, TypeOK, Renewed
<1>1. CASE Tick
  BY <1>1 DEF Tick, OneMore
<1>2. ASSUME NEW s \in Services, Start(s) PROVE LeaseInv'
  BY <1>2 DEF Start
<1>3. ASSUME NEW s \in Services, Die(s) PROVE LeaseInv'
  BY <1>3 DEF Die
<1>4. ASSUME NEW s \in Services, AttemptLeadership(s) PROVE LeaseInv'
  <2>1. TypeOK'
    BY <1>4 DEF AttemptLeadership, HolderAfter, AgeAfter
  <2>2. ASSUME NEW t \in Services, holder' = t PROVE unrenewed'[t] = age'
    BY <1>4, <2>2 DEF AttemptLeadership, HolderAfter, AgeAfter
  <2>3. ASSUME NEW t \in Services, leaderState'[t] \/ working'[t], holder' # t
        PROVE  ~Renewed(t)'
    <3>1. t # s \/ HolderAfter(s) # s
      BY <1>4, <2>3 DEF AttemptLeadership
    <3>2. unrenewed'[t] = unrenewed[t]
      BY <1>4, <3>1 DEF AttemptLeadership
    <3>3. holder # t \/ ~Renewed(t)
      BY <1>4, <2>3, NotTaken DEF AttemptLeadership
    <3> QED BY <1>4, <2>3, <3>2, <3>3 DEF AttemptLeadership
  <2> QED BY <2>1, <2>2, <2>3
<1>5. ASSUME NEW s \in Services, AttemptFails(s) \/ ReadFails(s) PROVE LeaseInv'
  BY <1>5 DEF AttemptFails, ReadFails
<1>6. ASSUME NEW s \in Services, ReadLeadership(s) PROVE LeaseInv'
  BY <1>6 DEF ReadLeadership, IsHolder
<1>7. ASSUME NEW s \in Services, StartJob(s) \/ EndJob(s) PROVE LeaseInv'
  BY <1>7 DEF StartJob, EndJob, Leads
<1>8. CASE UNCHANGED vars
  BY <1>8 DEF vars
<1> QED
  BY <1>1, <1>2, <1>3, <1>4, <1>5, <1>6, <1>7, <1>8 DEF Next

LEMMA LeaseHolds == Spec => []LeaseInv
BY InitLease, StepLease, PTL DEF Spec

(* Of the services that have renewed the lease within its length only one  *)
(* thinks that it leads, however late and however often in vain the others *)
(* read it: a stale copy beside that of a new leader is a late service's.  *)
THEOREM AtMostOneLeader == Spec => []OneLeader
<1>1. LeaseInv => OneLeader
  BY DEF LeaseInv, OneLeader, Leads
<1> QED
  BY <1>1, LeaseHolds, PTL

(* Of those services only one has jobs at work, though a job asks for      *)
(* leadership only when it starts and may outlast it.                      *)
THEOREM AtMostOneWorker == Spec => []OneWorker
<1>1. LeaseInv => OneWorker
  BY DEF LeaseInv, OneWorker
<1> QED
  BY <1>1, LeaseHolds, PTL

(* A leader that renews the lease in time stays in office while it is up,  *)
(* whoever else attempts to take it.                                       *)
THEOREM LeadersStay == Spec => NeverDeposed
<1>1. LeaseInv /\ [Next]_vars =>
        [\A s \in Services : Leads(s) /\ Renewed(s) /\ Up(s)' => Leads(s)']_vars
  <2> SUFFICES ASSUME LeaseInv, Next, NEW s \in Services, Leads(s), Renewed(s), Up(s)'
               PROVE  leaderState'[s]
    BY DEF Leads
  <2>1. holder = s
    BY DEF LeaseInv, Leads
  <2>2. ASSUME NEW t \in Services, ReadLeadership(t) PROVE leaderState'[s]
    BY <2>1, <2>2 DEF ReadLeadership, IsHolder, LeaseInv, TypeOK, Leads
  <2>3. ASSUME NEW t \in Services, Die(t) PROVE leaderState'[s]
    BY <2>3 DEF Die, Up, LeaseInv, TypeOK, Leads
  <2> QED
    BY <2>2, <2>3 DEF Next, Tick, Start, AttemptLeadership, AttemptFails, ReadFails, StartJob,
                      EndJob, Leads
<1> QED
  BY <1>1, LeaseHolds, PTL DEF Spec, NeverDeposed

(* Row, copies and counters have their types.                              *)
THEOREM ElectionTypes == Spec => []TypeOK
<1>1. LeaseInv => TypeOK
  BY DEF LeaseInv
<1> QED
  BY <1>1, LeaseHolds, PTL
=============================================================================
