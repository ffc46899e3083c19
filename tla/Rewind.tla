------------------------------- MODULE Rewind -------------------------------
(***************************************************************************)
(* rewind/gh-mysql-rewind: takes a MySQL server with errant transactions   *)
(* back in time by reverting its last binary logs, newest first, and tells *)
(* it by gtid_purged which transactions it still has, so that it can       *)
(* replicate from a healthy server.  The script runs on the server; it may *)
(* die between any two of its commands and be run again.  It does not look *)
(* at how its commands end: a query that fails has an empty answer, which  *)
(* is an empty GTID set, or nothing to object to, to the rest of the       *)
(* script, and a command that fails has left the server as it was.         *)
(*                                                                         *)
(* A GTID set is a set of integers: 1, 2, ... the transactions committed   *)
(* on the server, in this order, larger ones those the script makes up for *)
(* its flashbacks, negative ones those only the master has.  A transaction *)
(* can only be undone when everything done after it has been, and redone   *)
(* on what it was done on: a flashback applied to any other data corrupts  *)
(* it, since mysql --force goes on whatever happens.                       *)
(***************************************************************************)
EXTENDS Integers, Sequences

CONSTANTS
    Local,          \* transactions the server may commit
    Elsewhere,      \* transactions only the master has
    MaxFiles,       \* binary logs the server may have to begin with
    MaxRuns,        \* times the script is run
    LateWrites,     \* places of the script during which some session still
                    \* writes, although the server was found read only
    KillPoints,     \* places at which the script may die
    Failing         \* commands that may fail

Prelude == {"checked", "stopped", "measured", "compared", "flushed", "scanning", "found",
            "projected"}
Places == Prelude \cup {"reverting", "reset", "purged", "repointed"}
Commands == {"replication", "quiet", "local", "master", "errant", "shared", "flush",
             "previous", "subtract", "reverted", "projected", "flashback", "reset",
             "purge", "start"}
Failures == {"unfit", "no errant", "no shared", "not current", "no match", "killed"}

ASSUME RewindAssumption ==
    /\ Local \in Nat \ {0} /\ MaxFiles \in Nat \ {0} /\ MaxRuns \in Nat
    /\ Elsewhere \subseteq Int /\ \A t \in Elsewhere : t < 0
    /\ LateWrites \subseteq Prelude /\ KillPoints \subseteq Places
    /\ Failing \subseteq Commands

VARIABLES
    executed,       \* the server: gtid_executed,
    data,           \*     the transactions in its tables,
    logs,           \*     its binary logs, oldest first, each a sequence of entries,
    lost,           \*     what Previous-GTIDs of the oldest of them says,
    quiet,          \*     read only, no pt-archiver, no replicas, no SQL_DELAY
    replicating,    \*     whether replication runs
    corrupted,      \*     whether a flashback was applied out of place
    under,          \* history: what was in the tables when each was committed
    master,         \* gtid_executed of the master
    pc, execute, resume,    \* the script: its place, the flags -x and -r,
    localSeen, errant,      \*     and its variables
    previous, reverted, oldest, projected,
    at,             \*     the log the loop is at
    flashback,      \*     what is left to apply of the current flashback file
    runs,           \* times the script was started
    minted          \* GTIDs made up so far

server == <<executed, data, logs, lost, quiet, replicating, corrupted, under>>
script == <<execute, resume, localSeen, errant, previous, reverted, oldest, projected,
            at, flashback>>
vars == <<server, master, pc, script, runs, minted>>

Entries == [gtid : Int, tx : 1..Local, undo : BOOLEAN]
Entry(gtid, tx, undo) == [gtid |-> gtid, tx |-> tx, undo |-> undo]
Gtids(log) == {log[k].gtid : k \in DOMAIN log}

TypeOK ==
    /\ executed \subseteq Int /\ master \subseteq Int /\ lost \subseteq Int
    /\ data \subseteq 1..Local /\ under \in Seq(SUBSET (1..Local))
    /\ logs \in Seq(Seq(Entries)) /\ flashback \in Seq(Entries)
    /\ {quiet, replicating, corrupted, execute, resume} \subseteq BOOLEAN
    /\ pc \in Places \cup Failures \cup {"idle", "done"}
    /\ pc \in Places => ~replicating /\ (quiet \/ "quiet" \in Failing)
    /\ localSeen \subseteq Int /\ errant \subseteq Int /\ previous \subseteq Int
    /\ reverted \subseteq Int /\ projected \subseteq Int
    /\ at \in Nat /\ oldest \in Nat /\ runs \in 0..MaxRuns /\ minted \in Nat

ClearScript ==
    /\ localSeen' = {} /\ errant' = {} /\ previous' = {} /\ reverted' = {}
    /\ oldest' = 0 /\ projected' = {} /\ at' = 0 /\ flashback' = <<>>

(* The server has n transactions, of which the master has any, besides     *)
(* some of its own; log f has those after end[f] up to end[f + 1], and     *)
(* what came before the first log has expired.                             *)
Init ==
    /\ \E n \in 1..Local, files \in 1..MaxFiles :
         \E end \in [1..(files + 1) -> 0..n] :
            /\ \A f \in 1..files : end[f] <= end[f + 1]
            /\ end[files + 1] = n
            /\ logs = [f \in 1..files |-> [k \in 1..(end[f + 1] - end[f]) |->
                                             Entry(end[f] + k, end[f] + k, FALSE)]]
            /\ lost = 1..end[1]
            /\ executed = 1..n /\ data = 1..n /\ under = [k \in 1..n |-> 1..(k - 1)]
            /\ master \in SUBSET ((1..n) \cup Elsewhere)
    /\ quiet \in BOOLEAN /\ replicating \in BOOLEAN /\ corrupted = FALSE
    /\ pc = "idle" /\ execute = FALSE /\ resume = FALSE
    /\ localSeen = {} /\ errant = {} /\ previous = {} /\ reverted = {}
    /\ oldest = 0 /\ projected = {} /\ at = 0 /\ flashback = <<>>
    /\ runs = 0 /\ minted = 0

-----------------------------------------------------------------------------
(* The world around the script *)

LocalWrites ==
    /\ ~quiet \/ pc \in LateWrites
    /\ Len(under) < Local
    /\ LET t == Len(under) + 1 IN
         /\ under' = Append(under, data)
         /\ data' = data \cup {t}
         /\ executed' = executed \cup {t}
         /\ logs' = [logs EXCEPT ![Len(logs)] = Append(@, Entry(t, t, FALSE))]
    /\ UNCHANGED <<lost, quiet, replicating, corrupted, master, pc, script, runs, minted>>

(* The operator does what "unfit" asks for.                                *)
Prepared ==
    /\ pc \notin Places /\ ~quiet
    /\ quiet' = TRUE /\ replicating' = FALSE
    /\ UNCHANGED <<executed, data, logs, lost, corrupted, under, master, pc, script,
                   runs, minted>>

MasterCommits ==
    /\ \E t \in Elsewhere \ master : master' = master \cup {t}
    /\ UNCHANGED <<server, pc, script, runs, minted>>

Killed ==
    /\ pc \in KillPoints
    /\ pc' = "killed"
    /\ UNCHANGED <<server, master, script, runs, minted>>

Outcomes(command, result, failed) ==
    IF command \in Failing THEN {result, failed} ELSE {result}

(* Of a query for a GTID set.                                              *)
Answers(query, set) == Outcomes(query, set, {})

-----------------------------------------------------------------------------
(* sanity_checks: it looks for a "No" about replication, and for anything  *)
(* but nothing about sessions, pt-archiver, replicas and a delay.          *)

(* Fault: read_only is not looked at.                                      *)
FitIfStopped(stopped, still) == stopped

Fit(stopped, still) == stopped /\ still

Check ==
    /\ pc \notin Places
    /\ runs < MaxRuns
    /\ runs' = runs + 1
    /\ \E stopped \in Outcomes("replication", ~replicating, FALSE),
          still \in Outcomes("quiet", quiet, TRUE) :
         pc' = IF Fit(stopped, still) THEN "checked" ELSE "unfit"
    /\ execute' \in BOOLEAN /\ resume' \in BOOLEAN
    /\ ClearScript
    /\ UNCHANGED <<server, master, minted>>

-----------------------------------------------------------------------------
(* rewind: which transactions are errant *)

StopReplica ==
    /\ pc = "checked" /\ pc' = "stopped"
    /\ replicating' = FALSE
    /\ UNCHANGED <<executed, data, logs, lost, quiet, corrupted, under, master,
                   script, runs, minted>>

MeasureLocal ==
    /\ pc = "stopped" /\ pc' = "measured"
    /\ localSeen' \in Answers("local", executed)
    /\ UNCHANGED <<server, master, execute, resume, errant, previous, reverted, oldest,
                   projected, at, flashback, runs, minted>>

(* What the script calls the shared entries.                               *)
SharedGtid(masterSeen) == masterSeen \ localSeen

CompareWithMaster ==
    /\ pc = "measured"
    /\ \E masterSeen \in Answers("master", master) :
         /\ errant' \in Answers("errant", localSeen \ masterSeen)
         /\ \E shared \in Answers("shared", SharedGtid(masterSeen)) :
              pc' = IF errant' = {} THEN "no errant"
                    ELSE IF shared = {} THEN "no shared" ELSE "compared"
    /\ UNCHANGED <<server, master, execute, resume, localSeen, previous, reverted, oldest,
                   projected, at, flashback, runs, minted>>

-----------------------------------------------------------------------------
(* rewind: which binary logs have them *)

FlushLogs ==
    /\ pc = "compared" /\ pc' = "flushed"
    /\ logs' \in Outcomes("flush", Append(logs, <<>>), logs)
    /\ UNCHANGED <<executed, data, lost, quiet, replicating, corrupted, under, master,
                   script, runs, minted>>

(* Previous-GTIDs in the header of log i.                                  *)
PreviousGtids(i) == lost \cup UNION {Gtids(logs[j]) : j \in 1..(i - 1)}

(* The first log of the loop is the one just flushed into: its header must *)
(* know of all errant transactions.                                        *)
ScanNewest ==
    /\ pc = "flushed"
    /\ at' = Len(logs)
    /\ previous' \in Answers("previous", PreviousGtids(Len(logs)))
    /\ \E subtract \in Answers("subtract", errant \ previous') :
         pc' = IF subtract = {} THEN "scanning" ELSE "not current"
    /\ UNCHANGED <<server, master, execute, resume, localSeen, errant, reverted, oldest,
                   projected, flashback, runs, minted>>

(* Fault: a log with one of the errant transactions will do.               *)
ReachesBackToAny(i, subtract) == subtract # {}

(* Fault: one log too many is reverted.                                    *)
ReachesBeyond(i, subtract) == i = 1 \/ errant \cap PreviousGtids(i + 1) = {}

(* The header of log i leaves all that is errant: the logs before i have   *)
(* no errant transaction.                                                  *)
ReachesBack(i, subtract) == subtract = errant

Scan ==
    /\ pc = "scanning" /\ at > 1
    /\ at' = at - 1 /\ oldest' = at - 1
    /\ \E header \in Answers("previous", PreviousGtids(at - 1)) :
         /\ reverted' \in Answers("reverted", previous \ header)
         /\ \E subtract \in Answers("subtract", errant \ header) :
              pc' = IF ReachesBack(at - 1, subtract) THEN "found" ELSE "scanning"
    /\ UNCHANGED <<server, master, execute, resume, localSeen, errant, previous, projected,
                   flashback, runs, minted>>

ScanEnds ==
    /\ pc = "scanning" /\ at = 1
    /\ pc' = "no match"
    /\ UNCHANGED <<server, master, script, runs, minted>>

(* Fault: only what was errant is taken out.                               *)
ProjectedWithoutErrant == localSeen \ errant

Projection == localSeen \ reverted

(* The loop over the logs to revert begins at the newest again.            *)
Project ==
    /\ pc = "found" /\ pc' = "projected"
    /\ projected' \in Answers("projected", Projection)
    /\ at' = Len(logs) + 1
    /\ UNCHANGED <<server, master, execute, resume, localSeen, errant, previous, reverted,
                   oldest, flashback, runs, minted>>

-----------------------------------------------------------------------------
(* rewind: flashback *)

(* Fault: the events are inverted but stay in the order of the log.        *)
InFileOrder(log) == [k \in DOMAIN log |-> [log[k] EXCEPT !.undo = ~@]]

(* mysqlbinlog --flashback                                                 *)
Flashback(log) == [k \in DOMAIN log |-> [log[Len(log) + 1 - k] EXCEPT !.undo = ~@]]

(* The flashback of the next older log; without -x it is not applied.      *)
Generate ==
    /\ pc \in {"projected", "reverting"} /\ flashback = <<>> /\ at > oldest
    /\ pc' = "reverting"
    /\ at' = at - 1
    /\ flashback' \in IF execute THEN Outcomes("flashback", Flashback(logs[at - 1]), <<>>)
                      ELSE {<<>>}
    /\ UNCHANGED <<server, master, execute, resume, localSeen, errant, previous, reverted,
                   oldest, projected, runs, minted>>

(* One transaction of the flashback file, under the GTID injected for it.  *)
Apply ==
    /\ pc = "reverting" /\ flashback # <<>>
    /\ LET e == Head(flashback)
           gtid == Local + minted + 1
       IN  /\ data' = IF e.undo THEN data \ {e.tx} ELSE data \cup {e.tx}
           /\ corrupted' = (corrupted \/ under[e.tx] # data \ {e.tx}
                                      \/ e.undo # (e.tx \in data))
           /\ executed' = executed \cup {gtid}
           /\ logs' = [logs EXCEPT ![Len(logs)] = Append(@, Entry(gtid, e.tx, e.undo))]
    /\ flashback' = Tail(flashback)
    /\ minted' = minted + 1
    /\ UNCHANGED <<lost, quiet, replicating, under, master, pc, execute, resume,
                   localSeen, errant, previous, reverted, oldest, projected, at, runs>>

Reverted == pc = "reverting" /\ flashback = <<>> /\ at = oldest

NotResetting ==
    /\ Reverted /\ ~execute
    /\ pc' = "done"
    /\ UNCHANGED <<server, master, script, runs, minted>>

-----------------------------------------------------------------------------
(* rewind: make the server a replica of the master *)

ResetMaster ==
    /\ Reverted /\ execute
    /\ pc' = "reset"
    /\ \/ executed' = {} /\ logs' = <<<<>>>> /\ lost' = {}
       \/ "reset" \in Failing /\ UNCHANGED <<executed, logs, lost>>
    /\ UNCHANGED <<data, quiet, replicating, corrupted, under, master, script, runs,
                   minted>>

(* MySQL refuses while it has executed any transaction.  It rotates the    *)
(* log, so that a header knows what was purged; the log before that has    *)
(* nothing and is left out.                                                *)
SetPurged ==
    /\ pc = "reset" /\ pc' = "purged"
    /\ \/ executed = {} /\ executed' = projected /\ lost' = projected
       \/ (executed # {} \/ "purge" \in Failing) /\ UNCHANGED <<executed, lost>>
    /\ UNCHANGED <<data, logs, quiet, replicating, corrupted, under, master,
                   script, runs, minted>>

ChangeMaster ==
    /\ pc = "purged"
    /\ pc' = IF resume THEN "repointed" ELSE "done"
    /\ UNCHANGED <<server, master, script, runs, minted>>

StartReplica ==
    /\ pc = "repointed" /\ pc' = "done"
    /\ replicating' \in Outcomes("start", TRUE, replicating)
    /\ UNCHANGED <<executed, data, logs, lost, quiet, corrupted, under, master,
                   script, runs, minted>>

Next ==
    \/ LocalWrites \/ Prepared \/ MasterCommits \/ Killed
    \/ Check \/ StopReplica \/ MeasureLocal \/ CompareWithMaster
    \/ FlushLogs \/ ScanNewest \/ Scan \/ ScanEnds \/ Project
    \/ Generate \/ Apply \/ NotResetting
    \/ ResetMaster \/ SetPurged \/ ChangeMaster \/ StartReplica

Spec == Init /\ [][Next]_vars

-----------------------------------------------------------------------------
(* Properties *)

Rewound == execute /\ pc \in {"purged", "repointed", "done"}

(* A server that was rewound claims no transaction its new master lacks:   *)
(* neither what was errant, nor what the flashback was logged as, nor what *)
(* was written while the script was reading (the sum of gtid_subtract's).  *)
NoErrantLeft == Rewound => executed \subseteq master

(* gtid_purged says of a rewound server exactly what its tables have, also *)
(* when an earlier attempt died halfway through the flashback and the      *)
(* rerun had to revert the reverting as well.                              *)
DataMatchesGtid == Rewound => executed = data

(* Every flashback undoes the last change there is, or redoes the last one *)
(* undone, in whatever order files were listed and runs were interrupted.  *)
AppliesInPlace == ~corrupted

(* No more is reverted than must be: the oldest log on the list has an     *)
(* errant transaction.                                                     *)
OnlyAsFarAsNeeded ==
    pc \in {"found", "projected", "reverting"} => errant \cap Gtids(logs[oldest]) # {}
=============================================================================
