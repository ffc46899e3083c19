---------------------------- MODULE RewindProofs ----------------------------
(***************************************************************************)
(* Four promises of the script, for any history, any spread of it over the *)
(* binary logs, any kills and reruns, and any writes until the first       *)
(* flashback is generated:                                                 *)
(*                                                                         *)
(*   - what a rewound server says it has is a part of what its new master  *)
(*     has: the algebra of the script's gtid_subtract calls, carried from  *)
(*     one command to the next, whatever the layout of the logs;           *)
(*   - the script reverts no more logs than it has to: the log it stops at *)
(*     is the newest whose header has nothing errant;                      *)
(*   - every flashback meets the data it was made for: between any two     *)
(*     neighbouring entries of the logs there is a state of the tables,    *)
(*     and what the flashbacks do walks this chain back while their own    *)
(*     logging makes it longer;                                            *)
(*   - gtid_purged is what is in the tables: a state of the chain that has *)
(*     only transactions of the server and its master before it is the set *)
(*     of them.                                                            *)
(*                                                                         *)
(* Each theorem names the commands that must not fail for it.              *)
(***************************************************************************)
EXTENDS Rewind, SequenceTheorems, WellFoundedInduction, TLAPS

(* Nothing writes once it reverts, what is reverted has all that is        *)
(* errant, and what is not reverted goes with the reset.                   *)
ResetsReliably == Failing \cap {"quiet", "subtract", "reverted", "reset"} = {}

Compared == {"compared", "flushed", "scanning", "found"}

(* What the script has established on its way.                             *)
RunsQuiet == pc \in Places => quiet
RestIsShared == pc \in Compared => localSeen \ errant \subseteq master
KnowsErrant == pc \in {"scanning", "found"} => errant \subseteq previous
RevertsErrant == pc = "found" => errant \subseteq reverted
ProjectsShared == pc \in {"projected", "reverting", "reset"} => projected \subseteq master
StaysQuiet == Rewound => quiet
ResetIsEmpty == pc = "reset" => executed = {}

RewindInv == /\ RunsQuiet /\ RestIsShared /\ KnowsErrant /\ RevertsErrant
             /\ ProjectsShared /\ StaysQuiet /\ ResetIsEmpty /\ NoErrantLeft

(* A log whose header has no errant transaction is old enough: all that    *)
(* is errant was logged in it or after it.                                 *)
LEMMA OldEnough ==
    ASSUME NEW i, NEW header, ReachesBack(i, errant \ header), errant \subseteq previous
    PROVE  errant \subseteq previous \ header
BY DEF ReachesBack

LEMMA RewindInit == Init => RewindInv
BY DEF Init, RewindInv, RunsQuiet, RestIsShared, KnowsErrant, RevertsErrant,
       ProjectsShared, StaysQuiet, ResetIsEmpty, NoErrantLeft, Rewound, Places, Prelude,
       Compared

(* An answer is the right one, or empty; with a query that does not fail   *)
(* it is the right one.                                                    *)
LEMMA AnswersIn ==
    ASSUME NEW q, NEW S, NEW answer \in Answers(q, S)
    PROVE  answer \in {S, {}} /\ (q \notin Failing => answer = S)
BY DEF Answers, Outcomes

LEMMA RewindStep == ResetsReliably /\ RewindInv /\ [Next]_vars => RewindInv'
<1> SUFFICES ASSUME ResetsReliably, RewindInv, [Next]_vars
             PROVE  RewindInv'
    OBVIOUS
<1>s. /\ "subtract" \notin Failing /\ "reverted" \notin Failing
      /\ "quiet" \notin Failing /\ "reset" \notin Failing
      BY DEF ResetsReliably
<1> USE RewindAssumption
    DEF RewindInv, RunsQuiet, RestIsShared, KnowsErrant, RevertsErrant, ProjectsShared,
        StaysQuiet, ResetIsEmpty, NoErrantLeft, Rewound, Places, Prelude, Compared
<1>1. CASE LocalWrites
      BY <1>1 DEF LocalWrites, script
<1>2. CASE Prepared
      BY <1>2 DEF Prepared, script
<1>3. CASE MasterCommits
      BY <1>3 DEF MasterCommits, server, script
<1>4. CASE Killed
      BY <1>4 DEF Killed, server, script
<1>5. CASE Check
  <2>1. pc' \in {"checked", "unfit"} /\ (pc' = "checked" => quiet)
        BY <1>s, <1>5 DEF Check, Fit, Outcomes
  <2> QED  BY <1>5, <2>1 DEF Check, ClearScript, server
<1>6. CASE StopReplica
      BY <1>6 DEF StopReplica, script
<1>7. CASE MeasureLocal
      BY <1>7 DEF MeasureLocal, server
<1>8. CASE CompareWithMaster
  <2>1. PICK masterSeen \in Answers("master", master) :
           /\ errant' \in Answers("errant", localSeen \ masterSeen)
           /\ \E shared \in Answers("shared", SharedGtid(masterSeen)) :
                pc' = IF errant' = {} THEN "no errant"
                      ELSE IF shared = {} THEN "no shared" ELSE "compared"
        BY <1>8 DEF CompareWithMaster
  <2>2. masterSeen \subseteq master
        BY AnswersIn
  <2>3. errant' = {} \/ errant' = localSeen \ masterSeen
        BY <2>1, AnswersIn DEF Answers, Outcomes
  <2>4. pc' \in {"no errant", "no shared", "compared"} /\ (pc' = "compared" => errant' # {})
        BY <2>1
  <2> QED  BY <1>8, <2>2, <2>3, <2>4 DEF CompareWithMaster, server
<1>9. CASE FlushLogs
      BY <1>9 DEF FlushLogs, script
<1>10. CASE ScanNewest
  <2>1. PICK subtract \in Answers("subtract", errant \ previous') :
           pc' = IF subtract = {} THEN "scanning" ELSE "not current"
        BY <1>10 DEF ScanNewest
  <2>2. subtract = errant \ previous'
        BY <1>s DEF Answers, Outcomes
  <2>3. pc' \in {"scanning", "not current"} /\ (pc' = "scanning" => errant \subseteq previous')
        BY <2>1, <2>2
  <2> QED  BY <1>10, <2>3 DEF ScanNewest, server
<1>11. CASE Scan
  <2>1. PICK header \in Answers("previous", PreviousGtids(at - 1)) :
           /\ reverted' \in Answers("reverted", previous \ header)
           /\ \E subtract \in Answers("subtract", errant \ header) :
                pc' = IF ReachesBack(at - 1, subtract) THEN "found" ELSE "scanning"
        BY <1>11 DEF Scan
  <2>2. reverted' = previous \ header
        BY <1>s, <2>1, AnswersIn
  <2>3. /\ pc' \in {"found", "scanning"}
        /\ pc' = "found" => ReachesBack(at - 1, errant \ header)
        BY <1>s, <2>1, AnswersIn
  <2>4. pc' = "found" => errant \subseteq reverted'
        BY <1>11, <2>2, <2>3, OldEnough DEF Scan
  <2> QED  BY <1>11, <2>3, <2>4 DEF Scan, server
<1>12. CASE ScanEnds
      BY <1>12 DEF ScanEnds, server, script
<1>13. CASE Project
  <2>1. projected' \in {{}, Projection}
        BY <1>13, AnswersIn DEF Project
  <2>2. projected' \subseteq master'
        BY <1>13, <2>1 DEF Project, Projection
  <2> QED  BY <1>13, <2>2 DEF Project, server
<1>14. CASE Generate
      BY <1>14 DEF Generate, server
<1>15. CASE Apply
      BY <1>15 DEF Apply
<1>16. CASE NotResetting
      BY <1>16 DEF NotResetting, Reverted, server, script
<1>17. CASE ResetMaster
      BY <1>s, <1>17 DEF ResetMaster, Reverted, script
<1>18. CASE SetPurged
      BY <1>18 DEF SetPurged, script
<1>19. CASE ChangeMaster
      BY <1>19 DEF ChangeMaster, server, script
<1>20. CASE StartReplica
      BY <1>20 DEF StartReplica, script
<1>21. CASE UNCHANGED vars
      BY <1>21 DEF vars, server, script
<1> QED
    BY <1>1, <1>2, <1>3, <1>4, <1>5, <1>6, <1>7, <1>8, <1>9, <1>10, <1>11, <1>12, <1>13,
       <1>14, <1>15, <1>16, <1>17, <1>18, <1>19, <1>20, <1>21 DEF Next

(* gh-mysql-rewind, once it has set gtid_purged, leaves no transaction on  *)
(* the server that the master does not have, unless a failed query hid     *)
(* that somebody still writes, the subtraction that decides where to stop  *)
(* or the one that says what was reverted failed, or reset master did.     *)
THEOREM RewoundToMaster == ResetsReliably => (Spec => []NoErrantLeft)
<1> SUFFICES ASSUME ResetsReliably
             PROVE  Spec => []NoErrantLeft
    OBVIOUS
<1>1. Init => RewindInv
      BY RewindInit
<1>2. RewindInv /\ [Next]_vars => RewindInv'
      BY RewindStep
<1>3. RewindInv => NoErrantLeft
      BY DEF RewindInv
<1> QED  BY <1>1, <1>2, <1>3, PTL DEF Spec

-----------------------------------------------------------------------------
(* Types, and that the script is at a log that exists wherever it asks for *)
(* one: whatever fails, and wherever it is killed.                         *)

WorldType == /\ executed \subseteq Int /\ master \subseteq Int /\ lost \subseteq Int
             /\ data \subseteq 1..Local /\ under \in Seq(SUBSET (1..Local))
LogsType == logs \in Seq(Seq(Entries)) /\ Len(logs) > 0
FlagsType == /\ quiet \in BOOLEAN /\ replicating \in BOOLEAN /\ corrupted \in BOOLEAN
             /\ execute \in BOOLEAN /\ resume \in BOOLEAN
SetsType == /\ localSeen \subseteq Int /\ errant \subseteq Int /\ previous \subseteq Int
            /\ reverted \subseteq Int /\ projected \subseteq Int
CountsType == at \in Nat /\ oldest \in Nat /\ runs \in 0..MaxRuns /\ minted \in Nat
FileType == flashback \in Seq(Entries)
PlaceType == /\ pc \in Places \cup Failures \cup {"idle", "done"}
             /\ pc \in Places => ~replicating /\ (quiet \/ "quiet" \in Failing)

(* Where the script is, among the logs.                                    *)
AtLog == pc = "scanning" => at \in 1..Len(logs)
OldestLog == pc \in {"found", "projected", "reverting"} => oldest \in 1..Len(logs)
LeftToRevert == pc \in {"projected", "reverting"} => at \in oldest..(Len(logs) + 1)
Located == AtLog /\ OldestLog /\ LeftToRevert

TypeInv == /\ WorldType /\ LogsType /\ FlagsType /\ SetsType /\ CountsType
           /\ FileType /\ PlaceType /\ Located

LEMMA TypeParts == TypeInv => TypeOK
BY DEF TypeInv, TypeOK, WorldType, LogsType, FlagsType, SetsType, CountsType, FileType,
       PlaceType

LEMMA IsSeq ==
    ASSUME NEW S, NEW n \in Nat, NEW f \in [1..n -> S]
    PROVE  f \in Seq(S) /\ Len(f) = n
<1>1. f \in Seq(S)
  BY SeqDef
<1> QED
  BY <1>1

LEMMA GtidsOf ==
    ASSUME NEW log \in Seq(Entries)
    PROVE  /\ Gtids(log) = {log[k].gtid : k \in 1..Len(log)}
           /\ Gtids(log) \subseteq Int
<1>1. DOMAIN log = 1..Len(log)
  OBVIOUS
<1>2. \A k \in 1..Len(log) : log[k] \in Entries
  BY ElementOfSeq
<1>3. \A e \in Entries : e.gtid \in Int
  BY DEF Entries
<1> QED
  BY <1>1, <1>2, <1>3 DEF Gtids

LEMMA OneMoreEntry ==
    ASSUME LogsType, NEW e \in Entries,
           logs' = [logs EXCEPT ![Len(logs)] = Append(@, e)]
    PROVE  /\ LogsType' /\ Len(logs') = Len(logs)
           /\ \A i \in 1..Len(logs) : Gtids(logs[i]) \subseteq Gtids(logs'[i])
<1> DEFINE n == Len(logs)
           last == logs[n]
<1>1. logs \in Seq(Seq(Entries)) /\ Len(logs) > 0 /\ n \in 1..Len(logs)
  BY DEF LogsType
<1>2. logs' = [logs EXCEPT ![n] = Append(last, e)]
  OBVIOUS
<1> HIDE DEF n
<1>3. last \in Seq(Entries)
  BY <1>1, ElementOfSeq
<1> HIDE DEF last
<1>4. /\ Append(last, e) \in Seq(Entries)
      /\ Len(Append(last, e)) = Len(last) + 1
      /\ \A k \in 1..Len(last) : Append(last, e)[k] = last[k]
  BY <1>3, AppendProperties
<1>5. Gtids(last) \subseteq Gtids(Append(last, e))
  <2>1. Len(last) \in Nat
    BY <1>3
  <2>2. SUFFICES ASSUME NEW k \in 1..Len(last) PROVE last[k].gtid \in Gtids(Append(last, e))
    BY <1>3, GtidsOf
  <2>3. k \in 1..Len(Append(last, e)) /\ Append(last, e)[k] = last[k]
    BY <1>4, <2>1, <2>2
  <2> QED BY <1>4, <2>3, GtidsOf
<1> DEFINE longer == Append(last, e)
<1> HIDE DEF longer
<1>6. /\ logs' \in Seq(Seq(Entries)) /\ Len(logs') = Len(logs)
      /\ \A i \in 1..Len(logs) : logs'[i] = IF i = n THEN longer ELSE logs[i]
  <2>1. longer \in Seq(Entries) /\ logs' = [logs EXCEPT ![n] = longer]
    BY <1>2, <1>4 DEF longer
  <2>2. /\ [logs EXCEPT ![n] = longer] \in Seq(Seq(Entries))
        /\ Len([logs EXCEPT ![n] = longer]) = Len(logs)
        /\ \A i \in 1..Len(logs) :
             [logs EXCEPT ![n] = longer][i] = IF i = n THEN longer ELSE logs[i]
    BY <1>1, <2>1, ExceptSeq
  <2> QED BY <2>1, <2>2
<1>8. ASSUME NEW i \in 1..Len(logs) PROVE Gtids(logs[i]) \subseteq Gtids(logs'[i])
  BY <1>5, <1>6 DEF longer, last
<1> QED
  BY <1>1, <1>6, <1>8 DEF LogsType

LEMMA FlashbackType ==
    ASSUME NEW log \in Seq(Entries) PROVE Flashback(log) \in Seq(Entries)
<1>1. \A k \in 1..Len(log) : log[Len(log) + 1 - k] \in Entries
  OBVIOUS
<1>2. \A e \in Entries : [e EXCEPT !.undo = ~@] \in Entries
  BY DEF Entries
<1>3. Flashback(log) \in [1..Len(log) -> Entries]
  <2>1. DOMAIN log = 1..Len(log)
    OBVIOUS
  <2>2. \A k \in 1..Len(log) : [log[Len(log) + 1 - k] EXCEPT !.undo = ~@] \in Entries
    BY <1>1, <1>2
  <2> QED BY <2>1, <2>2 DEF Flashback
<1> QED
  <2>1. Len(log) \in Nat
    OBVIOUS
  <2> QED BY <1>3, <2>1, IsSeq

LEMMA HeadersType ==
    ASSUME LogsType, lost \subseteq Int, NEW i \in Int, i <= Len(logs) + 1
    PROVE  PreviousGtids(i) \subseteq Int
<1>1. ASSUME NEW j \in 1..(i - 1) PROVE Gtids(logs[j]) \subseteq Int
  <2>1. logs \in Seq(Seq(Entries)) /\ j \in 1..Len(logs)
    BY <1>1 DEF LogsType
  <2>2. logs[j] \in Seq(Entries)
    BY <2>1, ElementOfSeq
  <2> QED BY <2>2, GtidsOf
<1> QED
  BY <1>1 DEF PreviousGtids

LEMMA TypeInit == Init => TypeInv
<1> SUFFICES ASSUME Init PROVE TypeInv
  OBVIOUS
<1>n. PICK n \in 1..Local, files \in 1..MaxFiles :
        \E end \in [1..(files + 1) -> 0..n] :
           /\ \A f \in 1..files : end[f] <= end[f + 1]
           /\ end[files + 1] = n
           /\ logs = [f \in 1..files |-> [k \in 1..(end[f + 1] - end[f]) |->
                                            Entry(end[f] + k, end[f] + k, FALSE)]]
           /\ lost = 1..end[1]
           /\ executed = 1..n /\ data = 1..n /\ under = [k \in 1..n |-> 1..(k - 1)]
           /\ master \in SUBSET ((1..n) \cup Elsewhere)
  BY DEF Init
<1>1. PICK end \in [1..(files + 1) -> 0..n] :
        /\ \A f \in 1..files : end[f] <= end[f + 1]
        /\ logs = [f \in 1..files |-> [k \in 1..(end[f + 1] - end[f]) |->
                                         Entry(end[f] + k, end[f] + k, FALSE)]]
        /\ lost = 1..end[1]
        /\ executed = 1..n /\ data = 1..n /\ under = [k \in 1..n |-> 1..(k - 1)]
        /\ master \in SUBSET ((1..n) \cup Elsewhere)
  BY <1>n
<1>2. n \in Nat /\ files \in Nat /\ n <= Local /\ Local \in Nat
  BY RewindAssumption
<1>3. ASSUME NEW f \in 1..files
      PROVE  [k \in 1..(end[f + 1] - end[f]) |-> Entry(end[f] + k, end[f] + k, FALSE)]
                \in Seq(Entries)
  <2> DEFINE low == end[f]
             high == end[f + 1]
  <2>1. low \in 0..n /\ high \in 0..n /\ low <= high
    BY <1>1, <1>2
  <2> HIDE DEF low, high
  <2>2. \A k \in 1..(high - low) : Entry(low + k, low + k, FALSE) \in Entries
    BY <1>2, <2>1 DEF Entry, Entries
  <2>3. [k \in 1..(high - low) |-> Entry(low + k, low + k, FALSE)] \in [1..(high - low) -> Entries]
    BY <2>2
  <2>4. high - low \in Nat
    BY <1>2, <2>1
  <2>5. [k \in 1..(high - low) |-> Entry(low + k, low + k, FALSE)] \in Seq(Entries)
    BY <2>3, <2>4, IsSeq
  <2> QED BY <2>5 DEF low, high
<1>4. logs \in Seq(Seq(Entries)) /\ Len(logs) > 0
  <2>1. logs \in [1..files -> Seq(Entries)]
    BY <1>1, <1>3
  <2>2. logs \in Seq(Seq(Entries)) /\ Len(logs) = files
    BY <1>2, <2>1, IsSeq
  <2> QED BY <2>2
<1>5. under \in Seq(SUBSET (1..Local))
  <2>1. under \in [1..n -> SUBSET (1..Local)]
    BY <1>1, <1>2
  <2> QED BY <1>2, <2>1, IsSeq
<1>6. /\ executed \subseteq Int /\ master \subseteq Int /\ lost \subseteq Int /\ data \subseteq 1..Local
  <2>1. end[1] \in 0..n
    BY <1>1, <1>2
  <2> QED BY <1>1, <1>2, <2>1, RewindAssumption
<1>7. <<>> \in Seq(Entries)
  OBVIOUS
<1>8. /\ pc = "idle" /\ runs = 0 /\ minted = 0 /\ oldest = 0 /\ at = 0
      /\ quiet \in BOOLEAN /\ replicating \in BOOLEAN /\ corrupted \in BOOLEAN
      /\ execute \in BOOLEAN /\ resume \in BOOLEAN /\ flashback = <<>>
      /\ localSeen = {} /\ errant = {} /\ previous = {} /\ reverted = {} /\ projected = {}
  BY DEF Init
<1>9. WorldType /\ LogsType /\ FileType
  BY <1>4, <1>5, <1>6, <1>7, <1>8 DEF WorldType, LogsType, FileType
<1>10. FlagsType /\ SetsType
  BY <1>8 DEF FlagsType, SetsType
<1>11. CountsType
  BY <1>8, RewindAssumption DEF CountsType
<1>12. PlaceType /\ Located
  BY <1>8 DEF PlaceType, Located, AtLog, OldestLog, LeftToRevert, Places, Prelude
<1> QED
  BY <1>9, <1>10, <1>11, <1>12 DEF TypeInv

(* The parts of the invariant are kept one by one.                         *)
LEMMA TypeStep == TypeInv /\ [Next]_vars => TypeInv'
<1> SUFFICES ASSUME TypeInv, [Next]_vars PROVE TypeInv'
  OBVIOUS
<1>0. /\ WorldType /\ LogsType /\ FlagsType /\ SetsType /\ CountsType
      /\ FileType /\ PlaceType /\ Located
  BY DEF TypeInv
<1> USE <1>0
<1>1. CASE LocalWrites
  <2> DEFINE t == Len(under) + 1
  <2>0. Len(under) \in Nat /\ Len(under) < Local /\ Local \in Nat
    BY <1>1, RewindAssumption DEF LocalWrites, WorldType
  <2>1. t \in 1..Local /\ Entry(t, t, FALSE) \in Entries
    BY <2>0 DEF Entry, Entries
  <2>2. LogsType' /\ Len(logs') = Len(logs)
    BY <1>1, <2>1, OneMoreEntry DEF LocalWrites
  <2>3. under' \in Seq(SUBSET (1..Local)) /\ data' \subseteq 1..Local /\ executed' \subseteq Int
    <3>1. data \in SUBSET (1..Local) /\ under \in Seq(SUBSET (1..Local)) /\ under' = Append(under, data)
      BY <1>1 DEF LocalWrites, WorldType
    <3>2. under' \in Seq(SUBSET (1..Local))
      BY <3>1, AppendProperties
    <3>3. t \in Int /\ data' = data \cup {t} /\ executed' = executed \cup {t}
      BY <1>1, <2>1 DEF LocalWrites
    <3> QED BY <2>1, <3>1, <3>2, <3>3 DEF WorldType
  <2>11. WorldType' /\ LogsType' /\ FileType'
    BY <1>1, <2>3, <2>2 DEF LocalWrites, script, WorldType, LogsType, FileType
  <2>12. FlagsType' /\ SetsType'
    BY <1>1 DEF LocalWrites, script, FlagsType, SetsType
  <2>13. CountsType'
    BY <1>1 DEF LocalWrites, script, CountsType
  <2>14. PlaceType'
    BY <1>1 DEF LocalWrites, script, PlaceType, Places, Prelude, Failures
  <2>15. Located'
    BY <1>1, <2>2 DEF LocalWrites, script, Located, AtLog, OldestLog, LeftToRevert
  <2> QED BY <2>11, <2>12, <2>13, <2>14, <2>15 DEF TypeInv
<1>2. CASE Prepared
  <2>11. WorldType' /\ LogsType' /\ FileType'
    BY <1>2 DEF Prepared, script, WorldType, LogsType, FileType
  <2>12. FlagsType' /\ SetsType'
    BY <1>2 DEF Prepared, script, FlagsType, SetsType
  <2>13. CountsType'
    BY <1>2 DEF Prepared, script, CountsType
  <2>14. PlaceType'
    BY <1>2 DEF Prepared, script, PlaceType, Places, Prelude, Failures
  <2>15. Located'
    BY <1>2 DEF Prepared, script, Located, AtLog, OldestLog, LeftToRevert
  <2> QED BY <2>11, <2>12, <2>13, <2>14, <2>15 DEF TypeInv
<1>3. CASE MasterCommits
  <2>11. WorldType' /\ LogsType' /\ FileType'
    BY <1>3, RewindAssumption DEF MasterCommits, server, script, WorldType, LogsType, FileType
  <2>12. FlagsType' /\ SetsType'
    BY <1>3 DEF MasterCommits, server, script, FlagsType, SetsType
  <2>13. CountsType'
    BY <1>3 DEF MasterCommits, server, script, CountsType
  <2>14. PlaceType'
    BY <1>3 DEF MasterCommits, server, script, PlaceType, Places, Prelude, Failures
  <2>15. Located'
    BY <1>3 DEF MasterCommits, server, script, Located, AtLog, OldestLog, LeftToRevert
  <2> QED BY <2>11, <2>12, <2>13, <2>14, <2>15 DEF TypeInv
<1>4. CASE Killed
  <2>11. WorldType' /\ LogsType' /\ FileType'
    BY <1>4 DEF Killed, server, script, WorldType, LogsType, FileType
  <2>12. FlagsType' /\ SetsType'
    BY <1>4 DEF Killed, server, script, FlagsType, SetsType
  <2>13. CountsType'
    BY <1>4 DEF Killed, server, script, CountsType
  <2>14. PlaceType'
    BY <1>4 DEF Killed, server, script, PlaceType, Places, Prelude, Failures
  <2>15. Located'
    BY <1>4 DEF Killed, server, script, Located, AtLog, OldestLog, LeftToRevert
  <2> QED BY <2>11, <2>12, <2>13, <2>14, <2>15 DEF TypeInv
<1>5. CASE Check
  <2>1. /\ pc' \in {"checked", "unfit"} /\ flashback' = <<>>
        /\ pc' = "checked" => ~replicating /\ (quiet \/ "quiet" \in Failing)
    <3>1. PICK stopped \in Outcomes("replication", ~replicating, FALSE),
               still \in Outcomes("quiet", quiet, TRUE) :
                 pc' = IF Fit(stopped, still) THEN "checked" ELSE "unfit"
      BY <1>5 DEF Check
    <3>2. /\ stopped = (~replicating) \/ stopped = FALSE
          /\ still = quiet \/ "quiet" \in Failing
      BY <3>1 DEF Outcomes
    <3>3. pc' \in {"checked", "unfit"} /\ (pc' = "checked" => stopped /\ still)
      BY <3>1 DEF Fit
    <3> QED BY <1>5, <3>2, <3>3 DEF Check, ClearScript
  <2>2. <<>> \in Seq(Entries)
    OBVIOUS
  <2>11. WorldType' /\ LogsType' /\ FileType'
    BY <1>5, <2>1, <2>2 DEF Check, Fit, ClearScript, server, WorldType, LogsType, FileType
  <2>12. FlagsType' /\ SetsType'
    BY <1>5 DEF Check, Fit, ClearScript, server, FlagsType, SetsType
  <2>13. CountsType'
    BY <1>5, RewindAssumption DEF Check, ClearScript, CountsType
  <2>14. PlaceType'
    BY <1>5, <2>1 DEF Check, Fit, ClearScript, server, PlaceType, Places, Prelude, Failures
  <2>15. Located'
    BY <1>5, <2>1 DEF Check, Fit, ClearScript, server, Located, AtLog, OldestLog, LeftToRevert
  <2> QED BY <2>11, <2>12, <2>13, <2>14, <2>15 DEF TypeInv
<1>6. CASE StopReplica
  <2>11. WorldType' /\ LogsType' /\ FileType'
    BY <1>6 DEF StopReplica, script, WorldType, LogsType, FileType
  <2>12. FlagsType' /\ SetsType'
    BY <1>6 DEF StopReplica, script, FlagsType, SetsType
  <2>13. CountsType'
    BY <1>6 DEF StopReplica, script, CountsType
  <2>14. PlaceType'
    BY <1>6 DEF StopReplica, script, PlaceType, Places, Prelude, Failures
  <2>15. Located'
    BY <1>6 DEF StopReplica, script, Located, AtLog, OldestLog, LeftToRevert
  <2> QED BY <2>11, <2>12, <2>13, <2>14, <2>15 DEF TypeInv
<1>7. CASE MeasureLocal
  <2>1. localSeen' \subseteq Int
    <3>1. localSeen' \in {executed, {}}
      BY <1>7, AnswersIn DEF MeasureLocal
    <3> QED BY <3>1 DEF WorldType
  <2>11. WorldType' /\ LogsType' /\ FileType'
    BY <1>7 DEF MeasureLocal, server, WorldType, LogsType, FileType
  <2>12. FlagsType' /\ SetsType'
    BY <1>7, <2>1 DEF MeasureLocal, server, FlagsType, SetsType
  <2>13. CountsType'
    BY <1>7 DEF MeasureLocal, server, CountsType
  <2>14. PlaceType'
    BY <1>7 DEF MeasureLocal, server, PlaceType, Places, Prelude, Failures
  <2>15. Located'
    BY <1>7 DEF MeasureLocal, server, Located, AtLog, OldestLog, LeftToRevert
  <2> QED BY <2>11, <2>12, <2>13, <2>14, <2>15 DEF TypeInv
<1>8. CASE CompareWithMaster
  <2>1. PICK masterSeen \in Answers("master", master) :
           /\ errant' \in Answers("errant", localSeen \ masterSeen)
           /\ \E shared \in Answers("shared", SharedGtid(masterSeen)) :
                pc' = IF errant' = {} THEN "no errant"
                      ELSE IF shared = {} THEN "no shared" ELSE "compared"
    BY <1>8 DEF CompareWithMaster
  <2>2. errant' \subseteq Int
    <3>1. errant' \in {localSeen \ masterSeen, {}}
      BY <2>1, AnswersIn
    <3> QED BY <3>1 DEF SetsType
  <2>3. pc' \in {"no errant", "no shared", "compared"}
    BY <2>1
  <2>11. WorldType' /\ LogsType' /\ FileType'
    BY <1>8 DEF CompareWithMaster, server, WorldType, LogsType, FileType
  <2>12. FlagsType' /\ SetsType'
    BY <1>8, <2>2 DEF CompareWithMaster, server, FlagsType, SetsType
  <2>13. CountsType'
    BY <1>8 DEF CompareWithMaster, server, CountsType
  <2>14. PlaceType'
    BY <1>8, <2>3 DEF CompareWithMaster, server, PlaceType, Places, Prelude, Failures
  <2>15. Located'
    BY <1>8, <2>3 DEF CompareWithMaster, server, Located, AtLog, OldestLog, LeftToRevert
  <2> QED BY <2>11, <2>12, <2>13, <2>14, <2>15 DEF TypeInv
<1>9. CASE FlushLogs
  <2>1. logs' \in {Append(logs, <<>>), logs}
    BY <1>9 DEF FlushLogs, Outcomes
  <2>2. <<>> \in Seq(Entries)
    OBVIOUS
  <2>3. LogsType'
    <3>1. logs \in Seq(Seq(Entries)) /\ Len(logs) > 0 /\ Len(logs) \in Nat
      BY DEF LogsType
    <3>2. Append(logs, <<>>) \in Seq(Seq(Entries)) /\ Len(Append(logs, <<>>)) = Len(logs) + 1
      BY <2>2, <3>1, AppendProperties
    <3>3. CASE logs' = Append(logs, <<>>)
      <4>1. logs' \in Seq(Seq(Entries)) /\ Len(logs') = Len(logs) + 1
        BY <3>2, <3>3
      <4> QED BY <3>1, <4>1 DEF LogsType
    <3>4. CASE logs' = logs
      BY <3>1, <3>4 DEF LogsType
    <3> QED BY <2>1, <3>3, <3>4
  <2>11. WorldType' /\ LogsType' /\ FileType'
    BY <1>9, <2>3 DEF FlushLogs, script, WorldType, LogsType, FileType
  <2>12. FlagsType' /\ SetsType'
    BY <1>9 DEF FlushLogs, script, FlagsType, SetsType
  <2>13. CountsType'
    BY <1>9 DEF FlushLogs, script, CountsType
  <2>14. PlaceType'
    BY <1>9 DEF FlushLogs, script, PlaceType, Places, Prelude, Failures
  <2>15. Located'
    BY <1>9 DEF FlushLogs, script, Located, AtLog, OldestLog, LeftToRevert
  <2> QED BY <2>11, <2>12, <2>13, <2>14, <2>15 DEF TypeInv
<1>10. CASE ScanNewest
  <2>1. previous' \in {PreviousGtids(Len(logs)), {}}
    BY <1>10, AnswersIn DEF ScanNewest
  <2>2. previous' \subseteq Int
    <3>1. Len(logs) \in Int /\ Len(logs) <= Len(logs) + 1
      BY DEF LogsType
    <3> QED BY <2>1, <3>1, HeadersType DEF WorldType
  <2>3. pc' \in {"scanning", "not current"}
    BY <1>10 DEF ScanNewest
  <2>4. Len(logs) \in 1..Len(logs) /\ Len(logs) \in Nat
    BY DEF LogsType
  <2>11. WorldType' /\ LogsType' /\ FileType'
    BY <1>10 DEF ScanNewest, server, WorldType, LogsType, FileType
  <2>12. FlagsType' /\ SetsType'
    BY <1>10, <2>2 DEF ScanNewest, server, FlagsType, SetsType
  <2>13. CountsType'
    BY <1>10, <2>4 DEF ScanNewest, server, CountsType
  <2>14. PlaceType'
    BY <1>10, <2>3 DEF ScanNewest, server, PlaceType, Places, Prelude, Failures
  <2>15. Located'
    BY <1>10, <2>3, <2>4 DEF ScanNewest, server, Located, AtLog, OldestLog, LeftToRevert
  <2> QED BY <2>11, <2>12, <2>13, <2>14, <2>15 DEF TypeInv
<1>11. CASE Scan
  <2>1. reverted' \subseteq Int
    <3>1. PICK header : reverted' \in Answers("reverted", previous \ header)
      BY <1>11 DEF Scan
    <3>2. reverted' \in {previous \ header, {}}
      BY <3>1, AnswersIn
    <3> QED BY <3>2 DEF SetsType
  <2>2. pc' \in {"found", "scanning"}
    BY <1>11 DEF Scan
  <2>3. at' = at - 1 /\ oldest' = at - 1 /\ at - 1 \in 1..Len(logs) /\ logs' = logs
    BY <1>11 DEF Scan, Located, AtLog, LogsType, server
  <2>11. WorldType' /\ LogsType' /\ FileType'
    BY <1>11 DEF Scan, server, WorldType, LogsType, FileType
  <2>12. FlagsType' /\ SetsType'
    BY <1>11, <2>1 DEF Scan, server, FlagsType, SetsType
  <2>13. CountsType'
    BY <1>11, <2>3 DEF Scan, server, CountsType
  <2>14. PlaceType'
    BY <1>11, <2>2 DEF Scan, server, PlaceType, Places, Prelude, Failures
  <2>15. Located'
    BY <1>11, <2>2, <2>3 DEF Scan, server, Located, AtLog, OldestLog, LeftToRevert
  <2> QED BY <2>11, <2>12, <2>13, <2>14, <2>15 DEF TypeInv
<1>12. CASE ScanEnds
  <2>11. WorldType' /\ LogsType' /\ FileType'
    BY <1>12 DEF ScanEnds, server, script, WorldType, LogsType, FileType
  <2>12. FlagsType' /\ SetsType'
    BY <1>12 DEF ScanEnds, server, script, FlagsType, SetsType
  <2>13. CountsType'
    BY <1>12 DEF ScanEnds, server, script, CountsType
  <2>14. PlaceType'
    BY <1>12 DEF ScanEnds, server, script, PlaceType, Places, Prelude, Failures
  <2>15. Located'
    BY <1>12 DEF ScanEnds, server, script, Located, AtLog, OldestLog, LeftToRevert
  <2> QED BY <2>11, <2>12, <2>13, <2>14, <2>15 DEF TypeInv
<1>13. CASE Project
  <2>1. projected' \subseteq Int
    <3>1. projected' \in {Projection, {}}
      BY <1>13, AnswersIn DEF Project
    <3> QED BY <3>1 DEF Projection, SetsType
  <2>2. Len(logs) + 1 \in Nat /\ (oldest \in 1..Len(logs) => Len(logs) + 1 \in oldest..(Len(logs) + 1))
    BY DEF LogsType
  <2>11. WorldType' /\ LogsType' /\ FileType'
    BY <1>13 DEF Project, server, WorldType, LogsType, FileType
  <2>12. FlagsType' /\ SetsType'
    BY <1>13, <2>1 DEF Project, server, FlagsType, SetsType
  <2>13. CountsType'
    BY <1>13, <2>2 DEF Project, server, CountsType
  <2>14. PlaceType'
    BY <1>13 DEF Project, server, PlaceType, Places, Prelude, Failures
  <2>15. Located'
    BY <1>13, <2>2 DEF Project, server, Located, AtLog, OldestLog, LeftToRevert
  <2> QED BY <2>11, <2>12, <2>13, <2>14, <2>15 DEF TypeInv
<1>14. CASE Generate
  <2>1. at - 1 \in oldest..Len(logs) /\ at - 1 \in 1..Len(logs)
    BY <1>14 DEF Generate, Located, OldestLog, LeftToRevert, CountsType, LogsType
  <2>2. logs[at - 1] \in Seq(Entries)
    BY <2>1, ElementOfSeq DEF LogsType
  <2>3. <<>> \in Seq(Entries)
    OBVIOUS
  <2>4. flashback' \in Seq(Entries)
    <3>1. flashback' \in {Flashback(logs[at - 1]), <<>>}
      BY <1>14 DEF Generate, Outcomes
    <3> QED BY <2>2, <2>3, <3>1, FlashbackType
  <2>11. WorldType' /\ LogsType' /\ FileType'
    BY <1>14, <2>4 DEF Generate, server, WorldType, LogsType, FileType
  <2>12. FlagsType' /\ SetsType'
    BY <1>14 DEF Generate, server, FlagsType, SetsType
  <2>13. CountsType'
    BY <1>14, <2>1 DEF Generate, server, CountsType
  <2>14. PlaceType'
    BY <1>14 DEF Generate, server, PlaceType, Places, Prelude, Failures
  <2>15. Located'
    BY <1>14, <2>1 DEF Generate, server, Located, AtLog, OldestLog, LeftToRevert
  <2> QED BY <2>11, <2>12, <2>13, <2>14, <2>15 DEF TypeInv
<1>15. CASE Apply
  <2> DEFINE e == Head(flashback)
             gtid == Local + minted + 1
  <2>1. e \in Entries /\ Tail(flashback) \in Seq(Entries)
    BY <1>15, HeadTailProperties DEF Apply, FileType
  <2>2. e.tx \in 1..Local /\ e.undo \in BOOLEAN /\ gtid \in Int
    BY <2>1, RewindAssumption DEF Entries, CountsType
  <2>3. Entry(gtid, e.tx, e.undo) \in Entries
    BY <2>2 DEF Entry, Entries
  <2>4. LogsType' /\ Len(logs') = Len(logs)
    BY <1>15, <2>3, OneMoreEntry DEF Apply
  <2>5. data' \subseteq 1..Local /\ executed' \subseteq Int
    BY <1>15, <2>2 DEF Apply, WorldType
  <2>6. corrupted' \in BOOLEAN
    BY <1>15 DEF Apply, FlagsType
  <2>11. WorldType' /\ LogsType' /\ FileType'
    BY <1>15, <2>5, <2>4, <2>1 DEF Apply, WorldType, LogsType, FileType
  <2>12. FlagsType' /\ SetsType'
    BY <1>15, <2>6 DEF Apply, FlagsType, SetsType
  <2>13. CountsType'
    BY <1>15 DEF Apply, CountsType
  <2>14. PlaceType'
    BY <1>15 DEF Apply, PlaceType, Places, Prelude, Failures
  <2>15. Located'
    BY <1>15, <2>4 DEF Apply, Located, AtLog, OldestLog, LeftToRevert
  <2> QED BY <2>11, <2>12, <2>13, <2>14, <2>15 DEF TypeInv
<1>16. CASE NotResetting
  <2>11. WorldType' /\ LogsType' /\ FileType'
    BY <1>16 DEF NotResetting, Reverted, server, script, WorldType, LogsType, FileType
  <2>12. FlagsType' /\ SetsType'
    BY <1>16 DEF NotResetting, Reverted, server, script, FlagsType, SetsType
  <2>13. CountsType'
    BY <1>16 DEF NotResetting, Reverted, server, script, CountsType
  <2>14. PlaceType'
    BY <1>16 DEF NotResetting, Reverted, server, script, PlaceType, Places, Prelude, Failures
  <2>15. Located'
    BY <1>16 DEF NotResetting, Reverted, server, script, Located, AtLog, OldestLog, LeftToRevert
  <2> QED BY <2>11, <2>12, <2>13, <2>14, <2>15 DEF TypeInv
<1>17. CASE ResetMaster
  <2>1. <<<<>>>> \in Seq(Seq(Entries)) /\ Len(<<<<>>>>) = 1
    OBVIOUS
  <2>11. WorldType' /\ LogsType' /\ FileType'
    <3>1. CASE executed' = {} /\ logs' = <<<<>>>> /\ lost' = {}
      BY <1>17, <2>1, <3>1 DEF ResetMaster, Reverted, script, WorldType, LogsType, FileType
    <3>2. CASE UNCHANGED <<executed, logs, lost>>
      BY <1>17, <3>2 DEF ResetMaster, Reverted, script, WorldType, LogsType, FileType
    <3> QED BY <1>17, <3>1, <3>2 DEF ResetMaster
  <2>12. FlagsType' /\ SetsType'
    BY <1>17 DEF ResetMaster, Reverted, script, FlagsType, SetsType
  <2>13. CountsType'
    BY <1>17 DEF ResetMaster, Reverted, script, CountsType
  <2>14. PlaceType'
    BY <1>17 DEF ResetMaster, Reverted, script, PlaceType, Places, Prelude, Failures
  <2>15. Located'
    BY <1>17 DEF ResetMaster, Reverted, script, Located, AtLog, OldestLog, LeftToRevert
  <2> QED BY <2>11, <2>12, <2>13, <2>14, <2>15 DEF TypeInv
<1>18. CASE SetPurged
  <2>11. WorldType' /\ LogsType' /\ FileType'
    BY <1>18 DEF SetPurged, script, WorldType, LogsType, FileType, SetsType
  <2>12. FlagsType' /\ SetsType'
    BY <1>18 DEF SetPurged, script, FlagsType, SetsType
  <2>13. CountsType'
    BY <1>18 DEF SetPurged, script, CountsType
  <2>14. PlaceType'
    BY <1>18 DEF SetPurged, script, PlaceType, Places, Prelude, Failures
  <2>15. Located'
    BY <1>18 DEF SetPurged, script, Located, AtLog, OldestLog, LeftToRevert
  <2> QED BY <2>11, <2>12, <2>13, <2>14, <2>15 DEF TypeInv
<1>19. CASE ChangeMaster
  <2>11. WorldType' /\ LogsType' /\ FileType'
    BY <1>19 DEF ChangeMaster, server, script, WorldType, LogsType, FileType
  <2>12. FlagsType' /\ SetsType'
    BY <1>19 DEF ChangeMaster, server, script, FlagsType, SetsType
  <2>13. CountsType'
    BY <1>19 DEF ChangeMaster, server, script, CountsType
  <2>14. PlaceType'
    BY <1>19 DEF ChangeMaster, server, script, PlaceType, Places, Prelude, Failures
  <2>15. Located'
    BY <1>19 DEF ChangeMaster, server, script, Located, AtLog, OldestLog, LeftToRevert
  <2> QED BY <2>11, <2>12, <2>13, <2>14, <2>15 DEF TypeInv
<1>20. CASE StartReplica
  <2>11. WorldType' /\ LogsType' /\ FileType'
    BY <1>20 DEF StartReplica, script, WorldType, LogsType, FileType
  <2>12. FlagsType' /\ SetsType'
    BY <1>20 DEF StartReplica, Outcomes, script, FlagsType, SetsType
  <2>13. CountsType'
    BY <1>20 DEF StartReplica, script, CountsType
  <2>14. PlaceType'
    BY <1>20 DEF StartReplica, script, PlaceType, Places, Prelude, Failures
  <2>15. Located'
    BY <1>20 DEF StartReplica, script, Located, AtLog, OldestLog, LeftToRevert
  <2> QED BY <2>11, <2>12, <2>13, <2>14, <2>15 DEF TypeInv
<1>21. CASE UNCHANGED vars
  <2>11. WorldType' /\ LogsType' /\ FileType'
    BY <1>21 DEF vars, server, script, WorldType, LogsType, FileType
  <2>12. FlagsType' /\ SetsType'
    BY <1>21 DEF vars, server, script, FlagsType, SetsType
  <2>13. CountsType'
    BY <1>21 DEF vars, server, script, CountsType
  <2>14. PlaceType'
    BY <1>21 DEF vars, server, script, PlaceType, Places, Prelude, Failures
  <2>15. Located'
    BY <1>21 DEF vars, server, script, Located, AtLog, OldestLog, LeftToRevert
  <2> QED BY <2>11, <2>12, <2>13, <2>14, <2>15 DEF TypeInv
<1> QED
  BY <1>1, <1>2, <1>3, <1>4, <1>5, <1>6, <1>7, <1>8, <1>9, <1>10, <1>11, <1>12, <1>13,
     <1>14, <1>15, <1>16, <1>17, <1>18, <1>19, <1>20, <1>21 DEF Next

(* Whatever fails and wherever it dies, gh-mysql-rewind keeps its variables *)
(* in their types, and is at a binary log that exists.                     *)
THEOREM RewindTypes == Spec => []TypeOK
<1>1. Init => TypeInv
  BY TypeInit
<1>2. TypeInv /\ [Next]_vars => TypeInv'
  BY TypeStep
<1>3. TypeInv => TypeOK
  BY TypeParts
<1> QED  BY <1>1, <1>2, <1>3, PTL DEF Spec

-----------------------------------------------------------------------------
(* No more is reverted than must be.  The loop never passes a header that  *)
(* has nothing errant: it starts at one that has all of it, and stops at   *)
(* the first that has none, so what is errant in the header after that is  *)
(* in the log between the two.  A header, and a log, only ever gains       *)
(* transactions while the script is at it.                                 *)

ScansReliably == Failing \cap {"previous", "subtract"} = {}

HasErrant == pc \in {"compared", "flushed", "scanning"} => errant # {}
HeaderHasErrant == pc = "scanning" => errant \cap PreviousGtids(at) # {}
FarInv == HasErrant /\ HeaderHasErrant /\ OnlyAsFarAsNeeded

LEMMA FarStep == ScansReliably /\ TypeInv /\ FarInv /\ [Next]_vars => FarInv'
<1> SUFFICES ASSUME ScansReliably, TypeInv, FarInv, [Next]_vars PROVE FarInv'
  OBVIOUS
<1>0. WorldType /\ LogsType /\ CountsType /\ FileType /\ Located
  BY DEF TypeInv
<1>f. "previous" \notin Failing /\ "subtract" \notin Failing
  BY DEF ScansReliably
<1>1. CASE LocalWrites
  <2>1. PICK e \in Entries : logs' = [logs EXCEPT ![Len(logs)] = Append(@, e)]
    <3>1. Len(under) + 1 \in 1..Local
      BY <1>0, <1>1, RewindAssumption DEF LocalWrites, WorldType
    <3>2. Entry(Len(under) + 1, Len(under) + 1, FALSE) \in Entries
      BY <3>1 DEF Entry, Entries
    <3> QED BY <1>1, <3>2 DEF LocalWrites
  <2>2. /\ Len(logs') = Len(logs) /\ \A i \in 1..Len(logs) : Gtids(logs[i]) \subseteq Gtids(logs'[i])
    BY <1>0, <2>1, OneMoreEntry
  <2>3. lost' = lost /\ pc' = pc /\ errant' = errant /\ oldest' = oldest /\ at' = at
    BY <1>1 DEF LocalWrites, script
  <2>4. HasErrant' /\ HeaderHasErrant'
    <3>1. CASE pc = "scanning"
      <4>1. at \in 1..Len(logs) /\ errant \cap PreviousGtids(at) # {}
        BY <3>1, <1>0 DEF FarInv, HeaderHasErrant, Located, AtLog
      <4>2. at \in Nat
        BY <1>0 DEF CountsType
      <4>3. \A j \in 1..(at - 1) : Gtids(logs[j]) \subseteq Gtids(logs'[j])
        <5>1. Len(logs) \in Nat
          BY <1>0 DEF LogsType
        <5>2. 1..(at - 1) \subseteq 1..Len(logs)
          BY <4>1, <4>2, <5>1
        <5> QED BY <2>2, <5>2
      <4>4. PreviousGtids(at) \subseteq PreviousGtids(at)'
        BY <2>3, <4>3 DEF PreviousGtids
      <4> QED BY <2>3, <3>1, <4>1, <4>4 DEF FarInv, HasErrant, HeaderHasErrant
    <3>2. CASE pc # "scanning"
      BY <2>3, <3>2 DEF FarInv, HasErrant, HeaderHasErrant
    <3> QED BY <3>1, <3>2
  <2>5. OnlyAsFarAsNeeded'
    <3>1. CASE pc \in {"found", "projected", "reverting"}
      <4>1. oldest \in 1..Len(logs) /\ errant \cap Gtids(logs[oldest]) # {}
        BY <3>1, <1>0 DEF FarInv, OnlyAsFarAsNeeded, Located, OldestLog
      <4> QED BY <2>2, <2>3, <4>1 DEF OnlyAsFarAsNeeded
    <3>2. CASE pc \notin {"found", "projected", "reverting"}
      BY <2>3, <3>2 DEF OnlyAsFarAsNeeded
    <3> QED BY <3>1, <3>2
  <2> QED BY <2>4, <2>5 DEF FarInv
<1>2. CASE Prepared
  BY <1>2 DEF Prepared, script, FarInv, HasErrant, HeaderHasErrant, OnlyAsFarAsNeeded,
      PreviousGtids
<1>3. CASE MasterCommits
  BY <1>3 DEF MasterCommits, server, script, FarInv, HasErrant, HeaderHasErrant,
      OnlyAsFarAsNeeded, PreviousGtids
<1>4. CASE Killed
  BY <1>4 DEF Killed, server, script, FarInv, HasErrant, HeaderHasErrant, OnlyAsFarAsNeeded,
      PreviousGtids
<1>5. CASE Check
  BY <1>5 DEF Check, server, Fit, ClearScript, FarInv, HasErrant, HeaderHasErrant,
      OnlyAsFarAsNeeded, PreviousGtids
<1>6. CASE StopReplica
  BY <1>6 DEF StopReplica, script, FarInv, HasErrant, HeaderHasErrant, OnlyAsFarAsNeeded,
      PreviousGtids
<1>7. CASE MeasureLocal
  BY <1>7 DEF MeasureLocal, server, FarInv, HasErrant, HeaderHasErrant, OnlyAsFarAsNeeded,
      PreviousGtids
<1>8. CASE CompareWithMaster
  <2>1. pc' \in {"no errant", "no shared", "compared"} /\ (pc' = "compared" => errant' # {})
    BY <1>8 DEF CompareWithMaster
  <2> QED BY <1>8, <2>1 DEF CompareWithMaster, server, FarInv, HasErrant, HeaderHasErrant,
      OnlyAsFarAsNeeded, PreviousGtids
<1>9. CASE FlushLogs
  BY <1>9 DEF FlushLogs, script, FarInv, HasErrant, HeaderHasErrant, OnlyAsFarAsNeeded,
      PreviousGtids
<1>10. CASE ScanNewest
  <2>1. previous' = PreviousGtids(Len(logs))
    BY <1>10, <1>f DEF ScanNewest, Answers, Outcomes
  <2>2. PICK subtract \in Answers("subtract", errant \ previous') :
           pc' = IF subtract = {} THEN "scanning" ELSE "not current"
    BY <1>10 DEF ScanNewest
  <2>3. subtract = errant \ previous'
    BY <1>f, <2>2 DEF Answers, Outcomes
  <2>4. errant # {} /\ errant' = errant /\ logs' = logs /\ lost' = lost /\ at' = Len(logs)
    BY <1>10 DEF ScanNewest, FarInv, HasErrant, server
  <2>5. pc' = "scanning" => errant' \cap PreviousGtids(Len(logs)) # {}
    BY <2>1, <2>2, <2>3, <2>4
  <2>6. PreviousGtids(at)' = PreviousGtids(Len(logs))
    BY <2>4 DEF PreviousGtids
  <2>7. pc' \in {"scanning", "not current"}
    BY <2>2
  <2> QED BY <2>4, <2>5, <2>6, <2>7 DEF FarInv, HasErrant, HeaderHasErrant, OnlyAsFarAsNeeded
<1>11. CASE Scan
  <2>1. PICK subtract \in Answers("subtract", errant \ PreviousGtids(at - 1)) :
           pc' = IF ReachesBack(at - 1, subtract) THEN "found" ELSE "scanning"
    BY <1>11, <1>f DEF Scan, Answers, Outcomes
  <2>2. pc' = IF errant \ PreviousGtids(at - 1) = errant THEN "found" ELSE "scanning"
    BY <1>f, <2>1 DEF Answers, Outcomes, ReachesBack
  <2>3. /\ pc = "scanning" /\ at > 1 /\ at' = at - 1 /\ oldest' = at - 1
        /\ errant' = errant /\ logs' = logs /\ lost' = lost
    BY <1>11 DEF Scan, server
  <2>4. errant # {} /\ errant \cap PreviousGtids(at) # {}
    BY <2>3 DEF FarInv, HasErrant, HeaderHasErrant
  <2>5. PreviousGtids(at) = PreviousGtids(at - 1) \cup Gtids(logs[at - 1])
    <3>1. at \in Nat
      BY <1>0 DEF CountsType
    <3>2. 1..(at - 1) = (1..(at - 1 - 1)) \cup {at - 1}
      BY <2>3, <3>1
    <3> QED BY <3>2 DEF PreviousGtids
  <2>6. PreviousGtids(at)' = PreviousGtids(at - 1)
    BY <2>3 DEF PreviousGtids
  <2>7. CASE errant \cap PreviousGtids(at - 1) = {}
    <3>1. errant \ PreviousGtids(at - 1) = errant /\ errant \cap Gtids(logs[at - 1]) # {}
      BY <2>4, <2>5, <2>7
    <3>2. pc' = "found"
      BY <2>2, <3>1
    <3> QED BY <2>3, <2>4, <3>1, <3>2 DEF FarInv, HasErrant, HeaderHasErrant, OnlyAsFarAsNeeded
  <2>8. CASE errant \cap PreviousGtids(at - 1) # {}
    <3>1. errant \ PreviousGtids(at - 1) # errant
      BY <2>8
    <3>2. pc' = "scanning"
      BY <2>2, <3>1
    <3> QED BY <2>3, <2>4, <2>6, <2>8, <3>2 DEF FarInv, HasErrant, HeaderHasErrant,
        OnlyAsFarAsNeeded
  <2> QED BY <2>7, <2>8
<1>12. CASE ScanEnds
  BY <1>12 DEF ScanEnds, server, script, FarInv, HasErrant, HeaderHasErrant, OnlyAsFarAsNeeded,
      PreviousGtids
<1>13. CASE Project
  BY <1>13 DEF Project, server, FarInv, HasErrant, HeaderHasErrant, OnlyAsFarAsNeeded,
      PreviousGtids
<1>14. CASE Generate
  BY <1>14 DEF Generate, server, FarInv, HasErrant, HeaderHasErrant, OnlyAsFarAsNeeded,
      PreviousGtids
<1>15. CASE Apply
  <2>1. PICK e \in Entries : logs' = [logs EXCEPT ![Len(logs)] = Append(@, e)]
    <3>1. Head(flashback) \in Entries
      BY <1>0, <1>15, HeadTailProperties DEF Apply, FileType
    <3>2. Head(flashback).tx \in 1..Local /\ Head(flashback).undo \in BOOLEAN
      BY <3>1 DEF Entries
    <3>3. Local + minted + 1 \in Int
      BY <1>0, RewindAssumption DEF CountsType
    <3>4. Entry(Local + minted + 1, Head(flashback).tx, Head(flashback).undo) \in Entries
      BY <3>2, <3>3 DEF Entry, Entries
    <3> QED BY <1>15, <3>4 DEF Apply
  <2>2. /\ Len(logs') = Len(logs) /\ \A i \in 1..Len(logs) : Gtids(logs[i]) \subseteq Gtids(logs'[i])
    BY <1>0, <2>1, OneMoreEntry
  <2>3. lost' = lost /\ pc' = pc /\ errant' = errant /\ oldest' = oldest /\ at' = at
    BY <1>15 DEF Apply
  <2>4. HasErrant' /\ HeaderHasErrant'
    <3>1. CASE pc = "scanning"
      <4>1. at \in 1..Len(logs) /\ errant \cap PreviousGtids(at) # {}
        BY <3>1, <1>0 DEF FarInv, HeaderHasErrant, Located, AtLog
      <4>2. at \in Nat
        BY <1>0 DEF CountsType
      <4>3. \A j \in 1..(at - 1) : Gtids(logs[j]) \subseteq Gtids(logs'[j])
        <5>1. Len(logs) \in Nat
          BY <1>0 DEF LogsType
        <5>2. 1..(at - 1) \subseteq 1..Len(logs)
          BY <4>1, <4>2, <5>1
        <5> QED BY <2>2, <5>2
      <4>4. PreviousGtids(at) \subseteq PreviousGtids(at)'
        BY <2>3, <4>3 DEF PreviousGtids
      <4> QED BY <2>3, <3>1, <4>1, <4>4 DEF FarInv, HasErrant, HeaderHasErrant
    <3>2. CASE pc # "scanning"
      BY <2>3, <3>2 DEF FarInv, HasErrant, HeaderHasErrant
    <3> QED BY <3>1, <3>2
  <2>5. OnlyAsFarAsNeeded'
    <3>1. CASE pc \in {"found", "projected", "reverting"}
      <4>1. oldest \in 1..Len(logs) /\ errant \cap Gtids(logs[oldest]) # {}
        BY <3>1, <1>0 DEF FarInv, OnlyAsFarAsNeeded, Located, OldestLog
      <4> QED BY <2>2, <2>3, <4>1 DEF OnlyAsFarAsNeeded
    <3>2. CASE pc \notin {"found", "projected", "reverting"}
      BY <2>3, <3>2 DEF OnlyAsFarAsNeeded
    <3> QED BY <3>1, <3>2
  <2> QED BY <2>4, <2>5 DEF FarInv
<1>16. CASE NotResetting
  BY <1>16 DEF NotResetting, server, script, Reverted, FarInv, HasErrant, HeaderHasErrant,
      OnlyAsFarAsNeeded, PreviousGtids
<1>17. CASE ResetMaster
  BY <1>17 DEF ResetMaster, script, Reverted, FarInv, HasErrant, HeaderHasErrant,
      OnlyAsFarAsNeeded, PreviousGtids
<1>18. CASE SetPurged
  BY <1>18 DEF SetPurged, script, FarInv, HasErrant, HeaderHasErrant, OnlyAsFarAsNeeded,
      PreviousGtids
<1>19. CASE ChangeMaster
  BY <1>19 DEF ChangeMaster, server, script, FarInv, HasErrant, HeaderHasErrant,
      OnlyAsFarAsNeeded, PreviousGtids
<1>20. CASE StartReplica
  BY <1>20 DEF StartReplica, script, FarInv, HasErrant, HeaderHasErrant, OnlyAsFarAsNeeded,
      PreviousGtids
<1>21. CASE UNCHANGED vars
  BY <1>21 DEF vars, server, script, FarInv, HasErrant, HeaderHasErrant, OnlyAsFarAsNeeded,
      PreviousGtids
<1> QED
  BY <1>1, <1>2, <1>3, <1>4, <1>5, <1>6, <1>7, <1>8, <1>9, <1>10, <1>11, <1>12, <1>13,
     <1>14, <1>15, <1>16, <1>17, <1>18, <1>19, <1>20, <1>21 DEF Next

(* The oldest of the binary logs gh-mysql-rewind reverts has an errant     *)
(* transaction, unless mysqlbinlog failed to show a header or a            *)
(* subtraction failed.                                                     *)
THEOREM RevertsNoMore == ScansReliably => (Spec => []OnlyAsFarAsNeeded)
<1> SUFFICES ASSUME ScansReliably
             PROVE  Spec => []OnlyAsFarAsNeeded
  OBVIOUS
<1>1. Init => TypeInv /\ FarInv
  BY TypeInit DEF Init, FarInv, HasErrant, HeaderHasErrant, OnlyAsFarAsNeeded
<1>2. TypeInv /\ FarInv /\ [Next]_vars => TypeInv' /\ FarInv'
  BY TypeStep, FarStep
<1>3. FarInv => OnlyAsFarAsNeeded
  BY DEF FarInv
<1> QED  BY <1>1, <1>2, <1>3, PTL DEF Spec

-----------------------------------------------------------------------------
(* The flashbacks undo the logs in place, and end where gtid_purged says.  *)
(* The argument: between any two neighbouring entries of the logs there is *)
(* a state of the tables, st[<<f, k>>] after k entries of log f, that the  *)
(* one led to and the other was applied to; the last is what is in the     *)
(* tables.  Flashbacks walk back from one such state to the one before,    *)
(* and what they log takes the chain further: it is there again for a      *)
(* rerun.  A state with nothing the script made up before it has exactly   *)
(* the transactions whose GTIDs have been logged up to it.                 *)

States == [Nat \X Nat -> SUBSET (1..Local)]

(* Entry e leads from the tables S to T, as it did when it was committed.  *)
Leads(u, S, e, T) ==
    /\ e.tx \in DOMAIN u
    /\ IF e.undo THEN e.tx \in S /\ T = S \ {e.tx} /\ u[e.tx] = T
                 ELSE e.tx \notin S /\ T = S \cup {e.tx} /\ u[e.tx] = S

Chained(ls, u, st) ==
    \A f \in 1..Len(ls) : \A k \in 1..Len(ls[f]) :
        Leads(u, st[<<f, k - 1>>], ls[f][k], st[<<f, k>>])
Joined(ls, st) ==
    \A f \in 1..Len(ls) : f + 1 <= Len(ls) => st[<<f, Len(ls[f])>>] = st[<<f + 1, 0>>]
LastOf(ls, st) == st[<<Len(ls), Len(ls[Len(ls)])>>]
History(ls, u, d, st) ==
    st \in States /\ Chained(ls, u, st) /\ Joined(ls, st) /\ LastOf(ls, st) = d

(* What has been logged before log f, and up to entry k of it.             *)
Header(ls, lo, f) == lo \cup UNION {Gtids(ls[j]) : j \in 1..(f - 1)}
Upto(ls, lo, f, k) == Header(ls, lo, f) \cup {ls[f][i].gtid : i \in 1..k}
AllOf(ls, lo) == Upto(ls, lo, Len(ls), Len(ls[Len(ls)]))
Original(S) == \A g \in S : g <= Local
Matched(ls, lo, st) ==
    \A f \in 1..Len(ls) : \A k \in 0..Len(ls[f]) :
        Original(Upto(ls, lo, f, k)) => st[<<f, k>>] = Upto(ls, lo, f, k)

LEMMA LeadsBack ==
    ASSUME NEW u, NEW S, NEW T, NEW e, NEW inverse, Leads(u, S, e, T),
           e.undo \in BOOLEAN, inverse.tx = e.tx, inverse.undo = ~e.undo
    PROVE  /\ Leads(u, T, inverse, S)
           /\ u[e.tx] = T \ {e.tx}
           /\ inverse.undo = (e.tx \in T)
           /\ S = IF inverse.undo THEN T \ {e.tx} ELSE T \cup {e.tx}
<1>1. CASE e.undo = TRUE
  <2>1. e.tx \in S /\ T = S \ {e.tx} /\ u[e.tx] = T /\ e.tx \in DOMAIN u /\ inverse.undo = FALSE
    BY <1>1 DEF Leads
  <2>2. e.tx \notin T /\ S = T \cup {e.tx} /\ T = T \ {e.tx}
    BY <2>1
  <2> QED BY <2>1, <2>2 DEF Leads
<1>2. CASE e.undo = FALSE
  <2>1. e.tx \notin S /\ T = S \cup {e.tx} /\ u[e.tx] = S /\ e.tx \in DOMAIN u /\ inverse.undo = TRUE
    BY <1>2 DEF Leads
  <2>2. e.tx \in T /\ S = T \ {e.tx}
    BY <2>1
  <2> QED BY <2>1, <2>2 DEF Leads
<1>3. e.undo \in {TRUE, FALSE}
  OBVIOUS
<1> QED
  BY <1>1, <1>2, <1>3

(* One more entry in the newest log.                                       *)
LEMMA OneMore ==
    ASSUME NEW ls \in Seq(Seq(Entries)), Len(ls) > 0, NEW e \in Entries
    PROVE  LET n == Len(ls)
               more == [ls EXCEPT ![n] = Append(@, e)]
           IN  /\ more \in Seq(Seq(Entries)) /\ Len(more) = n
               /\ \A f \in 1..n : f # n => more[f] = ls[f]
               /\ Len(more[n]) = Len(ls[n]) + 1 /\ more[n][Len(ls[n]) + 1] = e
               /\ \A k \in 1..Len(ls[n]) : more[n][k] = ls[n][k]
<1> DEFINE n == Len(ls)
           last == ls[n]
           longer == Append(last, e)
           more == [ls EXCEPT ![n] = longer]
<1>1. n \in Nat /\ n \in 1..n /\ last \in Seq(Entries)
  BY ElementOfSeq
<1> HIDE DEF last
<1>2. /\ longer \in Seq(Entries) /\ Len(longer) = Len(last) + 1
      /\ longer[Len(last) + 1] = e /\ \A k \in 1..Len(last) : longer[k] = last[k]
  BY <1>1, AppendProperties
<1> HIDE DEF longer
<1>3. /\ more \in Seq(Seq(Entries)) /\ Len(more) = n
      /\ \A f \in 1..n : more[f] = IF f = n THEN longer ELSE ls[f]
  BY <1>1, <1>2, ExceptSeq
<1>4. [ls EXCEPT ![n] = Append(@, e)] = more
  BY DEF longer, last
<1>5. more[n] = longer /\ \A f \in 1..n : f # n => more[f] = ls[f]
  BY <1>1, <1>3
<1> HIDE DEF n, more
<1> QED
  BY <1>2, <1>3, <1>4, <1>5 DEF n, last

Longer(ls, e) == [ls EXCEPT ![Len(ls)] = Append(@, e)]
Farther(ls, st, T) == [st EXCEPT ![<<Len(ls), Len(ls[Len(ls)]) + 1>>] = T]
SameStates(ls, st, next) ==
    \A f \in 1..Len(ls) : \A k \in 0..Len(ls[f]) : next[<<f, k>>] = st[<<f, k>>]

LEMMA HistoryGrows ==
    ASSUME NEW ls \in Seq(Seq(Entries)), Len(ls) > 0, NEW u, NEW d, NEW st,
           History(ls, u, d, st), NEW e \in Entries, NEW T \in SUBSET (1..Local),
           Leads(u, d, e, T)
    PROVE  /\ History(Longer(ls, e), u, T, Farther(ls, st, T))
           /\ SameStates(ls, st, Farther(ls, st, T))
           /\ Farther(ls, st, T)[<<Len(ls), Len(ls[Len(ls)]) + 1>>] = T
<1> DEFINE n == Len(ls)
           m == Len(ls[n])
           more == [ls EXCEPT ![n] = Append(@, e)]
           next == [st EXCEPT ![<<n, m + 1>>] = T]
<1>1. n \in Nat /\ n > 0 /\ \A f \in 1..n : Len(ls[f]) \in Nat
  <2>1. \A f \in 1..n : ls[f] \in Seq(Entries)
    BY ElementOfSeq
  <2> QED BY <2>1
<1>2. /\ Len(more) = n /\ \A f \in 1..n : f # n => more[f] = ls[f]
      /\ Len(more[n]) = m + 1 /\ more[n][m + 1] = e
      /\ \A k \in 1..m : more[n][k] = ls[n][k]
  BY OneMore
<1>3. m \in Nat /\ st \in [Nat \X Nat -> SUBSET (1..Local)]
  BY <1>1 DEF History, States
<1>4. /\ next \in States /\ next[<<n, m + 1>>] = T
      /\ \A f \in Nat, k \in Nat : (f # n \/ k # m + 1) => next[<<f, k>>] = st[<<f, k>>]
  <2>1. \A f \in Nat, k \in Nat : <<f, k>> \in Nat \X Nat
    OBVIOUS
  <2>2. <<n, m + 1>> \in Nat \X Nat
    BY <1>1, <1>3
  <2>3. next \in States
    BY <1>3 DEF States
  <2>4. next[<<n, m + 1>>] = T
    BY <1>3, <2>2
  <2>5. ASSUME NEW f \in Nat, NEW k \in Nat, f # n \/ k # m + 1
        PROVE  next[<<f, k>>] = st[<<f, k>>]
    <3>1. <<f, k>> # <<n, m + 1>>
      BY <2>5
    <3> QED BY <1>3, <2>1, <3>1
  <2> QED BY <2>3, <2>4, <2>5
<1> HIDE DEF more, next, m, n
<1>5. \A f \in 1..n : \A k \in 0..Len(ls[f]) : next[<<f, k>>] = st[<<f, k>>]
  <2>1. SUFFICES ASSUME NEW f \in 1..n, NEW k \in 0..Len(ls[f])
                 PROVE  f \in Nat /\ k \in Nat /\ (f # n \/ k # m + 1)
    BY <1>4
  <2> QED BY <1>1, <1>3, <2>1 DEF m
<1>6. st[<<n, m>>] = d
  BY DEF History, LastOf, n, m
<1>7. Chained(more, u, next)
  <2> SUFFICES ASSUME NEW f \in 1..n, NEW k \in 1..Len(more[f])
               PROVE  Leads(u, next[<<f, k - 1>>], more[f][k], next[<<f, k>>])
    BY <1>2 DEF Chained
  <2>1. CASE f # n
    <3>1. more[f] = ls[f] /\ k \in 1..Len(ls[f]) /\ Len(ls[f]) \in Nat
      BY <1>1, <1>2, <2>1
    <3>2. k \in 0..Len(ls[f]) /\ k - 1 \in 0..Len(ls[f])
      BY <3>1
    <3>3. Leads(u, st[<<f, k - 1>>], ls[f][k], st[<<f, k>>])
      BY <3>1 DEF History, Chained, n
    <3> QED BY <1>5, <3>1, <3>2, <3>3
  <2>2. CASE f = n /\ k # m + 1
    <3>1. k \in 1..m /\ more[f][k] = ls[n][k]
      BY <1>2, <1>3, <2>2
    <3>2. k \in 0..Len(ls[n]) /\ k - 1 \in 0..Len(ls[n]) /\ k \in 1..Len(ls[n])
      BY <1>3, <3>1 DEF m
    <3>3. Leads(u, st[<<n, k - 1>>], ls[n][k], st[<<n, k>>])
      BY <2>2, <3>2 DEF History, Chained, n
    <3>4. next[<<n, k>>] = st[<<n, k>>] /\ next[<<n, k - 1>>] = st[<<n, k - 1>>]
      BY <1>5, <2>2, <3>2
    <3> QED BY <2>2, <3>1, <3>3, <3>4
  <2>3. CASE f = n /\ k = m + 1
    <3>1. next[<<n, k - 1>>] = d
      <4>1. k - 1 = m /\ n \in 1..n /\ m \in 0..Len(ls[n])
        BY <1>1, <1>3, <2>3 DEF m
      <4> QED BY <1>5, <1>6, <4>1
    <3> QED BY <1>2, <1>4, <2>3, <3>1
  <2> QED BY <2>1, <2>2, <2>3
<1>8. Joined(more, next)
  <2> SUFFICES ASSUME NEW f \in 1..n, f + 1 <= n
               PROVE  next[<<f, Len(more[f])>>] = next[<<f + 1, 0>>]
    BY <1>2 DEF Joined
  <2>1. f # n /\ f + 1 \in 1..n
    BY <1>1
  <2>2. more[f] = ls[f] /\ Len(ls[f]) \in 0..Len(ls[f]) /\ 0 \in 0..Len(ls[f + 1])
    BY <1>1, <1>2, <2>1
  <2>3. st[<<f, Len(ls[f])>>] = st[<<f + 1, 0>>]
    BY DEF History, Joined, n
  <2>4. next[<<f, Len(ls[f])>>] = st[<<f, Len(ls[f])>>] /\ next[<<f + 1, 0>>] = st[<<f + 1, 0>>]
    BY <1>5, <2>1, <2>2
  <2> QED BY <2>2, <2>3, <2>4
<1>9. LastOf(more, next) = T
  BY <1>2, <1>4 DEF LastOf
<1>10. History(more, u, T, next)
  BY <1>4, <1>7, <1>8, <1>9 DEF History
<1> QED
  BY <1>4, <1>5, <1>10 DEF n, m, more, next, Longer, Farther, SameStates

(* One more transaction committed on the server.                           *)
LEMMA HistoryOlder ==
    ASSUME NEW ls, NEW X, NEW u \in Seq(X), NEW x \in X, NEW d, NEW st,
           History(ls, u, d, st)
    PROVE  History(ls, Append(u, x), d, st)
<1>1. /\ DOMAIN u \subseteq DOMAIN Append(u, x)
      /\ \A i \in DOMAIN u : Append(u, x)[i] = u[i]
  BY AppendProperties
<1>2. ASSUME NEW S, NEW e, NEW T, Leads(u, S, e, T) PROVE Leads(Append(u, x), S, e, T)
  BY <1>1, <1>2 DEF Leads
<1>3. Chained(ls, Append(u, x), st)
  BY <1>2 DEF History, Chained
<1> QED
  BY <1>3 DEF History

LEMMA LogsFlushed ==
    ASSUME NEW ls \in Seq(Seq(Entries)), Len(ls) > 0
    PROVE  LET n == Len(ls)
               more == Append(ls, <<>>)
           IN  /\ more \in Seq(Seq(Entries)) /\ Len(more) = n + 1
               /\ \A f \in 1..n : more[f] = ls[f]
               /\ more[n + 1] = <<>> /\ Len(more[n + 1]) = 0
<1>1. <<>> \in Seq(Entries) /\ Len(<<>>) = 0
  OBVIOUS
<1> QED
  BY <1>1, AppendProperties

Onward(ls, st, d) == [st EXCEPT ![<<Len(ls) + 1, 0>>] = d]

LEMMA HistoryFlushed ==
    ASSUME NEW ls \in Seq(Seq(Entries)), Len(ls) > 0, NEW u, NEW d, NEW st,
           History(ls, u, d, st), d \in SUBSET (1..Local)
    PROVE  /\ History(Append(ls, <<>>), u, d, Onward(ls, st, d))
           /\ SameStates(ls, st, Onward(ls, st, d))
           /\ Onward(ls, st, d)[<<Len(ls) + 1, 0>>] = d
<1> DEFINE n == Len(ls)
           more == Append(ls, <<>>)
           next == [st EXCEPT ![<<n + 1, 0>>] = d]
<1>1. n \in Nat /\ n > 0 /\ \A f \in 1..n : Len(ls[f]) \in Nat
  <2>1. \A f \in 1..n : ls[f] \in Seq(Entries)
    BY ElementOfSeq
  <2> QED BY <2>1
<1>2. /\ Len(more) = n + 1 /\ \A f \in 1..n : more[f] = ls[f]
      /\ Len(more[n + 1]) = 0
  BY LogsFlushed
<1>3. st \in [Nat \X Nat -> SUBSET (1..Local)]
  BY DEF History, States
<1>4. /\ next \in States /\ next[<<n + 1, 0>>] = d
      /\ \A f \in 1..n, k \in Nat : next[<<f, k>>] = st[<<f, k>>]
  <2>1. \A f \in Nat, k \in Nat : <<f, k>> \in Nat \X Nat
    OBVIOUS
  <2>2. <<n + 1, 0>> \in Nat \X Nat
    BY <1>1
  <2>3. next \in States
    BY <1>3 DEF States
  <2>4. next[<<n + 1, 0>>] = d
    BY <1>3, <2>2
  <2>5. ASSUME NEW f \in 1..n, NEW k \in Nat PROVE next[<<f, k>>] = st[<<f, k>>]
    <3>1. <<f, k>> # <<n + 1, 0>> /\ f \in Nat
      BY <1>1
    <3> QED BY <1>3, <2>1, <3>1
  <2> QED BY <2>3, <2>4, <2>5
<1> HIDE DEF more, next, n
<1>5. \A f \in 1..n : \A k \in 0..Len(ls[f]) : next[<<f, k>>] = st[<<f, k>>]
  <2> SUFFICES ASSUME NEW f \in 1..n, NEW k \in 0..Len(ls[f])
               PROVE  next[<<f, k>>] = st[<<f, k>>]
    OBVIOUS
  <2>1. k \in Nat
    BY <1>1
  <2> QED BY <1>4, <2>1
<1>6. st[<<n, Len(ls[n])>>] = d
  BY DEF History, LastOf, n
<1>7. Chained(more, u, next)
  <2> SUFFICES ASSUME NEW f \in 1..(n + 1), NEW k \in 1..Len(more[f])
               PROVE  Leads(u, next[<<f, k - 1>>], more[f][k], next[<<f, k>>])
    BY <1>2 DEF Chained
  <2>1. f # n + 1
    BY <1>2
  <2>2. f \in 1..n
    BY <1>1, <2>1
  <2>3. more[f] = ls[f] /\ k \in 1..Len(ls[f]) /\ Len(ls[f]) \in Nat
    BY <1>1, <1>2, <2>2
  <2>4. k \in 0..Len(ls[f]) /\ k - 1 \in 0..Len(ls[f])
    BY <2>3
  <2>5. Leads(u, st[<<f, k - 1>>], ls[f][k], st[<<f, k>>])
    BY <2>2, <2>3 DEF History, Chained, n
  <2> QED BY <1>5, <2>2, <2>3, <2>4, <2>5
<1>8. Joined(more, next)
  <2> SUFFICES ASSUME NEW f \in 1..(n + 1), f + 1 <= n + 1
               PROVE  next[<<f, Len(more[f])>>] = next[<<f + 1, 0>>]
    BY <1>2 DEF Joined
  <2>1. f \in 1..n /\ more[f] = ls[f] /\ Len(ls[f]) \in 0..Len(ls[f])
    BY <1>1, <1>2
  <2>2. next[<<f, Len(more[f])>>] = st[<<f, Len(ls[f])>>]
    BY <1>5, <2>1
  <2>3. CASE f = n
    BY <1>4, <1>6, <2>2, <2>3
  <2>4. CASE f # n
    <3>1. f + 1 \in 1..n /\ 0 \in 0..Len(ls[f + 1])
      BY <1>1, <2>1, <2>4
    <3>2. st[<<f, Len(ls[f])>>] = st[<<f + 1, 0>>]
      BY <1>1, <2>1, <3>1 DEF History, Joined, n
    <3> QED BY <1>5, <2>2, <3>1, <3>2
  <2> QED BY <2>3, <2>4
<1>9. LastOf(more, next) = d
  BY <1>2, <1>4 DEF LastOf
<1>10. History(more, u, d, next)
  BY <1>4, <1>7, <1>8, <1>9 DEF History
<1> QED
  BY <1>4, <1>5, <1>10 DEF n, more, next, Onward, SameStates

LEMMA HistoryReset ==
    ASSUME NEW u, NEW d \in SUBSET (1..Local)
    PROVE  History(<<<<>>>>, u, d, [p \in Nat \X Nat |-> d])
<1> DEFINE st == [p \in Nat \X Nat |-> d]
<1>1. Len(<<<<>>>>) = 1 /\ <<<<>>>>[1] = <<>> /\ Len(<<>>) = 0
  OBVIOUS
<1>2. st \in States /\ st[<<1, 0>>] = d
  BY DEF States
<1>3. Chained(<<<<>>>>, u, st)
  <2>1. \A f \in 1..1 : f = 1
    OBVIOUS
  <2> QED BY <1>1, <2>1 DEF Chained
<1>4. Joined(<<<<>>>>, st) /\ LastOf(<<<<>>>>, st) = d
  BY <1>1, <1>2 DEF Joined, LastOf
<1> QED
  BY <1>2, <1>3, <1>4 DEF History

LEMMA HeadersGrow ==
    ASSUME NEW ls, NEW lo, NEW f \in Int, NEW g \in Int, f <= g
    PROVE  Header(ls, lo, f) \subseteq Header(ls, lo, g)
<1>1. 1..(f - 1) \subseteq 1..(g - 1)
  OBVIOUS
<1> QED
  BY <1>1 DEF Header

(* Up to the end of a log is before the next.                              *)
LEMMA HeaderOfNext ==
    ASSUME NEW ls \in Seq(Seq(Entries)), NEW lo, NEW f \in 1..Len(ls)
    PROVE  Header(ls, lo, f + 1) = Upto(ls, lo, f, Len(ls[f]))
<1>1. Gtids(ls[f]) = {ls[f][i].gtid : i \in 1..Len(ls[f])}
  BY GtidsOf, ElementOfSeq
<1>2. 1..(f + 1 - 1) = (1..(f - 1)) \cup {f}
  OBVIOUS
<1> HIDE DEF Gtids
<1>3. Header(ls, lo, f + 1) = Header(ls, lo, f) \cup Gtids(ls[f])
  BY <1>2 DEF Header
<1> QED
  BY <1>1, <1>3 DEF Upto

LEMMA SameHeaders ==
    ASSUME NEW ls, NEW more, NEW lo, NEW f \in Int, \A j \in 1..(f - 1) : more[j] = ls[j]
    PROVE  Header(more, lo, f) = Header(ls, lo, f)
BY DEF Header

LEMMA UptoGrows ==
    ASSUME NEW ls \in Seq(Seq(Entries)), Len(ls) > 0, NEW e \in Entries, NEW lo
    PROVE  LET n == Len(ls)
               more == [ls EXCEPT ![n] = Append(@, e)]
           IN  /\ \A f \in 1..n : Header(more, lo, f) = Header(ls, lo, f)
               /\ \A f \in 1..n : \A k \in 0..Len(ls[f]) : Upto(more, lo, f, k) = Upto(ls, lo, f, k)
               /\ Upto(more, lo, n, Len(ls[n]) + 1) = AllOf(ls, lo) \cup {e.gtid}
               /\ AllOf(more, lo) = AllOf(ls, lo) \cup {e.gtid}
<1> DEFINE n == Len(ls)
           m == Len(ls[n])
           more == [ls EXCEPT ![n] = Append(@, e)]
<1>1. n \in Nat /\ n > 0 /\ \A f \in 1..n : Len(ls[f]) \in Nat
  <2>1. \A f \in 1..n : ls[f] \in Seq(Entries)
    BY ElementOfSeq
  <2> QED BY <2>1
<1>2. /\ Len(more) = n /\ \A f \in 1..n : f # n => more[f] = ls[f]
      /\ Len(more[n]) = m + 1 /\ more[n][m + 1] = e
      /\ \A k \in 1..m : more[n][k] = ls[n][k]
  BY OneMore
<1>3. m \in Nat
  BY <1>1
<1> HIDE DEF more, n, m
<1>4. ASSUME NEW f \in 1..n PROVE Header(more, lo, f) = Header(ls, lo, f)
  <2>1. \A j \in 1..(f - 1) : more[j] = ls[j]
    BY <1>1, <1>2
  <2> QED BY <2>1, SameHeaders
<1>5. ASSUME NEW f \in 1..n, NEW k \in 0..Len(ls[f])
      PROVE  Upto(more, lo, f, k) = Upto(ls, lo, f, k)
  <2>1. \A i \in 1..k : more[f][i] = ls[f][i]
    <3>1. CASE f # n
      BY <1>2, <3>1
    <3>2. CASE f = n
      <4>1. 1..k \subseteq 1..m
        BY <1>3, <3>2 DEF m
      <4> QED BY <1>2, <3>2, <4>1
    <3> QED BY <3>1, <3>2
  <2> QED BY <1>4, <2>1 DEF Upto
<1>6. Upto(more, lo, n, m + 1) = Upto(ls, lo, n, m) \cup {e.gtid}
  <2>1. 1..(m + 1) = (1..m) \cup {m + 1}
    BY <1>3
  <2>2. {more[n][i].gtid : i \in 1..(m + 1)} = {ls[n][i].gtid : i \in 1..m} \cup {e.gtid}
    <3>1. \A i \in 1..m : more[n][i].gtid = ls[n][i].gtid
      BY <1>2
    <3>2. more[n][m + 1].gtid = e.gtid
      BY <1>2
    <3> DEFINE newer(i) == more[n][i].gtid
               older(i) == ls[n][i].gtid
    <3>3. \A i \in 1..m : newer(i) = older(i)
      BY <3>1
    <3>4. newer(m + 1) = e.gtid
      BY <3>2
    <3> HIDE DEF newer, older
    <3>5. {newer(i) : i \in 1..(m + 1)} = {older(i) : i \in 1..m} \cup {e.gtid}
      BY <2>1, <3>3, <3>4
    <3> QED BY <3>5 DEF newer, older
  <2>3. Header(more, lo, n) = Header(ls, lo, n)
    BY <1>1, <1>4
  <2> QED BY <2>2, <2>3 DEF Upto
<1>7. AllOf(ls, lo) = Upto(ls, lo, n, m) /\ AllOf(more, lo) = Upto(more, lo, n, m + 1)
  BY <1>2 DEF AllOf, n, m
<1> QED
  BY <1>4, <1>5, <1>6, <1>7 DEF n, m, more

LEMMA UptoFlushed ==
    ASSUME NEW ls \in Seq(Seq(Entries)), Len(ls) > 0, NEW lo
    PROVE  LET n == Len(ls)
               more == Append(ls, <<>>)
           IN  /\ \A f \in 1..n : Header(more, lo, f) = Header(ls, lo, f)
               /\ \A f \in 1..n : \A k \in 0..Len(ls[f]) : Upto(more, lo, f, k) = Upto(ls, lo, f, k)
               /\ Header(more, lo, n + 1) = AllOf(ls, lo)
               /\ Upto(more, lo, n + 1, 0) = AllOf(ls, lo)
               /\ AllOf(more, lo) = AllOf(ls, lo)
<1> DEFINE n == Len(ls)
           more == Append(ls, <<>>)
<1>1. n \in Nat /\ n > 0 /\ \A f \in 1..n : Len(ls[f]) \in Nat
  <2>1. \A f \in 1..n : ls[f] \in Seq(Entries)
    BY ElementOfSeq
  <2> QED BY <2>1
<1>2. /\ Len(more) = n + 1 /\ \A f \in 1..n : more[f] = ls[f]
      /\ Len(more[n + 1]) = 0
  BY LogsFlushed
<1> HIDE DEF more, n
<1>3. ASSUME NEW f \in 1..(n + 1) PROVE Header(more, lo, f) = Header(ls, lo, f)
  <2>1. \A j \in 1..(f - 1) : more[j] = ls[j]
    BY <1>1, <1>2
  <2> QED BY <2>1, SameHeaders
<1>4. ASSUME NEW f \in 1..n, NEW k \in 0..Len(ls[f])
      PROVE  Upto(more, lo, f, k) = Upto(ls, lo, f, k)
  <2>1. f \in 1..(n + 1) /\ more[f] = ls[f]
    BY <1>1, <1>2
  <2> QED BY <1>3, <2>1 DEF Upto
<1>5. Header(more, lo, n + 1) = AllOf(ls, lo)
  <2>1. n \in 1..Len(ls) /\ n + 1 \in 1..(n + 1)
    BY <1>1 DEF n
  <2>2. Header(ls, lo, n + 1) = Upto(ls, lo, n, Len(ls[n]))
    BY <2>1, HeaderOfNext
  <2> QED BY <1>3, <2>1, <2>2 DEF AllOf, n
<1>6. Upto(more, lo, n + 1, 0) = Header(more, lo, n + 1)
  BY DEF Upto
<1>7. AllOf(more, lo) = Upto(more, lo, n + 1, 0)
  BY <1>2 DEF AllOf
<1>8. \A f \in 1..n : Header(more, lo, f) = Header(ls, lo, f)
  BY <1>1, <1>3
<1> QED
  BY <1>4, <1>5, <1>6, <1>7, <1>8 DEF n, more

LEMMA MatchedGrows ==
    ASSUME NEW ls \in Seq(Seq(Entries)), Len(ls) > 0, NEW e \in Entries, NEW lo,
           NEW st, NEW next, NEW T, Matched(ls, lo, st),
           \A f \in 1..Len(ls) : \A k \in 0..Len(ls[f]) : next[<<f, k>>] = st[<<f, k>>],
           next[<<Len(ls), Len(ls[Len(ls)]) + 1>>] = T,
           e.gtid > Local \/ T = LastOf(ls, st) \cup {e.gtid}
    PROVE  Matched([ls EXCEPT ![Len(ls)] = Append(@, e)], lo, next)
<1> DEFINE n == Len(ls)
           m == Len(ls[n])
           more == [ls EXCEPT ![n] = Append(@, e)]
<1>1. n \in Nat /\ n \in 1..n /\ m \in Nat /\ Local \in Nat /\ e.gtid \in Int
  <2>1. \A f \in 1..n : ls[f] \in Seq(Entries)
    BY ElementOfSeq
  <2> QED BY <2>1, RewindAssumption DEF Entries
<1>2. /\ Len(more) = n /\ \A f \in 1..n : f # n => more[f] = ls[f]
      /\ Len(more[n]) = m + 1
  BY OneMore
<1>3. /\ \A f \in 1..n : Header(more, lo, f) = Header(ls, lo, f)
      /\ \A f \in 1..n : \A k \in 0..Len(ls[f]) : Upto(more, lo, f, k) = Upto(ls, lo, f, k)
      /\ Upto(more, lo, n, m + 1) = AllOf(ls, lo) \cup {e.gtid}
      /\ AllOf(more, lo) = AllOf(ls, lo) \cup {e.gtid}
  BY UptoGrows
<1>n. next[<<n, m + 1>>] = T
  OBVIOUS
<1> HIDE DEF more, n, m
<1> SUFFICES ASSUME NEW f \in 1..n, NEW k \in 0..Len(more[f]), Original(Upto(more, lo, f, k))
             PROVE  next[<<f, k>>] = Upto(more, lo, f, k)
  BY <1>2 DEF Matched, more, n
<1>4. CASE k \in 0..Len(ls[f])
  <2>1. Upto(more, lo, f, k) = Upto(ls, lo, f, k) /\ next[<<f, k>>] = st[<<f, k>>]
    BY <1>3, <1>4 DEF n
  <2>2. Original(Upto(ls, lo, f, k))
    BY <2>1
  <2> QED BY <1>4, <2>1, <2>2 DEF Matched, n
<1>5. CASE k \notin 0..Len(ls[f])
  <2>1. f = n
    BY <1>2, <1>5
  <2>2. k = m + 1
    BY <1>1, <1>2, <1>5, <2>1 DEF m
  <2>3. Original(AllOf(ls, lo)) /\ e.gtid <= Local
    BY <1>3, <2>1, <2>2 DEF Original
  <2>4. T = LastOf(ls, st) \cup {e.gtid}
    BY <1>1, <2>3
  <2>5. st[<<n, m>>] = Upto(ls, lo, n, m)
    <3>1. n \in 1..Len(ls) /\ m \in 0..Len(ls[n]) /\ Original(Upto(ls, lo, n, m))
      BY <1>1, <2>3 DEF n, m, AllOf
    <3> QED BY <3>1 DEF Matched
  <2>6. LastOf(ls, st) = AllOf(ls, lo)
    BY <2>5 DEF LastOf, AllOf, n, m
  <2> QED BY <1>3, <1>n, <2>1, <2>2, <2>4, <2>6
<1> QED
  BY <1>4, <1>5

LEMMA MatchedFlushed ==
    ASSUME NEW ls \in Seq(Seq(Entries)), Len(ls) > 0, NEW lo,
           NEW st, NEW next, Matched(ls, lo, st),
           \A f \in 1..Len(ls) : \A k \in 0..Len(ls[f]) : next[<<f, k>>] = st[<<f, k>>],
           next[<<Len(ls) + 1, 0>>] = LastOf(ls, st)
    PROVE  Matched(Append(ls, <<>>), lo, next)
<1> DEFINE n == Len(ls)
           m == Len(ls[n])
           more == Append(ls, <<>>)
<1>1. n \in Nat /\ n \in 1..n /\ m \in Nat
  <2>1. \A f \in 1..n : ls[f] \in Seq(Entries)
    BY ElementOfSeq
  <2> QED BY <2>1
<1>2. /\ Len(more) = n + 1 /\ \A f \in 1..n : more[f] = ls[f]
      /\ Len(more[n + 1]) = 0
  BY LogsFlushed
<1>3. /\ \A f \in 1..n : \A k \in 0..Len(ls[f]) : Upto(more, lo, f, k) = Upto(ls, lo, f, k)
      /\ Upto(more, lo, n + 1, 0) = AllOf(ls, lo)
  BY UptoFlushed
<1>n. next[<<n + 1, 0>>] = LastOf(ls, st)
  OBVIOUS
<1> HIDE DEF more, n, m
<1> SUFFICES ASSUME NEW f \in 1..(n + 1), NEW k \in 0..Len(more[f]), Original(Upto(more, lo, f, k))
             PROVE  next[<<f, k>>] = Upto(more, lo, f, k)
  BY <1>2 DEF Matched, more, n
<1>4. CASE f \in 1..n
  <2>0. k \in 0..Len(ls[f])
    BY <1>2, <1>4
  <2>1. Upto(more, lo, f, k) = Upto(ls, lo, f, k) /\ next[<<f, k>>] = st[<<f, k>>]
    BY <1>3, <1>4, <2>0 DEF n
  <2>2. Original(Upto(ls, lo, f, k))
    BY <2>1
  <2> QED BY <1>4, <2>0, <2>1, <2>2 DEF Matched, n
<1>5. CASE f \notin 1..n
  <2>1. f = n + 1
    BY <1>1, <1>5
  <2>2. k = 0
    BY <1>2, <2>1
  <2>3. Original(AllOf(ls, lo))
    BY <1>3, <2>1, <2>2
  <2>4. st[<<n, m>>] = Upto(ls, lo, n, m)
    <3>1. n \in 1..Len(ls) /\ m \in 0..Len(ls[n]) /\ Original(Upto(ls, lo, n, m))
      BY <1>1, <2>3 DEF n, m, AllOf
    <3> QED BY <3>1 DEF Matched
  <2>5. LastOf(ls, st) = AllOf(ls, lo)
    BY <2>4 DEF LastOf, AllOf, n, m
  <2> QED BY <1>3, <1>n, <2>1, <2>2, <2>5
<1> QED
  BY <1>4, <1>5

LEMMA Least ==
    ASSUME NEW T \in SUBSET Nat, T # {}
    PROVE  \E x \in T : \A y \in T : x <= y
<1>1. PICK x \in T : \A y \in T : ~(<<y, x>> \in OpToRel(<, Nat))
  BY WFMin, NatLessThanWellFounded
<1>2. ASSUME NEW y \in T PROVE x <= y
  <2>1. x \in Nat /\ y \in Nat /\ <<y, x>> \in Nat \X Nat
    OBVIOUS
  <2>2. ~(y < x)
    BY <1>1, <2>1 DEF OpToRel
  <2> QED BY <2>1, <2>2
<1> QED
  BY <1>2

LEMMA Rising ==
    ASSUME NEW n \in Nat, NEW files \in Nat, NEW end \in [1..(files + 1) -> 0..n],
           \A f \in 1..files : end[f] <= end[f + 1],
           NEW f \in 1..(files + 1), NEW g \in 1..(files + 1), f <= g
    PROVE  end[f] <= end[g]
<1> SUFFICES ASSUME end[g] < end[f] PROVE FALSE
  <2>1. end[f] \in Int /\ end[g] \in Int
    OBVIOUS
  <2> QED BY <2>1
<1> DEFINE T == {h \in f..g : end[h] < end[f]}
<1>1. T \in SUBSET Nat /\ g \in T
  OBVIOUS
<1>2. PICK h \in T : \A i \in T : h <= i
  <2> HIDE DEF T
  <2> QED BY <1>1, Least
<1>3. h \in f..g /\ end[h] < end[f]
  OBVIOUS
<1>4. h # f
  <2>1. end[f] \in Int
    OBVIOUS
  <2> QED BY <1>3, <2>1
<1>5. h - 1 \in f..g /\ h - 1 \in 1..files
  BY <1>3, <1>4
<1>6. h - 1 \notin T
  BY <1>2, <1>3
<1>7. end[h - 1] >= end[f]
  <2>1. end[f] \in Int /\ end[h - 1] \in Int
    BY <1>5
  <2> QED BY <1>5, <1>6, <2>1
<1>8. end[h - 1] <= end[h]
  <2>1. h = (h - 1) + 1
    BY <1>3
  <2> QED BY <1>5, <2>1
<1>9. end[h - 1] \in Int /\ end[h] \in Int /\ end[f] \in Int
  BY <1>3, <1>5
<1> QED
  BY <1>3, <1>7, <1>8, <1>9

LEMMA Between ==
    \A a, b, x \in Nat : a < x /\ x <= b => x - a \in 1..(b - a) /\ x = a + (x - a)
OBVIOUS

(* How Init spreads n transactions over the logs.                          *)
Ends(n, files, end) ==
    /\ end \in [1..(files + 1) -> 0..n]
    /\ \A f \in 1..files : end[f] <= end[f + 1]
Span(end, j) == {end[j] + k : k \in 1..(end[j + 1] - end[j])}
Spans(ls, files, end) == \A j \in 1..files : Gtids(ls[j]) = Span(end, j)

(* Nothing is missing between the logs, nor in two of them.                *)
LEMMA InitHeaders ==
    ASSUME NEW n \in Nat, NEW files \in Nat, NEW end, Ends(n, files, end),
           NEW ls, NEW f \in 1..(files + 1), Spans(ls, files, end)
    PROVE  Header(ls, 1..end[1], f) = 1..end[f]
<1>0. /\ end \in [1..(files + 1) -> 0..n]
      /\ \A g \in 1..files : end[g] <= end[g + 1]
      /\ \A j \in 1..files : Gtids(ls[j]) = Span(end, j)
  BY DEF Ends, Spans
<1>1. \A g \in 1..(files + 1) : end[g] \in Nat
  BY <1>0
<1>2. \A j \in 1..files : Gtids(ls[j]) = {end[j] + k : k \in 1..(end[j + 1] - end[j])}
  BY <1>0 DEF Span
<1>3. ASSUME NEW x \in Header(ls, 1..end[1], f) PROVE x \in 1..end[f]
  <2>1. CASE x \in 1..end[1]
    <3>1. 1 \in 1..(files + 1) /\ 1 <= f
      OBVIOUS
    <3>2. end[1] <= end[f]
      BY <1>0, <3>1, Rising
    <3>3. end[1] \in Nat /\ end[f] \in Nat
      BY <1>1, <3>1
    <3> QED BY <2>1, <3>2, <3>3
  <2>2. CASE x \notin 1..end[1]
    <3>1. PICK j \in 1..(f - 1) : x \in Gtids(ls[j])
      BY <1>3, <2>2 DEF Header
    <3>2. j \in 1..files /\ j + 1 \in 1..(files + 1) /\ j + 1 <= f
      OBVIOUS
    <3>3. PICK k \in 1..(end[j + 1] - end[j]) : x = end[j] + k
      BY <1>2, <3>1, <3>2
    <3>4. end[j + 1] <= end[f]
      BY <1>0, <3>2, Rising
    <3>5. end[j] \in Nat /\ end[j + 1] \in Nat /\ end[f] \in Nat
      BY <1>1, <3>2
    <3> QED BY <3>3, <3>4, <3>5
  <2> QED BY <2>1, <2>2
<1>4. ASSUME NEW x \in 1..end[f] PROVE x \in Header(ls, 1..end[1], f)
  <2> DEFINE T == {g \in 1..f : x <= end[g]}
  <2>1. T \in SUBSET Nat /\ f \in T
    BY <1>1
  <2>2. PICK g \in T : \A i \in T : g <= i
    <3> HIDE DEF T
    <3> QED BY <2>1, Least
  <2>3. g \in 1..f /\ x <= end[g]
    OBVIOUS
  <2>4. CASE g = 1
    <3>1. end[1] \in Nat /\ end[f] \in Nat
      BY <1>1
    <3>2. x \in 1..end[1]
      BY <1>4, <2>3, <2>4, <3>1
    <3> QED BY <3>2 DEF Header
  <2>5. CASE g # 1
    <3>1. g - 1 \in 1..(f - 1) /\ g - 1 \in 1..files /\ g - 1 \in 1..f
      BY <2>3, <2>5
    <3>2. g - 1 \notin T
      BY <2>2, <2>3
    <3>3. end[g - 1] \in Nat /\ end[g] \in Nat /\ x \in Nat
      BY <1>1, <2>3, <3>1
    <3>4. end[g - 1] < x
      BY <3>1, <3>2, <3>3
    <3>5. x - end[g - 1] \in 1..(end[g] - end[g - 1]) /\ x = end[g - 1] + (x - end[g - 1])
      BY <2>3, <3>3, <3>4, Between
    <3>6. (g - 1) + 1 = g
      BY <2>3
    <3>7. x \in Gtids(ls[g - 1])
      BY <1>2, <3>1, <3>5, <3>6
    <3> QED BY <3>1, <3>7 DEF Header
  <2> QED BY <2>4, <2>5
<1> QED
  BY <1>3, <1>4

LEMMA InitHistory ==
    Init => /\ executed = AllOf(logs, lost) /\ data \subseteq 1..Len(under)
            /\ \E st : History(logs, under, data, st) /\ Matched(logs, lost, st)
<1> SUFFICES ASSUME Init
             PROVE  /\ executed = AllOf(logs, lost) /\ data \subseteq 1..Len(under)
                    /\ \E st : History(logs, under, data, st) /\ Matched(logs, lost, st)
  OBVIOUS
<1>n. PICK n \in 1..Local, files \in 1..MaxFiles :
        \E end \in [1..(files + 1) -> 0..n] :
           /\ \A f \in 1..files : end[f] <= end[f + 1]
           /\ end[files + 1] = n
           /\ logs = [f \in 1..files |-> [k \in 1..(end[f + 1] - end[f]) |->
                                            Entry(end[f] + k, end[f] + k, FALSE)]]
           /\ lost = 1..end[1]
           /\ executed = 1..n /\ data = 1..n /\ under = [k \in 1..n |-> 1..(k - 1)]
           /\ master \in SUBSET ((1..n) \cup Elsewhere)
  BY DEF Init
<1>1. PICK end \in [1..(files + 1) -> 0..n] :
        /\ \A f \in 1..files : end[f] <= end[f + 1]
        /\ end[files + 1] = n
        /\ logs = [f \in 1..files |-> [k \in 1..(end[f + 1] - end[f]) |->
                                         Entry(end[f] + k, end[f] + k, FALSE)]]
        /\ lost = 1..end[1]
        /\ executed = 1..n /\ data = 1..n /\ under = [k \in 1..n |-> 1..(k - 1)]
        /\ master \in SUBSET ((1..n) \cup Elsewhere)
  BY <1>n
<1>2. n \in Nat /\ files \in Nat /\ n <= Local /\ Local \in Nat
  BY RewindAssumption
<1>3. /\ \A f \in 1..files : end[f] \in Nat /\ end[f + 1] \in Nat /\ end[f] <= end[f + 1]
      /\ \A f \in 1..(files + 1) : end[f] \in Nat /\ end[f] <= n
  BY <1>1, <1>2
<1>4. Len(logs) = files
  BY <1>1, <1>2
<1>5. ASSUME NEW f \in 1..files
      PROVE  /\ Len(logs[f]) = end[f + 1] - end[f]
             /\ \A k \in 1..Len(logs[f]) : logs[f][k] = Entry(end[f] + k, end[f] + k, FALSE)
  <2>1. logs[f] = [k \in 1..(end[f + 1] - end[f]) |-> Entry(end[f] + k, end[f] + k, FALSE)]
    BY <1>1
  <2>2. end[f + 1] - end[f] \in Nat
    BY <1>3
  <2> QED BY <2>1, <2>2
<1>len. ASSUME NEW f \in 1..files
        PROVE  /\ Len(logs[f]) \in Nat /\ end[f] \in Nat /\ end[f + 1] \in Nat
               /\ end[f] + Len(logs[f]) = end[f + 1] /\ end[f + 1] <= n
  <2>1. Len(logs[f]) = end[f + 1] - end[f]
    BY <1>5
  <2>2. end[f] \in Nat /\ end[f + 1] \in Nat /\ end[f] <= end[f + 1]
    BY <1>3
  <2>3. end[f + 1] <= n
    <3>1. f + 1 \in 1..(files + 1)
      BY <1>2
    <3> QED BY <1>3, <3>1
  <2> DEFINE a == end[f]
             b == end[f + 1]
  <2>4. a \in Nat /\ b \in Nat /\ a <= b /\ Len(logs[f]) = b - a
    BY <2>1, <2>2
  <2> HIDE DEF a, b
  <2>5. Len(logs[f]) \in Nat /\ a + Len(logs[f]) = b
    BY <2>4
  <2> QED BY <2>2, <2>3, <2>5 DEF a, b
<1> DEFINE st == [p \in Nat \X Nat |-> {t \in 1..Local : t <= end[p[1]] + p[2]}]
<1>6. st \in States
  BY DEF States
<1>7. ASSUME NEW f \in 1..files, NEW k \in 0..Len(logs[f])
      PROVE  st[<<f, k>>] = 1..(end[f] + k)
  <2>1. <<f, k>> \in Nat \X Nat
    BY <1>len
  <2>2. st[<<f, k>>] = {t \in 1..Local : t <= end[f] + k}
    BY <2>1
  <2>3. end[f] + k \in Nat /\ end[f] + k <= end[f + 1] /\ end[f + 1] <= n
    <3> DEFINE a == end[f]
               b == end[f + 1]
    <3>1. /\ a \in Nat /\ b \in Nat /\ b <= n /\ Len(logs[f]) \in Nat /\ a + Len(logs[f]) = b
      BY <1>len
    <3> HIDE DEF a, b
    <3>2. a + k \in Nat /\ a + k <= b
      BY <3>1
    <3> QED BY <3>1, <3>2 DEF a, b
  <2> DEFINE c == end[f] + k
  <2>4. c \in Nat /\ c <= Local /\ st[<<f, k>>] = {t \in 1..Local : t <= c}
    <3> DEFINE b == end[f + 1]
    <3>1. c \in Nat /\ c <= b /\ b <= n /\ b \in Nat
      BY <2>3, <1>len
    <3>2. st[<<f, k>>] = {t \in 1..Local : t <= c}
      BY <2>2
    <3> HIDE DEF b, c, st
    <3> QED BY <1>2, <3>1, <3>2
  <2> HIDE DEF c, st
  <2>5. st[<<f, k>>] = 1..c
    BY <1>2, <2>4
  <2> QED BY <2>5 DEF c
<1>8. under = [k \in 1..n |-> 1..(k - 1)] /\ DOMAIN under = 1..n /\ Len(under) = n
  BY <1>1, <1>2
<1> HIDE DEF st
<1>9. Chained(logs, under, st)
  <2> SUFFICES ASSUME NEW f \in 1..files, NEW k \in 1..Len(logs[f])
               PROVE  Leads(under, st[<<f, k - 1>>], logs[f][k], st[<<f, k>>])
    BY <1>4 DEF Chained
  <2> DEFINE t == end[f] + k
  <2>1. logs[f][k] = Entry(t, t, FALSE)
    BY <1>5
  <2>2. k - 1 \in 0..Len(logs[f]) /\ k \in 0..Len(logs[f]) /\ t \in 1..n /\ end[f] + (k - 1) = t - 1
    <3> DEFINE a == end[f]
               b == end[f + 1]
    <3>1. /\ a \in Nat /\ b \in Nat /\ b <= n /\ Len(logs[f]) \in Nat /\ a + Len(logs[f]) = b
          /\ t = a + k
      BY <1>len
    <3> HIDE DEF a, b, t
    <3>2. k - 1 \in 0..Len(logs[f]) /\ k \in 0..Len(logs[f]) /\ t \in 1..n /\ a + (k - 1) = t - 1
      BY <1>2, <3>1
    <3> QED BY <3>2 DEF a
  <2>3. st[<<f, k - 1>>] = 1..(t - 1) /\ st[<<f, k>>] = 1..t
    <3> HIDE DEF t
    <3>1. st[<<f, k - 1>>] = 1..(end[f] + (k - 1))
      BY <1>7, <2>2
    <3>2. st[<<f, k>>] = 1..(end[f] + k)
      BY <1>7, <2>2
    <3> QED BY <2>2, <3>1, <3>2 DEF t
  <2> HIDE DEF t
  <2>4. under[t] = 1..(t - 1) /\ t \in DOMAIN under
    BY <1>8, <2>2
  <2>5. t \notin 1..(t - 1) /\ 1..t = (1..(t - 1)) \cup {t}
    BY <2>2
  <2> QED BY <2>1, <2>3, <2>4, <2>5 DEF Leads, Entry
<1>10. Joined(logs, st)
  <2> SUFFICES ASSUME NEW f \in 1..files, f + 1 <= files
               PROVE  st[<<f, Len(logs[f])>>] = st[<<f + 1, 0>>]
    BY <1>4 DEF Joined
  <2>1. f + 1 \in 1..files /\ Len(logs[f]) \in 0..Len(logs[f]) /\ 0 \in 0..Len(logs[f + 1])
    BY <1>2, <1>len
  <2>2. st[<<f, Len(logs[f])>>] = 1..(end[f] + Len(logs[f]))
    BY <1>7, <2>1
  <2>3. st[<<f + 1, 0>>] = 1..(end[f + 1] + 0)
    BY <1>7, <2>1
  <2>4. end[f] + Len(logs[f]) = end[f + 1] + 0
    BY <1>len
  <2> QED BY <2>2, <2>3, <2>4
<1>11. files \in 1..files /\ Len(logs[files]) \in 0..Len(logs[files]) /\ end[files] + Len(logs[files]) = n
  <2>1. files \in 1..files
    BY <1>2
  <2> QED BY <1>1, <1>len, <2>1
<1>12. LastOf(logs, st) = 1..n
  <2>1. st[<<files, Len(logs[files])>>] = 1..(end[files] + Len(logs[files]))
    BY <1>7, <1>11
  <2> QED BY <1>4, <1>11, <2>1 DEF LastOf
<1>13. History(logs, under, data, st)
  BY <1>1, <1>6, <1>9, <1>10, <1>12 DEF History
<1>14. ASSUME NEW f \in 1..files, NEW k \in 0..Len(logs[f])
       PROVE  Upto(logs, lost, f, k) = 1..(end[f] + k)
  <2>1. f \in 1..(files + 1)
    BY <1>2
  <2>2. Header(logs, lost, f) = 1..end[f]
    <3>1. ASSUME NEW j \in 1..files PROVE Gtids(logs[j]) = Span(end, j)
      <4> DEFINE m == end[j + 1] - end[j]
      <4>1. logs[j] = [i \in 1..m |-> Entry(end[j] + i, end[j] + i, FALSE)]
        BY <1>1
      <4>2. DOMAIN logs[j] = 1..m
        BY <4>1
      <4>3. \A i \in 1..m : logs[j][i] = Entry(end[j] + i, end[j] + i, FALSE)
        BY <4>1
      <4>4. \A i \in 1..m : logs[j][i].gtid = end[j] + i
        <5>1. \A x : Entry(x, x, FALSE).gtid = x
          BY DEF Entry
        <5> QED BY <4>3, <5>1
      <4> QED BY <4>2, <4>4 DEF Gtids, Span
    <3>2. Ends(n, files, end) /\ Spans(logs, files, end)
      BY <1>1, <3>1 DEF Ends, Spans
    <3>3. Header(logs, 1..end[1], f) = 1..end[f]
      BY <1>2, <2>1, <3>2, InitHeaders
    <3> QED BY <1>1, <3>3
  <2>3. end[f] \in Nat /\ Len(logs[f]) \in Nat
    BY <1>len
  <2>4. \A i \in 1..k : logs[f][i].gtid = end[f] + i
    <3>1. 1..k \subseteq 1..Len(logs[f])
      BY <2>3
    <3>2. \A i \in 1..k : logs[f][i] = Entry(end[f] + i, end[f] + i, FALSE)
      BY <1>5, <3>1
    <3>3. \A i \in 1..k : Entry(end[f] + i, end[f] + i, FALSE).gtid = end[f] + i
      BY DEF Entry
    <3> QED BY <3>2, <3>3
  <2>5. {logs[f][i].gtid : i \in 1..k} = {end[f] + i : i \in 1..k}
    BY <2>4
  <2> DEFINE m == end[f]
  <2>6. m \in Nat
    BY <2>3
  <2> HIDE DEF m
  <2>7. (1..m) \cup {m + i : i \in 1..k} = 1..(m + k)
    <3>1. ASSUME NEW x \in 1..(m + k), x \notin 1..m PROVE x \in {m + i : i \in 1..k}
      <4>1. x - m \in 1..k /\ x = m + (x - m)
        BY <2>3, <2>6, <3>1
      <4> QED BY <4>1
    <3>2. ASSUME NEW i \in 1..k PROVE m + i \in 1..(m + k)
      BY <2>3, <2>6
    <3>3. 1..m \subseteq 1..(m + k)
      BY <2>3, <2>6
    <3> QED BY <3>1, <3>2, <3>3
  <2> QED BY <2>2, <2>5, <2>7 DEF Upto, m
<1>15. Matched(logs, lost, st)
  BY <1>4, <1>7, <1>14 DEF Matched
<1>16. AllOf(logs, lost) = 1..n
  BY <1>4, <1>11, <1>14 DEF AllOf
<1> QED
  BY <1>1, <1>8, <1>13, <1>15, <1>16

-----------------------------------------------------------------------------
(* The script's steps along the chain.                                     *)

AppliesReliably == Failing \cap {"quiet", "flashback"} = {}

Reliably ==
    /\ AppliesReliably
    /\ Failing \cap {"flush", "previous", "reverted", "projected", "reset", "purge"} = {}
    /\ "reset" \notin KillPoints

(* What is left of a flashback file is the way back, from what is in the   *)
(* tables, to where the log it was made of began.                          *)
Walks(st) ==
    pc = "reverting" /\ execute =>
        /\ at <= Len(logs) /\ Len(flashback) <= Len(logs[at])
        /\ st[<<at, Len(flashback)>>] = data
        /\ \A j \in 1..Len(flashback) :
             /\ flashback[j].tx = logs[at][Len(flashback) + 1 - j].tx
             /\ flashback[j].undo = ~logs[at][Len(flashback) + 1 - j].undo

AtNewest == pc = "projected" => at = Len(logs) + 1
NoFile == pc = "reverting" /\ ~execute => flashback = <<>>
Emptied == Reliably /\ pc = "reset" => logs = <<<<>>>>
DataKnown == data \subseteq 1..Len(under)

Chain(st) == /\ History(logs, under, data, st) /\ Walks(st)
             /\ Reliably /\ pc # "reset" => Matched(logs, lost, st)

HistInv == /\ AppliesInPlace /\ AtNewest /\ NoFile /\ Emptied /\ DataKnown
           /\ \E st : Chain(st)

(* What reset master left is what gtid_purged will say.                    *)
Landed == pc = "reset" => projected = data /\ executed = {}

LEMMA HistoryInit == Init => HistInv
<1> SUFFICES ASSUME Init PROVE HistInv
  OBVIOUS
<1>1. pc = "idle" /\ corrupted = FALSE
  BY DEF Init
<1>2. PICK st : History(logs, under, data, st) /\ Matched(logs, lost, st)
  BY InitHistory
<1>3. Chain(st)
  BY <1>1, <1>2 DEF Chain, Walks
<1>4. DataKnown
  BY InitHistory DEF DataKnown
<1> QED
  BY <1>1, <1>3, <1>4 DEF HistInv, AppliesInPlace, AtNewest, NoFile, Emptied

(* A step that leaves the tables and the logs alone, and does not set out. *)
LEMMA HistoryKept ==
    ASSUME HistInv, UNCHANGED <<logs, under, data, lost, corrupted>>,
           \/ UNCHANGED <<pc, execute, at, flashback>>
           \/ /\ pc' \notin {"projected", "reverting", "reset"}
              /\ pc = "reset" => ~Reliably
    PROVE  HistInv'
<1>1. PICK st : Chain(st)
  BY DEF HistInv
<1>2. History(logs, under, data, st)'
  BY <1>1 DEF Chain
<1>3. (Reliably /\ pc # "reset" => Matched(logs, lost, st))'
  BY <1>1 DEF Chain
<1>4. Walks(st)'
  BY <1>1 DEF Chain, Walks
<1>5. Chain(st)'
  BY <1>2, <1>3, <1>4 DEF Chain
<1>6. (AppliesInPlace /\ AtNewest /\ NoFile /\ Emptied /\ DataKnown)'
  BY DEF HistInv, AppliesInPlace, AtNewest, NoFile, Emptied, DataKnown
<1> QED
  BY <1>5, <1>6 DEF HistInv

LEMMA HistoryCommit == AppliesReliably /\ TypeInv /\ HistInv /\ LocalWrites => HistInv'
<1> SUFFICES ASSUME AppliesReliably, TypeInv, HistInv, LocalWrites PROVE HistInv'
  OBVIOUS
<1> DEFINE t == Len(under) + 1
           e == Entry(t, t, FALSE)
           n == Len(logs)
           T == data \cup {t}
<1>1. /\ LogsType /\ logs \in Seq(Seq(Entries)) /\ n > 0 /\ PlaceType /\ Local \in Nat
      /\ data \in SUBSET (1..Local) /\ under \in Seq(SUBSET (1..Local))
  BY RewindAssumption DEF TypeInv, LogsType, WorldType
<1>2. /\ under' = Append(under, data) /\ data' = T
      /\ logs' = [logs EXCEPT ![n] = Append(@, e)]
      /\ UNCHANGED <<lost, corrupted, pc, at, execute, flashback>>
  BY DEF LocalWrites, script
<1>3. pc \notin {"reverting", "reset"}
  BY <1>1, RewindAssumption DEF AppliesReliably, LocalWrites, PlaceType, Places, Prelude
<1>4. Len(under) \in Nat /\ t \in 1..Local /\ e \in Entries /\ T \in SUBSET (1..Local)
  <2>1. Len(under) \in Nat /\ Len(under) < Local
    BY <1>1 DEF LocalWrites
  <2>2. t \in 1..Local
    BY <1>1, <2>1
  <2> HIDE DEF t
  <2>3. e \in Entries
    BY <1>1, <2>2 DEF Entry, Entries
  <2> QED BY <1>1, <2>1, <2>2, <2>3
<1>5. /\ Len(Append(under, data)) = t /\ DOMAIN Append(under, data) = 1..t
      /\ Append(under, data)[t] = data
  BY <1>1, <1>4, AppendProperties
<1>6. PICK st : Chain(st)
  BY DEF HistInv
<1>7. History(logs, Append(under, data), data, st)
  BY <1>1, <1>6, HistoryOlder DEF Chain
<1>8. Leads(Append(under, data), data, e, T)
  <2>1. t \notin data
    BY <1>4 DEF HistInv, DataKnown
  <2>2. e.tx = t /\ e.undo = FALSE
    BY DEF Entry
  <2>3. t \in DOMAIN Append(under, data)
    BY <1>4, <1>5
  <2> HIDE DEF t, e
  <2> QED BY <1>5, <2>1, <2>2, <2>3 DEF Leads
<1> HIDE DEF T, e, t
<1>next. PICK next : next = Farther(logs, st, T)
  OBVIOUS
<1>9. /\ History(logs', Append(under, data), T, next)
      /\ \A f \in 1..n : \A k \in 0..Len(logs[f]) : next[<<f, k>>] = st[<<f, k>>]
      /\ next[<<n, Len(logs[n]) + 1>>] = T
  <2>1. /\ History(Longer(logs, e), Append(under, data), T, Farther(logs, st, T))
        /\ SameStates(logs, st, Farther(logs, st, T))
        /\ Farther(logs, st, T)[<<Len(logs), Len(logs[Len(logs)]) + 1>>] = T
    BY <1>1, <1>4, <1>7, <1>8, HistoryGrows
  <2>2. logs' = Longer(logs, e)
    BY <1>2 DEF Longer
  <2> QED BY <1>next, <2>1, <2>2 DEF SameStates
<1>10. Reliably => Matched(logs', lost, next)
  <2> SUFFICES ASSUME Reliably PROVE Matched(logs', lost, next)
    OBVIOUS
  <2>1. Matched(logs, lost, st)
    BY <1>3, <1>6 DEF Chain
  <2>2. T = LastOf(logs, st) \cup {e.gtid}
    BY <1>6 DEF Chain, History, T, e, Entry
  <2> QED BY <1>1, <1>2, <1>4, <1>9, <2>1, <2>2, MatchedGrows
<1>11. Chain(next)'
  BY <1>2, <1>3, <1>9, <1>10 DEF Chain, Walks
<1>12. Len(logs') = n
  BY <1>1, <1>2, <1>4, OneMore
<1>13. DataKnown'
  BY <1>2, <1>4, <1>5 DEF HistInv, DataKnown, T, t
<1> QED
  BY <1>2, <1>3, <1>11, <1>12, <1>13 DEF HistInv, AppliesInPlace, AtNewest, NoFile, Emptied

LEMMA HistoryFlush == "flashback" \notin Failing /\ TypeInv /\ HistInv /\ FlushLogs => HistInv'
<1> SUFFICES ASSUME "flashback" \notin Failing, TypeInv, HistInv, FlushLogs PROVE HistInv'
  OBVIOUS
<1>1. /\ pc = "compared" /\ pc' = "flushed" /\ logs' \in {Append(logs, <<>>), logs}
      /\ UNCHANGED <<under, data, lost, corrupted>>
  BY DEF FlushLogs, Outcomes
<1>2. CASE logs' = logs
  <2>1. pc' \notin {"projected", "reverting", "reset"} /\ pc # "reset"
    BY <1>1
  <2> QED BY <1>1, <1>2, <2>1, HistoryKept
<1>3. CASE logs' = Append(logs, <<>>)
  <2>1. logs \in Seq(Seq(Entries)) /\ Len(logs) > 0 /\ data \in SUBSET (1..Local)
    BY DEF TypeInv, LogsType, WorldType
  <2>2. PICK st : Chain(st)
    BY DEF HistInv
  <2>3. History(logs, under, data, st) /\ LastOf(logs, st) = data
    BY <2>2 DEF Chain, History
  <2>4. PICK next : next = Onward(logs, st, data)
    OBVIOUS
  <2>5. /\ History(logs', under, data, next) /\ SameStates(logs, st, next)
        /\ next[<<Len(logs) + 1, 0>>] = data
    BY <1>3, <2>1, <2>3, <2>4, HistoryFlushed
  <2>6. Reliably => Matched(logs', lost, next)
    <3> SUFFICES ASSUME Reliably PROVE Matched(logs', lost, next)
      OBVIOUS
    <3>1. Matched(logs, lost, st)
      BY <1>1, <2>2 DEF Chain
    <3>2. \A f \in 1..Len(logs) : \A k \in 0..Len(logs[f]) : next[<<f, k>>] = st[<<f, k>>]
      BY <2>5 DEF SameStates
    <3>3. Matched(Append(logs, <<>>), lost, next)
      BY <2>1, <2>3, <2>5, <3>1, <3>2, MatchedFlushed
    <3> QED BY <1>3, <3>3
  <2>7. Chain(next)'
    BY <1>1, <2>5, <2>6 DEF Chain, Walks
  <2> QED
    BY <1>1, <2>7 DEF HistInv, AppliesInPlace, AtNewest, NoFile, Emptied, DataKnown
<1> QED BY <1>1, <1>2, <1>3

LEMMA HistoryGenerate ==
    "flashback" \notin Failing /\ TypeInv /\ HistInv /\ Generate => HistInv'
<1> SUFFICES ASSUME "flashback" \notin Failing, TypeInv, HistInv, Generate PROVE HistInv'
  OBVIOUS
<1>1. /\ pc \in {"projected", "reverting"} /\ pc' = "reverting" /\ flashback = <<>>
      /\ at > oldest /\ at' = at - 1
      /\ flashback' = IF execute THEN Flashback(logs[at - 1]) ELSE <<>>
      /\ UNCHANGED <<logs, under, data, lost, corrupted, execute>>
  BY DEF Generate, Outcomes, server
<1>2. /\ at - 1 \in 1..Len(logs) /\ at \in Nat /\ Len(logs) \in Nat
      /\ logs \in Seq(Seq(Entries)) /\ flashback' \in Seq(Entries)
  <2>1. at - 1 \in 1..Len(logs) /\ at \in Nat
    BY <1>1 DEF TypeInv, Located, OldestLog, LeftToRevert, CountsType, LogsType
  <2>2. logs \in Seq(Seq(Entries)) /\ Len(logs) \in Nat
    BY DEF TypeInv, LogsType
  <2>3. logs[at - 1] \in Seq(Entries) /\ <<>> \in Seq(Entries)
    BY <2>1, <2>2, ElementOfSeq
  <2>4. flashback' \in Seq(Entries)
    BY <1>1, <2>3, FlashbackType
  <2> QED BY <2>1, <2>2, <2>4
<1> DEFINE log == logs[at - 1]
<1>3. log \in Seq(Entries)
  BY <1>2, ElementOfSeq
<1>4. PICK st : Chain(st)
  BY DEF HistInv
<1>5. Walks(st)'
  <2> SUFFICES ASSUME execute
               PROVE  /\ at - 1 <= Len(logs) /\ Len(flashback') <= Len(log)
                      /\ st[<<at - 1, Len(flashback')>>] = data
                      /\ \A j \in 1..Len(flashback') :
                           /\ flashback'[j].tx = log[Len(flashback') + 1 - j].tx
                           /\ flashback'[j].undo = ~log[Len(flashback') + 1 - j].undo
    BY <1>1 DEF Walks
  <2>1. flashback' = Flashback(log)
    BY <1>1
  <2> HIDE DEF log
  <2>2. Len(log) \in Nat /\ DOMAIN log = 1..Len(log)
    BY <1>3
  <2>3. /\ flashback' = [k \in 1..Len(log) |-> [log[Len(log) + 1 - k] EXCEPT !.undo = ~@]]
        /\ Len(flashback') = Len(log)
    BY <2>1, <2>2 DEF Flashback
  <2>4. ASSUME NEW j \in 1..Len(log)
        PROVE  /\ flashback'[j].tx = log[Len(log) + 1 - j].tx
               /\ flashback'[j].undo = ~log[Len(log) + 1 - j].undo
    <3>1. Len(log) + 1 - j \in 1..Len(log)
      BY <2>2
    <3>2. log[Len(log) + 1 - j] \in Entries
      BY <1>3, <3>1, ElementOfSeq
    <3>3. flashback'[j] = [log[Len(log) + 1 - j] EXCEPT !.undo = ~@]
      BY <2>3
    <3> QED BY <3>2, <3>3 DEF Entries
  <2>5. st[<<at - 1, Len(log)>>] = data
    <3>1. CASE pc = "projected"
      <4>1. at - 1 = Len(logs)
        BY <1>2, <3>1 DEF HistInv, AtNewest
      <4> QED BY <1>4, <4>1 DEF Chain, History, LastOf, log
    <3>2. CASE pc = "reverting"
      <4>1. at <= Len(logs) /\ st[<<at, 0>>] = data
        <5>1. Len(flashback) = 0
          BY <1>1
        <5> QED BY <1>4, <3>2, <5>1 DEF Chain, Walks
      <4>2. st[<<at - 1, Len(logs[at - 1])>>] = st[<<at - 1 + 1, 0>>]
        BY <1>2, <1>4, <4>1 DEF Chain, History, Joined
      <4>3. at - 1 + 1 = at
        BY <1>2
      <4> QED BY <4>1, <4>2, <4>3 DEF log
    <3> QED BY <1>1, <3>1, <3>2
  <2>6. at - 1 <= Len(logs) /\ Len(log) <= Len(log)
    BY <1>2, <2>2
  <2> DEFINE L == Len(flashback')
  <2>7. L = Len(log)
    BY <2>3
  <2> HIDE DEF L
  <2>8. /\ st[<<at - 1, L>>] = data /\ L <= Len(log)
        /\ \A j \in 1..L : /\ flashback'[j].tx = log[L + 1 - j].tx
                           /\ flashback'[j].undo = ~log[L + 1 - j].undo
    BY <2>4, <2>5, <2>6, <2>7
  <2> QED BY <2>6, <2>8 DEF L
<1>6. Chain(st)'
  BY <1>1, <1>4, <1>5 DEF Chain
<1> QED
  BY <1>1, <1>6 DEF HistInv, AppliesInPlace, AtNewest, NoFile, Emptied, DataKnown

LEMMA HistoryApply == TypeInv /\ HistInv /\ Apply => HistInv'
<1> SUFFICES ASSUME TypeInv, HistInv, Apply PROVE HistInv'
  OBVIOUS
<1> DEFINE e == Head(flashback)
           gtid == Local + minted + 1
           new == Entry(gtid, e.tx, e.undo)
           n == Len(logs)
           L == Len(flashback)
<1>1. /\ pc = "reverting" /\ flashback # <<>>
      /\ data' = IF e.undo THEN data \ {e.tx} ELSE data \cup {e.tx}
      /\ corrupted' = (corrupted \/ under[e.tx] # data \ {e.tx} \/ e.undo # (e.tx \in data))
      /\ logs' = [logs EXCEPT ![n] = Append(@, new)]
      /\ flashback' = Tail(flashback)
      /\ UNCHANGED <<lost, under, pc, execute, at>>
  BY DEF Apply
<1>2. /\ logs \in Seq(Seq(Entries)) /\ n \in Nat /\ n > 0 /\ flashback \in Seq(Entries)
      /\ at \in 1..n /\ data \in SUBSET (1..Local) /\ Local \in Nat /\ minted \in Nat
  <2>1. /\ logs \in Seq(Seq(Entries)) /\ n \in Nat /\ n > 0 /\ flashback \in Seq(Entries)
        /\ data \in SUBSET (1..Local) /\ Local \in Nat /\ minted \in Nat
    BY RewindAssumption DEF TypeInv, LogsType, FileType, WorldType, CountsType
  <2>2. execute /\ at <= n
    <3>1. execute
      BY <1>1 DEF HistInv, NoFile, TypeInv, FlagsType
    <3> QED BY <1>1, <3>1 DEF HistInv, Chain, Walks
  <2>3. at >= 1 /\ at \in Nat
    BY <1>1 DEF TypeInv, Located, OldestLog, LeftToRevert, CountsType, LogsType
  <2> QED BY <2>1, <2>2, <2>3
<1>3. execute
  BY <1>1 DEF HistInv, NoFile, TypeInv, FlagsType
<1>4. PICK st : Chain(st)
  BY DEF HistInv
<1>5. /\ L \in Nat /\ L > 0 /\ e = flashback[1] /\ e \in Entries
      /\ Tail(flashback) \in Seq(Entries) /\ Len(Tail(flashback)) = L - 1
      /\ \A j \in 1..(L - 1) : Tail(flashback)[j] = flashback[j + 1]
  BY <1>1, <1>2, HeadTailProperties
<1> DEFINE log == logs[at]
           old == log[L]
<1>6. /\ log \in Seq(Entries) /\ Len(log) \in Nat /\ L <= Len(log)
      /\ st[<<at, L>>] = data
      /\ \A j \in 1..L : /\ flashback[j].tx = log[L + 1 - j].tx
                         /\ flashback[j].undo = ~log[L + 1 - j].undo
  <2>1. log \in Seq(Entries) /\ Len(log) \in Nat
    BY <1>2, ElementOfSeq
  <2> QED BY <1>1, <1>3, <1>4, <2>1 DEF Chain, Walks
<1> HIDE DEF e, log, L
<1>7. old \in Entries /\ e.tx = old.tx /\ e.undo = ~old.undo
  <2>1. 1 \in 1..L /\ L + 1 - 1 = L /\ L \in 1..Len(log)
    BY <1>5, <1>6
  <2>2. old \in Entries
    BY <1>6, <2>1, ElementOfSeq
  <2>3. e.tx = log[L + 1 - 1].tx /\ e.undo = ~log[L + 1 - 1].undo
    BY <1>5, <1>6, <2>1
  <2> QED BY <2>1, <2>2, <2>3
<1> DEFINE T == st[<<at, L - 1>>]
<1>8. Leads(under, T, old, data)
  <2>1. L \in 1..Len(logs[at])
    BY <1>5, <1>6 DEF log
  <2> QED BY <1>2, <1>4, <1>6, <2>1 DEF Chain, History, Chained, log
<1>9. /\ Leads(under, data, e, T) /\ under[old.tx] = data \ {old.tx} /\ e.undo = (old.tx \in data)
      /\ T = IF e.undo THEN data \ {old.tx} ELSE data \cup {old.tx}
  <2>1. old.undo \in BOOLEAN
    BY <1>7 DEF Entries
  <2> HIDE DEF T, old
  <2>2. e.tx = old.tx /\ e.undo = ~old.undo
    BY <1>7
  <2>3. /\ Leads(under, data, e, T)
        /\ under[old.tx] = data \ {old.tx}
        /\ e.undo = (old.tx \in data)
        /\ T = IF e.undo THEN data \ {old.tx} ELSE data \cup {old.tx}
    BY <1>8, <2>1, <2>2, LeadsBack
  <2> QED BY <2>3
<1>10. data' = T /\ (corrupted' = corrupted)
  <2>1. corrupted \in BOOLEAN
    BY DEF TypeInv, FlagsType
  <2>2. data' = T
    BY <1>1, <1>7, <1>9
  <2>3. under[e.tx] = data \ {e.tx} /\ e.undo = (e.tx \in data)
    BY <1>7, <1>9
  <2> QED BY <1>1, <2>1, <2>2, <2>3
<1>11. new \in Entries /\ new.gtid > Local /\ Leads(under, data, new, T)
  <2>1. gtid \in Int /\ gtid > Local
    BY <1>2
  <2>2. e.tx \in 1..Local /\ e.undo \in BOOLEAN
    BY <1>5 DEF Entries
  <2> HIDE DEF gtid
  <2>3. new.gtid = gtid /\ new.tx = e.tx /\ new.undo = e.undo /\ new \in Entries
    BY <2>1, <2>2 DEF Entry, Entries
  <2> QED BY <1>9, <2>1, <2>3 DEF Leads
<1>12. T \in SUBSET (1..Local)
  <2>1. L - 1 \in Nat /\ at \in Nat
    BY <1>2, <1>5
  <2>2. <<at, L - 1>> \in Nat \X Nat
    BY <2>1
  <2> QED BY <1>4, <2>2 DEF Chain, History, States
<1> HIDE DEF new, T, old
<1>13. PICK next : next = Farther(logs, st, T)
  OBVIOUS
<1>14. /\ History(logs', under, T, next) /\ SameStates(logs, st, next)
       /\ next[<<n, Len(logs[n]) + 1>>] = T
  <2>1. History(logs, under, data, st)
    BY <1>4 DEF Chain
  <2>2. /\ History(Longer(logs, new), under, T, Farther(logs, st, T))
        /\ SameStates(logs, st, Farther(logs, st, T))
        /\ Farther(logs, st, T)[<<Len(logs), Len(logs[Len(logs)]) + 1>>] = T
    BY <1>2, <1>11, <1>12, <2>1, HistoryGrows
  <2>3. logs' = Longer(logs, new)
    BY <1>1 DEF Longer
  <2> QED BY <1>13, <2>2, <2>3
<1>15. Reliably => Matched(logs', lost, next)
  <2> SUFFICES ASSUME Reliably PROVE Matched(logs', lost, next)
    OBVIOUS
  <2>1. Matched(logs, lost, st)
    BY <1>1, <1>4 DEF Chain
  <2>2. \A f \in 1..Len(logs) : \A k \in 0..Len(logs[f]) : next[<<f, k>>] = st[<<f, k>>]
    BY <1>14 DEF SameStates
  <2> QED BY <1>1, <1>2, <1>11, <1>14, <2>1, <2>2, MatchedGrows
<1>16. /\ Len(logs') = n /\ Len(logs'[at]) >= Len(log)
       /\ \A k \in 1..Len(log) : logs'[at][k] = log[k]
  <2>1. /\ Len(logs') = n /\ \A f \in 1..n : f # n => logs'[f] = logs[f]
        /\ Len(logs'[n]) = Len(logs[n]) + 1
        /\ \A k \in 1..Len(logs[n]) : logs'[n][k] = logs[n][k]
    BY <1>1, <1>2, <1>11, OneMore
  <2> QED BY <1>2, <1>6, <2>1 DEF log
<1>17. Walks(next)'
  <2> SUFFICES /\ at <= n /\ L - 1 <= Len(logs'[at])
               /\ next[<<at, L - 1>>] = T
               /\ \A j \in 1..(L - 1) :
                    /\ Tail(flashback)[j].tx = logs'[at][(L - 1) + 1 - j].tx
                    /\ Tail(flashback)[j].undo = ~logs'[at][(L - 1) + 1 - j].undo
    BY <1>1, <1>5, <1>10, <1>16 DEF Walks
  <2>1. at <= n /\ L - 1 <= Len(logs'[at])
    <3>1. Len(logs'[at]) \in Nat
      <4>1. LogsType'
        BY <1>1, <1>2, <1>11, OneMoreEntry DEF LogsType
      <4>2. logs'[at] \in Seq(Entries)
        BY <1>2, <1>16, <4>1, ElementOfSeq DEF LogsType
      <4> QED BY <4>2
    <3> QED BY <1>2, <1>5, <1>6, <1>16, <3>1
  <2>2. next[<<at, L - 1>>] = T
    <3>1. L - 1 \in 0..Len(logs[at])
      BY <1>5, <1>6 DEF log
    <3> QED BY <1>2, <1>14, <3>1 DEF SameStates, T
  <2>3. ASSUME NEW j \in 1..(L - 1)
        PROVE  /\ Tail(flashback)[j].tx = logs'[at][(L - 1) + 1 - j].tx
               /\ Tail(flashback)[j].undo = ~logs'[at][(L - 1) + 1 - j].undo
    <3>1. j + 1 \in 1..L /\ L + 1 - (j + 1) = (L - 1) + 1 - j /\ (L - 1) + 1 - j \in 1..Len(log)
      BY <1>5, <1>6
    <3>2. Tail(flashback)[j] = flashback[j + 1]
      BY <1>5
    <3>3. logs'[at][(L - 1) + 1 - j] = log[(L - 1) + 1 - j]
      BY <1>16, <3>1
    <3> QED BY <1>6, <3>1, <3>2, <3>3
  <2> QED BY <2>1, <2>2, <2>3
<1>18. Chain(next)'
  BY <1>1, <1>10, <1>14, <1>15, <1>17 DEF Chain
<1>19. DataKnown'
  <2>1. old.tx \in DOMAIN under /\ DOMAIN under = 1..Len(under)
    BY <1>8 DEF Leads, TypeInv, WorldType
  <2> QED BY <1>1, <1>9, <1>10, <2>1 DEF HistInv, DataKnown
<1> QED
  BY <1>1, <1>3, <1>10, <1>18, <1>19 DEF HistInv, AppliesInPlace, AtNewest, NoFile, Emptied

LEMMA MatchedReset ==
    ASSUME NEW d
    PROVE  /\ AllOf(<<<<>>>>, d) = d
           /\ Matched(<<<<>>>>, d, [p \in Nat \X Nat |-> d])
<1>1. Len(<<<<>>>>) = 1 /\ <<<<>>>>[1] = <<>> /\ Len(<<>>) = 0
  OBVIOUS
<1>2. Upto(<<<<>>>>, d, 1, 0) = d
  <2>1. 1..(1 - 1) = {} /\ 1..0 = {}
    OBVIOUS
  <2>2. Header(<<<<>>>>, d, 1) = d
    BY <2>1 DEF Header
  <2> QED BY <2>1, <2>2 DEF Upto
<1>3. [p \in Nat \X Nat |-> d][<<1, 0>>] = d
  OBVIOUS
<1>4. \A f \in 1..1 : f = 1
  OBVIOUS
<1>5. \A k \in 0..0 : k = 0
  OBVIOUS
<1> QED
  BY <1>1, <1>2, <1>3, <1>4, <1>5 DEF AllOf, Matched

LEMMA HistoryStep ==
    /\ AppliesReliably
    /\ TypeInv /\ HistInv /\ (Reliably => Landed) /\ [Next]_vars
    => HistInv'
<1> SUFFICES ASSUME AppliesReliably, TypeInv, HistInv, Reliably => Landed, [Next]_vars
             PROVE  HistInv'
  OBVIOUS
<1>f. "flashback" \notin Failing
  BY DEF AppliesReliably
<1>1. CASE LocalWrites
  BY <1>1, HistoryCommit
<1>2. CASE Prepared
  <2>1. UNCHANGED <<logs, under, data, lost, corrupted, pc, execute, at, flashback>>
    BY <1>2 DEF Prepared, script
  <2> QED BY <2>1, HistoryKept
<1>3. CASE MasterCommits
  <2>1. UNCHANGED <<logs, under, data, lost, corrupted, pc, execute, at, flashback>>
    BY <1>3 DEF MasterCommits, server, script
  <2> QED BY <2>1, HistoryKept
<1>4. CASE Killed
  <2>1. UNCHANGED <<logs, under, data, lost, corrupted>>
    BY <1>4 DEF Killed, server, script
  <2>2. pc' \notin {"projected", "reverting", "reset"} /\ (pc = "reset" => ~Reliably)
    BY <1>4 DEF Killed, Reliably
  <2> QED BY <2>1, <2>2, HistoryKept
<1>5. CASE Check
  <2>1. UNCHANGED <<logs, under, data, lost, corrupted>>
    BY <1>5 DEF Check, server, ClearScript
  <2>2. pc' \notin {"projected", "reverting", "reset"} /\ pc # "reset"
    BY <1>5 DEF Check, Places, Prelude
  <2> QED BY <2>1, <2>2, HistoryKept
<1>6. CASE StopReplica
  <2>1. UNCHANGED <<logs, under, data, lost, corrupted>>
    BY <1>6 DEF StopReplica, script
  <2>2. pc' \notin {"projected", "reverting", "reset"} /\ pc # "reset"
    BY <1>6 DEF StopReplica, Places, Prelude
  <2> QED BY <2>1, <2>2, HistoryKept
<1>7. CASE MeasureLocal
  <2>1. UNCHANGED <<logs, under, data, lost, corrupted>>
    BY <1>7 DEF MeasureLocal, server
  <2>2. pc' \notin {"projected", "reverting", "reset"} /\ pc # "reset"
    BY <1>7 DEF MeasureLocal, Places, Prelude
  <2> QED BY <2>1, <2>2, HistoryKept
<1>8. CASE CompareWithMaster
  <2>1. UNCHANGED <<logs, under, data, lost, corrupted>>
    BY <1>8 DEF CompareWithMaster, server
  <2>2. pc' \notin {"projected", "reverting", "reset"} /\ pc # "reset"
    BY <1>8 DEF CompareWithMaster, Places, Prelude
  <2> QED BY <2>1, <2>2, HistoryKept
<1>9. CASE FlushLogs
  BY <1>f, <1>9, HistoryFlush
<1>10. CASE ScanNewest
  <2>1. UNCHANGED <<logs, under, data, lost, corrupted>>
    BY <1>10 DEF ScanNewest, server
  <2>2. pc' \notin {"projected", "reverting", "reset"} /\ pc # "reset"
    BY <1>10 DEF ScanNewest, Places, Prelude
  <2> QED BY <2>1, <2>2, HistoryKept
<1>11. CASE Scan
  <2>1. UNCHANGED <<logs, under, data, lost, corrupted>>
    BY <1>11 DEF Scan, server
  <2>2. pc' \notin {"projected", "reverting", "reset"} /\ pc # "reset"
    BY <1>11 DEF Scan, Places, Prelude
  <2> QED BY <2>1, <2>2, HistoryKept
<1>12. CASE ScanEnds
  <2>1. UNCHANGED <<logs, under, data, lost, corrupted>>
    BY <1>12 DEF ScanEnds, server, script
  <2>2. pc' \notin {"projected", "reverting", "reset"} /\ pc # "reset"
    BY <1>12 DEF ScanEnds, Places, Prelude
  <2> QED BY <2>1, <2>2, HistoryKept
<1>13. CASE Project
  <2>1. /\ pc = "found" /\ pc' = "projected" /\ at' = Len(logs) + 1
        /\ UNCHANGED <<logs, under, data, lost, corrupted>>
    BY <1>13 DEF Project, server
  <2>2. PICK st : Chain(st)
    BY DEF HistInv
  <2>3. Chain(st)'
    BY <2>1, <2>2 DEF Chain, Walks
  <2> QED
    BY <2>1, <2>3 DEF HistInv, AppliesInPlace, AtNewest, NoFile, Emptied, DataKnown
<1>14. CASE Generate
  BY <1>f, <1>14, HistoryGenerate
<1>15. CASE Apply
  BY <1>15, HistoryApply
<1>16. CASE NotResetting
  <2>1. UNCHANGED <<logs, under, data, lost, corrupted>>
    BY <1>16 DEF NotResetting, server, script, Reverted
  <2>2. pc' \notin {"projected", "reverting", "reset"} /\ pc # "reset"
    BY <1>16 DEF NotResetting, Places, Prelude, Reverted
  <2> QED BY <2>1, <2>2, HistoryKept
<1>17. CASE ResetMaster
  <2>1. pc' = "reset" /\ UNCHANGED <<under, data, corrupted>>
    BY <1>17 DEF ResetMaster
  <2>2. data \in SUBSET (1..Local)
    BY DEF TypeInv, WorldType
  <2>3. ASSUME logs' = <<<<>>>> PROVE \E st : Chain(st)'
    <3>1. PICK st : st = [p \in Nat \X Nat |-> data]
      OBVIOUS
    <3>2. History(logs', under, data, st)
      BY <2>2, <2>3, <3>1, HistoryReset
    <3> QED BY <2>1, <3>2 DEF Chain, Walks
  <2>4. ASSUME UNCHANGED logs PROVE \E st : Chain(st)'
    <3>1. PICK st : Chain(st)
      BY DEF HistInv
    <3> QED BY <2>1, <2>4, <3>1 DEF Chain, Walks
  <2>5. logs' = <<<<>>>> \/ (UNCHANGED logs /\ ~Reliably)
    BY <1>17 DEF ResetMaster, Reliably
  <2>6. \E st : Chain(st)'
    BY <2>3, <2>4, <2>5
  <2> QED
    BY <2>1, <2>5, <2>6 DEF HistInv, AppliesInPlace, AtNewest, NoFile, Emptied, DataKnown
<1>18. CASE SetPurged
  <2>1. pc = "reset" /\ pc' = "purged" /\ UNCHANGED <<logs, under, data, corrupted>>
    BY <1>18 DEF SetPurged
  <2>2. ASSUME Reliably PROVE \E st : Chain(st)'
    <3>1. logs' = <<<<>>>>
      BY <2>1, <2>2 DEF HistInv, Emptied
    <3>2. lost' = data
      BY <1>18, <2>1, <2>2 DEF SetPurged, Landed, Reliably
    <3>3. data \in SUBSET (1..Local)
      BY DEF TypeInv, WorldType
    <3>4. PICK st : st = [p \in Nat \X Nat |-> data]
      OBVIOUS
    <3>5. History(logs', under, data, st)
      BY <3>1, <3>3, <3>4, HistoryReset
    <3>6. Matched(<<<<>>>>, data, st)
      BY <3>4, MatchedReset
    <3> QED BY <2>1, <3>1, <3>2, <3>5, <3>6 DEF Chain, Walks
  <2>3. ASSUME ~Reliably PROVE \E st : Chain(st)'
    <3>1. PICK st : Chain(st)
      BY DEF HistInv
    <3> QED BY <2>1, <2>3, <3>1 DEF Chain, Walks
  <2>4. \E st : Chain(st)'
    BY <2>2, <2>3
  <2> QED
    BY <2>1, <2>4 DEF HistInv, AppliesInPlace, AtNewest, NoFile, Emptied, DataKnown
<1>19. CASE ChangeMaster
  <2>1. UNCHANGED <<logs, under, data, lost, corrupted>>
    BY <1>19 DEF ChangeMaster, server, script
  <2>2. pc' \notin {"projected", "reverting", "reset"} /\ pc # "reset"
    BY <1>19 DEF ChangeMaster, Places, Prelude
  <2> QED BY <2>1, <2>2, HistoryKept
<1>20. CASE StartReplica
  <2>1. UNCHANGED <<logs, under, data, lost, corrupted>>
    BY <1>20 DEF StartReplica, script
  <2>2. pc' \notin {"projected", "reverting", "reset"} /\ pc # "reset"
    BY <1>20 DEF StartReplica, Places, Prelude
  <2> QED BY <2>1, <2>2, HistoryKept
<1>21. CASE UNCHANGED vars
  <2>1. UNCHANGED <<logs, under, data, lost, corrupted, pc, execute, at, flashback>>
    BY <1>21 DEF server, script, vars
  <2> QED BY <2>1, HistoryKept
<1> QED
  BY <1>1, <1>2, <1>3, <1>4, <1>5, <1>6, <1>7, <1>8, <1>9, <1>10, <1>11, <1>12, <1>13,
     <1>14, <1>15, <1>16, <1>17, <1>18, <1>19, <1>20, <1>21 DEF Next

-----------------------------------------------------------------------------
(* What the script reads off GTIDs, when no command it rests on fails.     *)

(* MySQL's own bookkeeping.                                                *)
Whole == pc # "reset" => executed = AllOf(logs, lost)
MasterOriginal == Original(master)

SuspectsAny == pc \in {"compared", "flushed", "scanning"} => errant # {}
Seen ==
    pc = "compared" \/ (pc = "measured" /\ localSeen # {}) =>
        Header(logs, lost, Len(logs)) \subseteq localSeen /\ localSeen \subseteq AllOf(logs, lost)
MadeUpIsErrant ==
    pc \in {"compared", "flushed", "scanning"} => \A t \in localSeen : t > Local => t \in errant
(* Once flushed, nothing seen is in the newest log, and nothing unseen is  *)
(* before the log that was the newest.                                     *)
SeenBefore ==
    pc \in {"flushed", "scanning"} =>
        /\ localSeen \subseteq Header(logs, lost, Len(logs))
        /\ Header(logs, lost, Len(logs) - 1) \subseteq localSeen
SeenAll == pc = "scanning" => previous = Header(logs, lost, Len(logs))
Aimed ==
    /\ pc = "found" => localSeen \ reverted = Header(logs, lost, oldest)
    /\ pc \in {"projected", "reverting"} => projected = Header(logs, lost, oldest)
    /\ pc \in {"found", "projected", "reverting"} => Original(Header(logs, lost, oldest))

GtidInv == /\ Whole /\ MasterOriginal /\ SuspectsAny /\ Seen /\ MadeUpIsErrant
           /\ SeenBefore /\ SeenAll /\ Aimed /\ Landed /\ StaysQuiet /\ DataMatchesGtid

LEMMA HeaderIs == ASSUME NEW i PROVE PreviousGtids(i) = Header(logs, lost, i)
BY DEF PreviousGtids, Header

LEMMA GtidInit == Init => GtidInv
<1> SUFFICES ASSUME Init PROVE GtidInv
  OBVIOUS
<1>1. pc = "idle"
  BY DEF Init
<1>2. Whole
  BY InitHistory DEF Whole
<1>3. MasterOriginal
  <2>1. PICK n \in 1..Local : master \in SUBSET ((1..n) \cup Elsewhere)
    BY DEF Init
  <2> QED BY <2>1, RewindAssumption DEF MasterOriginal, Original
<1> QED
  BY <1>1, <1>2, <1>3
  DEF GtidInv, SuspectsAny, Seen, MadeUpIsErrant, SeenBefore, SeenAll, Aimed, Landed,
      StaysQuiet, DataMatchesGtid, Rewound

(* One more entry changes no header there is.                              *)
LEMMA LoggedGrows ==
    ASSUME LogsType, NEW e \in Entries, logs' = Longer(logs, e), lost' = lost
    PROVE  /\ Len(logs') = Len(logs)
           /\ \A f \in 1..Len(logs) : Header(logs', lost', f) = Header(logs, lost, f)
           /\ AllOf(logs', lost') = AllOf(logs, lost) \cup {e.gtid}
<1>1. logs \in Seq(Seq(Entries)) /\ Len(logs) > 0
  BY DEF LogsType
<1>2. Len(Longer(logs, e)) = Len(logs)
  BY <1>1, OneMore DEF Longer
<1>3. /\ \A f \in 1..Len(logs) : Header(Longer(logs, e), lost, f) = Header(logs, lost, f)
      /\ AllOf(Longer(logs, e), lost) = AllOf(logs, lost) \cup {e.gtid}
  BY <1>1, UptoGrows DEF Longer
<1> QED
  BY <1>2, <1>3

LEMMA GtidStep == Reliably /\ TypeInv /\ HistInv /\ GtidInv /\ [Next]_vars => GtidInv'
<1> SUFFICES ASSUME Reliably, TypeInv, HistInv, GtidInv, [Next]_vars PROVE GtidInv'
  OBVIOUS
<1>m. MasterOriginal
  BY DEF GtidInv
<1>i. Local \in Nat /\ localSeen \subseteq Int /\ master \subseteq Int
  BY RewindAssumption DEF TypeInv, SetsType, WorldType
<1>q. pc \notin Places => ~(pc = "reset")
  BY DEF Places
<1>1. CASE LocalWrites
  <2> DEFINE t == Len(under) + 1
             e == Entry(t, t, FALSE)
  <2>1. t \in 1..Local
    BY <1>1, RewindAssumption DEF LocalWrites, TypeInv, WorldType
  <2>2. e \in Entries /\ e.gtid = t
    BY <2>1 DEF Entry, Entries
  <2>3. /\ logs' = Longer(logs, e) /\ executed' = executed \cup {t} /\ (~quiet \/ pc \in Prelude)
        /\ UNCHANGED <<lost, quiet, master, pc, script>>
    BY <1>1, RewindAssumption DEF LocalWrites, Longer
  <2> HIDE DEF t, e
  <2>4. LogsType
    BY DEF TypeInv
  <2>5. /\ Len(logs') = Len(logs)
        /\ \A f \in 1..Len(logs) : Header(logs', lost', f) = Header(logs, lost, f)
        /\ AllOf(logs', lost') = AllOf(logs, lost) \cup {t}
    <3>1. lost' = lost /\ logs' = Longer(logs, e)
      BY <2>3
    <3>2. AllOf(logs', lost') = AllOf(logs, lost) \cup {e.gtid}
      BY <2>2, <2>4, <3>1, LoggedGrows
    <3> QED BY <2>2, <2>4, <3>1, <3>2, LoggedGrows
  <2>6. /\ Header(logs', lost', Len(logs')) = Header(logs, lost, Len(logs))
        /\ pc \in {"flushed", "scanning"} =>
             Header(logs', lost', Len(logs') - 1) = Header(logs, lost, Len(logs) - 1)
        /\ pc \in {"found", "projected", "reverting"} =>
             Header(logs', lost', oldest) = Header(logs, lost, oldest)
    <3>1. Len(logs) \in 1..Len(logs)
      BY <2>4 DEF LogsType
    <3>2. pc \in {"found", "projected", "reverting"} => oldest \in 1..Len(logs)
      BY DEF TypeInv, Located, OldestLog
    <3>3. Header(logs', lost', Len(logs') - 1) = Header(logs, lost, Len(logs) - 1)
      <4>1. CASE Len(logs) = 1
        <5>1. Header(logs', lost', 0) = lost' /\ Header(logs, lost, 0) = lost
          BY DEF Header
        <5> QED BY <2>3, <2>5, <4>1, <5>1
      <4>2. CASE Len(logs) # 1
        <5>1. Len(logs) \in Nat
          BY <2>4, LenProperties DEF LogsType
        <5> DEFINE f == Len(logs) - 1
        <5>2. f \in 1..Len(logs)
          <6>1. \A n \in Nat : n \in 1..n /\ n # 1 => n - 1 \in 1..n
            OBVIOUS
          <6> HIDE DEF f
          <6>2. Len(logs) - 1 \in 1..Len(logs)
            BY <3>1, <4>2, <5>1, <6>1
          <6> QED BY <6>2 DEF f
        <5>3. Len(logs') - 1 = f
          BY <2>5
        <5> HIDE DEF f
        <5>4. Header(logs', lost', f) = Header(logs, lost, f)
          BY <2>5, <5>2
        <5> QED BY <5>3, <5>4 DEF f
      <4> QED BY <4>1, <4>2
    <3> QED BY <2>5, <3>1, <3>2, <3>3
  <2>7. Whole' /\ MasterOriginal'
    <3>1. pc # "reset" => executed = AllOf(logs, lost)
      BY DEF GtidInv, Whole
    <3>2. Whole'
      BY <2>3, <2>5, <3>1 DEF Whole
    <3>3. master' = master
      BY <2>3
    <3> QED BY <1>m, <3>2, <3>3 DEF MasterOriginal
  <2>8. SuspectsAny' /\ MadeUpIsErrant' /\ Seen'
    BY <2>3, <2>5, <2>6 DEF GtidInv, SuspectsAny, MadeUpIsErrant, Seen, script
  <2>9. SeenBefore' /\ SeenAll' /\ Aimed'
    BY <2>3, <2>6 DEF GtidInv, SeenBefore, SeenAll, Aimed, script
  <2>10. ~Rewound' /\ pc # "reset"
    BY <2>3 DEF GtidInv, StaysQuiet, Rewound, Prelude, script, TypeInv, PlaceType, Places,
       Reliably, AppliesReliably
  <2> QED
    BY <2>3, <2>7, <2>8, <2>9, <2>10 DEF GtidInv, Landed, StaysQuiet, DataMatchesGtid
<1>2. CASE Prepared
  <2>1. MasterOriginal'
    BY <1>2, <1>m DEF Prepared, script, MasterOriginal, Original
  <2> QED BY <1>2, <1>q, <2>1 DEF Prepared, script, GtidInv, Whole, SuspectsAny, Seen,
      MadeUpIsErrant, SeenBefore, SeenAll, Aimed, Landed, StaysQuiet, DataMatchesGtid, Rewound
<1>3. CASE MasterCommits
  <2>1. MasterOriginal'
    BY <1>3, <1>m, RewindAssumption DEF MasterCommits, MasterOriginal, Original
  <2> QED BY <1>3, <2>1 DEF MasterCommits, server, script, GtidInv, Whole, SuspectsAny, Seen,
      MadeUpIsErrant, SeenBefore, SeenAll, Aimed, Landed, StaysQuiet, DataMatchesGtid, Rewound
<1>4. CASE Killed
  <2>1. pc # "reset"
    BY <1>4 DEF Killed, Reliably
  <2> QED BY <1>4, <1>m, <2>1 DEF Killed, server, script, MasterOriginal, GtidInv, Whole,
      SuspectsAny, Seen, MadeUpIsErrant, SeenBefore, SeenAll, Aimed, Landed, StaysQuiet,
      DataMatchesGtid, Rewound
<1>5. CASE Check
  <2>1. pc' \in {"checked", "unfit"} /\ pc # "reset" /\ UNCHANGED <<server, master>>
    BY <1>5, <1>q DEF Check
  <2> QED BY <1>m, <2>1
      DEF server, GtidInv, Whole, MasterOriginal, SuspectsAny, Seen, MadeUpIsErrant,
          SeenBefore, SeenAll, Aimed, Landed, StaysQuiet, DataMatchesGtid, Rewound
<1>6. CASE StopReplica
  <2>1. MasterOriginal'
    BY <1>6, <1>m DEF StopReplica, script, MasterOriginal, Original
  <2> QED BY <1>6, <2>1 DEF StopReplica, script, GtidInv, Whole, SuspectsAny, Seen,
      MadeUpIsErrant, SeenBefore, SeenAll, Aimed, Landed, StaysQuiet, DataMatchesGtid, Rewound
<1>7. CASE MeasureLocal
  <2>1. /\ pc = "stopped" /\ pc' = "measured" /\ localSeen' \in {executed, {}}
        /\ UNCHANGED <<server, master>>
    BY <1>7, AnswersIn DEF MeasureLocal
  <2>2. Header(logs, lost, Len(logs)) \subseteq AllOf(logs, lost)
    BY DEF AllOf, Upto
  <2> QED BY <1>m, <2>1, <2>2 DEF server, MasterOriginal, GtidInv, Whole, SuspectsAny, Seen,
      MadeUpIsErrant, SeenBefore, SeenAll, Aimed, Landed, StaysQuiet, DataMatchesGtid, Rewound
<1>8. CASE CompareWithMaster
  <2>1. PICK masterSeen \in Answers("master", master) :
           /\ errant' \in Answers("errant", localSeen \ masterSeen)
           /\ \E shared \in Answers("shared", SharedGtid(masterSeen)) :
                pc' = IF errant' = {} THEN "no errant"
                      ELSE IF shared = {} THEN "no shared" ELSE "compared"
    BY <1>8 DEF CompareWithMaster
  <2>2. masterSeen \subseteq master
    BY AnswersIn
  <2>3. errant' = {} \/ errant' = localSeen \ masterSeen
    BY <2>1, AnswersIn
  <2>4. pc' \in {"no errant", "no shared", "compared"} /\ (pc' = "compared" => errant' # {})
    BY <2>1
  <2>5. pc = "measured" /\ UNCHANGED <<server, master, localSeen>>
    BY <1>8 DEF CompareWithMaster
  <2>6. MadeUpIsErrant'
    <3>1. \A t \in localSeen : t > Local => t \notin masterSeen
      BY <1>i, <1>m, <2>2 DEF MasterOriginal, Original
    <3> QED BY <2>3, <2>4, <2>5, <3>1 DEF MadeUpIsErrant
  <2>7. Seen'
    BY <2>3, <2>4, <2>5 DEF GtidInv, Seen, server
  <2> QED BY <1>m, <2>4, <2>5, <2>6, <2>7
      DEF server, GtidInv, Whole, MasterOriginal, SuspectsAny, SeenBefore, SeenAll, Aimed,
          Landed, StaysQuiet, DataMatchesGtid, Rewound
<1>9. CASE FlushLogs
  <2>1. /\ pc = "compared" /\ pc' = "flushed" /\ logs' = Append(logs, <<>>)
        /\ UNCHANGED <<executed, data, lost, quiet, master, script>>
    BY <1>9 DEF FlushLogs, Outcomes, Reliably
  <2>2. logs \in Seq(Seq(Entries)) /\ Len(logs) > 0 /\ Len(logs) \in Nat
    BY DEF TypeInv, LogsType
  <2>3. /\ \A f \in 1..Len(logs) : Header(logs', lost, f) = Header(logs, lost, f)
        /\ Header(logs', lost, Len(logs) + 1) = AllOf(logs, lost)
        /\ AllOf(logs', lost) = AllOf(logs, lost)
    BY <2>1, <2>2, UptoFlushed
  <2>4. Len(logs') = Len(logs) + 1
    BY <2>1, <2>2, LogsFlushed
  <2>5. /\ Header(logs', lost', Len(logs')) = AllOf(logs, lost)
        /\ Header(logs', lost', Len(logs') - 1) = Header(logs, lost, Len(logs))
    <3>1. Len(logs) \in 1..Len(logs) /\ Len(logs) + 1 - 1 = Len(logs)
      BY <2>2
    <3> QED BY <2>1, <2>3, <2>4, <3>1
  <2>6. SeenBefore'
    BY <2>1, <2>5 DEF GtidInv, Seen, SeenBefore, script
  <2>7. Whole'
    BY <2>1, <2>3 DEF GtidInv, Whole
  <2> QED BY <1>m, <2>1, <2>6, <2>7
      DEF script, GtidInv, MasterOriginal, SuspectsAny, Seen, MadeUpIsErrant, SeenAll, Aimed,
          Landed, StaysQuiet, DataMatchesGtid, Rewound
<1>10. CASE ScanNewest
  <2>1. /\ pc = "flushed" /\ pc' \in {"scanning", "not current"}
        /\ UNCHANGED <<server, master, localSeen, errant>>
    BY <1>10 DEF ScanNewest
  <2>2. previous' = Header(logs, lost, Len(logs))
    BY <1>10, HeaderIs DEF ScanNewest, Answers, Outcomes, Reliably
  <2> QED BY <1>m, <2>1, <2>2 DEF server, MasterOriginal, GtidInv, Whole, SuspectsAny, Seen,
      MadeUpIsErrant, SeenBefore, SeenAll, Aimed, Landed, StaysQuiet, DataMatchesGtid, Rewound
<1>11. CASE Scan
  <2>1. /\ pc = "scanning" /\ at > 1 /\ oldest' = at - 1 /\ pc' \in {"found", "scanning"}
        /\ UNCHANGED <<server, master, localSeen, errant, previous>>
    BY <1>11 DEF Scan
  <2> DEFINE header == Header(logs, lost, at - 1)
  <2>2. /\ reverted' = previous \ header
        /\ \E subtract \in Answers("subtract", errant \ header) :
             pc' = IF ReachesBack(at - 1, subtract) THEN "found" ELSE "scanning"
    <3>1. "previous" \notin Failing /\ "reverted" \notin Failing
      BY DEF Reliably
    <3>2. PreviousGtids(at - 1) = header
      BY HeaderIs
    <3> QED BY <1>11, <3>1, <3>2 DEF Scan, Answers, Outcomes
  <2>3. at \in 1..Len(logs) /\ Len(logs) \in Nat
    BY <2>1 DEF TypeInv, LogsType, Located, AtLog
  <2>4. header \subseteq Header(logs, lost, Len(logs) - 1)
    <3>1. at - 1 \in Int /\ Len(logs) - 1 \in Int /\ at - 1 <= Len(logs) - 1
      BY <2>3
    <3> QED BY <3>1, HeadersGrow
  <2> HIDE DEF header
  <2>5. header \subseteq localSeen /\ localSeen \subseteq previous
    BY <2>1, <2>4 DEF GtidInv, SeenBefore, SeenAll
  <2>6. localSeen \ reverted' = header
    BY <2>2, <2>5
  <2>7. pc' = "found" => Original(header)
    <3> SUFFICES ASSUME pc' = "found" PROVE Original(header)
      OBVIOUS
    <3>1. PICK subtract \in Answers("subtract", errant \ header) : subtract = errant
      BY <2>2 DEF ReachesBack
    <3>2. errant # {} /\ subtract \in {errant \ header, {}}
      BY <2>1, <3>1, AnswersIn DEF GtidInv, SuspectsAny
    <3>3. errant \cap header = {}
      BY <3>1, <3>2
    <3> QED BY <1>i, <2>1, <2>5, <3>3 DEF GtidInv, MadeUpIsErrant, Original
  <2>8. Aimed'
    BY <2>1, <2>6, <2>7 DEF Aimed, header, server
  <2> QED BY <1>m, <2>1, <2>8
      DEF server, GtidInv, Whole, MasterOriginal, SuspectsAny, Seen, MadeUpIsErrant, SeenBefore,
          SeenAll, Landed, StaysQuiet, DataMatchesGtid, Rewound
<1>12. CASE ScanEnds
  <2>1. MasterOriginal'
    BY <1>12, <1>m DEF ScanEnds, server, script, MasterOriginal, Original
  <2> QED BY <1>12, <2>1 DEF ScanEnds, server, script, GtidInv, Whole, SuspectsAny, Seen,
      MadeUpIsErrant, SeenBefore, SeenAll, Aimed, Landed, StaysQuiet, DataMatchesGtid, Rewound
<1>13. CASE Project
  <2>1. /\ pc = "found" /\ pc' = "projected" /\ projected' = localSeen \ reverted
        /\ UNCHANGED <<server, master, oldest>>
    BY <1>13 DEF Project, Projection, Answers, Outcomes, Reliably
  <2> QED BY <1>m, <2>1 DEF server, MasterOriginal, GtidInv, Whole, SuspectsAny, Seen,
      MadeUpIsErrant, SeenBefore, SeenAll, Aimed, Landed, StaysQuiet, DataMatchesGtid, Rewound
<1>14. CASE Generate
  <2>1. MasterOriginal'
    BY <1>14, <1>m DEF Generate, server, MasterOriginal, Original
  <2> QED BY <1>14, <2>1 DEF Generate, server, GtidInv, Whole, SuspectsAny, Seen,
      MadeUpIsErrant, SeenBefore, SeenAll, Aimed, Landed, StaysQuiet, DataMatchesGtid, Rewound
<1>15. CASE Apply
  <2> DEFINE gtid == Local + minted + 1
             new == Entry(gtid, Head(flashback).tx, Head(flashback).undo)
  <2>1. /\ pc = "reverting" /\ logs' = Longer(logs, new) /\ executed' = executed \cup {gtid}
        /\ UNCHANGED <<lost, quiet, master, pc, localSeen, errant, reverted, oldest, projected>>
    BY <1>15 DEF Apply, Longer
  <2>2. new \in Entries /\ new.gtid = gtid
    <3>1. Head(flashback) \in Entries
      BY <1>15, HeadTailProperties DEF Apply, TypeInv, FileType
    <3>2. Head(flashback).tx \in 1..Local /\ Head(flashback).undo \in BOOLEAN
      BY <3>1 DEF Entries
    <3>3. gtid \in Int
      BY RewindAssumption DEF TypeInv, CountsType
    <3> HIDE DEF gtid
    <3> QED BY <3>2, <3>3 DEF Entry, Entries
  <2> HIDE DEF gtid, new
  <2>3. LogsType
    BY DEF TypeInv
  <2>4. /\ Len(logs') = Len(logs)
        /\ \A f \in 1..Len(logs) : Header(logs', lost', f) = Header(logs, lost, f)
        /\ AllOf(logs', lost') = AllOf(logs, lost) \cup {gtid}
    BY <2>1, <2>2, <2>3, LoggedGrows
  <2>5. Header(logs', lost', oldest) = Header(logs, lost, oldest)
    <3>1. oldest \in 1..Len(logs)
      BY <2>1 DEF TypeInv, Located, OldestLog
    <3> QED BY <2>4, <3>1
  <2>6. Whole' /\ Aimed'
    BY <2>1, <2>4, <2>5 DEF GtidInv, Whole, Aimed
  <2> QED BY <1>m, <2>1, <2>6
      DEF GtidInv, MasterOriginal, SuspectsAny, Seen, MadeUpIsErrant, SeenBefore,
          SeenAll, Landed, StaysQuiet, DataMatchesGtid, Rewound
<1>16. CASE NotResetting
  <2>1. MasterOriginal'
    BY <1>16, <1>m DEF NotResetting, server, script, Reverted, MasterOriginal, Original
  <2> QED BY <1>16, <2>1 DEF NotResetting, server, script, Reverted, GtidInv, Whole,
      SuspectsAny, Seen, MadeUpIsErrant, SeenBefore, SeenAll, Aimed, Landed, StaysQuiet,
      DataMatchesGtid, Rewound
<1>17. CASE ResetMaster
  <2>1. /\ pc = "reverting" /\ flashback = <<>> /\ at = oldest /\ execute /\ pc' = "reset"
        /\ executed' = {} /\ UNCHANGED <<data, master, projected>>
    BY <1>17 DEF ResetMaster, Reverted, Reliably, script
  <2>2. PICK st : Chain(st)
    BY DEF HistInv
  <2>3. at \in 1..Len(logs) /\ st[<<at, 0>>] = data
    <3>1. Len(flashback) = 0
      BY <2>1
    <3>2. at \in 1..Len(logs)
      BY <2>1 DEF TypeInv, Located, OldestLog
    <3> QED BY <2>1, <2>2, <3>1, <3>2 DEF Chain, Walks
  <2>4. Upto(logs, lost, at, 0) = Header(logs, lost, at)
    <3>1. 1..0 = {}
      OBVIOUS
    <3> QED BY <3>1 DEF Upto
  <2>5. Original(Header(logs, lost, at)) /\ projected = Header(logs, lost, at)
    BY <2>1 DEF GtidInv, Aimed
  <2>6. st[<<at, 0>>] = Upto(logs, lost, at, 0)
    <3>1. Matched(logs, lost, st)
      BY <2>1, <2>2 DEF Chain
    <3>2. 0 \in 0..Len(logs[at])
      <4>1. logs[at] \in Seq(Entries)
        BY <2>3, ElementOfSeq DEF TypeInv, LogsType
      <4> QED BY <4>1
    <3> QED BY <2>3, <2>4, <2>5, <3>1, <3>2 DEF Matched
  <2>7. Landed'
    BY <2>1, <2>3, <2>4, <2>5, <2>6 DEF Landed
  <2> QED BY <1>m, <2>1, <2>7
      DEF GtidInv, Whole, MasterOriginal, SuspectsAny, Seen, MadeUpIsErrant, SeenBefore,
          SeenAll, Aimed, StaysQuiet, DataMatchesGtid, Rewound
<1>18. CASE SetPurged
  <2>1. /\ pc = "reset" /\ pc' = "purged" /\ executed' = projected /\ lost' = projected
        /\ logs' = <<<<>>>> /\ UNCHANGED <<data, quiet, master>>
    BY <1>18 DEF SetPurged, HistInv, Emptied, GtidInv, Landed, Reliably
  <2>2. AllOf(logs', lost') = projected
    BY <2>1, MatchedReset
  <2>3. projected = data
    BY <2>1 DEF GtidInv, Landed
  <2>4. quiet'
    BY <2>1 DEF TypeInv, PlaceType, Places, Reliably, AppliesReliably
  <2> QED BY <1>m, <2>1, <2>2, <2>3, <2>4 DEF MasterOriginal, GtidInv, Whole, SuspectsAny, Seen,
      MadeUpIsErrant, SeenBefore, SeenAll, Aimed, Landed, StaysQuiet, DataMatchesGtid, Rewound
<1>19. CASE ChangeMaster
  <2>1. MasterOriginal'
    BY <1>19, <1>m DEF ChangeMaster, server, script, MasterOriginal, Original
  <2> QED BY <1>19, <2>1 DEF ChangeMaster, server, script, GtidInv, Whole, SuspectsAny, Seen,
      MadeUpIsErrant, SeenBefore, SeenAll, Aimed, Landed, StaysQuiet, DataMatchesGtid, Rewound
<1>20. CASE StartReplica
  <2>1. MasterOriginal'
    BY <1>20, <1>m DEF StartReplica, script, MasterOriginal, Original
  <2> QED BY <1>20, <2>1 DEF StartReplica, script, GtidInv, Whole, SuspectsAny, Seen,
      MadeUpIsErrant, SeenBefore, SeenAll, Aimed, Landed, StaysQuiet, DataMatchesGtid, Rewound
<1>21. CASE UNCHANGED vars
  <2>1. MasterOriginal'
    BY <1>21, <1>m DEF vars, server, script, MasterOriginal, Original
  <2> QED BY <1>21, <2>1 DEF vars, server, script, GtidInv, Whole, SuspectsAny, Seen,
      MadeUpIsErrant, SeenBefore, SeenAll, Aimed, Landed, StaysQuiet, DataMatchesGtid, Rewound
<1> QED
  BY <1>1, <1>2, <1>3, <1>4, <1>5, <1>6, <1>7, <1>8, <1>9, <1>10, <1>11, <1>12, <1>13,
     <1>14, <1>15, <1>16, <1>17, <1>18, <1>19, <1>20, <1>21 DEF Next

LEMMA RewindsInPlace ==
    AppliesReliably =>
        (Spec => [](AppliesInPlace /\ (Reliably => DataMatchesGtid)))
<1> SUFFICES ASSUME AppliesReliably
             PROVE  Spec => [](AppliesInPlace /\ (Reliably => DataMatchesGtid))
  OBVIOUS
<1> DEFINE Inv == TypeInv /\ HistInv /\ (Reliably => GtidInv)
<1>1. Init => Inv
  BY TypeInit, HistoryInit, GtidInit
<1>2. Inv /\ [Next]_vars => Inv'
  <2> SUFFICES ASSUME Inv, [Next]_vars PROVE Inv'
    OBVIOUS
  <2>1. TypeInv'
    BY TypeStep
  <2>2. HistInv'
    BY HistoryStep DEF GtidInv
  <2>3. (Reliably => GtidInv)'
    BY GtidStep
  <2> QED BY <2>1, <2>2, <2>3
<1>3. Inv => AppliesInPlace /\ (Reliably => DataMatchesGtid)
  BY DEF HistInv, GtidInv
<1> QED  BY <1>1, <1>2, <1>3, PTL DEF Spec

(* Unless a failed query hid that somebody still writes, or mysqlbinlog    *)
(* failed to write a flashback, every transaction of it meets the data it  *)
(* was made for: for any history, any spread of it over the logs, any      *)
(* kills and reruns, and any writes until the first of them.               *)
THEOREM FlashbacksInPlace == AppliesReliably => (Spec => []AppliesInPlace)
<1> SUFFICES ASSUME AppliesReliably
             PROVE  Spec => []AppliesInPlace
  OBVIOUS
<1>1. Spec => [](AppliesInPlace /\ (Reliably => DataMatchesGtid))
  BY RewindsInPlace
<1> QED  BY <1>1, PTL

(* gtid_purged says what is in the tables of the rewound server, unless a  *)
(* command that it or the flashbacks rest on failed, reset master and its  *)
(* own setting among them, or the script died between these two.           *)
THEOREM RewoundAsPurged == Reliably => (Spec => []DataMatchesGtid)
<1> SUFFICES ASSUME Reliably
             PROVE  Spec => []DataMatchesGtid
  OBVIOUS
<1>1. AppliesReliably
  BY DEF Reliably
<1>2. Spec => [](AppliesInPlace /\ (Reliably => DataMatchesGtid))
  BY <1>1, RewindsInPlace
<1>3. AppliesInPlace /\ (Reliably => DataMatchesGtid) => DataMatchesGtid
  OBVIOUS
<1> QED  BY <1>2, <1>3, PTL
=============================================================================
