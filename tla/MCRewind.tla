------------------------------ MODULE MCRewind ------------------------------
(* Instances of Rewind for TLC: what only the master has, the places up to *)
(* which a session may still be writing, and those where the script dies.  *)
EXTENDS Rewind

OneElsewhere == {-1}

WhileReading == {"stopped", "measured", "compared", "flushed", "scanning", "found",
                 "projected"}

(* Anywhere but between "reset master" and "set gtid_purged": a server     *)
(* left there has data but no GTIDs, and no rerun can tell.                *)
NotInReset == Places \ {"reset"}

(* The script refuses to go on with what it takes for an empty answer, or  *)
(* has nothing more to do.                                                 *)
Harmless == {"replication", "local", "master", "errant", "shared", "start"}
=============================================================================
