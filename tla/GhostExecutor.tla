--------------------------- MODULE GhostExecutor ---------------------------
(***************************************************************************)
(* The utility hosts.  Once a minute cron runs a script on each of them    *)
(* that calls `skeefree -c migration-own` (go/app/cli.go) and, if it owns  *)
(* a migration, runs the gh-ost command it is given.  gh-ost calls hooks,  *)
(* and the startup, status, success and failure hooks call `skeefree -c    *)
(* migration-started|running|complete|failed` with the token.              *)
(*                                                                         *)
(* The script and gh-ost are not part of the repository: what is assumed   *)
(* of them is that a startup hook that fails stops gh-ost before it        *)
(* touches the table, and that the success hook comes after the cut-over.  *)
(* A run of the script, with its gh-ost, is a member of Scripts; whether a *)
(* host runs one at a time is the choice of HostOf.  The token of every    *)
(* run is the host's name.                                                 *)
(***************************************************************************)
EXTENDS MigrationStore

CONSTANTS Scripts, HostOf, SiteOf, NoRow

ASSUME ExecutorAssumption ==
    /\ HostOf \in [Scripts -> Tokens]
    /\ SiteOf \in [Scripts -> Sites]
    /\ NoRow \notin Migrations

VARIABLES
    script      \* per run: its place, the migration it was given, the row its
                \* hook has read, and the status the hook read

HookKinds == {"starting", "beating", "succeeding", "failing"}

ScriptIdle == [pc |-> "idle", mig |-> NoRow, row |-> NoRow, seen |-> "none"]

Places ==
    [pc : {"idle", "checked"}, mig : {NoRow}, row : {NoRow}, seen : {"none"}]
    \cup [pc : {"picked", "updated", "launched", "copying", "cutover", "broken"},
          mig : Migrations, row : {NoRow}, seen : {"none"}]
    \cup [pc : HookKinds, mig : Migrations, row : Migrations, seen : {"ready", "running"}]

ExecutorTypeOK == script \in [Scripts -> Places]

ExecutorInit == script = [c \in Scripts |-> ScriptIdle]

token(c) == HostOf[c]

Goto(c, pc) == script' = [script EXCEPT ![c] =
                            [@ EXCEPT !.pc = pc, !.row = NoRow, !.seen = "none"]]
Quit(c) == script' = [script EXCEPT ![c] = ScriptIdle]

-----------------------------------------------------------------------------
(* handleMigrationOwnCommand *)

(* Fault: the host's earlier migration is not looked for.                  *)
CheckNothing(c) ==
    /\ script[c].pc = "idle"
    /\ Goto(c, "checked")
    /\ UNCHANGED <<mig, pr, applied>>

(* "no existing migration for this token"                                  *)
CheckToken(c) ==
    /\ script[c].pc = "idle"
    /\ ByToken(token(c)) = {}
    /\ Goto(c, "checked")
    /\ UNCHANGED <<mig, pr, applied>>

(* pickMigration picks at random among the ready rows.                     *)
Pick(c) ==
    /\ script[c].pc = "checked"
    /\ \E m \in GhostReady(SiteOf[c]) :
         script' = [script EXCEPT ![c] = [@ EXCEPT !.pc = "picked", !.mig = m]]
    /\ UNCHANGED <<mig, pr, applied>>

NothingReady(c) ==
    /\ script[c].pc = "checked"
    /\ GhostReady(SiteOf[c]) = {}
    /\ Quit(c)
    /\ UNCHANGED <<mig, pr, applied>>

Own(c) ==
    /\ script[c].pc = "picked"
    /\ mig' = OwnMigration(script[c].mig, token(c))
    /\ Goto(c, "updated")
    /\ UNCHANGED <<pr, applied>>

(* The row handed to gh-ost is the one read back by token.                 *)
Launch(c) ==
    /\ script[c].pc = "updated"
    /\ \E m \in FirstOf(ByToken(token(c))) :
         script' = [script EXCEPT ![c] = [@ EXCEPT !.pc = "launched", !.mig = m]]
    /\ UNCHANGED <<mig, pr, applied>>

NotOwned(c) ==
    /\ script[c].pc = "updated"
    /\ ByToken(token(c)) = {}
    /\ Quit(c)
    /\ UNCHANGED <<mig, pr, applied>>

-----------------------------------------------------------------------------
(* updateMigrationStatus: a hook reads its row by token, checks the status *)
(* it read, and later writes under the guard of that status.               *)

(* Fault: the status that was read is not looked at.                       *)
OriginsAny(kind) == Statuses

Origins(kind) == CASE kind = "succeeding" -> {"running"}
                   [] OTHER               -> {"ready", "running"}
Target(kind)  == CASE kind = "succeeding" -> "complete"
                   [] kind = "failing"    -> "failed"
                   [] OTHER               -> "running"

HookFinds(c, kind) == {m \in FirstOf(ByToken(token(c))) : mig[m].status \in Origins(kind)}

HookReads(c, kind) ==
    /\ \E m \in HookFinds(c, kind) :
         script' = [script EXCEPT ![c] =
                      [@ EXCEPT !.pc = kind, !.row = m, !.seen = mig[m].status]]
    /\ UNCHANGED <<mig, pr, applied>>

(* No such token, or a status the update does not start from.              *)
HookRefused(c, kind) == HookFinds(c, kind) = {}

HookWrite(c, kind) ==
    UpdateMigrationStatus(script[c].row, script[c].seen, Target(kind),
                          mig[script[c].row].strategy)

HookWrites(c, kind) ==
    /\ script[c].pc = kind
    /\ mig[script[c].row].status = script[c].seen
    /\ mig' = HookWrite(c, kind)
    /\ UNCHANGED <<pr, applied>>

(* "No rows affected in updating migration status" *)
HookMisses(c, kind) ==
    /\ script[c].pc = kind
    /\ mig[script[c].row].status # script[c].seen

-----------------------------------------------------------------------------
(* gh-ost and its hooks *)

StartupHookReads(c) == script[c].pc = "launched" /\ HookReads(c, "starting")
StartupHookWrites(c) == HookWrites(c, "starting") /\ Goto(c, "copying")
StartupHookFails(c) ==
    /\ \/ script[c].pc = "launched" /\ HookRefused(c, "starting")
       \/ HookMisses(c, "starting")
    /\ Quit(c)
    /\ UNCHANGED <<mig, pr, applied>>

StatusHookReads(c) == script[c].pc = "copying" /\ HookReads(c, "beating")
StatusHookWrites(c) == HookWrites(c, "beating") /\ Goto(c, "copying")
StatusHookFails(c) ==
    /\ HookMisses(c, "beating")
    /\ Goto(c, "copying")
    /\ UNCHANGED <<mig, pr, applied>>

CutOver(c) ==
    /\ script[c].pc = "copying"
    /\ applied' = applied \cup {script[c].mig}
    /\ Goto(c, "cutover")
    /\ UNCHANGED <<mig, pr>>

SuccessHookReads(c) == script[c].pc = "cutover" /\ HookReads(c, "succeeding")
SuccessHookWrites(c) == HookWrites(c, "succeeding") /\ Quit(c)
SuccessHookFails(c) ==
    /\ \/ script[c].pc = "cutover" /\ HookRefused(c, "succeeding")
       \/ HookMisses(c, "succeeding")
    /\ Quit(c)
    /\ UNCHANGED <<mig, pr, applied>>

GhostBreaks(c) ==
    /\ script[c].pc = "copying"
    /\ Goto(c, "broken")
    /\ UNCHANGED <<mig, pr, applied>>

FailureHookReads(c) == script[c].pc = "broken" /\ HookReads(c, "failing")
FailureHookWrites(c) == HookWrites(c, "failing") /\ Quit(c)
FailureHookFails(c) ==
    /\ \/ script[c].pc = "broken" /\ HookRefused(c, "failing")
       \/ HookMisses(c, "failing")
    /\ Quit(c)
    /\ UNCHANGED <<mig, pr, applied>>

(* The script, gh-ost or the whole host is gone, and calls no hook.        *)
ScriptDies(c) ==
    /\ script[c].pc # "idle"
    /\ Quit(c)
    /\ UNCHANGED <<mig, pr, applied>>

ScriptStep(c) ==
    \/ CheckToken(c) \/ Pick(c) \/ NothingReady(c) \/ Own(c) \/ Launch(c) \/ NotOwned(c)
    \/ StartupHookReads(c) \/ StartupHookWrites(c) \/ StartupHookFails(c)
    \/ StatusHookReads(c) \/ StatusHookWrites(c) \/ StatusHookFails(c)
    \/ CutOver(c) \/ SuccessHookReads(c) \/ SuccessHookWrites(c) \/ SuccessHookFails(c)
    \/ GhostBreaks(c) \/ FailureHookReads(c) \/ FailureHookWrites(c) \/ FailureHookFails(c)
    \/ ScriptDies(c)

ExecutorNext == \E c \in Scripts : ScriptStep(c)
=============================================================================
