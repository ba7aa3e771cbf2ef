---------------------------- MODULE SystemUpdate ----------------------------
(***************************************************************************)
(* Online update, rollback and restart of the gateway's executable and of  *)
(* the web assets beside it.  Each of the two lives at a path with a       *)
(* backup and a swap path next to it; a release is unpacked in a temporary *)
(* directory.  An operation moves them one file operation at a time and    *)
(* undoes what it did when one fails.  Its outcome goes to a state file,   *)
(* and a lock file, which a crash leaves behind, keeps other operations    *)
(* out until it is 30 minutes old.                                         *)
(*                                                                         *)
(* A file is the version it came with.  The process may be killed between  *)
(* any two file operations, and while a file is copied across devices.     *)
(***************************************************************************)
EXTENDS Naturals

CONSTANTS
    MaxVersion,   \* releases are numbered from 1, the one installed first
    Webless,      \* releases without web assets
    MaxFaults,    \* bound on failing file operations
    MaxCrashes    \* bound on killed processes

ASSUME UpdateAssumption ==
    /\ MaxVersion \in Nat \ {0}
    /\ Webless \subseteq 1 .. MaxVersion
    /\ MaxFaults \in Nat /\ MaxCrashes \in Nat

VARIABLES
    files,       \* the files: executable ("bin") and web assets at their four paths
    record,      \* the state file
    lock,        \* the lock file: free, fresh, or stale (older than 30 minutes)
    running,     \* version of the process, 0 when there is none
    pc,          \* the next step of the operation under way
    op,          \* its locals
    restarting,  \* a restart has been accepted (RestartGuard)
    cancelled,   \* the host's cancellation token
    faults, crashes,
    (* history *)
    before,      \* the files when the operation began
    lost         \* an operation was killed, or its outcome was not recorded

vars == <<files, record, lock, running, pc, op, restarting, cancelled, faults, crashes, before, lost>>

Objects == {"bin", "web"}   \* the executable, the web assets
Versions == 1 .. MaxVersion
Absent == 0
Broken == MaxVersion + 1   \* part of a copy or of a removed directory
Contents == {Absent, Broken} \cup Versions

NoOperation == [kind |-> "none", target |-> 0, ok |-> TRUE, web |-> FALSE, swaps |-> "bin"]

Init ==
    /\ files = [o \in Objects |-> [cur |-> 1, bak |-> Absent, swp |-> Absent, tmp |-> Absent]]
    /\ record = [cur |-> 0, prev |-> 0, status |-> "idle"]
    /\ lock = "free" /\ running = 1 /\ pc = "idle" /\ op = NoOperation
    /\ restarting = FALSE /\ cancelled = FALSE
    /\ faults = 0 /\ crashes = 0
    /\ before = files /\ lost = FALSE

-----------------------------------------------------------------------------
(* File operations.  Each goes on to one step when it succeeds and, with    *)
(* the operation failed, to another when it does not.                       *)

Fault == faults < MaxFaults /\ faults' = faults + 1
Then(step) == pc' = step /\ UNCHANGED op
Else(step) == pc' = step /\ op' = [op EXCEPT !.ok = FALSE]
OnlyFiles == UNCHANGED <<record, lock, running, restarting, cancelled, crashes, before, lost>>

(* Between the paths of one object, which are in one directory: a rename. *)
Move(o, from, to, then, else) ==
    /\ \/ /\ files[o][from] # Absent
          /\ files' = [files EXCEPT ![o][to] = files[o][from], ![o][from] = Absent]
          /\ Then(then) /\ UNCHANGED faults
       \/ files[o][from] = Absent /\ Else(else) /\ UNCHANGED <<files, faults>>
       \/ Fault /\ Else(else) /\ UNCHANGED files
    /\ OnlyFiles

(* From the temporary directory: possibly a copy, whose source may then     *)
(* fail to be removed.                                                      *)
Install(o, then, else) ==
    /\ \/ /\ files' = [files EXCEPT ![o].cur = files[o].tmp, ![o].tmp = Absent]
          /\ Then(then) /\ UNCHANGED faults
       \/ /\ files' \in {files, [files EXCEPT ![o].cur = files[o].tmp]}
          /\ Fault /\ Else(else)
    /\ OnlyFiles

(* A directory that cannot be removed may have lost a part. *)
Remove(o, path, then, else) ==
    /\ \/ /\ files' = [files EXCEPT ![o][path] = Absent]
          /\ Then(then) /\ UNCHANGED faults
       \/ /\ files[o][path] # Absent /\ Fault /\ Else(else)
          /\ files' \in {files} \cup
                (IF o = "web" THEN {[files EXCEPT ![o][path] = Broken]} ELSE {})
    /\ OnlyFiles

-----------------------------------------------------------------------------
(* Beginning an operation.                                                  *)

(* lock_operation, and the lock file, free or taken over when stale. *)
MayOperate == running # 0 /\ pc = "idle" /\ ~restarting /\ ~cancelled /\ lock # "fresh"

(* read_status *)
NeedRestart == record.status = "succeeded" /\ record.cur # 0 /\ record.cur # running

(* set_running *)
Running == [record EXCEPT !.status = "running", !.cur = IF @ = 0 THEN running ELSE @]

Begin(kind, target, step) ==
    \/ /\ record' = Running
       /\ lock' = "fresh" /\ pc' = step
       /\ op' = [NoOperation EXCEPT !.kind = kind, !.target = target]
       /\ before' = files
       /\ UNCHANGED faults
    \/ /\ Fault /\ lock' = "free"       \* the state file cannot be written
       /\ UNCHANGED <<record, pc, op, before>>

StartUpdate(v) ==
    /\ MayOperate /\ v > running /\ ~NeedRestart
    /\ Begin("update", v, "download")
    /\ UNCHANGED <<files, running, restarting, cancelled, crashes, lost>>

(* Refused until the restart; a stale lock has been replaced and dropped. *)
RefuseUpdate ==
    /\ MayOperate /\ NeedRestart /\ lock = "stale"
    /\ lock' = "free"
    /\ UNCHANGED <<files, record, running, pc, op, restarting, cancelled, faults, crashes, before, lost>>

StartRollback ==
    /\ MayOperate
    /\ Begin("rollback", 0, "rollback")
    /\ UNCHANGED <<files, running, restarting, cancelled, crashes, lost>>

-----------------------------------------------------------------------------
(* Update: perform_update_inner, then replace_release_files.                *)

(* The only awaits are here: a network failure or the host's cancellation.  *)
Download ==
    /\ pc = "download"
    /\ \/ /\ ~cancelled
          /\ LET web == op.target \notin Webless IN
                /\ files' = [o \in Objects |-> [files[o] EXCEPT !.tmp =
                                  IF o = "bin" \/ web THEN op.target ELSE Absent]]
                /\ op' = [op EXCEPT !.web = web]
                /\ pc' = IF web THEN "webClear" ELSE "binClear"
       \/ Else("finish") /\ UNCHANGED files
    /\ UNCHANGED faults /\ OnlyFiles

WebClear == pc = "webClear" /\ Remove("web", "bak", "webBackup", "finish")

WebBackup ==
    /\ pc = "webBackup"
    /\ \/ files.web.cur # Absent /\ Move("web", "cur", "bak", "webInstall", "finish")
       \/ files.web.cur = Absent /\ Then("webInstall") /\ UNCHANGED <<files, faults>> /\ OnlyFiles

WebInstall ==
    /\ pc = "webInstall"
    /\ Install("web", "binClear", IF files.web.bak # Absent THEN "webUndo" ELSE "finish")

(* MUTANT: the web assets stay when the executable cannot be replaced *)
UndoNothing == "finish"

(* What is left to undo once the executable is as it was. *)
Undo == IF op.web THEN "webUndo" ELSE "finish"

BinClear == pc = "binClear" /\ Remove("bin", "bak", "binBackup", Undo)
BinBackup == pc = "binBackup" /\ Move("bin", "cur", "bak", "binInstall", Undo)
BinInstall == pc = "binInstall" /\ Install("bin", "finish", "binUndoClear")

(* MUTANT: the backup is removed instead of the partial replacement *)
UndoClearsBackup == pc = "binUndoClear" /\ Remove("bin", "bak", "binUndo", "binUndo")

BinUndoClear == pc = "binUndoClear" /\ Remove("bin", "cur", "binUndo", "binUndo")
BinUndo == pc = "binUndo" /\ Move("bin", "bak", "cur", Undo, Undo)

(* restore_dir *)
WebUndo == pc = "webUndo" /\ Remove("web", "cur", "webRestore", "finish")
WebRestore ==
    /\ pc = "webRestore"
    /\ \/ files.web.bak # Absent /\ Move("web", "bak", "cur", "finish", "finish")
       \/ files.web.bak = Absent /\ Then("finish") /\ UNCHANGED <<files, faults>> /\ OnlyFiles

-----------------------------------------------------------------------------
(* Rollback: rollback_release exchanges the executable with its backup,     *)
(* then the web assets, then, if those failed, the executable once more.    *)

Swapped == IF op.swaps = "web" THEN "web" ELSE "bin"

Rollback ==
    /\ pc = "rollback"
    /\ IF files.bin.bak = Absent THEN Else("finish") ELSE Then("swapClear")
    /\ UNCHANGED <<files, faults>> /\ OnlyFiles

(* swap_file, swap_dir *)
SwapClear ==
    /\ pc = "swapClear"
    /\ \/ files[Swapped].cur # Absent /\ Remove(Swapped, "swp", "swapOut", "swapFailed")
       \/ /\ files[Swapped].cur = Absent
          /\ Else("swapFailed") /\ UNCHANGED <<files, faults>> /\ OnlyFiles

(* swap_paths *)
SwapOut == pc = "swapOut" /\ Move(Swapped, "cur", "swp", "swapIn", "swapFailed")
SwapIn == pc = "swapIn" /\ Move(Swapped, "bak", "cur", "swapBack", "swapUndo")
SwapBack == pc = "swapBack" /\ Move(Swapped, "swp", "bak", "swapDone", "swapBackUndo")
SwapBackUndo == pc = "swapBackUndo" /\ Move(Swapped, "cur", "bak", "swapUndo", "swapFailed")
SwapUndo == pc = "swapUndo" /\ Move(Swapped, "swp", "cur", "swapFailed", "swapFailed")

SwapEnds ==
    /\ pc \in {"swapDone", "swapFailed"}
    /\ \/ /\ op.swaps = "bin" /\ pc = "swapDone" /\ files.web.bak # Absent
          /\ pc' = "swapClear" /\ op' = [op EXCEPT !.swaps = "web"]
       \/ /\ op.swaps = "web" /\ pc = "swapFailed"
          /\ pc' = "swapClear" /\ op' = [op EXCEPT !.swaps = "undo"]
       \/ /\ \/ op.swaps = "bin" /\ (pc = "swapFailed" \/ files.web.bak = Absent)
             \/ op.swaps = "web" /\ pc = "swapDone"
             \/ op.swaps = "undo"
          /\ Then("finish")
    /\ UNCHANGED <<files, faults>> /\ OnlyFiles

-----------------------------------------------------------------------------
(* The end of an operation.                                                 *)

(* MUTANT: a rollback leaves the versions in the state file *)
RollbackForgotten ==
    IF ~op.ok THEN [record EXCEPT !.status = "failed"]
    ELSE IF op.kind = "update"
    THEN [cur |-> op.target, prev |-> record.cur, status |-> "succeeded"]
    ELSE [record EXCEPT !.status = "succeeded"]

(* finish *)
Finished ==
    IF ~op.ok THEN [record EXCEPT !.status = "failed"]
    ELSE IF op.kind = "update"
    THEN [cur |-> op.target, prev |-> record.cur, status |-> "succeeded"]
    ELSE [cur |-> record.prev, prev |-> record.cur, status |-> "succeeded"]

(* Drop for UpdateTempDir; what a crash leaves of it is never read again. *)
Tidy(fs) == [o \in Objects |-> [fs[o] EXCEPT !.tmp = Absent]]

(* The temporary directory and the lock go with the operation. *)
End ==
    /\ pc' = "idle" /\ op' = NoOperation /\ lock' = "free"
    /\ files' = Tidy(files)

Finish ==
    /\ pc = "finish"
    /\ \/ record' = Finished /\ End /\ UNCHANGED <<faults, lost>>
       \/ /\ op.kind = "rollback" /\ Fault
          /\ End /\ lost' = TRUE /\ UNCHANGED record
       \/ /\ op.kind = "update" /\ Fault
          /\ pc' = "dropped" /\ UNCHANGED <<files, record, lock, op, lost>>
    /\ UNCHANGED <<running, restarting, cancelled, crashes, before>>

(* Drop for UpdateOperation: what was not recorded is recorded as failed. *)
Dropped ==
    /\ pc = "dropped"
    /\ \/ record' = [record EXCEPT !.status = "failed"] /\ UNCHANGED faults
       \/ UNCHANGED record /\ Fault
    /\ lost' = (lost \/ op.ok)
    /\ End
    /\ UNCHANGED <<running, restarting, cancelled, crashes, before>>

(* MUTANT: a stale lock is never taken over by the recovery *)
RecoverNeedsFree ==
    /\ MayOperate /\ record.status = "running" /\ lock = "free"
    /\ record' = [record EXCEPT !.status = "failed"]
    /\ UNCHANGED <<files, lock, running, pc, op, restarting, cancelled, faults, crashes, before, lost>>

(* update_status: recover_interrupted ends what nobody carries out. *)
Recover ==
    /\ MayOperate /\ record.status = "running"
    /\ \/ record' = [record EXCEPT !.status = "failed"] /\ UNCHANGED faults
       \/ UNCHANGED record /\ Fault
    /\ lock' = "free"
    /\ UNCHANGED <<files, running, pc, op, restarting, cancelled, crashes, before, lost>>

-----------------------------------------------------------------------------
(* The process.                                                             *)

(* restart: the lock is kept until the process has ended. *)
Restart ==
    /\ MayOperate /\ files.bin.cur # Absent
    /\ restarting' = TRUE /\ lock' = "fresh"
    /\ UNCHANGED <<files, record, running, pc, op, cancelled, faults, crashes, before, lost>>

Cancel ==
    /\ running # 0 /\ ~cancelled
    /\ cancelled' = TRUE
    /\ UNCHANGED <<files, record, lock, running, pc, op, restarting, faults, crashes, before, lost>>

(* A restart cancels half a second after it was accepted. *)
Exit ==
    /\ running # 0 /\ pc = "idle" /\ (restarting \/ cancelled)
    /\ running' = 0 /\ restarting' = FALSE /\ cancelled' = FALSE
    /\ lock' = IF restarting THEN "free" ELSE lock
    /\ UNCHANGED <<files, record, pc, op, faults, crashes, before, lost>>

(* What a crash leaves: as it was, or with the copy or the removal of a     *)
(* directory under way cut off.                                             *)
Torn ==
    {files} \cup
    CASE pc = "binInstall" -> {[files EXCEPT !.bin.cur = Broken]}
      [] pc \in {"webInstall", "webUndo"} -> {[files EXCEPT !.web.cur = Broken]}
      [] pc = "webClear" -> {[files EXCEPT !.web.bak = Broken]}
      [] pc = "swapClear" /\ Swapped = "web" -> {[files EXCEPT !.web.swp = Broken]}
      [] OTHER -> {}

(* Killed: the lock file stays.  Without an operation under way there may    *)
(* be one as well: of an operation killed before it wrote the state file,   *)
(* or after it had, before it removed the lock.                             *)
Crash ==
    /\ running # 0 /\ crashes < MaxCrashes
    /\ crashes' = crashes + 1
    /\ running' = 0 /\ pc' = "idle" /\ op' = NoOperation
    /\ restarting' = FALSE /\ cancelled' = FALSE
    /\ lost' = (lost \/ pc # "idle")
    /\ \E torn \in Torn : files' = Tidy(torn)
    /\ lock' \in {lock} \cup (IF pc = "idle" THEN {"fresh"} ELSE {})
    /\ UNCHANGED <<record, faults, before>>

Boot ==
    /\ running = 0 /\ files.bin.cur \in Versions
    /\ running' = files.bin.cur
    /\ UNCHANGED <<files, record, lock, pc, op, restarting, cancelled, faults, crashes, before, lost>>

LockAges ==
    /\ lock = "fresh" /\ pc = "idle" /\ ~restarting
    /\ lock' = "stale"
    /\ UNCHANGED <<files, record, running, pc, op, restarting, cancelled, faults, crashes, before, lost>>

Step ==
    \/ Download \/ WebClear \/ WebBackup \/ WebInstall \/ BinClear \/ BinBackup \/ BinInstall
    \/ BinUndoClear \/ BinUndo \/ WebUndo \/ WebRestore
    \/ Rollback \/ SwapClear \/ SwapOut \/ SwapIn \/ SwapBack \/ SwapBackUndo \/ SwapUndo \/ SwapEnds
    \/ Finish \/ Dropped

Next ==
    \/ \E v \in Versions : StartUpdate(v)
    \/ RefuseUpdate \/ StartRollback \/ Step \/ Recover
    \/ Restart \/ Cancel \/ Exit \/ Crash \/ Boot \/ LockAges

Spec == Init /\ [][Next]_vars

(* An operation goes on, a stopped process is started again, time passes,   *)
(* and someone keeps asking for the status.                                 *)
Fairness ==
    /\ WF_vars(Step) /\ WF_vars(Exit) /\ WF_vars(Boot) /\ WF_vars(LockAges)
    /\ SF_vars(Recover)
FairSpec == Spec /\ Fairness

-----------------------------------------------------------------------------
(* Each variable keeps to its domain: paths hold whole releases or the      *)
(* marked remains of one, and an operation is at one of its steps.          *)
Steps ==
    {"idle", "download", "webClear", "webBackup", "webInstall", "webUndo", "webRestore",
     "binClear", "binBackup", "binInstall", "binUndoClear", "binUndo",
     "rollback", "swapClear", "swapOut", "swapIn", "swapBack", "swapBackUndo", "swapUndo",
     "swapDone", "swapFailed", "finish", "dropped"}
TypeOK ==
    /\ files \in [Objects -> [cur : Contents, bak : Contents, swp : Contents, tmp : Contents]]
    /\ record \in [cur : {0} \cup Versions, prev : {0} \cup Versions,
                   status : {"idle", "running", "succeeded", "failed"}]
    /\ lock \in {"free", "fresh", "stale"} /\ running \in {0} \cup Versions
    /\ pc \in Steps
    /\ op \in [kind : {"none", "update", "rollback"}, target : {0} \cup Versions,
               ok : BOOLEAN, web : BOOLEAN, swaps : {"bin", "web", "undo"}]
    /\ restarting \in BOOLEAN /\ cancelled \in BOOLEAN /\ lost \in BOOLEAN
    /\ faults \in 0 .. MaxFaults /\ crashes \in 0 .. MaxCrashes

(* Whatever single file operation fails and whenever the process is killed, *)
(* an intact executable is at its path, its backup or its swap path.        *)
BinaryKept ==
    faults <= 1 => \E path \in {"cur", "bak", "swp"} : files.bin[path] \in Versions

(* The versions in the state file are those of the executable and of its    *)
(* backup whenever an operation succeeded last, as long as no operation was *)
(* killed and no outcome lost.                                              *)
VersionsTruthful ==
    record.status = "succeeded" /\ ~lost /\ faults <= 1 =>
        record.cur = files.bin.cur /\ record.prev = files.bin.bak

(* What a successful operation puts at the path of o. *)
Target(o) ==
    CASE op.kind = "update" -> IF o = "bin" \/ op.web THEN op.target ELSE before[o].cur
      [] op.kind = "rollback" -> IF o = "bin" \/ before[o].bak # Absent THEN before[o].bak ELSE before[o].cur

(* replace_release_files and rollback_release: an operation that began with *)
(* web assets beside the executable leaves both as they were when it fails  *)
(* and both replaced when it succeeds, whichever single file operation      *)
(* fails.                                                                   *)
AllOrNothing ==
    [][pc # "idle" /\ pc' = "idle" /\ running' # 0 /\ faults' <= 1
       /\ before.web.cur # Absent =>
         \A o \in Objects :
            files'[o].cur = IF op.ok THEN Target(o) ELSE before[o].cur]_vars

(* A state file that says running is not left that way: not by a failed     *)
(* write, a shutdown or a crash, unless no executable is left to start.     *)
OperationsSettle ==
    record.status = "running" ~> (record.status # "running" \/ files.bin.cur \notin Versions)
=============================================================================
