------------------------- MODULE SystemUpdateProofs -------------------------
(***************************************************************************)
(* An intact executable survives every update and rollback in which at     *)
(* most one file operation fails, for any number of releases and crashes.  *)
(***************************************************************************)
EXTENDS SystemUpdate, TLAPS

Whole == {Absent} \cup Versions

(* The executable while its paths are exchanged: what a later step will     *)
(* move is there, and compensating steps run only after the one fault.      *)
Exchanging ==
    /\ pc \in {"swapClear", "swapOut"} => files.bin.cur \in Versions /\ files.bin.bak \in Versions
    /\ pc = "swapIn" => files.bin.swp \in Versions /\ files.bin.bak \in Versions
    /\ pc = "swapBack" => files.bin.swp \in Versions /\ files.bin.cur \in Versions
    /\ pc = "swapBackUndo" => faults = 1 /\ files.bin.swp \in Versions /\ files.bin.cur \in Versions
    /\ pc = "swapUndo" => faults = 1 /\ files.bin.swp \in Versions /\ files.bin.bak \in Versions
    /\ pc = "swapDone" => files.bin.cur \in Versions /\ files.bin.bak \in Versions
    /\ pc = "swapFailed" => files.bin.cur \in Versions

Swapping == {"swapClear", "swapOut", "swapIn", "swapBack", "swapBackUndo", "swapUndo", "swapDone", "swapFailed"}
Replacing == {"binInstall", "binUndoClear", "binUndo"}
Unpacked == {"webClear", "webBackup", "webInstall", "binClear", "binBackup", "binInstall"}

(* While the process runs the executable is at its path, except between the *)
(* steps that replace or exchange it.                                       *)
InPlace ==
    /\ pc \notin Swapping \cup Replacing => files.bin.cur \in Versions
    /\ pc \in Replacing => files.bin.bak \in Versions
    /\ pc \in {"binUndoClear", "binUndo"} => faults = 1
    /\ pc = "download" => op.target \in Versions
    /\ pc \in Unpacked => files.bin.tmp \in Versions
    /\ pc \in Swapping /\ op.swaps = "web" => files.bin.cur \in Versions /\ files.bin.bak \in Versions
    /\ pc \in Swapping /\ op.swaps # "web" => Exchanging

Kept ==
    /\ running = 0 => pc = "idle"
    /\ faults <= 1 =>
         /\ files.bin.bak \in Whole
         /\ running = 0 => \E path \in {"cur", "bak", "swp"} : files.bin[path] \in Versions
         /\ running # 0 => InPlace

UpdateInv == TypeOK /\ Kept

-----------------------------------------------------------------------------
(* What is where while an operation is carried out, by what was there when  *)
(* it began.                                                                *)

(* x at the path of o and y at its backup are being exchanged. *)
Undoing == {"swapBackUndo", "swapUndo", "swapFailed"}
Exchange(o, x, y) ==
    /\ x # Absent /\ y # Absent
    /\ pc \in {"swapClear", "swapOut", "swapFailed"} => files[o].cur = x /\ files[o].bak = y
    /\ pc \in {"swapIn", "swapUndo"} => files[o].swp = x /\ files[o].bak = y
    /\ pc \in {"swapBack", "swapBackUndo"} => files[o].swp = x /\ files[o].cur = y
    /\ pc = "swapDone" => files[o].cur = y /\ files[o].bak = x

Untouched(o) == files[o].cur = before[o].cur /\ files[o].bak = before[o].bak

Ended(ok, bin, bak, web) ==
    /\ ok => files.bin.cur = bin /\ files.bin.bak = bak /\ files.web.cur = web
    /\ ~ok => files.bin.cur = before.bin.cur /\ files.bin.bak \in {before.bin.bak, Absent}
              /\ files.web.cur = before.web.cur

WebSteps == {"webClear", "webBackup", "webInstall"}
WebUndoes == {"webUndo", "webRestore"}
BinSteps == {"binClear", "binBackup"}

UpdatingWeb ==
    /\ pc \in {"download", "webClear", "webBackup"} => files.web.cur = before.web.cur
    /\ pc \in WebSteps => op.web /\ files.web.tmp = op.target
    /\ pc = "webInstall" => files.web.bak = before.web.cur
    /\ pc \in BinSteps \cup Replacing =>
          IF op.web THEN files.web.cur = op.target /\ files.web.bak = before.web.cur
          ELSE files.web.cur = before.web.cur
    /\ pc \in WebUndoes => files.web.bak = before.web.cur /\ faults = 1
UpdatingBin ==
    /\ pc \in {"download"} \cup WebSteps \cup BinSteps \cup WebUndoes =>
          files.bin.cur = before.bin.cur /\ files.bin.bak \in {before.bin.bak, Absent}
    /\ pc = "binBackup" => files.bin.bak = Absent
    /\ pc \in Replacing => files.bin.bak = before.bin.cur
    /\ pc \in Unpacked => files.bin.tmp = op.target
Updating ==
    /\ pc \in {"download", "finish", "dropped"} \cup WebSteps \cup WebUndoes \cup BinSteps \cup Replacing
    /\ pc \in {"download"} \cup Unpacked => op.ok
    /\ pc \in {"binUndoClear", "binUndo"} \cup WebUndoes => ~op.ok
    /\ UpdatingWeb /\ UpdatingBin
    /\ pc \in {"finish", "dropped"} =>
          Ended(op.ok, op.target, before.bin.cur, IF op.web THEN op.target ELSE before.web.cur)

RollingBack ==
    /\ pc \in {"rollback", "finish"} \cup Swapping
    /\ pc = "rollback" => op.ok /\ op.swaps = "bin" /\ Untouched("bin") /\ Untouched("web")
    /\ pc \in Undoing => faults = 1 /\ ~op.ok /\ op.swaps # "undo"
    /\ pc \in Swapping \ Undoing => op.ok = (op.swaps # "undo")
    /\ pc \in Swapping /\ op.swaps = "bin" =>
          Exchange("bin", before.bin.cur, before.bin.bak) /\ Untouched("web")
    /\ pc \in Swapping /\ op.swaps = "web" =>
          /\ files.bin.cur = before.bin.bak /\ files.bin.bak = before.bin.cur /\ before.bin.bak # Absent
          /\ Exchange("web", before.web.cur, before.web.bak)
    /\ pc \in Swapping /\ op.swaps = "undo" =>
          /\ faults = 1 /\ files.web.cur = before.web.cur
          /\ Exchange("bin", before.bin.bak, before.bin.cur)
    /\ pc = "finish" =>
          /\ op.ok => before.bin.bak # Absent
          /\ Ended(op.ok, before.bin.bak, before.bin.cur,
                   IF before.web.bak # Absent THEN before.web.bak ELSE before.web.cur)

Exact ==
    faults <= 1 /\ pc # "idle" /\ before.web.cur # Absent =>
        /\ before.bin.cur \in Versions
        /\ \/ op.kind = "update" /\ Updating
           \/ op.kind = "rollback" /\ RollingBack

(* The state file against the files, as long as no outcome was lost. *)
Truthful ==
    faults <= 1 /\ ~lost =>
        /\ pc = "idle" =>
              /\ files.web.cur # Absent
              /\ record.cur \in {0, files.bin.cur} /\ files.bin.bak \in {record.prev, Absent}
              /\ record.cur = 0 => running \in {0, files.bin.cur} /\ record.status # "succeeded"
              /\ record.status = "succeeded" => record.prev = files.bin.bak
        /\ pc # "idle" =>
              /\ before.web.cur # Absent /\ record.status = "running"
              /\ record.cur = before.bin.cur /\ before.bin.bak \in {record.prev, Absent}

-----------------------------------------------------------------------------
LEMMA Numbers ==
    /\ MaxFaults \in Nat /\ MaxCrashes \in Nat /\ MaxVersion \in Nat /\ 1 \in Versions
    /\ Versions \subseteq Nat \ {Absent} /\ Broken \notin Versions
    /\ 0 = Absent /\ Absent \in Contents /\ Broken \in Contents /\ Versions \subseteq Contents
  BY UpdateAssumption DEF Versions, Absent, Broken, Contents

LEMMA NoOperationOK ==
    NoOperation \in [kind : {"none", "update", "rollback"}, target : {0} \cup Versions,
                    ok : BOOLEAN, web : BOOLEAN, swaps : {"bin", "web", "undo"}]
  BY DEF NoOperation

Paths == {"cur", "bak", "swp", "tmp"}

LEMMA TidyOK ==
    ASSUME NEW fs \in [Objects -> [cur : Contents, bak : Contents, swp : Contents, tmp : Contents]]
    PROVE  Tidy(fs) \in [Objects -> [cur : Contents, bak : Contents, swp : Contents, tmp : Contents]]
  BY Numbers DEF Tidy

LEMMA FaultOK == ASSUME TypeOK, Fault PROVE faults' \in 0 .. MaxFaults /\ faults' = faults + 1
  BY Numbers DEF TypeOK, Fault

(* File operations keep the types. *)
LEMMA MoveOK ==
    ASSUME TypeOK, NEW o \in Objects, NEW from \in Paths, NEW to \in Paths,
           NEW then \in Steps, NEW else \in Steps, Move(o, from, to, then, else)
    PROVE  TypeOK'
<1>1. files' \in [Objects -> [cur : Contents, bak : Contents, swp : Contents, tmp : Contents]]
  BY Numbers DEF TypeOK, Move, Paths, Objects
<1>2. faults' \in 0 .. MaxFaults
  BY FaultOK DEF TypeOK, Move
<1>3. pc' \in Steps
  BY DEF Move, Then, Else
<1>4. op' \in [kind : {"none", "update", "rollback"}, target : {0} \cup Versions,
               ok : BOOLEAN, web : BOOLEAN, swaps : {"bin", "web", "undo"}]
  BY DEF TypeOK, Move, Then, Else
<1>5. QED
  BY <1>1, <1>2, <1>3, <1>4 DEF TypeOK, Move, OnlyFiles

LEMMA InstallOK ==
    ASSUME TypeOK, NEW o \in Objects, NEW then \in Steps, NEW else \in Steps, Install(o, then, else)
    PROVE  TypeOK'
<1>1. files' \in [Objects -> [cur : Contents, bak : Contents, swp : Contents, tmp : Contents]]
  BY Numbers DEF TypeOK, Install, Objects
<1>2. faults' \in 0 .. MaxFaults
  BY FaultOK DEF TypeOK, Install
<1>3. pc' \in Steps
  BY DEF Install, Then, Else
<1>4. op' \in [kind : {"none", "update", "rollback"}, target : {0} \cup Versions,
               ok : BOOLEAN, web : BOOLEAN, swaps : {"bin", "web", "undo"}]
  BY DEF TypeOK, Install, Then, Else
<1>5. QED
  BY <1>1, <1>2, <1>3, <1>4 DEF TypeOK, Install, OnlyFiles

LEMMA RemoveOK ==
    ASSUME TypeOK, NEW o \in Objects, NEW path \in Paths,
           NEW then \in Steps, NEW else \in Steps, Remove(o, path, then, else)
    PROVE  TypeOK'
<1>1. files' \in [Objects -> [cur : Contents, bak : Contents, swp : Contents, tmp : Contents]]
  BY Numbers DEF TypeOK, Remove, Paths, Objects
<1>2. faults' \in 0 .. MaxFaults
  BY FaultOK DEF TypeOK, Remove
<1>3. pc' \in Steps
  BY DEF Remove, Then, Else
<1>4. op' \in [kind : {"none", "update", "rollback"}, target : {0} \cup Versions,
               ok : BOOLEAN, web : BOOLEAN, swaps : {"bin", "web", "undo"}]
  BY DEF TypeOK, Remove, Then, Else
<1>5. QED
  BY <1>1, <1>2, <1>3, <1>4 DEF TypeOK, Remove, OnlyFiles

(* Every step of an operation keeps the types. *)
LEMMA StepOK == ASSUME TypeOK, Step PROVE TypeOK'
<1>0. /\ Undo \in Steps /\ Swapped \in Objects
      /\ (IF files.web.bak # Absent THEN "webUndo" ELSE "finish") \in Steps
  BY DEF Undo, Swapped, Steps, Objects
<1>p. "cur" \in Paths /\ "bak" \in Paths /\ "swp" \in Paths /\ "bin" \in Objects /\ "web" \in Objects
  BY DEF Objects, Paths
<1>s. /\ "swapIn" \in Steps /\ "swapBack" \in Steps /\ "swapDone" \in Steps /\ "swapOut" \in Steps
      /\ "swapFailed" \in Steps /\ "swapUndo" \in Steps /\ "swapBackUndo" \in Steps
  BY DEF Steps
<1>t. /\ "binUndo" \in Steps /\ "binInstall" \in Steps /\ "binBackup" \in Steps
      /\ "binUndoClear" \in Steps /\ "binClear" \in Steps
      /\ "webInstall" \in Steps /\ "webBackup" \in Steps /\ "webRestore" \in Steps
      /\ "finish" \in Steps
  BY DEF Steps
<1>1. CASE Download
  <2>1. op.target \in Contents
    BY Numbers DEF TypeOK
  <2>2. files' \in [Objects -> [cur : Contents, bak : Contents, swp : Contents, tmp : Contents]]
    BY <1>1, <2>1, Numbers DEF TypeOK, Download
  <2>3. pc' \in Steps
    BY <1>1 DEF Download, Else, Steps
  <2>4. op' \in [kind : {"none", "update", "rollback"}, target : {0} \cup Versions,
                 ok : BOOLEAN, web : BOOLEAN, swaps : {"bin", "web", "undo"}]
    BY <1>1 DEF TypeOK, Download, Else
  <2>5. QED
    BY <1>1, <2>2, <2>3, <2>4 DEF TypeOK, Download, OnlyFiles
<1>2. CASE WebClear \/ BinClear \/ BinUndoClear \/ WebUndo
  <2>1. CASE WebClear
    BY <1>p, <1>t, <2>1, RemoveOK, Zenon DEF WebClear
  <2>2. CASE BinClear
    BY <1>0, <1>p, <1>t, <2>2, RemoveOK, Zenon DEF BinClear
  <2>3. CASE BinUndoClear
    BY <1>p, <1>t, <2>3, RemoveOK, Zenon DEF BinUndoClear
  <2>4. CASE WebUndo
    BY <1>p, <1>t, <2>4, RemoveOK, Zenon DEF WebUndo
  <2>5. QED
    BY <1>2, <2>1, <2>2, <2>3, <2>4
<1>3. CASE BinBackup \/ BinUndo \/ SwapOut \/ SwapIn \/ SwapBack \/ SwapBackUndo \/ SwapUndo
  <2>1. CASE BinBackup
    BY <1>0, <1>p, <1>t, <2>1, MoveOK, Zenon DEF BinBackup
  <2>2. CASE BinUndo
    BY <1>0, <1>p, <1>t, <2>2, MoveOK, Zenon DEF BinUndo
  <2>3. CASE SwapOut
    BY <1>0, <1>p, <1>s, <2>3, MoveOK, Zenon DEF SwapOut
  <2>4. CASE SwapIn
    BY <1>0, <1>p, <1>s, <2>4, MoveOK, Zenon DEF SwapIn
  <2>5. CASE SwapBack
    BY <1>0, <1>p, <1>s, <2>5, MoveOK, Zenon DEF SwapBack
  <2>6. CASE SwapBackUndo
    BY <1>0, <1>p, <1>s, <2>6, MoveOK, Zenon DEF SwapBackUndo
  <2>7. CASE SwapUndo
    BY <1>0, <1>p, <1>s, <2>7, MoveOK, Zenon DEF SwapUndo
  <2>8. QED
    BY <1>3, <2>1, <2>2, <2>3, <2>4, <2>5, <2>6, <2>7
<1>4. CASE WebInstall \/ BinInstall
  <2>1. CASE WebInstall
    BY <1>0, <1>p, <1>t, <2>1, InstallOK, Zenon DEF WebInstall
  <2>2. CASE BinInstall
    BY <1>0, <1>p, <1>t, <2>2, InstallOK, Zenon DEF BinInstall
  <2>3. QED
    BY <1>4, <2>1, <2>2
<1>5. CASE WebBackup
  <2>1. CASE Move("web", "cur", "bak", "webInstall", "finish")
    BY <1>p, <1>t, <2>1, MoveOK, Zenon
  <2>2. CASE Then("webInstall") /\ UNCHANGED <<files, faults>> /\ OnlyFiles
    BY <2>2 DEF TypeOK, Then, OnlyFiles, Steps
  <2>3. QED
    BY <1>5, <2>1, <2>2 DEF WebBackup
<1>6. CASE WebRestore
  <2>1. CASE Move("web", "bak", "cur", "finish", "finish")
    BY <1>p, <1>t, <2>1, MoveOK, Zenon
  <2>2. CASE Then("finish") /\ UNCHANGED <<files, faults>> /\ OnlyFiles
    BY <2>2 DEF TypeOK, Then, OnlyFiles, Steps
  <2>3. QED
    BY <1>6, <2>1, <2>2 DEF WebRestore
<1>7. CASE Rollback
  <2>1. pc' \in Steps
    BY <1>7 DEF Rollback, Then, Else, Steps
  <2>2. op' \in [kind : {"none", "update", "rollback"}, target : {0} \cup Versions,
                 ok : BOOLEAN, web : BOOLEAN, swaps : {"bin", "web", "undo"}]
    BY <1>7 DEF TypeOK, Rollback, Then, Else
  <2>3. QED
    BY <1>7, <2>1, <2>2 DEF TypeOK, Rollback, OnlyFiles
<1>8. CASE SwapClear
  <2>1. CASE Remove(Swapped, "swp", "swapOut", "swapFailed")
    BY <1>0, <1>p, <1>s, <2>1, RemoveOK, Zenon
  <2>2. CASE Else("swapFailed") /\ UNCHANGED <<files, faults>> /\ OnlyFiles
    <3>1. op' \in [kind : {"none", "update", "rollback"}, target : {0} \cup Versions,
                   ok : BOOLEAN, web : BOOLEAN, swaps : {"bin", "web", "undo"}]
      BY <2>2 DEF TypeOK, Else
    <3>2. pc' \in Steps
      BY <1>s, <2>2 DEF Else
    <3>3. QED
      BY <2>2, <3>1, <3>2 DEF TypeOK, OnlyFiles
  <2>3. QED
    BY <1>8, <2>1, <2>2 DEF SwapClear
<1>9. CASE SwapEnds
  <2>1. op' \in [kind : {"none", "update", "rollback"}, target : {0} \cup Versions,
                 ok : BOOLEAN, web : BOOLEAN, swaps : {"bin", "web", "undo"}]
    BY <1>9 DEF TypeOK, SwapEnds, Then
  <2>2. pc' \in Steps
    BY <1>9 DEF SwapEnds, Then, Steps
  <2>3. QED
    BY <1>9, <2>1, <2>2 DEF TypeOK, SwapEnds, OnlyFiles
<1>10. CASE Finish
  <2>1. Finished \in [cur : {0} \cup Versions, prev : {0} \cup Versions,
                     status : {"idle", "running", "succeeded", "failed"}]
    BY DEF TypeOK, Finished
  <2>2. CASE record' = Finished /\ End /\ UNCHANGED <<faults, lost>>
    <3>1. /\ op' \in [kind : {"none", "update", "rollback"}, target : {0} \cup Versions,
                     ok : BOOLEAN, web : BOOLEAN, swaps : {"bin", "web", "undo"}]
          /\ files' \in [Objects -> [cur : Contents, bak : Contents, swp : Contents, tmp : Contents]]
      BY <2>2, TidyOK, NoOperationOK DEF TypeOK, End
    <3>2. pc' \in Steps /\ lock' \in {"free", "fresh", "stale"}
      BY <2>2 DEF End, Steps
    <3>3. QED
      BY <1>10, <2>1, <2>2, <3>1, <3>2 DEF TypeOK, Finish
  <2>3. CASE op.kind = "rollback" /\ Fault /\ End /\ lost' = TRUE /\ UNCHANGED record
    BY <1>10, <2>3, TidyOK, NoOperationOK, FaultOK DEF TypeOK, Finish, End, Objects, Steps
  <2>4. CASE op.kind = "update" /\ Fault /\ pc' = "dropped" /\ UNCHANGED <<files, record, lock, op, lost>>
    BY <1>10, <2>4, FaultOK DEF TypeOK, Finish, Steps
  <2>5. QED
    BY <1>10, <2>2, <2>3, <2>4 DEF Finish
<1>11. CASE Dropped
  <2>1. faults' \in 0 .. MaxFaults
    BY <1>11, FaultOK DEF TypeOK, Dropped
  <2>2. QED
    BY <1>11, <2>1, TidyOK, NoOperationOK DEF TypeOK, Dropped, End, Objects, Steps
<1>12. QED
  BY <1>1, <1>2, <1>3, <1>4, <1>5, <1>6, <1>7, <1>8, <1>9, <1>10, <1>11 DEF Step

LEMMA BeginOK ==
    ASSUME TypeOK, NEW kind \in {"update", "rollback"}, NEW target \in {0} \cup Versions,
           NEW step \in Steps, Begin(kind, target, step),
           UNCHANGED <<files, running, restarting, cancelled, crashes, lost>>
    PROVE  TypeOK'
<1>1. Running \in [cur : {0} \cup Versions, prev : {0} \cup Versions,
                  status : {"idle", "running", "succeeded", "failed"}]
  BY DEF TypeOK, Running
<1>2. faults' \in 0 .. MaxFaults
  BY FaultOK DEF TypeOK, Begin
<1>3. op' \in [kind : {"none", "update", "rollback"}, target : {0} \cup Versions,
               ok : BOOLEAN, web : BOOLEAN, swaps : {"bin", "web", "undo"}]
  BY DEF TypeOK, Begin, NoOperation
<1>4. QED
  BY <1>1, <1>2, <1>3 DEF TypeOK, Begin

LEMMA TornOK ==
    ASSUME TypeOK, NEW torn \in Torn
    PROVE  torn \in [Objects -> [cur : Contents, bak : Contents, swp : Contents, tmp : Contents]]
  BY Numbers DEF TypeOK, Torn, Objects

(* So do the beginnings and the process. *)
LEMMA TypeStep == ASSUME TypeOK, [Next]_vars PROVE TypeOK'
<1>1. CASE Step
  BY <1>1, StepOK
<1>2. CASE \E v \in Versions : StartUpdate(v)
  BY <1>2, BeginOK DEF StartUpdate, Steps
<1>3. CASE StartRollback
  BY <1>3, BeginOK DEF StartRollback, Steps
<1>4. CASE Recover
  <2>1. faults' \in 0 .. MaxFaults
    BY <1>4, FaultOK DEF TypeOK, Recover
  <2>2. QED
    BY <1>4, <2>1 DEF TypeOK, Recover
<1>5. CASE RefuseUpdate \/ Restart \/ Cancel \/ Exit \/ LockAges
  BY <1>5, Numbers DEF TypeOK, RefuseUpdate, Restart, Cancel, Exit, LockAges
<1>6. CASE Boot
  BY <1>6 DEF TypeOK, Boot
<1>7. CASE Crash
  <2>1. crashes' \in 0 .. MaxCrashes
    BY <1>7, Numbers DEF TypeOK, Crash
  <2>2. files' \in [Objects -> [cur : Contents, bak : Contents, swp : Contents, tmp : Contents]]
    BY <1>7, TornOK, TidyOK DEF Crash
  <2>3. lost' \in BOOLEAN
    BY <1>7 DEF Crash
  <2>4. op' \in [kind : {"none", "update", "rollback"}, target : {0} \cup Versions,
                 ok : BOOLEAN, web : BOOLEAN, swaps : {"bin", "web", "undo"}]
    BY <1>7, NoOperationOK DEF Crash
  <2>5. record' \in [cur : {0} \cup Versions, prev : {0} \cup Versions,
                     status : {"idle", "running", "succeeded", "failed"}]
    BY <1>7 DEF TypeOK, Crash
  <2>6. pc' \in Steps
    BY <1>7 DEF Crash, Steps
  <2>7. /\ lock' \in {"free", "fresh", "stale"} /\ running' \in {0} \cup Versions
        /\ faults' \in 0 .. MaxFaults
    BY <1>7 DEF TypeOK, Crash
  <2>8. restarting' \in BOOLEAN /\ cancelled' \in BOOLEAN
    BY <1>7 DEF Crash
  <2>9. QED
    BY <2>1, <2>2, <2>3, <2>4, <2>5, <2>6, <2>7, <2>8 DEF TypeOK
<1>8. CASE UNCHANGED vars
  BY <1>8 DEF TypeOK, vars
<1>9. QED
  BY <1>1, <1>2, <1>3, <1>4, <1>5, <1>6, <1>7, <1>8 DEF Next

LEMMA InitOK == ASSUME Init PROVE TypeOK
<1>1. files \in [Objects -> [cur : Contents, bak : Contents, swp : Contents, tmp : Contents]]
  BY Numbers DEF Init
<1>2. record \in [cur : {0} \cup Versions, prev : {0} \cup Versions,
                   status : {"idle", "running", "succeeded", "failed"}]
  BY DEF Init
<1>3. faults \in 0 .. MaxFaults /\ crashes \in 0 .. MaxCrashes /\ running \in {0} \cup Versions
  BY Numbers DEF Init
<1>4. QED
  BY <1>1, <1>2, <1>3, NoOperationOK DEF Init, TypeOK, Steps

(* Every variable of the online update keeps its type, for any number of    *)
(* releases, faults and crashes.                                            *)
THEOREM TypeCorrect == Spec => []TypeOK
<1>1. Init => TypeOK
  BY InitOK
<1>2. TypeOK /\ [Next]_vars => TypeOK'
  BY TypeStep
<1>3. QED
  BY <1>1, <1>2, PTL DEF Spec

-----------------------------------------------------------------------------
(* The executable.                                                          *)

(* Steps on the web assets leave it alone. *)
LEMMA WebMove ==
    ASSUME TypeOK, NEW from \in Paths, NEW to \in Paths, NEW then, NEW else,
           Move("web", from, to, then, else)
    PROVE  files'.bin = files.bin /\ faults' \in {faults, faults + 1} /\ running' = running
           /\ pc' \in {then, else} /\ op'.swaps = op.swaps
  BY DEF TypeOK, Move, Then, Else, OnlyFiles, Fault, Objects, Paths

LEMMA WebRemove ==
    ASSUME TypeOK, NEW path \in Paths, NEW then, NEW else, Remove("web", path, then, else)
    PROVE  files'.bin = files.bin /\ faults' \in {faults, faults + 1} /\ running' = running
           /\ pc' \in {then, else} /\ op'.swaps = op.swaps
  BY DEF TypeOK, Remove, Then, Else, OnlyFiles, Fault, Objects, Paths

LEMMA WebInstalls ==
    ASSUME TypeOK, NEW then, NEW else, Install("web", then, else)
    PROVE  files'.bin = files.bin /\ faults' \in {faults, faults + 1} /\ running' = running
           /\ pc' \in {then, else} /\ op'.swaps = op.swaps
  BY DEF TypeOK, Install, Then, Else, OnlyFiles, Fault, Objects

(* What the operations on the executable do to it. *)
LEMMA BinMove ==
    ASSUME TypeOK, NEW from \in Paths, NEW to \in Paths, from # to, NEW then, NEW else,
           Move("bin", from, to, then, else)
    PROVE  /\ running' = running /\ op'.swaps = op.swaps
           /\ \/ /\ files.bin[from] # Absent /\ pc' = then /\ faults' = faults
                 /\ files'.bin[to] = files.bin[from] /\ files'.bin[from] = Absent
                 /\ \A p \in Paths \ {from, to} : files'.bin[p] = files.bin[p]
              \/ files.bin[from] = Absent /\ pc' = else /\ files' = files /\ faults' = faults
              \/ faults' = faults + 1 /\ pc' = else /\ files' = files
  BY DEF TypeOK, Move, Then, Else, OnlyFiles, Fault, Objects, Paths

LEMMA BinRemove ==
    ASSUME TypeOK, NEW path \in Paths, NEW then, NEW else, Remove("bin", path, then, else)
    PROVE  /\ running' = running /\ op'.swaps = op.swaps
           /\ \/ /\ pc' = then /\ faults' = faults
                 /\ files'.bin[path] = Absent
                 /\ \A p \in Paths \ {path} : files'.bin[p] = files.bin[p]
              \/ faults' = faults + 1 /\ pc' = else /\ files' = files
  BY DEF TypeOK, Remove, Then, Else, OnlyFiles, Fault, Objects, Paths

LEMMA BinInstalls ==
    ASSUME TypeOK, NEW then, NEW else, Install("bin", then, else)
    PROVE  /\ running' = running /\ op'.swaps = op.swaps
           /\ files'.bin.bak = files.bin.bak
           /\ \/ pc' = then /\ faults' = faults /\ files'.bin.cur = files.bin.tmp
              \/ faults' = faults + 1 /\ pc' = else /\ files'.bin.cur \in {files.bin.cur, files.bin.tmp}
  BY DEF TypeOK, Install, Then, Else, OnlyFiles, Fault, Objects

(* The steps of an operation keep it. *)
LEMMA KeptStep == ASSUME UpdateInv, Step, TypeOK' PROVE Kept'
<1>0. /\ TypeOK /\ Kept /\ faults \in Nat /\ faults' \in Nat /\ running # 0
      /\ Undo \in {"webUndo", "finish"}
  <2>1. pc # "idle"
    BY DEF Step, Download, WebClear, WebBackup, WebInstall, BinClear, BinBackup, BinInstall, BinUndoClear,
       BinUndo, WebUndo, WebRestore, Rollback, SwapClear, SwapOut, SwapIn, SwapBack, SwapBackUndo,
       SwapUndo, SwapEnds, Finish, Dropped
  <2>2. QED
    BY <2>1, Numbers DEF UpdateInv, TypeOK, Kept, Undo
<1>1. CASE Download
  <2>1. files'.bin.cur = files.bin.cur /\ files'.bin.bak = files.bin.bak /\ running' = running /\ faults' = faults
    BY <1>0, <1>1 DEF TypeOK, Download, OnlyFiles, Objects
  <2>2. \/ pc' \in {"webClear", "binClear"} /\ files'.bin.tmp = op.target
        \/ pc' = "finish"
    BY <1>0, <1>1 DEF TypeOK, Download, Else, Objects
  <2>3. pc = "download"
    BY <1>1 DEF Download
  <2>4. QED
    BY <1>0, <2>1, <2>2, <2>3 DEF Kept, InPlace, Swapping, Replacing, Unpacked
<1>2. CASE WebClear \/ WebUndo
  BY <1>0, <1>2, WebRemove DEF WebClear, WebUndo, Paths, Kept, InPlace, Swapping, Replacing, Unpacked
<1>3. CASE WebBackup \/ WebRestore
  <2>1. /\ files'.bin = files.bin /\ faults' \in {faults, faults + 1} /\ running' = running
        /\ \/ pc = "webBackup" /\ pc' \in {"webInstall", "finish"}
           \/ pc = "webRestore" /\ pc' = "finish"
    BY <1>0, <1>3, WebMove DEF WebBackup, WebRestore, Paths, Then, OnlyFiles
  <2>2. QED
    BY <1>0, <2>1 DEF Kept, InPlace, Swapping, Replacing, Unpacked
<1>4. CASE WebInstall
  <2>1. /\ files'.bin = files.bin /\ faults' \in {faults, faults + 1} /\ running' = running
        /\ pc = "webInstall" /\ pc' \in {"binClear", "webUndo", "finish"}
    BY <1>0, <1>4, WebInstalls DEF WebInstall
  <2>2. QED
    BY <1>0, <2>1 DEF Kept, InPlace, Swapping, Replacing, Unpacked
<1>5. CASE BinClear
  BY <1>0, <1>5, BinRemove, Numbers DEF BinClear, Paths, Kept, InPlace, Whole, Swapping, Replacing, Unpacked
<1>6. CASE BinBackup
  BY <1>0, <1>6, BinMove, Numbers DEF BinBackup, Paths, Kept, InPlace, Whole, Swapping, Replacing, Unpacked
<1>7. CASE BinInstall
  BY <1>0, <1>7, BinInstalls, Numbers DEF BinInstall, Kept, InPlace, Whole, Swapping, Replacing, Unpacked
<1>8. CASE BinUndoClear
  BY <1>0, <1>8, BinRemove, Numbers DEF BinUndoClear, Paths, Kept, InPlace, Whole, Swapping, Replacing, Unpacked
<1>9. CASE BinUndo
  BY <1>0, <1>9, BinMove, Numbers DEF BinUndo, Paths, Kept, InPlace, Whole, Swapping, Replacing, Unpacked
<1>10. CASE Rollback
  <2>1. pc = "rollback" /\ files' = files /\ faults' = faults /\ running' = running /\ op'.swaps = op.swaps
    BY <1>0, <1>10 DEF TypeOK, Rollback, Then, Else, OnlyFiles
  <2>2. pc' = "finish" \/ (pc' = "swapClear" /\ files.bin.bak # Absent)
    BY <1>10 DEF Rollback, Then, Else
  <2>3. QED
    BY <1>0, <2>1, <2>2 DEF Kept, InPlace, Exchanging, Whole, Swapping, Replacing, Unpacked
<1>11. CASE SwapEnds
  <2>1. files' = files /\ faults' = faults /\ running' = running
    BY <1>11 DEF SwapEnds, OnlyFiles
  <2>2. \/ pc = "swapDone" /\ op.swaps = "bin" /\ pc' = "swapClear" /\ op'.swaps = "web"
        \/ pc = "swapFailed" /\ op.swaps = "web" /\ pc' = "swapClear" /\ op'.swaps = "undo"
        \/ pc \in {"swapDone", "swapFailed"} /\ pc' = "finish"
    BY <1>0, <1>11 DEF TypeOK, SwapEnds, Then
  <2>3. QED
    BY <1>0, <2>1, <2>2 DEF Kept, InPlace, Exchanging, Swapping, Replacing, Unpacked
<1>12. CASE op.swaps = "web" /\ (SwapClear \/ SwapOut \/ SwapIn \/ SwapBack \/ SwapBackUndo \/ SwapUndo)
  <2>1. Swapped = "web"
    BY <1>12 DEF Swapped
  <2>2. /\ files'.bin = files.bin /\ faults' \in {faults, faults + 1} /\ running' = running
        /\ op'.swaps = op.swaps /\ pc \in Swapping /\ pc' \in Swapping
    <3>1. CASE SwapClear
      BY <1>0, <2>1, <3>1, WebRemove DEF TypeOK, SwapClear, Paths, Swapping, Else, OnlyFiles
    <3>2. CASE SwapOut \/ SwapIn \/ SwapBack \/ SwapBackUndo \/ SwapUndo
      BY <1>0, <2>1, <3>2, WebMove DEF SwapOut, SwapIn, SwapBack, SwapBackUndo, SwapUndo, Paths, Swapping
    <3>3. QED
      BY <1>12, <3>1, <3>2
  <2>3. QED
    BY <1>0, <1>12, <2>2 DEF Kept, InPlace, Swapping, Replacing, Unpacked
<1>13. CASE op.swaps # "web" /\ SwapClear
  <2>1. Swapped = "bin"
    BY <1>13 DEF Swapped
  <2>2. CASE files.bin.cur = Absent /\ faults <= 1
    BY <1>0, <1>13, <2>2, Numbers DEF SwapClear, Kept, InPlace, Exchanging, Swapping
  <2>3. CASE files.bin.cur # Absent
    BY <1>0, <1>13, <2>1, <2>3, BinRemove, Numbers DEF SwapClear, Paths, Kept, InPlace, Exchanging, Whole,
       Swapping, Replacing, Unpacked
  <2>4. CASE faults > 1
    <3>1. (running' = running /\ faults' = faults) \/ files.bin.cur # Absent
      BY <1>13, <2>1 DEF SwapClear, OnlyFiles
    <3>2. QED
      BY <1>0, <2>3, <2>4, <3>1 DEF Kept
  <2>5. QED
    BY <1>0, <2>2, <2>3, <2>4
<1>14. CASE op.swaps # "web" /\ (SwapOut \/ SwapIn \/ SwapBack \/ SwapBackUndo \/ SwapUndo)
  <2>1. Swapped = "bin"
    BY <1>14 DEF Swapped
  <2>2. CASE SwapOut
    BY <1>0, <1>14, <2>1, <2>2, BinMove, Numbers DEF SwapOut, Paths, Kept, InPlace, Exchanging, Whole,
       Swapping, Replacing, Unpacked
  <2>3. CASE SwapIn
    BY <1>0, <1>14, <2>1, <2>3, BinMove, Numbers DEF SwapIn, Paths, Kept, InPlace, Exchanging, Whole,
       Swapping, Replacing, Unpacked
  <2>4. CASE SwapBack
    BY <1>0, <1>14, <2>1, <2>4, BinMove, Numbers DEF SwapBack, Paths, Kept, InPlace, Exchanging, Whole,
       Swapping, Replacing, Unpacked
  <2>5. CASE SwapBackUndo
    BY <1>0, <1>14, <2>1, <2>5, BinMove, Numbers DEF SwapBackUndo, Paths, Kept, InPlace, Exchanging, Whole,
       Swapping, Replacing, Unpacked
  <2>6. CASE SwapUndo
    BY <1>0, <1>14, <2>1, <2>6, BinMove, Numbers DEF SwapUndo, Paths, Kept, InPlace, Exchanging, Whole,
       Swapping, Replacing, Unpacked
  <2>7. QED
    BY <1>14, <2>2, <2>3, <2>4, <2>5, <2>6
<1>15. CASE Finish \/ Dropped
  <2>1. /\ pc \in {"finish", "dropped"} /\ pc' \in {"idle", "dropped"} /\ running' = running
        /\ files'.bin.cur = files.bin.cur /\ files'.bin.bak = files.bin.bak
    BY <1>0, <1>15 DEF TypeOK, Finish, Dropped, End, Tidy, Objects
  <2>2. faults' \in {faults, faults + 1}
    BY <1>15 DEF Finish, Dropped, Fault
  <2>3. QED
    BY <1>0, <2>1, <2>2 DEF Kept, InPlace, Swapping, Replacing, Unpacked
<1>16. QED
  BY <1>1, <1>2, <1>3, <1>4, <1>5, <1>6, <1>7, <1>8, <1>9, <1>10, <1>11, <1>12, <1>13, <1>14, <1>15 DEF Step

LEMMA KeptNext == ASSUME UpdateInv, [Next]_vars PROVE UpdateInv'
<1>0. TypeOK /\ Kept /\ TypeOK' /\ faults \in Nat
  BY TypeStep, Numbers DEF UpdateInv, TypeOK
<1>1. CASE Step
  BY <1>0, <1>1, KeptStep DEF UpdateInv
<1>2. CASE (\E v \in Versions : StartUpdate(v)) \/ StartRollback
  <2>1. /\ files' = files /\ running' = running /\ running # 0 /\ pc = "idle"
        /\ pc' \in {"idle", "download", "rollback"} /\ faults' \in {faults, faults + 1}
    BY <1>2 DEF StartUpdate, StartRollback, Begin, MayOperate, Fault
  <2>2. pc' = "download" => op'.target \in Versions
    BY <1>2 DEF StartUpdate, StartRollback, Begin, NoOperation, MayOperate
  <2>3. Kept'
    BY <1>0, <2>1, <2>2 DEF Kept, InPlace, Swapping, Replacing, Unpacked
  <2>4. QED
    BY <1>0, <2>3 DEF UpdateInv
<1>3. CASE Recover
  <2>1. UNCHANGED <<files, running, pc, op>> /\ faults' \in {faults, faults + 1} /\ pc = "idle"
    BY <1>3 DEF Recover, MayOperate, Fault
  <2>2. Kept'
    BY <1>0, <2>1 DEF Kept, InPlace, Swapping, Replacing, Unpacked
  <2>3. QED
    BY <1>0, <2>2 DEF UpdateInv
<1>4. CASE RefuseUpdate \/ Restart \/ Cancel \/ LockAges \/ UNCHANGED vars
  <2>1. UNCHANGED <<files, running, pc, op, faults>>
    BY <1>4 DEF RefuseUpdate, Restart, Cancel, LockAges, vars
  <2>2. QED
    BY <1>0, <2>1 DEF UpdateInv, Kept, InPlace, Exchanging
<1>5. CASE Exit
  <2>1. UNCHANGED <<files, pc, faults>> /\ running # 0 /\ running' = 0 /\ pc = "idle"
    BY <1>5 DEF Exit
  <2>2. QED
    BY <1>0, <2>1 DEF UpdateInv, Kept, InPlace, Swapping, Replacing
<1>6. CASE Boot
  <2>1. UNCHANGED <<files, pc, faults>> /\ running = 0 /\ files.bin.cur \in Versions
    BY <1>6 DEF Boot
  <2>2. QED
    BY <1>0, <2>1 DEF UpdateInv, Kept, InPlace, Swapping, Replacing, Unpacked
<1>7. CASE Crash
  <2>1. running # 0 /\ running' = 0 /\ pc' = "idle" /\ faults' = faults
    BY <1>7 DEF Crash
  <2>2. /\ files'.bin.bak = files.bin.bak /\ files'.bin.swp = files.bin.swp
        /\ files'.bin.cur = files.bin.cur \/ pc = "binInstall"
    <3>1. PICK torn \in Torn : files' = Tidy(torn)
      BY <1>7 DEF Crash
    <3>2. /\ torn["bin"].bak = files.bin.bak /\ torn["bin"].swp = files.bin.swp
          /\ torn["bin"].cur = files.bin.cur \/ pc = "binInstall"
      BY <1>0 DEF TypeOK, Torn, Objects
    <3>3. torn \in [Objects -> [cur : Contents, bak : Contents, swp : Contents, tmp : Contents]]
      BY <1>0, TornOK
    <3>4. QED
      BY <3>1, <3>2, <3>3 DEF Tidy, Objects
  <2>3. faults <= 1 => \E path \in {"cur", "bak", "swp"} : files'.bin[path] \in Versions
    BY <1>0, <2>1, <2>2 DEF TypeOK, Steps, Kept, InPlace, Exchanging, Swapping, Replacing
  <2>4. QED
    BY <1>0, <2>1, <2>2, <2>3 DEF UpdateInv, Kept
<1>8. QED
  BY <1>1, <1>2, <1>3, <1>4, <1>5, <1>6, <1>7 DEF Next

(* The inductive invariant: where the executable is at every step of an     *)
(* update or rollback, and that compensation runs only after a fault.       *)
THEOREM UpdateInvariant == Spec => []UpdateInv
<1>1. Init => UpdateInv
  <2>1. SUFFICES ASSUME Init PROVE UpdateInv
    OBVIOUS
  <2>2. files.bin.cur = 1 /\ files.bin.bak = Absent /\ running = 1 /\ pc = "idle"
    BY <2>1 DEF Init, Objects
  <2>3. QED
    BY <2>1, <2>2, InitOK, Numbers DEF UpdateInv, Kept, InPlace, Whole, Swapping, Replacing, Unpacked
<1>2. UpdateInv /\ [Next]_vars => UpdateInv'
  BY KeptNext
<1>3. QED
  BY <1>1, <1>2, PTL DEF Spec

(* With at most one failing file operation an intact executable is at its   *)
(* path, its backup or its swap path, whenever the process is killed.       *)
THEOREM ExecutableKept == Spec => []BinaryKept
<1>1. UpdateInv => BinaryKept
  BY DEF UpdateInv, TypeOK, Steps, Kept, InPlace, Exchanging, Swapping, Replacing, BinaryKept
<1>2. QED
  BY <1>1, UpdateInvariant, PTL

-----------------------------------------------------------------------------
(* The files against those at the beginning.                                *)

SamePlan == /\ op'.kind = op.kind /\ op'.target = op.target /\ op'.web = op.web /\ op'.swaps = op.swaps
            /\ before' = before

LEMMA InstallEffect ==
    ASSUME TypeOK, NEW o \in Objects, NEW then, NEW else, Install(o, then, else)
    PROVE  /\ SamePlan /\ \A u \in Objects \ {o} : files'[u] = files[u]
           /\ files'[o].bak = files[o].bak
           /\ \/ pc' = then /\ op' = op /\ faults' = faults /\ files'[o].cur = files[o].tmp
              \/ faults' = faults + 1 /\ pc' = else /\ op'.ok = FALSE
<1>1. SamePlan
  BY DEF TypeOK, Install, Then, Else, OnlyFiles, SamePlan
<1>2. QED
  BY <1>1 DEF TypeOK, Install, Then, Else, Fault, Objects

LEMMA RemoveEffect ==
    ASSUME TypeOK, NEW o \in Objects, NEW path \in Paths, NEW then, NEW else, Remove(o, path, then, else)
    PROVE  /\ SamePlan /\ \A u \in Objects \ {o} : files'[u] = files[u]
           /\ \A q \in Paths \ {path} : files'[o][q] = files[o][q]
           /\ \/ pc' = then /\ op' = op /\ faults' = faults /\ files'[o][path] = Absent
              \/ /\ faults' = faults + 1 /\ pc' = else /\ op'.ok = FALSE
                 /\ o = "bin" => files' = files
<1>1. SamePlan
  BY DEF TypeOK, Remove, Then, Else, OnlyFiles, SamePlan
<1>2. QED
  BY <1>1 DEF TypeOK, Remove, Then, Else, Fault, Objects, Paths

(* One step of an update. *)
LEMMA UpdatingStep ==
    ASSUME UpdateInv, faults' <= 1, faults' \in Nat, before.web.cur # Absent, before.bin.cur \in Versions,
           op.kind = "update", Updating, Step, pc' # "idle"
    PROVE  op'.kind = "update" /\ Updating' /\ before' = before
<1>0. TypeOK /\ faults \in Nat
  BY Numbers DEF UpdateInv, TypeOK
<1>1. CASE Download
  <2>1. before' = before /\ op'.kind = op.kind /\ op'.target = op.target /\ pc = "download" /\ faults' = faults
    BY <1>0, <1>1 DEF TypeOK, Download, Else, OnlyFiles
  <2>2. CASE Else("finish") /\ UNCHANGED files
    <3>1. pc' = "finish" /\ op'.ok = FALSE /\ files' = files
      BY <1>0, <2>2 DEF TypeOK, Else
    <3>2. QED
      BY <2>1, <3>1 DEF
         Updating, UpdatingWeb, UpdatingBin, Ended, WebSteps, WebUndoes, BinSteps, Replacing, Unpacked
  <2>3. CASE ~(Else("finish") /\ UNCHANGED files)
    <3>0. /\ files' = [o \in Objects |-> [files[o] EXCEPT !.tmp =
                            IF o = "bin" \/ op.target \notin Webless THEN op.target ELSE Absent]]
          /\ op' = [op EXCEPT !.web = (op.target \notin Webless)]
          /\ pc' = IF op.target \notin Webless THEN "webClear" ELSE "binClear"
      BY <1>1, <2>3 DEF Download
    <3>1. /\ op'.ok = op.ok
          /\ \/ op'.web /\ pc' = "webClear" /\ files'.web.tmp = op.target
             \/ ~op'.web /\ pc' = "binClear"
      <4>1. CASE op.target \in Webless
        BY <1>0, <3>0, <4>1 DEF TypeOK, Objects
      <4>2. CASE op.target \notin Webless
        BY <1>0, <3>0, <4>2 DEF TypeOK, Objects
      <4>3. QED
        BY <4>1, <4>2
    <3>2. /\ files'.bin.tmp = op.target /\ files'.web.cur = files.web.cur
          /\ files'.bin.cur = files.bin.cur /\ files'.bin.bak = files.bin.bak
      BY <1>0, <3>0 DEF TypeOK, Objects
    <3>3. QED
      BY <2>1, <3>1, <3>2 DEF
         Updating, UpdatingWeb, UpdatingBin, Ended, WebSteps, WebUndoes, BinSteps, Replacing, Unpacked
  <2>4. QED
    BY <2>2, <2>3
<1>2. CASE WebClear
  <2>1. /\ SamePlan /\ pc = "webClear" /\ files'.bin = files.bin
        /\ files'.web.cur = files.web.cur /\ files'.web.tmp = files.web.tmp
        /\ \/ pc' = "webBackup" /\ op' = op /\ faults' = faults
           \/ pc' = "finish" /\ op'.ok = FALSE
    BY <1>0, <1>2, RemoveEffect DEF WebClear, Objects, Paths
  <2>2. CASE pc' = "webBackup" /\ op' = op /\ faults' = faults
    BY <1>0, <2>1, <2>2, Numbers DEF SamePlan,
       Updating, UpdatingWeb, UpdatingBin, Ended, WebSteps, WebUndoes, BinSteps, Replacing, Unpacked
  <2>3. CASE pc' = "finish" /\ op'.ok = FALSE
    BY <1>0, <2>1, <2>3, Numbers DEF SamePlan,
       Updating, UpdatingWeb, UpdatingBin, Ended, WebSteps, WebUndoes, BinSteps, Replacing, Unpacked
  <2>4. QED
    BY <2>1, <2>2, <2>3
<1>3. CASE WebUndo
  <2>1. /\ SamePlan /\ pc = "webUndo" /\ files'.bin = files.bin /\ files'.web.bak = files.web.bak
        /\ (pc' = "webRestore" /\ op' = op /\ faults' = faults) \/ faults' = faults + 1
    BY <1>0, <1>3, RemoveEffect DEF WebUndo, Objects, Paths
  <2>2. faults = 1
    BY <1>0, <2>1 DEF UpdateInv, Kept, InPlace, Updating, UpdatingWeb, WebUndoes
  <2>3. QED
    BY <1>0, <2>1, <2>2, Numbers DEF SamePlan,
       Updating, UpdatingWeb, UpdatingBin, Ended, WebSteps, WebUndoes, BinSteps, Replacing, Unpacked
<1>4. CASE WebInstall
  <2>1. /\ SamePlan /\ pc = "webInstall" /\ files'.bin = files.bin /\ files'.web.bak = files.web.bak
        /\ \/ pc' = "binClear" /\ op' = op /\ faults' = faults /\ files'.web.cur = files.web.tmp
           \/ /\ faults' = faults + 1 /\ op'.ok = FALSE
              /\ pc' = IF files.web.bak # Absent THEN "webUndo" ELSE "finish"
    BY <1>0, <1>4, InstallEffect DEF WebInstall, Objects, Paths
  <2>3. QED
    BY <1>0, <2>1, Numbers DEF SamePlan,
       Updating, UpdatingWeb, UpdatingBin, Ended, WebSteps, WebUndoes, BinSteps, Replacing, Unpacked
<1>5. CASE BinClear
  <2>1. /\ SamePlan /\ pc = "binClear" /\ files'.web = files.web
        /\ files'.bin.cur = files.bin.cur /\ files'.bin.tmp = files.bin.tmp
        /\ \/ pc' = "binBackup" /\ op' = op /\ faults' = faults /\ files'.bin.bak = Absent
           \/ faults' = faults + 1 /\ op'.ok = FALSE /\ pc' = Undo /\ files' = files
    BY <1>0, <1>5, RemoveEffect DEF BinClear, Objects, Paths
  <2>3. QED
    BY <1>0, <2>1, Numbers DEF SamePlan, Undo,
       Updating, UpdatingWeb, UpdatingBin, Ended, WebSteps, WebUndoes, BinSteps, Replacing, Unpacked
<1>6. CASE BinBackup
  <2>1. /\ SamePlan /\ pc = "binBackup" /\ files'.web = files.web /\ files'.bin.tmp = files.bin.tmp
        /\ \/ pc' = "binInstall" /\ op' = op /\ faults' = faults /\ files'.bin.bak = files.bin.cur
           \/ files.bin.cur = Absent
           \/ faults' = faults + 1 /\ op'.ok = FALSE /\ pc' = Undo /\ files' = files
    BY <1>0, <1>6 DEF BinBackup, Move, Then, Else, OnlyFiles, Fault, SamePlan, TypeOK, Objects, Paths
  <2>3. QED
    BY <1>0, <2>1, Numbers DEF SamePlan, Undo,
       Updating, UpdatingWeb, UpdatingBin, Ended, WebSteps, WebUndoes, BinSteps, Replacing, Unpacked
<1>7. CASE BinInstall
  <2>1. /\ SamePlan /\ pc = "binInstall" /\ files'.web = files.web /\ files'.bin.bak = files.bin.bak
        /\ \/ pc' = "finish" /\ op' = op /\ faults' = faults /\ files'.bin.cur = files.bin.tmp
           \/ faults' = faults + 1 /\ op'.ok = FALSE /\ pc' = "binUndoClear"
    BY <1>0, <1>7, InstallEffect DEF BinInstall, Objects, Paths
  <2>3. QED
    BY <1>0, <2>1, Numbers DEF SamePlan,
       Updating, UpdatingWeb, UpdatingBin, Ended, WebSteps, WebUndoes, BinSteps, Replacing, Unpacked
<1>8. CASE BinUndoClear
  <2>1. /\ SamePlan /\ pc = "binUndoClear" /\ files'.web = files.web /\ files'.bin.bak = files.bin.bak
        /\ (pc' = "binUndo" /\ op' = op /\ faults' = faults) \/ faults' = faults + 1
    BY <1>0, <1>8, RemoveEffect DEF BinUndoClear, Objects, Paths
  <2>2. faults = 1
    BY <1>0, <2>1 DEF UpdateInv, Kept, InPlace, Updating, UpdatingWeb, WebUndoes
  <2>3. QED
    BY <1>0, <2>1, <2>2, Numbers DEF SamePlan, Undo,
       Updating, UpdatingWeb, UpdatingBin, Ended, WebSteps, WebUndoes, BinSteps, Replacing, Unpacked
<1>9. CASE BinUndo
  <2>1. /\ SamePlan /\ pc = "binUndo" /\ files'.web = files.web /\ faults' \in {faults, faults + 1}
        /\ \/ /\ pc' = Undo /\ op' = op /\ faults' = faults
              /\ files'.bin.cur = files.bin.bak /\ files'.bin.bak = Absent
           \/ files.bin.bak = Absent \/ faults' = faults + 1
    BY <1>0, <1>9 DEF BinUndo, Move, Then, Else, OnlyFiles, Fault, SamePlan, TypeOK, Objects, Paths
  <2>2. faults = 1
    BY <1>0, <2>1 DEF UpdateInv, Kept, InPlace, Updating, UpdatingWeb, WebUndoes
  <2>3. QED
    BY <1>0, <2>1, <2>2, Numbers DEF SamePlan, Undo,
       Updating, UpdatingWeb, UpdatingBin, Ended, WebSteps, WebUndoes, BinSteps, Replacing, Unpacked
<1>10. CASE WebBackup
  <2>1. files.web.cur # Absent /\ pc = "webBackup"
    BY <1>10 DEF WebBackup, Updating, UpdatingWeb, WebUndoes
  <2>2. /\ SamePlan /\ files'.bin = files.bin
        /\ \/ pc' = "webInstall" /\ op' = op /\ faults' = faults /\ files'.web.bak = files.web.cur /\ files'.web.tmp = files.web.tmp
           \/ pc' = "finish" /\ op'.ok = FALSE /\ files' = files /\ faults' = faults + 1
    BY <1>0, <1>10, <2>1 DEF WebBackup, Move, Then, Else, OnlyFiles, Fault, SamePlan, TypeOK, Objects, Paths
  <2>3. QED
    BY <1>0, <2>1, <2>2 DEF SamePlan,
       Updating, UpdatingWeb, UpdatingBin, Ended, WebSteps, WebUndoes, BinSteps, Replacing, Unpacked
<1>11. CASE WebRestore
  <2>1. files.web.bak # Absent /\ pc = "webRestore"
    BY <1>11 DEF WebRestore, Updating, UpdatingWeb, WebUndoes
  <2>2. /\ SamePlan /\ files'.bin = files.bin
        /\ \/ pc' = "finish" /\ op' = op /\ faults' = faults /\ files'.web.cur = files.web.bak
           \/ pc' = "finish" /\ op'.ok = FALSE /\ files' = files /\ faults' = faults + 1
    BY <1>0, <1>11, <2>1 DEF WebRestore, Move, Then, Else, OnlyFiles, Fault, SamePlan, TypeOK, Objects, Paths
  <2>3. QED
    BY <1>0, <2>1, <2>2 DEF SamePlan,
       Updating, UpdatingWeb, UpdatingBin, Ended, WebSteps, WebUndoes, BinSteps, Replacing, Unpacked
<1>12. CASE Finish \/ Dropped
  <2>1. pc = "finish" /\ pc' = "dropped" /\ UNCHANGED <<files, op, before>>
    BY <1>0, <1>12 DEF Finish, Dropped, End
  <2>2. QED
    BY <1>0, <2>1 DEF
       Updating, UpdatingWeb, UpdatingBin, Ended, WebSteps, WebUndoes, BinSteps, Replacing, Unpacked
<1>13. CASE Rollback \/ SwapClear \/ SwapOut \/ SwapIn \/ SwapBack \/ SwapBackUndo \/ SwapUndo \/ SwapEnds
  BY <1>13 DEF Rollback, SwapClear, SwapOut, SwapIn, SwapBack, SwapBackUndo, SwapUndo, SwapEnds,
     Updating, WebSteps, WebUndoes, BinSteps, Replacing
<1>14. QED
  BY <1>1, <1>2, <1>3, <1>4, <1>5, <1>6, <1>7, <1>8, <1>9, <1>10, <1>11, <1>12, <1>13 DEF Step

(* One step of the exchange of two paths. *)
SwapStep == SwapClear \/ SwapOut \/ SwapIn \/ SwapBack \/ SwapBackUndo \/ SwapUndo

LEMMA ExchangeStep ==
    ASSUME TypeOK, NEW o \in Objects, Swapped = o, NEW x, NEW y, Exchange(o, x, y),
           faults' <= 1, pc \in Undoing => faults = 1, SwapStep
    PROVE  /\ SamePlan /\ (\A u \in Objects \ {o} : files'[u] = files[u])
           /\ pc \in Swapping /\ pc' \in Swapping
           /\ \/ faults' = faults /\ op' = op /\ (pc \in Undoing <=> pc' \in Undoing)
              \/ faults' = faults + 1 /\ op'.ok = FALSE /\ pc \notin Undoing /\ pc' \in Undoing
           /\ Exchange(o, x, y)'
<1>0. faults \in Nat
  BY Numbers DEF TypeOK
<1>1. CASE SwapClear
  <2>1. pc = "swapClear" /\ files[o].cur # Absent
    BY <1>1 DEF SwapClear, Exchange
  <2>2. Remove(o, "swp", "swapOut", "swapFailed")
    BY <1>1, <2>1 DEF SwapClear
  <2>3. /\ SamePlan /\ \A u \in Objects \ {o} : files'[u] = files[u]
        /\ files'[o].cur = files[o].cur /\ files'[o].bak = files[o].bak
        /\ \/ pc' = "swapOut" /\ op' = op /\ faults' = faults
           \/ pc' = "swapFailed" /\ op'.ok = FALSE /\ faults' = faults + 1
    BY <2>2, RemoveEffect DEF Paths
  <2>4. QED
    BY <2>1, <2>3 DEF Exchange, Swapping, Undoing
<1>2. CASE SwapOut
  <2>1. pc = "swapOut" /\ files[o].cur # Absent
    BY <1>2 DEF SwapOut, Exchange
  <2>2. /\ SamePlan /\ \A u \in Objects \ {o} : files'[u] = files[u]
        /\ \/ /\ pc' = "swapIn" /\ op' = op /\ faults' = faults
              /\ files'[o].swp = files[o].cur /\ files'[o].bak = files[o].bak
           \/ pc' = "swapFailed" /\ op'.ok = FALSE /\ faults' = faults + 1 /\ files' = files
    BY <1>0, <1>2, <2>1 DEF SwapOut, Move, Then, Else, OnlyFiles, Fault, SamePlan, TypeOK, Objects, Paths
  <2>3. QED
    BY <2>1, <2>2 DEF Exchange, Swapping, Undoing
<1>3. CASE SwapIn
  <2>1. pc = "swapIn" /\ files[o].bak # Absent
    BY <1>3 DEF SwapIn, Exchange
  <2>2. /\ SamePlan /\ \A u \in Objects \ {o} : files'[u] = files[u]
        /\ \/ /\ pc' = "swapBack" /\ op' = op /\ faults' = faults
              /\ files'[o].cur = files[o].bak /\ files'[o].swp = files[o].swp
           \/ pc' = "swapUndo" /\ op'.ok = FALSE /\ faults' = faults + 1 /\ files' = files
    BY <1>0, <1>3, <2>1 DEF SwapIn, Move, Then, Else, OnlyFiles, Fault, SamePlan, TypeOK, Objects, Paths
  <2>3. QED
    BY <2>1, <2>2 DEF Exchange, Swapping, Undoing
<1>4. CASE SwapBack
  <2>1. pc = "swapBack" /\ files[o].swp # Absent
    BY <1>4 DEF SwapBack, Exchange
  <2>2. /\ SamePlan /\ \A u \in Objects \ {o} : files'[u] = files[u]
        /\ \/ /\ pc' = "swapDone" /\ op' = op /\ faults' = faults
              /\ files'[o].bak = files[o].swp /\ files'[o].cur = files[o].cur
           \/ pc' = "swapBackUndo" /\ op'.ok = FALSE /\ faults' = faults + 1 /\ files' = files
    BY <1>0, <1>4, <2>1 DEF SwapBack, Move, Then, Else, OnlyFiles, Fault, SamePlan, TypeOK, Objects, Paths
  <2>3. QED
    BY <2>1, <2>2 DEF Exchange, Swapping, Undoing
<1>5. CASE SwapBackUndo
  <2>1. pc = "swapBackUndo" /\ files[o].cur # Absent
    BY <1>5 DEF SwapBackUndo, Exchange
  <2>2. /\ SamePlan /\ \A u \in Objects \ {o} : files'[u] = files[u]
        /\ pc' = "swapUndo" /\ op' = op /\ faults' = faults
        /\ files'[o].bak = files[o].cur /\ files'[o].swp = files[o].swp
    BY <1>0, <1>5, <2>1 DEF SwapBackUndo, Undoing, Move, Then, Else, OnlyFiles, Fault, SamePlan, TypeOK, Objects, Paths
  <2>3. QED
    BY <2>1, <2>2 DEF Exchange, Swapping, Undoing
<1>6. CASE SwapUndo
  <2>1. pc = "swapUndo" /\ files[o].swp # Absent
    BY <1>6 DEF SwapUndo, Exchange
  <2>2. /\ SamePlan /\ \A u \in Objects \ {o} : files'[u] = files[u]
        /\ pc' = "swapFailed" /\ op' = op /\ faults' = faults
        /\ files'[o].cur = files[o].swp /\ files'[o].bak = files[o].bak
    BY <1>0, <1>6, <2>1 DEF SwapUndo, Undoing, Move, Then, Else, OnlyFiles, Fault, SamePlan, TypeOK, Objects, Paths
  <2>3. QED
    BY <2>1, <2>2 DEF Exchange, Swapping, Undoing
<1>7. QED
  BY <1>1, <1>2, <1>3, <1>4, <1>5, <1>6 DEF SwapStep

(* One step of a rollback. *)
LEMMA RollingBackStep ==
    ASSUME UpdateInv, faults' <= 1, before.web.cur # Absent, before.bin.cur \in Versions,
           op.kind = "rollback", RollingBack, Step, pc' # "idle"
    PROVE  op'.kind = "rollback" /\ RollingBack' /\ before' = before
<1>0. TypeOK /\ faults \in Nat /\ before.bin.cur # Absent
  BY Numbers DEF UpdateInv, TypeOK
<1>1. CASE Rollback
  <2>1. /\ SamePlan /\ pc = "rollback" /\ files' = files /\ faults' = faults
        /\ \/ pc' = "finish" /\ op'.ok = FALSE
           \/ pc' = "swapClear" /\ op' = op /\ files.bin.bak # Absent
    BY <1>0, <1>1 DEF TypeOK, Rollback, Then, Else, OnlyFiles, SamePlan
  <2>2. QED
    BY <1>0, <2>1 DEF SamePlan, RollingBack, Exchange, Untouched, Ended, Undoing, Swapping
<1>2. CASE SwapStep /\ op.swaps = "bin"
  <2>0. Swapped = "bin" /\ "bin" \in Objects /\ pc \in Swapping
    BY <1>2 DEF Swapped, Objects, Swapping, SwapStep, SwapClear, SwapOut, SwapIn, SwapBack, SwapBackUndo, SwapUndo
  <2>1. Exchange("bin", before.bin.cur, before.bin.bak) /\ (pc \in Undoing => faults = 1)
    BY <1>2, <2>0 DEF RollingBack
  <2>2. /\ SamePlan /\ (\A u \in Objects \ {"bin"} : files'[u] = files[u])
        /\ pc \in Swapping /\ pc' \in Swapping
        /\ \/ faults' = faults /\ op' = op /\ (pc \in Undoing <=> pc' \in Undoing)
           \/ faults' = faults + 1 /\ op'.ok = FALSE /\ pc \notin Undoing /\ pc' \in Undoing
        /\ Exchange("bin", before.bin.cur, before.bin.bak)'
    <3>1. PICK x, y : x = before.bin.cur /\ y = before.bin.bak
      OBVIOUS
    <3>2. Exchange("bin", x, y)
      BY <2>1, <3>1
    <3>3. /\ SamePlan /\ (\A u \in Objects \ {"bin"} : files'[u] = files[u])
          /\ pc \in Swapping /\ pc' \in Swapping
          /\ \/ faults' = faults /\ op' = op /\ (pc \in Undoing <=> pc' \in Undoing)
             \/ faults' = faults + 1 /\ op'.ok = FALSE /\ pc \notin Undoing /\ pc' \in Undoing
          /\ Exchange("bin", x, y)'
      BY <3>2, <1>0, <1>2, <2>0, <2>1, ExchangeStep
    <3>4. QED
      BY <3>1, <3>3 DEF SamePlan, Exchange
  <2>3. QED
    BY <1>0, <1>2, <2>2 DEF SamePlan, RollingBack, Untouched, Undoing, Swapping, Objects
<1>3. CASE SwapStep /\ op.swaps = "web"
  <2>0. Swapped = "web" /\ "web" \in Objects /\ pc \in Swapping
    BY <1>3 DEF Swapped, Objects, Swapping, SwapStep, SwapClear, SwapOut, SwapIn, SwapBack, SwapBackUndo, SwapUndo
  <2>1. Exchange("web", before.web.cur, before.web.bak) /\ (pc \in Undoing => faults = 1)
    BY <1>3, <2>0 DEF RollingBack
  <2>2. /\ SamePlan /\ (\A u \in Objects \ {"web"} : files'[u] = files[u])
        /\ pc \in Swapping /\ pc' \in Swapping
        /\ \/ faults' = faults /\ op' = op /\ (pc \in Undoing <=> pc' \in Undoing)
           \/ faults' = faults + 1 /\ op'.ok = FALSE /\ pc \notin Undoing /\ pc' \in Undoing
        /\ Exchange("web", before.web.cur, before.web.bak)'
    <3>1. PICK x, y : x = before.web.cur /\ y = before.web.bak
      OBVIOUS
    <3>2. Exchange("web", x, y)
      BY <2>1, <3>1
    <3>3. /\ SamePlan /\ (\A u \in Objects \ {"web"} : files'[u] = files[u])
          /\ pc \in Swapping /\ pc' \in Swapping
          /\ \/ faults' = faults /\ op' = op /\ (pc \in Undoing <=> pc' \in Undoing)
             \/ faults' = faults + 1 /\ op'.ok = FALSE /\ pc \notin Undoing /\ pc' \in Undoing
          /\ Exchange("web", x, y)'
      BY <3>2, <1>0, <1>3, <2>0, <2>1, ExchangeStep
    <3>4. QED
      BY <3>1, <3>3 DEF SamePlan, Exchange
  <2>3. QED
    BY <1>0, <1>3, <2>2 DEF SamePlan, RollingBack, Untouched, Undoing, Swapping, Objects
<1>4. CASE SwapStep /\ op.swaps = "undo"
  <2>0. Swapped = "bin" /\ "bin" \in Objects /\ pc \in Swapping
    BY <1>4 DEF Swapped, Objects, Swapping, SwapStep, SwapClear, SwapOut, SwapIn, SwapBack, SwapBackUndo, SwapUndo
  <2>1. Exchange("bin", before.bin.bak, before.bin.cur) /\ faults = 1 /\ pc \notin Undoing
    BY <1>4, <2>0 DEF RollingBack
  <2>2. /\ SamePlan /\ (\A u \in Objects \ {"bin"} : files'[u] = files[u])
        /\ pc \in Swapping /\ pc' \in Swapping
        /\ \/ faults' = faults /\ op' = op /\ (pc \in Undoing <=> pc' \in Undoing)
           \/ faults' = faults + 1
        /\ Exchange("bin", before.bin.bak, before.bin.cur)'
    <3>1. PICK x, y : x = before.bin.bak /\ y = before.bin.cur
      OBVIOUS
    <3>2. Exchange("bin", x, y)
      BY <2>1, <3>1
    <3>3. /\ SamePlan /\ (\A u \in Objects \ {"bin"} : files'[u] = files[u])
          /\ pc \in Swapping /\ pc' \in Swapping
          /\ \/ faults' = faults /\ op' = op /\ (pc \in Undoing <=> pc' \in Undoing)
             \/ faults' = faults + 1
          /\ Exchange("bin", x, y)'
      BY <3>2, <1>0, <1>4, <2>0, <2>1, ExchangeStep
    <3>4. QED
      BY <3>1, <3>3 DEF SamePlan, Exchange
  <2>3. QED
    BY <1>0, <1>4, <2>1, <2>2 DEF SamePlan, RollingBack, Untouched, Undoing, Swapping, Objects
<1>5. CASE SwapEnds
  <2>1. /\ files' = files /\ faults' = faults /\ before' = before /\ op'.kind = op.kind /\ op'.ok = op.ok
        /\ \/ /\ pc = "swapDone" /\ op.swaps = "bin" /\ files.web.bak # Absent
              /\ pc' = "swapClear" /\ op'.swaps = "web"
           \/ pc = "swapFailed" /\ op.swaps = "web" /\ pc' = "swapClear" /\ op'.swaps = "undo"
           \/ /\ \/ op.swaps = "bin" /\ pc = "swapFailed"
                 \/ op.swaps = "bin" /\ pc = "swapDone" /\ files.web.bak = Absent
                 \/ op.swaps = "web" /\ pc = "swapDone"
                 \/ op.swaps = "undo" /\ pc \in {"swapDone", "swapFailed"}
              /\ pc' = "finish"
    BY <1>0, <1>5 DEF TypeOK, SwapEnds, Then, OnlyFiles
  <2>2. CASE pc' = "swapClear" /\ op.swaps = "bin"
    BY <1>0, <2>1, <2>2 DEF RollingBack, Exchange, Untouched, Undoing, Swapping
  <2>3. CASE pc' = "swapClear" /\ op.swaps = "web"
    BY <1>0, <2>1, <2>3 DEF TypeOK, RollingBack, Exchange, Undoing, Swapping
  <2>4. CASE pc' = "finish" /\ op.swaps = "bin" /\ pc = "swapFailed"
    BY <1>0, <2>1, <2>4 DEF RollingBack, Exchange, Untouched, Ended, Undoing, Swapping
  <2>5. CASE pc' = "finish" /\ op.swaps = "bin" /\ pc = "swapDone"
    BY <1>0, <2>1, <2>5 DEF RollingBack, Exchange, Untouched, Ended, Undoing, Swapping
  <2>6. CASE pc' = "finish" /\ op.swaps = "web"
    BY <1>0, <2>1, <2>6 DEF RollingBack, Exchange, Ended, Undoing, Swapping
  <2>7. CASE pc' = "finish" /\ op.swaps = "undo"
    BY <1>0, <2>1, <2>7 DEF RollingBack, Exchange, Ended, Undoing, Swapping
  <2>8. QED
    BY <2>1, <2>2, <2>3, <2>4, <2>5, <2>6, <2>7
<1>6. CASE Finish
  BY <1>6 DEF Finish, End
<1>7. CASE Download \/ WebClear \/ WebBackup \/ WebInstall \/ BinClear \/ BinBackup \/ BinInstall
           \/ BinUndoClear \/ BinUndo \/ WebUndo \/ WebRestore \/ Dropped
  BY <1>7 DEF Download, WebClear, WebBackup, WebInstall, BinClear, BinBackup, BinInstall,
     BinUndoClear, BinUndo, WebUndo, WebRestore, Dropped, RollingBack, Swapping
<1>8. op.swaps \in {"bin", "web", "undo"}
  BY <1>0 DEF TypeOK
<1>9. QED
  BY <1>1, <1>2, <1>3, <1>4, <1>5, <1>6, <1>7, <1>8 DEF Step, SwapStep

LEMMA BeginsExact ==
    ASSUME UpdateInv, NEW kind \in {"update", "rollback"}, NEW target, NEW step,
           kind = "update" => step = "download", kind = "rollback" => step = "rollback",
           Begin(kind, target, step), UNCHANGED files, pc = "idle", running # 0,
           faults' <= 1, pc' # "idle"
    PROVE  /\ before'.bin.cur \in Versions
           /\ \/ op'.kind = "update" /\ Updating'
              \/ op'.kind = "rollback" /\ RollingBack'
<1>1. /\ before' = files /\ faults' = faults /\ pc' = step /\ op'.kind = kind
      /\ op'.ok = TRUE /\ op'.swaps = "bin"
  BY DEF Begin, NoOperation
<1>2. files.bin.cur \in Versions
  BY <1>1 DEF UpdateInv, Kept, InPlace, Swapping, Replacing
<1>3. CASE kind = "update"
  BY <1>1, <1>2, <1>3 DEF Updating, UpdatingWeb, UpdatingBin, WebSteps, WebUndoes, BinSteps, Replacing, Unpacked
<1>4. CASE kind = "rollback"
  BY <1>1, <1>2, <1>4 DEF RollingBack, Untouched, Undoing, Swapping
<1>5. QED
  BY <1>3, <1>4

LEMMA StepFrame == ASSUME Step PROVE before' = before /\ faults' \in {faults, faults + 1} /\ pc # "idle"
<1>1. CASE Download \/ Rollback \/ SwapEnds
  BY <1>1 DEF Download, Rollback, SwapEnds, OnlyFiles
<1>2. CASE WebClear \/ BinClear \/ BinUndoClear \/ WebUndo
  BY <1>2 DEF WebClear, BinClear, BinUndoClear, WebUndo, Remove, OnlyFiles, Fault
<1>3. CASE WebInstall \/ BinInstall
  BY <1>3 DEF WebInstall, BinInstall, Install, OnlyFiles, Fault
<1>4. CASE WebBackup \/ WebRestore
  BY <1>4 DEF WebBackup, WebRestore, Move, OnlyFiles, Fault
<1>5. CASE BinBackup \/ BinUndo
  BY <1>5 DEF BinBackup, BinUndo, Move, OnlyFiles, Fault
<1>6. CASE SwapClear
  BY <1>6 DEF SwapClear, Remove, OnlyFiles, Fault
<1>7. CASE SwapOut \/ SwapIn \/ SwapBack \/ SwapBackUndo \/ SwapUndo
  BY <1>7 DEF SwapOut, SwapIn, SwapBack, SwapBackUndo, SwapUndo, Move, OnlyFiles, Fault
<1>8. CASE Finish \/ Dropped
  BY <1>8 DEF Finish, Dropped, Fault
<1>9. QED
  BY <1>1, <1>2, <1>3, <1>4, <1>5, <1>6, <1>7, <1>8 DEF Step

LEMMA ExactNext == ASSUME UpdateInv, Exact, [Next]_vars PROVE Exact'
<1>0. SUFFICES ASSUME faults' <= 1, pc' # "idle", before'.web.cur # Absent
      PROVE /\ before'.bin.cur \in Versions
            /\ \/ op'.kind = "update" /\ Updating'
               \/ op'.kind = "rollback" /\ RollingBack'
  BY DEF Exact
<1>1. TypeOK /\ faults \in Nat /\ faults' \in Nat
  BY TypeStep, Numbers DEF UpdateInv, TypeOK
<1>2. CASE Step
  <2>1. before' = before /\ faults' \in {faults, faults + 1} /\ pc # "idle"
    BY <1>2, StepFrame
  <2>2. before.bin.cur \in Versions /\ ((op.kind = "update" /\ Updating) \/ (op.kind = "rollback" /\ RollingBack))
    BY <1>0, <1>1, <2>1 DEF Exact
  <2>3. QED
    BY <1>0, <1>1, <1>2, <2>1, <2>2, UpdatingStep, RollingBackStep
<1>3. CASE \E v \in Versions : StartUpdate(v)
  BY <1>0, <1>3, BeginsExact DEF StartUpdate, MayOperate
<1>4. CASE StartRollback
  BY <1>0, <1>4, BeginsExact DEF StartRollback, MayOperate
<1>5. CASE RefuseUpdate \/ Recover \/ Restart \/ Exit \/ Crash \/ Boot \/ LockAges
  BY <1>0, <1>1, <1>5 DEF UpdateInv, Kept, RefuseUpdate, Recover, Restart, Exit, Crash, Boot, LockAges, MayOperate
<1>6. CASE Cancel \/ UNCHANGED vars
  <2>1. UNCHANGED <<files, faults, pc, op, before>>
    BY <1>6 DEF Cancel, vars
  <2>2. QED
    BY <1>0, <2>1 DEF Exact, Updating, UpdatingWeb, UpdatingBin, RollingBack, Exchange, Untouched, Ended
<1>7. QED
  BY <1>2, <1>3, <1>4, <1>5, <1>6 DEF Next

(* The state file. *)
LEMMA StepQuiet ==
    ASSUME Step PROVE Finish \/ Dropped \/ (UNCHANGED <<record, lost, running>> /\ pc' # "idle")
<1>1. CASE Download \/ Rollback \/ SwapEnds
  BY <1>1 DEF Download, Rollback, SwapEnds, OnlyFiles, Then, Else
<1>2. CASE WebClear \/ BinClear \/ BinUndoClear \/ WebUndo
  BY <1>2 DEF WebClear, BinClear, BinUndoClear, WebUndo, Undo, Remove, OnlyFiles, Then, Else
<1>3. CASE WebInstall \/ BinInstall
  BY <1>3 DEF WebInstall, BinInstall, Install, OnlyFiles, Then, Else
<1>4. CASE WebBackup \/ WebRestore
  BY <1>4 DEF WebBackup, WebRestore, Move, OnlyFiles, Then, Else
<1>5. CASE BinBackup \/ BinUndo
  BY <1>5 DEF BinBackup, BinUndo, Undo, Move, OnlyFiles, Then, Else
<1>6. CASE SwapClear
  BY <1>6 DEF SwapClear, Remove, OnlyFiles, Then, Else
<1>7. CASE SwapOut \/ SwapIn \/ SwapBack \/ SwapBackUndo \/ SwapUndo
  BY <1>7 DEF SwapOut, SwapIn, SwapBack, SwapBackUndo, SwapUndo, Move, OnlyFiles, Then, Else
<1>8. QED
  BY <1>1, <1>2, <1>3, <1>4, <1>5, <1>6, <1>7 DEF Step

(* What the end of an operation leaves. *)
LEMMA AtEnd ==
    ASSUME UpdateInv, Exact, faults <= 1, before.web.cur # Absent, Finish \/ Dropped
    PROVE  /\ files.bin.cur \in Versions /\ before.bin.cur \in Versions
           /\ op.kind = "update" \/ op.kind = "rollback"
           /\ op.kind = "update" /\ op.ok =>
                 /\ files.bin.cur = op.target /\ files.bin.bak = before.bin.cur
                 /\ files.web.cur = IF op.web THEN op.target ELSE before.web.cur
           /\ op.kind = "rollback" /\ op.ok =>
                 /\ files.bin.cur = before.bin.bak /\ files.bin.bak = before.bin.cur
                 /\ files.web.cur = IF before.web.bak # Absent THEN before.web.bak ELSE before.web.cur
           /\ ~op.ok =>
                 /\ files.bin.cur = before.bin.cur /\ files.bin.bak \in {before.bin.bak, Absent}
                 /\ files.web.cur = before.web.cur
<1>1. pc \in {"finish", "dropped"}
  BY DEF Finish, Dropped
<1>2. /\ files.bin.cur \in Versions /\ before.bin.cur \in Versions
      /\ (op.kind = "update" /\ Updating) \/ (op.kind = "rollback" /\ RollingBack)
  BY <1>1 DEF UpdateInv, Kept, InPlace, Exact, Swapping, Replacing
<1>3. CASE op.kind = "update"
  BY <1>1, <1>2, <1>3 DEF Updating, Ended
<1>4. CASE op.kind = "rollback"
  BY <1>1, <1>2, <1>4 DEF RollingBack, Ended, Swapping
<1>5. QED
  BY <1>2, <1>3, <1>4

LEMMA EndKeeps ==
    ASSUME TypeOK, End
    PROVE  /\ pc' = "idle" /\ files'.bin.cur = files.bin.cur /\ files'.bin.bak = files.bin.bak
           /\ files'.web.cur = files.web.cur
  BY DEF TypeOK, End, Tidy, Objects

LEMMA TruthfulNext == ASSUME UpdateInv, Exact, Truthful, [Next]_vars PROVE Truthful'
<1>0. SUFFICES ASSUME faults' <= 1, ~lost' PROVE Truthful'
  BY DEF Truthful
<1>1. TypeOK /\ TypeOK' /\ faults \in Nat /\ faults' \in Nat
  BY TypeStep, Numbers DEF UpdateInv, TypeOK
<1>2. CASE Finish \/ Dropped
  <2>1. faults <= 1 /\ ~lost /\ pc # "idle" /\ before' = before
    BY <1>0, <1>1, <1>2 DEF TypeOK, Finish, Dropped, Fault
  <2>2. /\ before.web.cur # Absent /\ record.status = "running"
        /\ record.cur = before.bin.cur /\ before.bin.bak \in {record.prev, Absent}
    BY <2>1 DEF Truthful
  <2>3. CASE pc' = "dropped"
    <3>1. record' = record
      BY <1>2, <2>3 DEF Finish, Dropped, End
    <3>2. QED
      BY <2>1, <2>2, <2>3, <3>1 DEF Truthful
  <2>4. CASE End /\ ~op.ok
    <3>1. record'.cur = record.cur /\ record'.prev = record.prev /\ record'.status # "succeeded"
      BY <1>0, <1>1, <1>2, <2>2, <2>4 DEF TypeOK, Finish, Dropped, Finished
    <3>2. QED
      BY <1>1, <1>2, <2>1, <2>2, <2>4, <3>1, AtEnd, EndKeeps, Numbers DEF Truthful
  <2>5. CASE End /\ op.ok
    <3>1. record' = Finished
      <4>1. CASE Dropped
        <5>1. lost' = (lost \/ op.ok)
          BY <4>1 DEF Dropped
        <5>2. QED
          BY <1>0, <2>5, <5>1
      <4>2. CASE Finish
        <5>1. pc' = "idle" /\ lost' # TRUE
          BY <1>0, <2>5 DEF End
        <5>2. QED
          BY <4>2, <5>1 DEF Finish
      <4>3. QED
        BY <1>2, <4>1, <4>2
    <3>2. CASE op.kind = "update"
      <4>1. record'.cur = op.target /\ record'.prev = record.cur
        BY <2>5, <3>1, <3>2 DEF Finished
      <4>2. QED
        BY <1>1, <1>2, <2>1, <2>2, <2>5, <3>2, <4>1, AtEnd, EndKeeps, Numbers DEF Truthful
    <3>3. CASE op.kind = "rollback"
      <4>1. record'.cur = record.prev /\ record'.prev = record.cur
        BY <2>5, <3>1, <3>3 DEF Finished
      <4>2. QED
        BY <1>1, <1>2, <2>1, <2>2, <2>5, <3>3, <4>1, AtEnd, EndKeeps, Numbers DEF Truthful
    <3>4. QED
      BY <1>2, <2>1, <2>2, <3>2, <3>3, AtEnd
  <2>6. QED
    BY <1>2, <2>3, <2>4, <2>5 DEF Finish, Dropped
<1>3. CASE Step /\ ~Finish /\ ~Dropped
  <2>1. UNCHANGED <<record, lost, before>> /\ pc # "idle" /\ pc' # "idle" /\ faults <= 1
    BY <1>0, <1>1, <1>3, StepFrame, StepQuiet
  <2>2. QED
    BY <1>0, <2>1 DEF Truthful
<1>4. CASE (\E v \in Versions : StartUpdate(v)) \/ StartRollback
  <2>1. /\ pc = "idle" /\ running # 0 /\ UNCHANGED <<files, running, lost>>
        /\ \/ record' = Running /\ before' = files /\ pc' # "idle" /\ faults' = faults
           \/ UNCHANGED <<record, pc, before>> /\ faults' = faults + 1
    BY <1>4 DEF StartUpdate, StartRollback, Begin, MayOperate, Fault
  <2>2. /\ files.web.cur # Absent
        /\ record.cur \in {0, files.bin.cur} /\ files.bin.bak \in {record.prev, Absent}
        /\ record.cur = 0 => running \in {0, files.bin.cur} /\ record.status # "succeeded"
        /\ record.status = "succeeded" => record.prev = files.bin.bak
    BY <1>0, <1>1, <2>1 DEF Truthful
  <2>3. CASE record' = Running /\ before' = files /\ pc' # "idle"
    <3>1. record'.cur = files.bin.cur /\ record'.prev = record.prev /\ record'.status = "running"
      BY <1>1, <2>1, <2>2, <2>3 DEF TypeOK, Running
    <3>2. QED
      BY <2>1, <2>2, <2>3, <3>1 DEF Truthful
  <2>4. CASE UNCHANGED <<record, pc, before>>
    BY <2>1, <2>2, <2>4 DEF Truthful
  <2>5. QED
    BY <2>1, <2>3, <2>4
<1>5. CASE Recover
  <2>1. /\ pc = "idle" /\ UNCHANGED <<files, running, pc, lost>> /\ faults <= 1
        /\ record'.cur = record.cur /\ record'.prev = record.prev /\ record'.status # "succeeded"
    BY <1>0, <1>1, <1>5 DEF TypeOK, Recover, MayOperate, Fault
  <2>2. QED
    BY <1>0, <2>1 DEF Truthful
<1>6. CASE RefuseUpdate \/ Restart \/ Cancel \/ LockAges \/ UNCHANGED vars
  <2>1. UNCHANGED <<files, record, running, pc, faults, before, lost>>
    BY <1>6 DEF RefuseUpdate, Restart, Cancel, LockAges, vars
  <2>2. QED
    BY <2>1 DEF Truthful
<1>7. CASE Exit \/ Boot
  <2>1. /\ pc = "idle" /\ UNCHANGED <<files, record, pc, faults, lost>>
        /\ running' \in {0, files.bin.cur}
    BY <1>7 DEF UpdateInv, Kept, Exit, Boot
  <2>2. QED
    BY <1>0, <2>1 DEF Truthful
<1>8. CASE Crash
  <2>1. pc = "idle" /\ ~lost /\ pc' = "idle" /\ running' = 0 /\ UNCHANGED <<record, faults>>
    BY <1>0, <1>8 DEF Crash
  <2>2. Torn = {files}
    BY <2>1 DEF Torn
  <2>3. /\ files'.bin.cur = files.bin.cur /\ files'.bin.bak = files.bin.bak
        /\ files'.web.cur = files.web.cur
    BY <1>1, <1>8, <2>2 DEF TypeOK, Crash, Tidy, Objects
  <2>4. QED
    BY <1>0, <2>1, <2>3 DEF Truthful
<1>9. QED
  BY <1>2, <1>3, <1>4, <1>5, <1>6, <1>7, <1>8 DEF Next

(* The invariant that relates the files, the state file and the files as    *)
(* they were at the beginning of the operation under way.                   *)
THEOREM OperationInvariant == Spec => [](UpdateInv /\ Exact /\ Truthful)
<1>1. Init => Exact /\ Truthful
  <2>1. SUFFICES ASSUME Init PROVE Exact /\ Truthful
    OBVIOUS
  <2>2. /\ files.bin.cur = 1 /\ files.bin.bak = Absent /\ files.web.cur = 1 /\ running = 1 /\ pc = "idle"
        /\ record.cur = 0 /\ record.status = "idle"
    BY <2>1 DEF Init, Objects
  <2>3. QED
    BY <2>2, Numbers DEF Exact, Truthful
<1>2. UpdateInv /\ Exact /\ Truthful /\ [Next]_vars => Exact' /\ Truthful'
  BY ExactNext, TruthfulNext
<1>3. QED
  BY <1>1, <1>2, UpdateInvariant, PTL DEF Spec

(* As long as no outcome was lost and at most one file operation failed,    *)
(* the state file names the executable and its backup after a success.      *)
THEOREM StateFileTruthful == Spec => []VersionsTruthful
<1>1. UpdateInv /\ Exact /\ Truthful => VersionsTruthful
  BY DEF Truthful, VersionsTruthful
<1>2. QED
  BY <1>1, OperationInvariant, PTL

(* An update or rollback that began with web assets in place replaces both  *)
(* the executable and the web assets or leaves both, whichever single file  *)
(* operation fails.                                                         *)
THEOREM UpdatedTogether == Spec => AllOrNothing
<1>1. ASSUME UpdateInv, Exact, [Next]_vars,
             pc # "idle", pc' = "idle", running' # 0, faults' <= 1, before.web.cur # Absent
      PROVE  \A o \in Objects : files'[o].cur = IF op.ok THEN Target(o) ELSE before[o].cur
  <2>1. Finish \/ Dropped
    <3>1. ~Step => FALSE
      BY <1>1 DEF UpdateInv, Kept, Next, vars, StartUpdate, StartRollback, RefuseUpdate, Recover,
         Restart, Cancel, Exit, Crash, Boot, LockAges, MayOperate
    <3>2. QED
      BY <1>1, <3>1, StepQuiet
  <2>2. /\ TypeOK /\ faults \in Nat /\ faults' \in {faults, faults + 1} /\ End
    BY <1>1, <2>1, Numbers DEF UpdateInv, TypeOK, Finish, Dropped, Fault
  <2>3. faults <= 1
    BY <1>1, <2>2
  <2>4. QED
    BY <1>1, <2>1, <2>2, <2>3, AtEnd, EndKeeps DEF Target, Objects
<1>2. UpdateInv /\ Exact /\ [Next]_vars =>
        (pc # "idle" /\ pc' = "idle" /\ running' # 0 /\ faults' <= 1 /\ before.web.cur # Absent =>
            \A o \in Objects : files'[o].cur = IF op.ok THEN Target(o) ELSE before[o].cur)
  BY <1>1
<1>3. QED
  BY <1>2, OperationInvariant, PTL DEF Spec, AllOrNothing
=============================================================================
