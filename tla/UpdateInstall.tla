---------------------------- MODULE UpdateInstall ---------------------------
(***************************************************************************)
(* An update from the download to the first start of the new version: the  *)
(* thread that stages the package (UpdateChecker), the installer process   *)
(* that replaces the files (UpdateInstaller), the TSF library that cannot  *)
(* be replaced at once and is swapped at the next start (PendingDllApply), *)
(* and what that start tells the user (UpdateOutcome).                     *)
(*                                                                         *)
(* A file is its version: 0 none, 1 installed, 2 of the package, Torn a    *)
(* copy that was cut off.  Calls on files may fail, a process may be ended *)
(* between any two of them, and the user may start the application while   *)
(* the installer is at work: nothing keeps the two apart.                  *)
(***************************************************************************)
EXTENDS Naturals, FiniteSets

CONSTANTS Fails, Kills, Starts  \* how many failures, ends and starts (bounds)

ASSUME UpdateAssumption == Fails \in Nat /\ Kills \in Nat /\ Starts \in Nat

VARIABLES
  box,     \* the files of the installation directory
  inst,    \* the installer process: [pc, todo, parked]
  app,     \* the main process: [pc, ver]
  dl,      \* the download thread: [pc, cancel]
  pkg,     \* the staged package in %TEMP%: "none", "good", "torn"
  said,    \* what the last start has told: "none", "ok", "failed"
  left,    \* what is left of the bounds
  mishaps  \* what has happened that the properties set apart

uvars == <<box, inst, app, dl, pkg, said, left, mishaps>>

Torn   == 9
Parts  == {"exe", "lib"}         \* VKey.exe, sciter.dll
Old(f) == IF f = "exe" THEN "oldexe" ELSE "oldlib"   \* their place in _old_version
NoInst == [pc |-> "none", todo |-> {}, parked |-> FALSE]

UInit ==
  /\ box = [exe |-> 1, lib |-> 1, tsf |-> 1, pend |-> 0, mark |-> 0, oldexe |-> 0,
            oldlib |-> 0, park |-> 0, swapped |-> 0, temp |-> FALSE, ok |-> 0,
            failed |-> FALSE]
  /\ inst = NoInst
  /\ app = [pc |-> "up", ver |-> 1]
  /\ dl = [pc |-> "idle", cancel |-> FALSE]
  /\ pkg = "none" /\ said = "none" /\ mishaps = {}
  /\ left = [fail |-> Fails, kill |-> Kills, start |-> Starts]

Spend(what) == left[what] > 0 /\ left' = [left EXCEPT ![what] = @ - 1]

(* A call that succeeds or fails. *)
Ok  == UNCHANGED left
Bad == Spend("fail")

(***************************************************************************)
(* UpdateChecker::DownloadAndLaunchInstaller, on a thread of its own: the  *)
(* user may cancel the dialog at any moment.                               *)
(***************************************************************************)
DropStaged == pkg' = "none" /\ dl' = [dl EXCEPT !.pc = "over"] /\ inst' = inst

(* The user accepts the update that CheckForUpdate has found. *)
ShowUpdateDialog ==
  /\ dl.pc = "idle" /\ app.pc = "up" /\ app.ver = 1 /\ inst.pc = "none" /\ Spend("start")
  /\ dl' = [pc |-> "zip", cancel |-> FALSE]
  /\ UNCHANGED <<box, inst, app, pkg, said, mishaps>>

DownloadFile ==
  /\ dl.pc = "zip" /\ app.pc = "up"
  /\ IF dl.cancel THEN DropStaged /\ Ok
     ELSE \/ Ok /\ pkg' = "good" /\ dl' = [dl EXCEPT !.pc = "sum"] /\ inst' = inst
          \/ Bad /\ pkg' = "torn" /\ dl' = [dl EXCEPT !.pc = "sum"] /\ inst' = inst
          \/ Bad /\ DropStaged
  /\ UNCHANGED <<box, app, said, mishaps>>

(* The checksum, then the signature of the package. *)
VerifyDownloadedZip ==
  /\ dl.pc = "sum" /\ app.pc = "up"
  /\ IF dl.cancel \/ pkg # "good" THEN DropStaged /\ Ok
     ELSE \/ Ok /\ dl' = [dl EXCEPT !.pc = "sig"] /\ UNCHANGED <<pkg, inst>>
          \/ Bad /\ DropStaged
  /\ UNCHANGED <<box, app, said, mishaps>>

VerifySignedUpdateZip ==
  /\ dl.pc = "sig" /\ app.pc = "up"
  /\ IF dl.cancel THEN DropStaged /\ Ok
     ELSE \/ Ok /\ dl' = [dl EXCEPT !.pc = "launch"] /\ UNCHANGED <<pkg, inst>>
          \/ Bad /\ DropStaged
  /\ UNCHANGED <<box, app, said, mishaps>>

(* CreateProcess of the installer: the flag is not looked at again. *)
DownloadAndLaunchInstaller ==
  /\ dl.pc = "launch" /\ app.pc = "up"
  /\ \/ Ok /\ inst' = [NoInst EXCEPT !.pc = "wait"] /\ dl' = [dl EXCEPT !.pc = "done"] /\ pkg' = pkg
     \/ Bad /\ DropStaged
  /\ UNCHANGED <<box, app, said, mishaps>>

(* The progress dialog is closed before the thread is done. *)
ShowProgressDialog ==
  /\ dl.pc \in {"zip", "sum", "sig", "launch"} /\ ~dl.cancel /\ app.pc = "up"
  /\ dl' = [dl EXCEPT !.cancel = TRUE]
  /\ mishaps' = IF dl.pc = "launch" THEN mishaps \cup {"late cancel"} ELSE mishaps
  /\ UNCHANGED <<box, inst, app, pkg, said, left>>

(* DownloadWithProgress returns: WM_CLOSE to the main window. *)
DownloadWithProgress ==
  /\ dl.pc \in {"done", "over"} /\ app.pc = "up"
  /\ dl' = [pc |-> "idle", cancel |-> dl.cancel]
  /\ app' = IF dl.pc = "done" /\ ~dl.cancel THEN [app EXCEPT !.pc = "down"] ELSE app
  /\ UNCHANGED <<box, inst, pkg, said, left, mishaps>>

(***************************************************************************)
(* The installer.                                                          *)
(***************************************************************************)
At(pc) == inst.pc = pc
GoTo(pc) == inst' = [inst EXCEPT !.pc = pc, !.todo = Parts]
RollbackRestoreAndExit(restore) ==
  inst' = [inst EXCEPT !.pc = IF restore THEN "undo" ELSE "undone", !.todo = Parts]
Unmoved == UNCHANGED <<app, dl, said>>

(* The receipt of an earlier update is removed and, if so, the failure is marked:
   the code looks at neither call's result. *)
Marked(failure) ==
  \/ Ok /\ box' = [box EXCEPT !.ok = 0, !.failed = @ \/ failure]
  \/ Bad /\ box' \in {box, [box EXCEPT !.ok = 0], [box EXCEPT !.failed = @ \/ failure]}

WaitForOtherProcesses ==
  /\ At("wait")
  /\ \/ app.pc = "down" /\ GoTo("verify") /\ Marked(FALSE)
     \/ app.pc # "down" /\ inst' = NoInst /\ Marked(TRUE)     \* 120 s are over
  /\ Unmoved /\ UNCHANGED <<pkg, mishaps>>

(* The package again; what an earlier update left pending goes. *)
VerifyPackage ==
  /\ At("verify")
  /\ \/ Ok /\ pkg = "good" /\ GoTo("extract") /\ box' = [box EXCEPT !.pend = 0, !.mark = 0]
     \/ (Bad \/ (pkg # "good" /\ Ok)) /\ RollbackRestoreAndExit(FALSE) /\ box' = box
  /\ Unmoved /\ UNCHANGED <<pkg, mishaps>>

ExtractZip ==
  /\ At("extract")
  /\ \/ Ok /\ GoTo("backup") /\ box' = [box EXCEPT !.temp = TRUE]
     \/ Bad /\ RollbackRestoreAndExit(FALSE) /\ box' \in {box, [box EXCEPT !.temp = TRUE]}
  /\ Unmoved /\ UNCHANGED <<pkg, mishaps>>

(* A file that cannot be moved is left where it is. *)
BackUp(f) ==
  /\ At("backup") /\ f \in inst.todo
  /\ inst' = [inst EXCEPT !.todo = @ \ {f}]
  /\ \/ /\ box[f] = 0 /\ Ok /\ UNCHANGED <<box, mishaps>>
     \/ /\ box[f] # 0 /\ Ok /\ box' = [box EXCEPT ![Old(f)] = box[f], ![f] = 0]
        /\ mishaps' = mishaps
     \/ /\ box[f] # 0 /\ Bad /\ box' = [box EXCEPT ![Old(f)] = 0]
        /\ mishaps' = mishaps \cup {"no backup"}
  /\ Unmoved /\ UNCHANGED pkg

CopyDirectoryContents(f) ==
  /\ At("copy") /\ f \in inst.todo
  /\ \/ /\ box.temp /\ Ok /\ box' = [box EXCEPT ![f] = 2]
        /\ inst' = [inst EXCEPT !.todo = @ \ {f}]
     \/ Bad /\ RollbackRestoreAndExit(TRUE) /\ box' \in {box, [box EXCEPT ![f] = Torn]}
     \/ ~box.temp /\ Ok /\ RollbackRestoreAndExit(TRUE) /\ box' = box
  /\ Unmoved /\ UNCHANGED <<pkg, mishaps>>

AllDone(pc, next) ==
  /\ At(pc) /\ inst.todo = {} /\ GoTo(next)
  /\ Unmoved /\ UNCHANGED <<box, pkg, left, mishaps>>

(* HandleTsfDllReplace: the library is moved away and copied ... *)
ParkTsf ==
  /\ At("tsf")
  /\ \/ box.tsf # 0 /\ Ok /\ GoTo("tsfcopy") /\ box' = [box EXCEPT !.park = box.tsf, !.tsf = 0]
     \/ box.tsf # 0 /\ Bad /\ GoTo("pend") /\ box' = box
     \/ box.tsf = 0 /\ box.temp /\ Ok /\ GoTo("receipt") /\ box' = [box EXCEPT !.tsf = 2]
     \/ box.tsf = 0 /\ Bad /\ RollbackRestoreAndExit(TRUE) /\ box' = box
     \/ box.tsf = 0 /\ ~box.temp /\ Ok /\ RollbackRestoreAndExit(TRUE) /\ box' = box
  /\ Unmoved /\ UNCHANGED <<pkg, mishaps>>

CopyTsf ==
  /\ At("tsfcopy")
  /\ \/ /\ box.temp /\ Ok /\ inst' = [inst EXCEPT !.pc = "receipt", !.parked = TRUE]
        /\ box' = [box EXCEPT !.tsf = 2, !.pend = 0, !.mark = 0] /\ mishaps' = mishaps
     \/ /\ (Bad \/ (~box.temp /\ Ok)) /\ GoTo("pend") /\ mishaps' = mishaps
        /\ box' = [box EXCEPT !.tsf = box.park, !.park = 0]
     \/ /\ left.fail > 1 /\ left' = [left EXCEPT !.fail = @ - 2] /\ GoTo("pend")
        /\ box' = box /\ mishaps' = mishaps \cup {"no way back"}
  /\ Unmoved /\ UNCHANGED pkg

(* ... or left for the next start, with a marker that holds its hash. *)
StashTsf ==
  /\ At("pend")
  /\ \/ box.temp /\ Ok /\ GoTo("mark") /\ box' = [box EXCEPT !.pend = 2]
     \/ Bad /\ RollbackRestoreAndExit(TRUE) /\ box' \in {box, [box EXCEPT !.pend = Torn]}
     \/ ~box.temp /\ Ok /\ RollbackRestoreAndExit(TRUE) /\ box' = box
  /\ Unmoved /\ UNCHANGED <<pkg, mishaps>>

MarkTsf ==
  /\ At("mark")
  /\ \/ Ok /\ GoTo("receipt") /\ box' = [box EXCEPT !.mark = box.pend]
     \/ Bad /\ RollbackRestoreAndExit(TRUE) /\ box' = [box EXCEPT !.pend = 0, !.mark = 0]
  /\ Unmoved /\ UNCHANGED <<pkg, mishaps>>

(* Mutant: the marker of an earlier failure is not removed. *)
ReceiptKeepsFailure ==
  /\ At("receipt")
  /\ \/ box.exe = 0 /\ Ok /\ RollbackRestoreAndExit(TRUE) /\ UNCHANGED <<box, pkg>>
     \/ /\ box.exe # 0 /\ Ok /\ GoTo("relaunch") /\ pkg' = "none"
        /\ box' = [box EXCEPT !.temp = FALSE, !.ok = box.exe]
     \/ /\ box.exe # 0 /\ Bad /\ RollbackRestoreAndExit(TRUE) /\ pkg' = "none"
        /\ box' = [box EXCEPT !.temp = FALSE]
  /\ Unmoved /\ UNCHANGED mishaps

(* The marker of an earlier failure goes; one that cannot be removed stays. *)
Receipt ==
  /\ At("receipt")
  /\ \/ box.exe = 0 /\ Ok /\ RollbackRestoreAndExit(TRUE) /\ UNCHANGED <<box, pkg, mishaps>>
     \/ /\ box.exe # 0 /\ Ok /\ GoTo("relaunch") /\ pkg' = "none"
        /\ box' = [box EXCEPT !.temp = FALSE, !.ok = box.exe, !.failed = FALSE]
        /\ mishaps' = mishaps
     \/ /\ box.exe # 0 /\ box.failed /\ Bad /\ GoTo("relaunch") /\ pkg' = "none"
        /\ box' = [box EXCEPT !.temp = FALSE, !.ok = box.exe]
        /\ mishaps' = mishaps \cup {"failure kept"}
     \/ /\ box.exe # 0 /\ Bad /\ RollbackRestoreAndExit(TRUE) /\ pkg' = "none"
        /\ box' = [box EXCEPT !.temp = FALSE] /\ mishaps' = mishaps
  /\ Unmoved

(* CreateProcess; a process that finds the other one only shows its window. *)
Started == IF app.pc = "down" THEN [pc |-> "apply", ver |-> box.exe] ELSE app
Relaunch ==
  /\ At("relaunch")
  /\ \/ Ok /\ box.exe # 0 /\ app' = Started /\ inst' = NoInst
     \/ Bad /\ RollbackRestoreAndExit(TRUE) /\ app' = app
     \/ Ok /\ box.exe = 0 /\ RollbackRestoreAndExit(TRUE) /\ app' = app
  /\ UNCHANGED <<box, dl, pkg, said, mishaps>>

(* Back to what is in _old_version. *)
RestoreBackup(f) ==
  /\ At("undo") /\ f \in inst.todo
  /\ inst' = [inst EXCEPT !.todo = @ \ {f}]
  /\ \/ box[Old(f)] = 0 /\ Ok /\ UNCHANGED <<box, mishaps>>
     \/ /\ box[Old(f)] # 0 /\ Ok /\ box' = [box EXCEPT ![f] = box[Old(f)], ![Old(f)] = 0]
        /\ mishaps' = mishaps
     \/ /\ box[Old(f)] # 0 /\ Bad /\ box' = box /\ mishaps' = mishaps \cup {"no way back"}
  /\ Unmoved /\ UNCHANGED pkg

(* Mutant: the rollback forgets the library that was moved away. *)
RestoreTsfForgotten ==
  /\ At("undotsf") /\ GoTo("undone") /\ Ok /\ Unmoved /\ UNCHANGED <<box, mishaps, pkg>>

RestoreTsf ==
  /\ At("undotsf") /\ GoTo("undone")
  /\ \/ ~inst.parked /\ Ok /\ UNCHANGED <<box, mishaps>>
     \/ /\ inst.parked /\ Ok /\ mishaps' = mishaps
        /\ box' = [box EXCEPT !.tsf = box.park, !.park = 0]
     \/ /\ inst.parked /\ Bad /\ mishaps' = mishaps \cup {"no way back"}
        /\ box' \in {box, [box EXCEPT !.tsf = 0]}
  /\ Unmoved /\ UNCHANGED pkg

RollbackEnd ==
  /\ At("undone") /\ inst' = NoInst
  /\ \/ /\ Ok /\ box' = [box EXCEPT !.pend = 0, !.mark = 0, !.ok = 0, !.failed = TRUE]
        /\ app' = IF box.exe \in {0, Torn} THEN app ELSE Started
     \/ /\ Bad
        /\ \E told, gone \in BOOLEAN :
             box' = [box EXCEPT !.pend = 0, !.mark = 0, !.ok = IF gone THEN 0 ELSE @, !.failed = @ \/ told]
        /\ app' \in {app, IF box.exe \in {0, Torn} THEN app ELSE Started}
  /\ UNCHANGED <<dl, pkg, said, mishaps>>

Installer ==
  \/ WaitForOtherProcesses \/ VerifyPackage \/ ExtractZip
  \/ \E f \in Parts : BackUp(f) \/ CopyDirectoryContents(f) \/ RestoreBackup(f)
  \/ AllDone("backup", "copy") \/ AllDone("copy", "tsf") \/ AllDone("undo", "undotsf")
  \/ ParkTsf \/ CopyTsf \/ StashTsf \/ MarkTsf \/ Receipt \/ Relaunch
  \/ RestoreTsf \/ RollbackEnd

(***************************************************************************)
(* The start of the main process.                                          *)
(***************************************************************************)
Step(pc) == app' = [app EXCEPT !.pc = pc]
Aside == UNCHANGED <<inst, dl, pkg>>

(* ApplyPendingDllUpdate: only what the marker vouches for is taken. *)

ApplyPending ==
  /\ app.pc = "apply"
  /\ LET trusted == box.pend # 0 /\ box.mark = box.pend
     IN \/ /\ ~trusted /\ Ok /\ Step("consume") /\ box' = [box EXCEPT !.pend = 0, !.mark = 0]
        \/ /\ trusted /\ Bad /\ Step("consume")       \* the hash cannot be read
           /\ box' = [box EXCEPT !.pend = 0, !.mark = 0]
        \/ /\ trusted /\ (Bad \/ (box.tsf = 0 /\ Ok)) /\ Step("consume") /\ box' = box
        \/ /\ trusted /\ box.tsf # 0 /\ Ok /\ Step("swap")
           /\ box' = [box EXCEPT !.swapped = box.tsf, !.tsf = 0]
  /\ mishaps' = IF box.pend # 0 /\ box.mark = box.pend /\ box'.pend = 0
                THEN mishaps \cup {"unread"} ELSE mishaps
  /\ UNCHANGED said /\ Aside

SwapPending ==
  /\ app.pc = "swap" /\ Step("consume")
  /\ \/ /\ Ok /\ box.pend # 0 /\ mishaps' = mishaps
        /\ box' = [box EXCEPT !.tsf = box.pend, !.pend = 0, !.mark = 0]
     \/ /\ (Bad \/ (box.pend = 0 /\ Ok))
        /\ box' = [box EXCEPT !.tsf = box.swapped, !.swapped = 0] /\ mishaps' = mishaps
     \/ /\ left.fail > 1 /\ left' = [left EXCEPT !.fail = @ - 2]
        /\ box' = box /\ mishaps' = mishaps \cup {"no way back"}
  /\ UNCHANGED said /\ Aside

(* A marker or receipt that cannot be removed is there at the next start too. *)
ConsumeUpdateOutcome ==
  /\ app.pc = "consume" /\ Step("clean")
  /\ said' = IF box.failed THEN "failed"
             ELSE IF box.ok = 0 THEN "none" ELSE IF box.ok = app.ver THEN "ok" ELSE "failed"
  /\ \/ Ok /\ box' = [box EXCEPT !.failed = FALSE, !.ok = 0]
     \/ box.failed /\ Bad /\ box' \in {box, [box EXCEPT !.ok = 0], [box EXCEPT !.failed = FALSE]}
     \/ ~box.failed /\ box.ok # 0 /\ Bad /\ box' = box
  /\ UNCHANGED mishaps /\ Aside

(* A file in use cannot be removed; remove_all stops at the first. *)
CleanupOldUpdateFiles ==
  /\ app.pc = "clean" /\ Step("up")
  /\ \/ Ok /\ box' = [box EXCEPT !.oldexe = 0, !.oldlib = 0, !.park = 0, !.swapped = 0, !.temp = FALSE]
     \/ Bad /\ box' \in {[box EXCEPT !.temp = FALSE], [box EXCEPT !.oldexe = 0, !.oldlib = 0]}
  /\ UNCHANGED <<said, mishaps>> /\ Aside

Main == ApplyPending \/ SwapPending \/ ConsumeUpdateOutcome \/ CleanupOldUpdateFiles

(***************************************************************************)
(* The user, and processes that are ended.                                 *)
(***************************************************************************)
UserStarts ==
  /\ app.pc = "down" /\ box.exe \notin {0, Torn} /\ Spend("start")
  /\ app' = [pc |-> "apply", ver |-> box.exe]
  /\ mishaps' = IF inst.pc \in {"none", "wait"} THEN mishaps ELSE mishaps \cup {"crossed"}
  /\ UNCHANGED <<box, inst, dl, pkg, said>>

UserQuits ==
  /\ app.pc = "up" /\ Spend("start")
  /\ app' = [app EXCEPT !.pc = "down"]
  /\ dl' = [pc |-> "idle", cancel |-> FALSE]
  /\ UNCHANGED <<box, inst, pkg, said, mishaps>>

(* A copy that is under way stays cut off. *)
InstallerEnded ==
  /\ inst.pc # "none" /\ Spend("kill")
  /\ box' \in {box} \cup
       {[box EXCEPT ![f] = Torn] : f \in IF At("copy") THEN inst.todo
                                         ELSE IF At("tsfcopy") THEN {"tsf"}
                                         ELSE IF At("pend") THEN {"pend"} ELSE {}}
  /\ inst' = NoInst
  /\ mishaps' = IF inst.pc \in {"wait", "verify", "extract", "relaunch"} THEN mishaps
                ELSE mishaps \cup {"cut off"}
  /\ UNCHANGED <<app, dl, pkg, said>>

MainEnded ==
  /\ app.pc \notin {"down", "up"} /\ Spend("kill")
  /\ app' = [app EXCEPT !.pc = "down"]
  /\ mishaps' = IF app.pc = "swap" THEN mishaps \cup {"cut off"} ELSE mishaps
  /\ UNCHANGED <<box, inst, dl, pkg, said>>

UNext ==
  \/ ShowUpdateDialog \/ DownloadFile \/ VerifyDownloadedZip \/ VerifySignedUpdateZip
  \/ DownloadAndLaunchInstaller \/ ShowProgressDialog \/ DownloadWithProgress
  \/ Installer \/ Main \/ UserStarts \/ UserQuits \/ InstallerEnded \/ MainEnded

UFairness == WF_uvars(Installer) /\ WF_uvars(Main)
USpec == UInit /\ [][UNext]_uvars /\ UFairness

(***************************************************************************)
(* Properties.                                                             *)
(***************************************************************************)
(* Versions of files, places of the processes, budgets. *)
UTypeOK ==
  /\ \A f \in DOMAIN box \ {"temp", "failed"} : box[f] \in {0, 1, 2, Torn}
  /\ inst.todo \subseteq Parts
  /\ app.pc \in {"down", "apply", "swap", "consume", "clean", "up"} /\ app.ver \in {1, 2}
  /\ \A k \in DOMAIN left : left[k] \in Nat

(* What leaves an installation in two versions (README, section 4). *)
Spoilt == {"no backup", "no way back", "cut off", "crossed", "unread"}
AtRest == inst.pc = "none" /\ app.pc \in {"down", "up"}

(* However an update ends, the program and its libraries are of one version,
   the TSF library at the latest after the next start.  (RunUpdateInstaller,
   RollbackRestoreAndExit, ApplyPendingDllUpdate) *)
OneVersion ==
  AtRest /\ mishaps \cap Spoilt = {} =>
    /\ box.exe \in {1, 2} /\ box.lib = box.exe
    /\ (box.tsf = box.exe \/ (box.tsf = 1 /\ box.pend = 2 /\ box.mark = 2))

(* A library whose copy was cut off, by a failure or the end of the installer, is
   never put in place by a start.  (ApplyPendingDllUpdate, ReadMarkerHash) *)
OnlyVouchedFor == app.pc = "swap" /\ "crossed" \notin mishaps => box.pend = 2

(* A start that says the update was successful is one of the new version, with its
   libraries, and one that says it failed is of the old version, unless the marker of
   an earlier failure could not be removed.  (ConsumeUpdateOutcome) *)
ToldTrue ==
  app.pc = "up" /\ mishaps \cap Spoilt = {} =>
    /\ said = "ok" => app.ver = 2 /\ box.exe = 2 /\ box.lib = 2 /\ (box.tsf = 2 \/ box.pend = 2)
    /\ said = "failed" => app.ver = 1 \/ "failure kept" \in mishaps

(* An update that was cancelled changes nothing and leaves no package behind.
   (DownloadAndLaunchInstaller) *)
CancelKept ==
  dl.cancel /\ "late cancel" \notin mishaps =>
    inst.pc = "none" /\ (dl.pc = "idle" /\ app.pc = "up" => pkg = "none")

(* An installer that starts comes to an end, and if the program is there it is
   running again unless a process could not be started or was ended.
   (RunUpdateInstaller) *)
InstallerEnds == (inst.pc # "none") ~> (inst.pc = "none")

(* However an update ends, what is installed is whole: of one version, and no library
   that was not vouched for is put in place.  (RunUpdateInstaller,
   ApplyPendingDllUpdate) *)
UpdateIsWhole == UTypeOK /\ OneVersion /\ OnlyVouchedFor

(* The user is told what happened, and a cancel is one.  (ConsumeUpdateOutcome,
   DownloadAndLaunchInstaller) *)
UserIsTold == ToldTrue /\ CancelKept
=============================================================================
