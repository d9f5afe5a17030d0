--------------------------- MODULE LifeCycleProofs ---------------------------
(***************************************************************************)
(* Proofs about the life of the application's processes: the keyboard hook *)
(* and its replacement (HookReclaim), the entries for the start at logon   *)
(* (StartupEntries), the main processes and their watchdogs (AppProcesses).*)
(***************************************************************************)
EXTENDS HookReclaim, StartupEntries, AppProcesses, TLAPS

-----------------------------------------------------------------------------
(* HookReclaim.                                                             *)

\* The hook, the policy and the hook thread's tickets are of these types.
RTypeOK ==
  /\ hook \in [handle : BOOLEAN, count : Nat] /\ running \in BOOLEAN /\ faults \in Nat
  /\ policy \in [pending : SUBSET Procs, successful : SUBSET Procs, suppress : BOOLEAN]
  /\ asked \in SUBSET Procs /\ slots \in [Procs -> Nat] /\ times \in [Procs -> Nat]

\* A hook that exists is one we hold, and we hold none while the thread is down.
HookHeld == /\ hook.count <= 1 /\ (hook.count > 0 => hook.handle)
            /\ (~running => ~hook.handle)

\* A process waits as a request or as a ticket, never as both: otherwise the answer
\* to the one would leave the other behind.
OneOfBoth == \A p \in Procs : ~(p \in asked /\ HasPending(p))

\* A process for which the hook has been replaced is never observed again.
DoneIsDone ==
  \A p \in Procs : times[p] > 0 => /\ times[p] = 1 /\ p \notin policy.pending
                                   /\ p \in policy.successful \/ policy.suppress

ReclaimInv == RTypeOK /\ HookHeld /\ PendingIsInWork /\ OneOfBoth /\ DoneIsDone

\* What Complete does to the policy: the process is no longer pending, and after
\* a success it can no longer be observed.
LEMMA CompletePolicy ==
  ASSUME RTypeOK, NEW p \in Procs, NEW b \in BOOLEAN
  PROVE  /\ Complete(p, b) \in [pending : SUBSET Procs, successful : SUBSET Procs, suppress : BOOLEAN]
         /\ Complete(p, b).pending = policy.pending \ {p}
         /\ policy.successful \subseteq Complete(p, b).successful
         /\ policy.suppress => Complete(p, b).suppress
         /\ b => p \in Complete(p, b).successful \/ Complete(p, b).suppress
<1> DEFINE open == [policy EXCEPT !.pending = @ \ {p}]
<1>1. open \in [pending : SUBSET Procs, successful : SUBSET Procs, suppress : BOOLEAN]
  BY DEF RTypeOK
<1>2. open.pending = policy.pending \ {p} /\ open.successful = policy.successful
      /\ open.suppress = policy.suppress
  BY DEF RTypeOK
<1>3. CASE ~b \/ p \in policy.successful
  BY <1>1, <1>2, <1>3 DEF Complete
<1>4. CASE b /\ p \notin policy.successful /\ Cardinality(policy.successful) < KMaxSuccessful
  <2>1. Complete(p, b) = [open EXCEPT !.successful = @ \cup {p}]
    BY <1>4 DEF Complete
  <2>2. Complete(p, b) = [pending |-> open.pending, successful |-> policy.successful \cup {p},
                          suppress |-> policy.suppress]
    BY <1>1, <1>2, <2>1
  <2>3. policy.pending \in SUBSET Procs /\ policy.successful \in SUBSET Procs /\ policy.suppress \in BOOLEAN
    BY DEF RTypeOK
  <2>4. policy.successful \cup {p} \in SUBSET Procs /\ policy.pending \ {p} \in SUBSET Procs
    BY <2>3
  <2> HIDE DEF open
  <2> QED BY <1>2, <2>2, <2>3, <2>4
<1>5. CASE b /\ p \notin policy.successful /\ ~(Cardinality(policy.successful) < KMaxSuccessful)
  <2>1. Complete(p, b) = [open EXCEPT !.suppress = TRUE]
    BY <1>5 DEF Complete
  <2> QED BY <1>1, <1>2, <1>5, <2>1
<1> QED BY <1>3, <1>4, <1>5

\* Every step of the hook thread, of Windows and of the user keeps the invariant.
LEMMA ReclaimStep == ReclaimInv /\ [RNext]_rvars => ReclaimInv'
<1> SUFFICES ASSUME ReclaimInv, [RNext]_rvars PROVE ReclaimInv'
  OBVIOUS
<1>a. RTypeOK /\ HookHeld /\ PendingIsInWork /\ OneOfBoth /\ DoneIsDone
  BY DEF ReclaimInv
<1>u. Unhooked \in Nat /\ Unhooked = 0
  BY <1>a DEF Unhooked, RTypeOK, HookHeld
<1>f. (Fault => faults' \in Nat) /\ (Fine => faults' \in Nat) /\ (Fault => faults' # faults)
  BY <1>a DEF Fault, Fine, RTypeOK
<1>1. CASE StartHook
  <2>0. hook.count = 0 /\ hook.handle = FALSE
    BY <1>1, <1>a DEF StartHook, HookHeld, RTypeOK
  <2>3. RTypeOK' /\ HookHeld'
    <3>1. CASE Fine /\ running' = TRUE /\ hook' = [handle |-> TRUE, count |-> hook.count + 1]
      <4>1. hook' = [handle |-> TRUE, count |-> 1] /\ running' = TRUE /\ faults' \in Nat
        BY <1>f, <2>0, <3>1
      <4>2. hook' \in [handle : BOOLEAN, count : Nat]
        BY <4>1
      <4>3. HookHeld'
        BY <4>1 DEF HookHeld
      <4>4. RTypeOK'
        BY <1>1, <1>a, <4>1, <4>2 DEF StartHook, RTypeOK
      <4> QED BY <4>3, <4>4
    <3>2. CASE Fault /\ UNCHANGED <<running, hook>>
      BY <1>1, <1>a, <1>f, <3>2 DEF StartHook, RTypeOK, HookHeld
    <3> QED BY <1>1, <3>1, <3>2 DEF StartHook
  <2> QED BY <1>1, <1>a, <2>3 DEF StartHook, ReclaimInv, PendingIsInWork, OneOfBoth, DoneIsDone, HasPending
<1>2. CASE StopHook
  <2>0. /\ hook' = [handle |-> FALSE, count |-> 0] /\ running' = FALSE /\ faults' \in Nat
        /\ policy' = [pending |-> {}, successful |-> {}, suppress |-> FALSE] /\ asked' = {}
        /\ slots' = [p \in Procs |-> 0] /\ times' = [p \in Procs |-> 0]
    BY <1>2, <1>f, <1>u DEF StopHook, NoPolicy
  <2>4. policy' \in [pending : SUBSET Procs, successful : SUBSET Procs, suppress : BOOLEAN]
    BY <2>0
  <2>1. RTypeOK' /\ HookHeld'
    <3>1. hook' \in [handle : BOOLEAN, count : Nat] /\ running' \in BOOLEAN
      BY <2>0
    <3>2. asked' \in SUBSET Procs /\ slots' \in [Procs -> Nat] /\ times' \in [Procs -> Nat]
      BY <2>0
    <3>3. HookHeld'
      BY <2>0 DEF HookHeld
    <3> QED BY <2>0, <2>4, <3>1, <3>2, <3>3 DEF RTypeOK
  <2> QED BY <1>2, <1>a, <2>1 DEF StopHook, ReclaimInv, PendingIsInWork, OneOfBoth, DoneIsDone, HasPending,
             NoPolicy
<1>3. CASE ApplyFocusDorion
  <2>1. UNCHANGED <<hook, running, slots, times>> /\ faults' \in Nat
    BY <1>3, <1>f DEF ApplyFocusDorion
  <2>2. CASE UNCHANGED <<asked, policy>>
    BY <1>a, <2>1, <2>2 DEF ReclaimInv, RTypeOK, HookHeld, PendingIsInWork, OneOfBoth, DoneIsDone, HasPending
  <2>3. CASE /\ Observe(cls) /\ asked' = asked \cup {cls}
             /\ policy' = [policy EXCEPT !.pending = @ \cup {cls}]
    <3>1. cls \in Procs /\ cls \notin policy.pending /\ cls \notin policy.successful /\ ~policy.suppress
      BY <1>3, <2>3 DEF ApplyFocusDorion, Observe
    <3>2. RTypeOK' /\ HookHeld'
      BY <1>a, <2>1, <2>3, <3>1 DEF RTypeOK, HookHeld
    <3>3. policy'.pending = policy.pending \cup {cls} /\ policy'.successful = policy.successful
          /\ policy'.suppress = policy.suppress
      BY <1>a, <2>3 DEF RTypeOK
    <3>4. PendingIsInWork' /\ OneOfBoth'
      BY <1>a, <2>1, <2>3, <3>1, <3>3 DEF PendingIsInWork, OneOfBoth, HasPending
    <3>5. DoneIsDone'
      BY <1>a, <2>1, <3>1, <3>3 DEF DoneIsDone
    <3> QED BY <3>2, <3>4, <3>5 DEF ReclaimInv
  <2> QED BY <1>3, <2>2, <2>3 DEF ApplyFocusDorion
<1>4. ASSUME NEW p \in Procs, ReclaimRequest(p) PROVE ReclaimInv'
  <2>1. /\ UNCHANGED <<hook, running, times>> /\ faults' \in Nat
        /\ p \in asked /\ asked' = asked \ {p} /\ ~HasPending(p)
    BY <1>4, <1>a, <1>f DEF ReclaimRequest, OneOfBoth
  <2>2. CASE slots' = slots /\ NotifyResult(p, FALSE)
    <3>1. /\ policy' \in [pending : SUBSET Procs, successful : SUBSET Procs, suppress : BOOLEAN]
          /\ policy'.pending = policy.pending \ {p} /\ policy.successful \subseteq policy'.successful
          /\ policy.suppress => policy'.suppress
      BY <1>a, <2>2, CompletePolicy DEF NotifyResult
    <3>2. RTypeOK' /\ HookHeld'
      BY <1>a, <2>1, <2>2, <3>1 DEF RTypeOK, HookHeld
    <3>3. PendingIsInWork' /\ OneOfBoth'
      BY <1>a, <2>1, <2>2, <3>1 DEF PendingIsInWork, OneOfBoth, HasPending
    <3>4. DoneIsDone'
      BY <1>a, <2>1, <3>1 DEF DoneIsDone
    <3> QED BY <3>2, <3>3, <3>4 DEF ReclaimInv
  <2>3. CASE policy' = policy /\ Arm(p, GateChecks)
    <3>1. RTypeOK' /\ HookHeld'
      BY <1>a, <2>1, <2>3, ReclaimAssumption DEF RTypeOK, HookHeld, Arm
    <3>2. PendingIsInWork' /\ OneOfBoth' /\ DoneIsDone'
      BY <1>a, <2>1, <2>3, ReclaimAssumption DEF PendingIsInWork, OneOfBoth, DoneIsDone, HasPending, Arm, RTypeOK
    <3> QED BY <3>1, <3>2 DEF ReclaimInv
  <2> QED BY <1>4, <2>1, <2>2, <2>3 DEF ReclaimRequest
<1>5. ASSUME NEW p \in Procs, ReclaimTimer(p) PROVE ReclaimInv'
  <2>1. UNCHANGED <<running, asked>> /\ HasPending(p) /\ p \notin asked /\ p \in policy.pending
    BY <1>5, <1>a DEF ReclaimTimer, OneOfBoth, PendingIsInWork
  <2>2. CASE Take(p) /\ NotifyResult(p, FALSE) /\ UNCHANGED <<hook, times>> /\ faults' \in Nat
    <3>1. /\ policy' \in [pending : SUBSET Procs, successful : SUBSET Procs, suppress : BOOLEAN]
          /\ policy'.pending = policy.pending \ {p} /\ policy.successful \subseteq policy'.successful
          /\ policy.suppress => policy'.suppress
      BY <1>a, <2>2, CompletePolicy DEF NotifyResult
    <3>2. RTypeOK' /\ HookHeld'
      BY <1>a, <2>1, <2>2, <3>1 DEF RTypeOK, HookHeld, Take
    <3>3. PendingIsInWork' /\ OneOfBoth'
      BY <1>a, <2>1, <2>2, <3>1 DEF PendingIsInWork, OneOfBoth, HasPending, Take, RTypeOK
    <3>4. DoneIsDone'
      BY <1>a, <2>2, <3>1 DEF DoneIsDone
    <3> QED BY <3>2, <3>3, <3>4 DEF ReclaimInv
  <2>3. CASE slots[p] > 1 /\ Fine /\ Arm(p, slots[p] - 1) /\ UNCHANGED <<policy, hook, times>>
    <3>1. slots[p] - 1 \in Nat /\ slots[p] - 1 > 0
      BY <1>a, <2>3 DEF RTypeOK
    <3>2. RTypeOK' /\ HookHeld'
      BY <1>a, <1>f, <2>1, <2>3, <3>1 DEF RTypeOK, HookHeld, Arm
    <3>3. PendingIsInWork' /\ OneOfBoth' /\ DoneIsDone'
      BY <1>a, <2>1, <2>3, <3>1 DEF PendingIsInWork, OneOfBoth, DoneIsDone, HasPending, Arm, RTypeOK
    <3> QED BY <3>2, <3>3 DEF ReclaimInv
  <2>4. CASE /\ Take(p) /\ ReplaceSingleHook /\ NotifyResult(p, Replaced)
             /\ times' = IF Replaced THEN [times EXCEPT ![p] = @ + 1] ELSE times
    <3>1. Replaced \in BOOLEAN
      BY DEF Replaced
    <3>2. /\ policy' \in [pending : SUBSET Procs, successful : SUBSET Procs, suppress : BOOLEAN]
          /\ policy'.pending = policy.pending \ {p} /\ policy.successful \subseteq policy'.successful
          /\ policy.suppress => policy'.suppress
          /\ Replaced => p \in policy'.successful \/ policy'.suppress
      BY <1>a, <2>4, <3>1, CompletePolicy DEF NotifyResult
    <3>3. hook' \in [handle : BOOLEAN, count : Nat] /\ faults' \in Nat /\ HookHeld'
      <4>1. CASE hook' = [handle |-> TRUE, count |-> Unhooked + 1] /\ Fine
        BY <1>5, <1>a, <1>u, <1>f, <2>1, <4>1 DEF HookHeld, ReclaimTimer
      <4>2. CASE hook' = hook /\ Fault
        BY <1>a, <1>f, <2>1, <4>2 DEF HookHeld, RTypeOK
      <4>3. CASE hook' = [handle |-> FALSE, count |-> Unhooked] /\ Fault
        BY <1>a, <1>u, <1>f, <2>1, <4>3 DEF HookHeld
      <4> QED BY <2>4, <4>1, <4>2, <4>3 DEF ReplaceSingleHook
    <3>4. times[p] = 0
      BY <1>a, <2>1 DEF DoneIsDone, RTypeOK
    <3>5. RTypeOK'
      BY <1>a, <2>1, <2>4, <3>2, <3>3 DEF RTypeOK, Take
    <3>6. PendingIsInWork' /\ OneOfBoth'
      BY <1>a, <2>1, <2>4, <3>2 DEF PendingIsInWork, OneOfBoth, HasPending, Take, RTypeOK
    <3>7. DoneIsDone'
      <4>1. CASE Replaced
        BY <1>a, <2>4, <3>2, <3>4, <4>1 DEF DoneIsDone, RTypeOK
      <4>2. CASE ~Replaced
        BY <1>a, <2>4, <3>2, <4>2 DEF DoneIsDone
      <4> QED BY <4>1, <4>2
    <3> QED BY <3>3, <3>5, <3>6, <3>7 DEF ReclaimInv
  <2> QED BY <1>5, <1>f, <2>2, <2>3, <2>4 DEF ReclaimTimer
<1>6. ASSUME NEW p \in Procs \cup {"other"}, Foreground(p) PROVE ReclaimInv'
  BY <1>6, <1>a DEF Foreground, ReclaimInv, RTypeOK, HookHeld, PendingIsInWork, OneOfBoth, DoneIsDone, HasPending
<1>7. CASE IsDorionReclaimQuiet
  BY <1>7, <1>a DEF IsDorionReclaimQuiet, ReclaimInv, RTypeOK, HookHeld, PendingIsInWork, OneOfBoth,
     DoneIsDone, HasPending
<1>8. CASE HookRemoved
  <2>1. RTypeOK' /\ HookHeld'
    BY <1>8, <1>a, <1>f DEF HookRemoved, RTypeOK, HookHeld
  <2> QED BY <1>8, <1>a, <2>1 DEF HookRemoved, ReclaimInv, PendingIsInWork, OneOfBoth, DoneIsDone, HasPending
<1>9. CASE UNCHANGED rvars
  BY <1>9, <1>a DEF rvars, ReclaimInv, RTypeOK, HookHeld, PendingIsInWork, OneOfBoth, DoneIsDone, HasPending
<1> QED BY <1>1, <1>2, <1>3, <1>4, <1>5, <1>6, <1>7, <1>8, <1>9 DEF RNext, HookThread

\* For any number of processes of the other program, of failures and of restarts of
\* the hook thread: there is one keyboard hook of ours at most, it is replaced once
\* for a process, and the policy has those processes pending that the hook thread
\* is dealing with (ReplaceSingleHook, DorionHookReclaimPolicy, notifyResult).
THEOREM HookIsKept == RSpec => []HookKept
<1>1. RInit => ReclaimInv
  <2> SUFFICES ASSUME RInit PROVE ReclaimInv
    OBVIOUS
  <2>1. policy = [pending |-> {}, successful |-> {}, suppress |-> FALSE]
    BY DEF RInit, NoPolicy
  <2>2. policy \in [pending : SUBSET Procs, successful : SUBSET Procs, suppress : BOOLEAN]
    BY <2>1
  <2>3. RTypeOK /\ HookHeld
    <3>1. hook \in [handle : BOOLEAN, count : Nat] /\ running \in BOOLEAN
      BY DEF RInit
    <3>2. asked \in SUBSET Procs /\ slots \in [Procs -> Nat] /\ times \in [Procs -> Nat]
      BY DEF RInit
    <3>3. HookHeld
      BY DEF RInit, HookHeld
    <3>4. faults \in Nat
      BY ReclaimAssumption DEF RInit
    <3> QED BY <2>2, <3>1, <3>2, <3>3, <3>4 DEF RTypeOK
  <2>4. PendingIsInWork /\ OneOfBoth /\ DoneIsDone
    BY <2>1 DEF RInit, PendingIsInWork, OneOfBoth, DoneIsDone, HasPending
  <2> QED BY <2>3, <2>4 DEF ReclaimInv
<1>2. ReclaimInv => HookKept
  BY DEF ReclaimInv, RTypeOK, HookHeld, DoneIsDone, HookKept, OneHook, OncePerProcess
<1> QED BY <1>1, <1>2, ReclaimStep, PTL DEF RSpec

-----------------------------------------------------------------------------
(* StartupEntries.                                                          *)

\* The entries, the settings, the dialog's copy and the process.
STypeOK ==
  /\ reg \in BOOLEAN /\ task \in BOOLEAN
  /\ cfg \in [start : BOOLEAN, admin : BOOLEAN] /\ dlg \in [start : BOOLEAN, admin : BOOLEAN]
  /\ proc \in [pc : {"up", "restart", "start"}, elev : BOOLEAN]

\* The dialog and the file never differ in "run at startup", and the value of the
\* registry is only there for a process that is to come up at logon.
OneMind == cfg.start = dlg.start /\ (reg => cfg.start)

\* A task that the user did not refuse to remove belongs to settings that ask for it,
\* in the file and in the dialog, and the value of the registry is not beside it; none
\* is there when a switch of the elevation waits for its restart.
TaskIsMeant ==
  "left behind" \notin notes /\ task =>
    cfg.start /\ cfg.admin /\ dlg.admin /\ proc.pc # "restart" /\ ~reg

\* A restart that gives the elevation up has its entry before it is tried: it may fail.
EntryBeforeRestart == proc.pc = "restart" /\ ~cfg.admin /\ cfg.start => reg

StartupInv == STypeOK /\ OneMind /\ TaskIsMeant /\ EntryBeforeRestart /\ StartsAtLogon

\* Both switches, the restart, a start of the process and its repair, and the loss of
\* the task keep the invariant.
LEMMA StartupStep == StartupInv /\ [SNext]_svars => StartupInv'
<1> SUFFICES ASSUME StartupInv, [SNext]_svars PROVE StartupInv'
  OBVIOUS
<1>a. STypeOK /\ OneMind /\ TaskIsMeant /\ EntryBeforeRestart /\ StartsAtLogon
  BY DEF StartupInv
<1>b. /\ reg \in BOOLEAN /\ task \in BOOLEAN
      /\ cfg = [start |-> cfg.start, admin |-> cfg.admin] /\ dlg = [start |-> dlg.start, admin |-> dlg.admin]
      /\ cfg.start \in BOOLEAN /\ cfg.admin \in BOOLEAN /\ dlg.start \in BOOLEAN /\ dlg.admin \in BOOLEAN
      /\ proc = [pc |-> proc.pc, elev |-> proc.elev]
      /\ proc.pc \in {"up", "restart", "start"} /\ proc.elev \in BOOLEAN
  BY <1>a DEF STypeOK
<1> USE DEF STypeOK, OneMind, TaskIsMeant, EntryBeforeRestart, StartsAtLogon, Mended, Note
<1>1. CASE ToggleRunStartup
  <2>1. /\ dlg' = [start |-> ~dlg.start, admin |-> dlg.admin] /\ cfg' = dlg' /\ proc' = proc /\ proc.pc = "up"
        /\ RegisterRunOnStartup(~dlg.start, dlg.admin)
    BY <1>1, <1>b DEF ToggleRunStartup
  <2>2. CASE dlg.start /\ reg' = FALSE /\ task' = FALSE /\ notes' = notes
    BY <1>a, <1>b, <2>1, <2>2 DEF StartupInv
  <2>3. CASE dlg.start /\ reg' = FALSE /\ task' = task /\ notes' = notes \cup {"left behind"}
    BY <1>a, <1>b, <2>1, <2>3 DEF StartupInv
  <2>4. CASE ~dlg.start /\ dlg.admin /\ task' = TRUE /\ reg' = FALSE /\ notes' = notes
    BY <1>a, <1>b, <2>1, <2>4 DEF StartupInv
  <2>5. CASE ~dlg.start /\ dlg.admin /\ UNCHANGED <<reg, task>> /\ notes' = notes \cup {"declined"}
    BY <1>a, <1>b, <2>1, <2>5 DEF StartupInv
  <2>6. CASE ~dlg.start /\ ~dlg.admin /\ task' = FALSE /\ reg' = TRUE /\ notes' = notes
    BY <1>a, <1>b, <2>1, <2>6 DEF StartupInv
  <2>7. CASE ~dlg.start /\ ~dlg.admin /\ task' = task /\ reg' = TRUE /\ notes' = notes \cup {"left behind"}
    BY <1>a, <1>b, <2>1, <2>7 DEF StartupInv
  <2> QED BY <1>b, <2>1, <2>2, <2>3, <2>4, <2>5, <2>6, <2>7 DEF RegisterRunOnStartup
<1>2. CASE ToggleRunAdmin
  <2>1. proc.pc = "up" /\ notes' = notes
    BY <1>2 DEF ToggleRunAdmin
  <2>2. CASE /\ ~dlg.admin /\ reg' = FALSE /\ task' = task
             /\ dlg' = [dlg EXCEPT !.admin = TRUE] /\ cfg' = dlg' /\ proc' = [proc EXCEPT !.pc = "restart"]
    <3>1. dlg' = [start |-> dlg.start, admin |-> TRUE] /\ proc' = [pc |-> "restart", elev |-> proc.elev]
      BY <1>b, <2>2
    <3> QED BY <1>a, <1>b, <2>1, <2>2, <3>1 DEF StartupInv
  <2>3. CASE /\ dlg.admin /\ task' = FALSE /\ reg' = dlg.start
             /\ dlg' = [dlg EXCEPT !.admin = FALSE] /\ cfg' = dlg' /\ proc' = [proc EXCEPT !.pc = "restart"]
    <3>1. dlg' = [start |-> dlg.start, admin |-> FALSE] /\ proc' = [pc |-> "restart", elev |-> proc.elev]
      BY <1>b, <2>3
    <3> QED BY <1>a, <1>b, <2>1, <2>3, <3>1 DEF StartupInv
  <2>4. CASE UNCHANGED <<reg, task, dlg, cfg, proc>>
    BY <1>a, <1>b, <2>1, <2>4 DEF StartupInv
  <2> QED BY <1>2, <2>2, <2>3, <2>4 DEF ToggleRunAdmin
<1>3. CASE RestartElevated
  <2>1. proc.pc = "restart" /\ UNCHANGED <<reg, task>>
    BY <1>3 DEF RestartElevated
  <2>2. CASE proc' = [proc EXCEPT !.pc = "up"] /\ Note("no restart") /\ UNCHANGED <<cfg, dlg>>
    <3>1. proc' = [pc |-> "up", elev |-> proc.elev]
      BY <1>b, <2>2
    <3> QED BY <1>a, <1>b, <2>1, <2>2, <3>1 DEF StartupInv
  <2>3. CASE (\E e \in BOOLEAN : proc' = [pc |-> "start", elev |-> e]) /\ dlg' = cfg /\ UNCHANGED <<cfg, notes>>
    <3>1. PICK e \in BOOLEAN : proc' = [pc |-> "start", elev |-> e]
      BY <2>3
    <3>2. STypeOK'
      BY <1>b, <2>1, <2>3, <3>1
    <3>3. OneMind' /\ TaskIsMeant' /\ EntryBeforeRestart' /\ StartsAtLogon'
      BY <1>a, <1>b, <2>1, <2>3, <3>1
    <3> QED BY <3>2, <3>3 DEF StartupInv
  <2>4. CASE cfg' = [cfg EXCEPT !.admin = FALSE] /\ proc' = [proc EXCEPT !.pc = "up"] /\ dlg' = dlg /\ Note("declined")
    <3>1. cfg' = [start |-> cfg.start, admin |-> FALSE] /\ proc' = [pc |-> "up", elev |-> proc.elev]
      BY <1>b, <2>4
    <3> QED BY <1>a, <1>b, <2>1, <2>4, <3>1 DEF StartupInv
  <2>5. CASE ~cfg.admin /\ proc' = [proc EXCEPT !.pc = "up"] /\ UNCHANGED <<cfg, dlg, notes>>
    <3>1. proc' = [pc |-> "up", elev |-> proc.elev]
      BY <1>b, <2>5
    <3> QED BY <1>a, <1>b, <2>1, <2>5, <3>1 DEF StartupInv
  <2> QED BY <1>3, <2>2, <2>3, <2>4, <2>5 DEF RestartElevated
<1>4. ASSUME NEW elev \in BOOLEAN, StartProcess(elev) PROVE StartupInv'
  <2>1. /\ UNCHANGED <<reg, task>> /\ dlg' = cfg'
        /\ notes' = IF cfg'.admin # cfg.admin /\ task THEN notes \cup {"left behind"} ELSE notes
    BY <1>4 DEF StartProcess
  <2>2. PICK e \in BOOLEAN : proc' = [pc |-> "start", elev |-> e]
    BY <1>4 DEF StartProcess
  <2>3. CASE cfg' = cfg
    <3>1. STypeOK'
      BY <1>b, <2>1, <2>2, <2>3
    <3>2. OneMind' /\ TaskIsMeant' /\ EntryBeforeRestart' /\ StartsAtLogon'
      BY <1>a, <1>b, <2>1, <2>2, <2>3
    <3> QED BY <3>1, <3>2 DEF StartupInv
  <2>4. CASE cfg.admin /\ cfg' = [cfg EXCEPT !.admin = FALSE]
    <3>1. cfg' = [start |-> cfg.start, admin |-> FALSE]
      BY <1>b, <2>4
    <3>2. STypeOK'
      BY <1>b, <2>1, <2>2, <3>1
    <3>3. OneMind' /\ TaskIsMeant' /\ EntryBeforeRestart' /\ StartsAtLogon'
      BY <1>a, <1>b, <2>1, <2>2, <2>4, <3>1
    <3> QED BY <3>2, <3>3 DEF StartupInv
  <2> QED BY <1>4, <2>3, <2>4 DEF StartProcess
<1>5. CASE EnsureStartupRegistration
  <2>1. proc.pc = "start" /\ proc' = [pc |-> "up", elev |-> proc.elev] /\ dlg' = cfg'
    BY <1>5, <1>b DEF EnsureStartupRegistration
  <2>2. CASE ~cfg.start /\ UNCHANGED <<reg, task, cfg, notes>>
    BY <1>a, <1>b, <2>1, <2>2 DEF StartupInv
  <2>3. CASE cfg.start /\ cfg.admin /\ task /\ reg' = FALSE /\ UNCHANGED <<task, cfg, notes>>
    BY <1>a, <1>b, <2>1, <2>3 DEF StartupInv
  <2>4. CASE cfg.start /\ cfg.admin /\ ~task /\ reg' = FALSE /\ cfg' = cfg /\ task' = TRUE /\ notes' = notes \ Mended
    BY <1>a, <1>b, <2>1, <2>4 DEF StartupInv
  <2>5. CASE cfg.start /\ cfg.admin /\ ~task /\ reg' = FALSE /\ cfg' = cfg /\ task' = task /\ Note("declined")
    BY <1>a, <1>b, <2>1, <2>5 DEF StartupInv
  <2>6. CASE /\ cfg.start /\ ~task /\ reg' = TRUE /\ cfg' = [cfg EXCEPT !.admin = FALSE] /\ task' = task
             /\ notes' = notes \ Mended
    <3>1. cfg' = [start |-> cfg.start, admin |-> FALSE]
      BY <1>b, <2>6
    <3> QED BY <1>a, <1>b, <2>1, <2>6, <3>1 DEF StartupInv
  <2>7. CASE cfg.start /\ ~cfg.admin /\ reg' = TRUE /\ UNCHANGED <<task, cfg>> /\ notes' = notes \ Mended
    BY <1>a, <1>b, <2>1, <2>7 DEF StartupInv
  <2> QED BY <1>5, <2>2, <2>3, <2>4, <2>5, <2>6, <2>7 DEF EnsureStartupRegistration
<1>6. CASE TaskLost
  BY <1>6, <1>a, <1>b DEF TaskLost, StartupInv
<1>7. CASE UNCHANGED svars
  BY <1>7, <1>a, <1>b DEF svars, StartupInv
<1> QED BY <1>1, <1>2, <1>3, <1>4, <1>5, <1>6, <1>7 DEF SNext

\* However often the switches are turned, prompts declined and tasks lost: the
\* application is never registered twice, and it is registered if and only if it is to
\* come up, except after what EntryIsRight sets apart (RegisterRunOnStartup,
\* RestartWithNewAdminMode, EnsureStartupRegistration).
THEOREM EntriesAreRight == SSpec => []EntryIsRight
<1>1. SInit => StartupInv
  <2> SUFFICES ASSUME SInit PROVE StartupInv
    OBVIOUS
  <2>1. PICK s \in BOOLEAN, a \in BOOLEAN : cfg = [start |-> s, admin |-> a]
    BY DEF SInit
  <2>2. dlg = cfg /\ proc = [pc |-> "up", elev |-> a]
    BY <2>1 DEF SInit
  <2>3. reg \in BOOLEAN /\ task \in BOOLEAN /\ (reg <=> s /\ ~a) /\ (task <=> s /\ a)
    BY <2>1 DEF SInit
  <2>4. STypeOK
    BY <2>1, <2>2, <2>3 DEF STypeOK
  <2>5. OneMind /\ TaskIsMeant /\ EntryBeforeRestart /\ StartsAtLogon
    BY <2>1, <2>2, <2>3 DEF OneMind, TaskIsMeant, EntryBeforeRestart, StartsAtLogon
  <2> QED BY <2>4, <2>5 DEF StartupInv
<1>2. StartupInv => EntryIsRight
  BY DEF StartupInv, TaskIsMeant, EntryIsRight, NotTwice
<1> QED BY <1>1, <1>2, StartupStep, PTL DEF SSpec

-----------------------------------------------------------------------------
(* AppProcesses.                                                            *)

MainRec == [pc : {"none", "enter", "waiting", "init", "up", "bye1", "bye2", "bye3"},
            restart : BOOLEAN, hdog : Dogs \cup {NoDog}, beats : BOOLEAN]
DogRec  == [pc : InForce \cup {"none", "new"}, count : 0..Restarts]

\* The processes, the events and the settings.
ProcTypes ==
  /\ main \in [Mains -> MainRec] /\ dog \in [Dogs -> DogRec]
  /\ want \in {"never", "run", "quit"}
  /\ graceful \in BOOLEAN /\ beat \in BOOLEAN /\ enabled \in BOOLEAN /\ sub \in BOOLEAN

OneMain == \A m, n \in Mains : Owns(m) /\ Owns(n) => m = n
OneDog  == \A d, e \in Dogs : dog[d].pc \in InForce /\ dog[e].pc \in InForce => d = e

\* A main process that would take the event back.
Busy == \E m \in Mains : main[m].pc \in {"init", "up"}

\* Who has a child, after its start, holds the events for it.
Started == {"up", "bye1", "bye2", "bye3"}
ChildHeld == \A m \in Mains : main[m].hdog # NoDog => main[m].beats /\ main[m].pc \in Started

\* Once the user has ended the application nothing takes the event back; every watchdog
\* that runs sees it and cannot get to its look at the processes; and one that is still
\* to run, and that a main process waits for, will see it too.
QuitHolds ==
  want = "quit" /\ "looking" \notin marks /\ "late" \notin marks =>
    /\ ~Busy
    /\ \A d \in Dogs : dog[d].pc # "look" /\ (dog[d].pc \notin {"none", "new"} => graceful)
    /\ \A m \in Mains : main[m].hdog # NoDog => graceful

ProcInv == ProcTypes /\ OneMain /\ OneDog /\ ChildHeld /\ QuitHolds /\ QuitKept

\* A step after which no watchdog is where the event could not stop it.
Calm ==
  /\ \A m \in Mains : main'[m].pc \in {"init", "up"} => main[m].pc \in {"init", "up"}
  /\ \A m \in Mains : main'[m].hdog # NoDog => main[m].hdog # NoDog /\ (graceful => graceful')
  /\ \A d \in Dogs : dog'[d].pc \notin {"none", "new"} =>
       /\ dog[d].pc \notin {"none", "new"} \/ (graceful /\ dog'[d].pc # "look")
       /\ graceful => graceful'
       /\ dog'[d].pc = "look" => dog[d].pc = "look" \/ ~graceful

\* A step that gives no main process a child.
Children ==
  \A m \in Mains : main'[m].hdog # NoDog =>
    /\ main[m].hdog # NoDog /\ main'[m].beats = main[m].beats
    /\ main[m].pc \in Started => main'[m].pc \in Started

LEMMA ChildrenKept ==
  ASSUME ChildHeld, Children
  PROVE  ChildHeld' /\ \A m \in Mains : main'[m].hdog # NoDog => main'[m].beats
BY DEF ChildHeld, Children

\* The events are there as long as a watchdog runs or a main process publishes.
LEMMA EventsFollow ==
  ASSUME NEW g \in BOOLEAN, NEW b \in BOOLEAN, EventsAre(g, b)
  PROVE  /\ graceful' \in BOOLEAN /\ beat' \in BOOLEAN
         /\ \A d \in Dogs : dog'[d].pc \notin {"none", "new"} => graceful' = g
         /\ \A m \in Mains : main'[m].beats => graceful' = g
BY DEF EventsAre, Held

\* What SameEvents leaves.
LEMMA EventsSame ==
  ASSUME ProcTypes, SameEvents
  PROVE  /\ graceful' \in BOOLEAN /\ beat' \in BOOLEAN
         /\ \A d \in Dogs : dog'[d].pc \notin {"none", "new"} => graceful' = graceful
         /\ \A m \in Mains : main'[m].beats => graceful' = graceful
BY EventsFollow DEF SameEvents, ProcTypes

\* The mutex of the main process.
LEMMA OwnersKept ==
  ASSUME OneMain, \A m \in Mains : Owns(m)' => Owns(m)
  PROVE  OneMain'
BY DEF OneMain

\* The mutex of the watchdog.
LEMMA DogsKept ==
  ASSUME OneDog, \A d \in Dogs : dog'[d].pc \in InForce => dog[d].pc \in InForce
  PROVE  OneDog'
BY DEF OneDog

\* What has to be seen of a step so that an end stays an end.
LEMMA QuitStep ==
  ASSUME QuitHolds, QuitKept, marks \subseteq marks',
         "revived" \in marks' => "revived" \in marks \/ "looking" \in marks \/ "late" \in marks,
         want' = "quit" => want = "quit" /\ (Busy \/ Calm \/ "late" \in marks')
  PROVE  QuitHolds' /\ QuitKept'
BY DEF QuitHolds, QuitKept, Calm, Busy

\* A main process that changes alone: types and the mutex.
LEMMA MainSet ==
  ASSUME ProcTypes, NEW m \in Mains, NEW r \in MainRec
  PROVE  /\ [main EXCEPT ![m] = r] \in [Mains -> MainRec]
         /\ \A n \in Mains : [main EXCEPT ![m] = r][n] = IF n = m THEN r ELSE main[n]
BY DEF ProcTypes

\* The same for a watchdog.
LEMMA DogSet ==
  ASSUME ProcTypes, NEW d \in Dogs, NEW r \in DogRec
  PROVE  /\ [dog EXCEPT ![d] = r] \in [Dogs -> DogRec]
         /\ \A e \in Dogs : [dog EXCEPT ![d] = r][e] = IF e = d THEN r ELSE dog[e]
BY DEF ProcTypes

\* Records that the actions put in place.
LEMMA Records ==
  /\ NoMain \in MainRec /\ DeadDog \in DogRec /\ [pc |-> "new", count |-> 0] \in DogRec
  /\ \A r \in BOOLEAN : [NoMain EXCEPT !.pc = "enter", !.restart = r] \in MainRec
  /\ \A r \in BOOLEAN : [NoMain EXCEPT !.pc = "enter", !.restart = r].pc = "enter"
  /\ \A r \in BOOLEAN : [NoMain EXCEPT !.pc = "enter", !.restart = r].hdog = NoDog
  /\ NoMain.pc = "none" /\ NoMain.hdog = NoDog /\ DeadDog.pc = "none"
<1>1. 0 \in 0..Restarts
  BY ProcessesAssumption
<1>2. DeadDog \in DogRec /\ [pc |-> "new", count |-> 0] \in DogRec
  BY <1>1 DEF DeadDog, DogRec, InForce
<1>3. ASSUME NEW r \in BOOLEAN
      PROVE  /\ [NoMain EXCEPT !.pc = "enter", !.restart = r] \in MainRec
             /\ [NoMain EXCEPT !.pc = "enter", !.restart = r].pc = "enter"
             /\ [NoMain EXCEPT !.pc = "enter", !.restart = r].hdog = NoDog
  BY DEF NoMain, MainRec
<1>4. NoMain \in MainRec /\ NoMain.pc = "none" /\ NoMain.hdog = NoDog /\ DeadDog.pc = "none"
  BY DEF NoMain, MainRec, DeadDog
<1> QED BY <1>2, <1>3, <1>4

\* SetEvent lets watchdogs go, and starts none.
LEMMA ReleasedDogs ==
  ASSUME ProcTypes
  PROVE  /\ Released(dog) \in [Dogs -> DogRec]
         /\ \A d \in Dogs : /\ Released(dog)[d].pc \in InForce <=> dog[d].pc \in InForce
                            /\ Released(dog)[d].pc \in {"none", "new"} <=> dog[d].pc \in {"none", "new"}
                            /\ Released(dog)[d].pc = "look" <=> dog[d].pc = "look"
<1>1. ASSUME NEW d \in Dogs
      PROVE  [dog[d] EXCEPT !.pc = "leaving"] \in DogRec /\ [dog[d] EXCEPT !.pc = "leaving"].pc = "leaving"
             /\ dog[d] \in DogRec
  BY DEF ProcTypes, DogRec, InForce
<1>2. Released(dog) \in [Dogs -> DogRec]
  BY <1>1 DEF Released
<1>3. ASSUME NEW d \in Dogs
      PROVE  /\ Released(dog)[d].pc \in InForce <=> dog[d].pc \in InForce
             /\ Released(dog)[d].pc \in {"none", "new"} <=> dog[d].pc \in {"none", "new"}
             /\ Released(dog)[d].pc = "look" <=> dog[d].pc = "look"
  <2>1. CASE dog[d].pc \in Waiting
    BY <1>1, <2>1 DEF Released, Waiting, InForce
  <2>2. CASE dog[d].pc \notin Waiting
    BY <2>2 DEF Released
  <2> QED BY <2>1, <2>2
<1> QED BY <1>2, <1>3

\* A main process that moves on.
LEMMA MainPc ==
  ASSUME ProcTypes, NEW m \in Mains,
         NEW pc \in {"none", "enter", "waiting", "init", "up", "bye1", "bye2", "bye3"}
  PROVE  /\ [main EXCEPT ![m].pc = pc] \in [Mains -> MainRec]
         /\ \A n \in Mains : /\ [main EXCEPT ![m].pc = pc][n].pc = IF n = m THEN pc ELSE main[n].pc
                             /\ [main EXCEPT ![m].pc = pc][n].hdog = main[n].hdog
                             /\ [main EXCEPT ![m].pc = pc][n].beats = main[n].beats
<1>1. /\ [main[m] EXCEPT !.pc = pc] \in MainRec /\ [main[m] EXCEPT !.pc = pc].pc = pc
      /\ [main[m] EXCEPT !.pc = pc].hdog = main[m].hdog /\ [main[m] EXCEPT !.pc = pc].beats = main[m].beats
  BY DEF ProcTypes, MainRec
<1> QED BY <1>1 DEF ProcTypes

\* It keeps its child, if it had one.
LEMMA MainKeeps ==
  ASSUME ProcTypes, NEW m \in Mains,
         NEW pc \in {"none", "enter", "waiting", "init", "up", "bye1", "bye2", "bye3"},
         main' = [main EXCEPT ![m].pc = pc], main[m].pc \in Started => pc \in Started
  PROVE  Children
<1>1. \A n \in Mains : /\ main'[n].pc = IF n = m THEN pc ELSE main[n].pc
                       /\ main'[n].hdog = main[n].hdog /\ main'[n].beats = main[n].beats
  <2>1. /\ [main[m] EXCEPT !.pc = pc].pc = pc /\ [main[m] EXCEPT !.pc = pc].hdog = main[m].hdog
        /\ [main[m] EXCEPT !.pc = pc].beats = main[m].beats
    BY DEF ProcTypes, MainRec
  <2>2. main' = [main EXCEPT ![m] = [main[m] EXCEPT !.pc = pc]]
    BY DEF ProcTypes
  <2> QED BY <2>1, <2>2 DEF ProcTypes
<1> QED BY <1>1 DEF Children

\* What a main process loses with its child.
LEMMA ChildLost ==
  ASSUME ProcTypes, NEW d \in Dogs
  PROVE  /\ Forgotten(d) \in [Mains -> MainRec]
         /\ \A m \in Mains : /\ Forgotten(d)[m].pc = main[m].pc /\ Forgotten(d)[m].beats = main[m].beats
                             /\ Forgotten(d)[m].hdog # NoDog => main[m].hdog # NoDog
<1>1. ASSUME NEW m \in Mains
      PROVE  /\ main[m] \in MainRec /\ [main[m] EXCEPT !.hdog = NoDog] \in MainRec
             /\ [main[m] EXCEPT !.hdog = NoDog].pc = main[m].pc
             /\ [main[m] EXCEPT !.hdog = NoDog].beats = main[m].beats
             /\ [main[m] EXCEPT !.hdog = NoDog].hdog = NoDog
  BY DEF ProcTypes, MainRec
<1> QED BY <1>1 DEF Forgotten

\* A watchdog that moves on.
LEMMA DogPc ==
  ASSUME ProcTypes, NEW d \in Dogs, NEW pc \in InForce \cup {"none"}, DogGoes(d, pc)
  PROVE  /\ dog' \in [Dogs -> DogRec] /\ main' \in [Mains -> MainRec]
         /\ \A e \in Dogs : dog'[e].pc = IF e = d THEN pc ELSE dog[e].pc
         /\ \A m \in Mains : /\ main'[m].pc = main[m].pc /\ main'[m].beats = main[m].beats
                             /\ main'[m].hdog # NoDog => main[m].hdog # NoDog
<1>1. [dog[d] EXCEPT !.pc = pc] \in DogRec /\ [dog[d] EXCEPT !.pc = pc].pc = pc
  BY DEF ProcTypes, DogRec
<1>2. CASE pc = "none"
  <2>1. dog' = [dog EXCEPT ![d] = DeadDog] /\ main' = Forgotten(d)
    BY <1>2 DEF DogGoes
  <2> QED BY <1>2, <2>1, Records, DogSet, ChildLost
<1>3. CASE pc # "none"
  <2>1. dog' = [dog EXCEPT ![d] = [dog[d] EXCEPT !.pc = pc]] /\ main' = main
    BY <1>3 DEF DogGoes, ProcTypes
  <2> QED BY <1>1, <2>1 DEF ProcTypes
<1> QED BY <1>2, <1>3

\* The steps in which a main process comes and goes.
LEMMA MainRunsStep ==
  ASSUME ProcInv, NEW m \in Mains, MainRuns(m)
  PROVE  ProcInv'
<1>a. ProcTypes /\ OneMain /\ OneDog /\ ChildHeld /\ QuitHolds /\ QuitKept
  BY DEF ProcInv
<1>1. CASE CreateMainMutex(m)
  <2>1. main[m].pc = "enter" /\ UNCHANGED <<dog, enabled, sub>> /\ SameEvents
    BY <1>1 DEF CreateMainMutex
  <2> DEFINE taken == \E n \in Mains : Owns(n) \/ main[n].pc = "waiting"
  <2>2. /\ main' = IF ~taken THEN [main EXCEPT ![m].pc = "init"]
                   ELSE IF main[m].restart THEN [main EXCEPT ![m].pc = "waiting"]
                   ELSE [main EXCEPT ![m] = NoMain]
        /\ want' = IF taken THEN want ELSE "run"
        /\ marks' = marks \/ marks' = marks \cup {"start lost"}
    BY <1>1 DEF CreateMainMutex
  <2>3. /\ main' \in [Mains -> MainRec] /\ \A n \in Mains : n # m => main'[n].pc = main[n].pc
        /\ main'[m].pc \in {"init", "waiting", "none"} /\ (taken => main'[m].pc # "init")
        /\ Children
    <3>1. CASE ~taken
      <4>1. main' = [main EXCEPT ![m].pc = "init"]
        BY <2>2, <3>1
      <4> HIDE DEF taken
      <4>2. main' \in [Mains -> MainRec] /\ \A n \in Mains : main'[n].pc = IF n = m THEN "init" ELSE main[n].pc
        BY <1>a, <4>1, MainPc
      <4>3. Children
        BY <1>a, <2>1, <4>1, MainKeeps DEF Started
      <4> QED BY <3>1, <4>2, <4>3
    <3>2. CASE taken /\ main[m].restart
      <4>1. main' = [main EXCEPT ![m].pc = "waiting"]
        BY <2>2, <3>2
      <4> HIDE DEF taken
      <4>2. main' \in [Mains -> MainRec] /\ \A n \in Mains : main'[n].pc = IF n = m THEN "waiting" ELSE main[n].pc
        BY <1>a, <4>1, MainPc
      <4>3. Children
        BY <1>a, <2>1, <4>1, MainKeeps DEF Started
      <4> QED BY <4>2, <4>3
    <3>3. CASE taken /\ ~main[m].restart
      <4>1. main' = [main EXCEPT ![m] = NoMain]
        BY <2>2, <3>3
      <4> HIDE DEF taken
      <4>2. Children
        BY <1>a, <4>1, MainSet, Records DEF Children
      <4> QED BY <1>a, <3>3, <4>1, <4>2, MainSet, Records
    <3> QED BY <3>1, <3>2, <3>3
  <2>4. OneMain'
    <3>1. CASE taken
      <4>1. \A n \in Mains : Owns(n)' => Owns(n)
        BY <2>3, <3>1 DEF Owns
      <4> QED BY <1>a, <4>1, OwnersKept
    <3>2. CASE ~taken
      BY <2>3, <3>2 DEF OneMain, Owns
    <3> QED BY <3>1, <3>2
  <2>5. OneDog'
    BY <1>a, <2>1, DogsKept
  <2>6. taken => Calm
    BY <1>a, <2>1, <2>3, EventsSame, ChildrenKept DEF Calm, Children
  <2>7. ChildHeld' /\ QuitHolds' /\ QuitKept'
    <3> HIDE DEF taken
    <3> QED BY <1>a, <2>2, <2>3, <2>6, QuitStep, ChildrenKept
  <2>8. ProcTypes'
    <3> HIDE DEF taken
    <3> QED BY <1>a, <2>1, <2>2, <2>3, EventsSame DEF ProcTypes
  <2> QED BY <2>4, <2>5, <2>7, <2>8 DEF ProcInv
<1>2. CASE TakeMainMutex(m)
  <2>1. main[m].pc = "waiting" /\ UNCHANGED <<dog, enabled, sub>> /\ SameEvents
    BY <1>2 DEF TakeMainMutex
  <2>2. OneDog'
    BY <1>a, <2>1, DogsKept
  <2>3. CASE /\ \A n \in Mains : ~Owns(n)
             /\ main' = [main EXCEPT ![m].pc = "init"] /\ want' = "run" /\ marks' = marks
    <3>1. /\ main' \in [Mains -> MainRec] /\ \A n \in Mains : main'[n].pc = IF n = m THEN "init" ELSE main[n].pc
          /\ Children
      BY <1>a, <2>1, <2>3, MainPc, MainKeeps DEF Started
    <3>2. OneMain'
      BY <2>3, <3>1 DEF OneMain, Owns
    <3>3. ChildHeld' /\ QuitHolds' /\ QuitKept'
      BY <1>a, <2>3, <3>1, QuitStep, ChildrenKept
    <3>4. ProcTypes'
      BY <1>a, <2>1, <2>3, <3>1, EventsSame DEF ProcTypes
    <3> QED BY <2>2, <3>2, <3>3, <3>4 DEF ProcInv
  <2>4. CASE main' = [main EXCEPT ![m] = NoMain] /\ marks' = marks \cup {"start lost"} /\ want' = want
    <3>1. /\ main' \in [Mains -> MainRec] /\ \A n \in Mains : main'[n].pc = IF n = m THEN "none" ELSE main[n].pc
          /\ Children
      BY <1>a, <2>4, MainSet, Records DEF Children
    <3>2. \A n \in Mains : Owns(n)' => Owns(n)
      BY <3>1 DEF Owns
    <3>3. Calm
      BY <1>a, <2>1, <3>1, EventsSame, ChildrenKept DEF Calm, Children
    <3>4. ChildHeld' /\ QuitHolds' /\ QuitKept'
      BY <1>a, <2>4, <3>1, <3>3, QuitStep, ChildrenKept
    <3>5. ProcTypes'
      BY <1>a, <2>1, <2>4, <3>1, EventsSame DEF ProcTypes
    <3> QED BY <1>a, <2>2, <3>2, <3>4, <3>5, OwnersKept DEF ProcInv
  <2> QED BY <1>2, <2>3, <2>4 DEF TakeMainMutex
<1>3. CASE WatchdogInit(m)
  <2> DEFINE up == [main[m] EXCEPT !.pc = "up", !.beats = enabled]
  <2>1. main[m].pc = "init" /\ UNCHANGED <<enabled, sub, want>> /\ EventsAre(graceful /\ ~enabled, beat)
    BY <1>3 DEF WatchdogInit
  <2>2. /\ up \in MainRec /\ up.pc = "up" /\ up.hdog = main[m].hdog /\ up.beats = enabled
        /\ \A d \in Dogs : /\ [up EXCEPT !.hdog = d] \in MainRec /\ [up EXCEPT !.hdog = d].pc = "up"
                           /\ [up EXCEPT !.hdog = d].beats = enabled
    BY <1>a DEF ProcTypes, MainRec
  <2>3. graceful' \in BOOLEAN /\ beat' \in BOOLEAN
    BY <1>a, <2>1, EventsFollow DEF ProcTypes
  <2>4. Busy
    BY <2>1 DEF Busy
  <2>5. \E r \in MainRec : r.pc = "up" /\ main' = [main EXCEPT ![m] = r] /\ (r.hdog # NoDog => r.beats)
    <3>1. CASE enabled
      <4>1. LaunchWatchdogProcess(m, up)
        BY <1>3, <3>1 DEF WatchdogInit
      <4> HIDE DEF up
      <4>2. CASE \E d \in FreeDog : main' = [main EXCEPT ![m] = [up EXCEPT !.hdog = d]]
        BY <2>2, <3>1, <4>2 DEF FreeDog
      <4>3. CASE main' = [main EXCEPT ![m] = up]
        BY <2>2, <3>1, <4>3
      <4> QED BY <4>1, <4>2, <4>3 DEF LaunchWatchdogProcess
    <3>2. CASE ~enabled
      <4>1. main' = [main EXCEPT ![m] = up]
        BY <1>3, <3>2 DEF WatchdogInit
      <4>2. main[m].hdog = NoDog
        BY <1>a, <2>1 DEF ChildHeld, Started
      <4> QED BY <2>2, <4>1, <4>2
    <3> QED BY <3>1, <3>2
  <2>6. PICK r \in MainRec : r.pc = "up" /\ main' = [main EXCEPT ![m] = r] /\ (r.hdog # NoDog => r.beats)
    BY <2>5
  <2>7. main' \in [Mains -> MainRec] /\ \A n \in Mains : main'[n].pc = IF n = m THEN "up" ELSE main[n].pc
    BY <1>a, <2>6, MainSet
  <2>8. \A n \in Mains : Owns(n)' => Owns(n)
    BY <2>1, <2>7 DEF Owns
  <2>9. dog' = dog \/ \E d \in FreeDog : dog' = [dog EXCEPT ![d] = [pc |-> "new", count |-> 0]]
    BY <1>3 DEF WatchdogInit, LaunchWatchdogProcess
  <2>10. dog' \in [Dogs -> DogRec] /\ \A e \in Dogs : dog'[e].pc \in InForce => dog[e].pc \in InForce
    <3>1. CASE dog' = dog
      BY <1>a, <3>1 DEF ProcTypes
    <3>2. ASSUME NEW d \in FreeDog, dog' = [dog EXCEPT ![d] = [pc |-> "new", count |-> 0]]
          PROVE  dog' \in [Dogs -> DogRec] /\ \A e \in Dogs : dog'[e].pc \in InForce => dog[e].pc \in InForce
      BY <1>a, <3>2, DogSet, Records DEF FreeDog, InForce
    <3> QED BY <2>9, <3>1, <3>2
  <2>11. marks' = marks \/ marks' = marks \cup {"no dog"}
    BY <1>3 DEF WatchdogInit, LaunchWatchdogProcess
  <2>12. ChildHeld' /\ QuitHolds' /\ QuitKept'
    BY <1>a, <2>1, <2>4, <2>6, <2>11, QuitStep, MainSet DEF ChildHeld, Started
  <2>13. ProcTypes'
    BY <1>a, <2>1, <2>3, <2>7, <2>10 DEF ProcTypes
  <2> QED BY <1>a, <2>8, <2>10, <2>12, <2>13, OwnersKept, DogsKept DEF ProcInv
<1>4. CASE AwaitDog(m)
  <2>1. main[m].pc \in {"bye1", "bye3"} /\ UNCHANGED <<enabled, sub, want, marks>> /\ SameEvents
    BY <1>4 DEF AwaitDog
  <2>2. PICK r \in MainRec : main' = [main EXCEPT ![m] = r] /\ r.pc \in {"bye2", "none"} /\ r.hdog = NoDog
    <3>1. [main[m] EXCEPT !.pc = "bye2", !.hdog = NoDog] \in MainRec
          /\ [main[m] EXCEPT !.pc = "bye2", !.hdog = NoDog].pc = "bye2"
          /\ [main[m] EXCEPT !.pc = "bye2", !.hdog = NoDog].hdog = NoDog
      BY <1>a DEF ProcTypes, MainRec
    <3> QED BY <1>4, <3>1, Records DEF AwaitDog
  <2>3. /\ main' \in [Mains -> MainRec] /\ \A n \in Mains : n # m => main'[n].pc = main[n].pc
        /\ Children
    BY <1>a, <2>2, MainSet DEF Children
  <2>4. main'[m].pc \in {"bye2", "none"}
    BY <1>a, <2>2, MainSet
  <2>5. \A n \in Mains : Owns(n)' => Owns(n)
    BY <2>1, <2>3, <2>4 DEF Owns
  <2>6. /\ dog' \in [Dogs -> DogRec]
        /\ \A e \in Dogs : dog'[e].pc = dog[e].pc \/ dog'[e].pc = "none"
    <3>1. CASE main[m].hdog = NoDog
      BY <1>4, <1>a, <3>1 DEF AwaitDog, ProcTypes
    <3>2. CASE main[m].hdog # NoDog
      <4>1. main[m].hdog \in Dogs
        BY <1>a, <3>2 DEF ProcTypes, MainRec
      <4> QED BY <1>4, <1>a, <3>2, <4>1, DogSet, Records DEF AwaitDog
    <3> QED BY <3>1, <3>2
  <2>7. \A e \in Dogs : dog'[e].pc \in InForce => dog[e].pc \in InForce
    BY <2>6 DEF InForce
  <2>8. Calm
    BY <1>a, <2>1, <2>3, <2>4, <2>6, EventsSame, ChildrenKept DEF Calm, Children
  <2>9. ChildHeld' /\ QuitHolds' /\ QuitKept'
    BY <1>a, <2>1, <2>3, <2>8, QuitStep, ChildrenKept
  <2>10. ProcTypes'
    BY <1>a, <2>1, <2>3, <2>6, EventsSame DEF ProcTypes
  <2> QED BY <1>a, <2>5, <2>7, <2>9, <2>10, OwnersKept, DogsKept DEF ProcInv
<1>5. CASE MainEnding(m)
  <2>1. /\ main[m].pc = "bye2" /\ UNCHANGED <<enabled, sub, want, marks>> /\ EventsAre(TRUE, beat)
        /\ main' = [main EXCEPT ![m].pc = "bye3"] /\ dog' = Released(dog)
    BY <1>5 DEF MainEnding, SetGraceful
  <2>2. /\ main' \in [Mains -> MainRec] /\ \A n \in Mains : main'[n].pc = IF n = m THEN "bye3" ELSE main[n].pc
        /\ Children
    BY <1>a, <2>1, MainPc, MainKeeps DEF Started
  <2>3. \A n \in Mains : Owns(n)' => Owns(n)
    BY <2>1, <2>2 DEF Owns
  <2>4. /\ graceful' \in BOOLEAN /\ beat' \in BOOLEAN
        /\ \A d \in Dogs : dog'[d].pc \notin {"none", "new"} => graceful' = TRUE
        /\ \A n \in Mains : main'[n].beats => graceful' = TRUE
    BY <1>a, <2>1, EventsFollow DEF ProcTypes
  <2>5. Calm
    BY <1>a, <2>1, <2>2, <2>4, ReleasedDogs, ChildrenKept DEF Calm, Children
  <2>6. ChildHeld' /\ QuitHolds' /\ QuitKept'
    BY <1>a, <2>1, <2>2, <2>5, QuitStep, ChildrenKept
  <2>7. ProcTypes'
    BY <1>a, <2>1, <2>2, <2>4, ReleasedDogs DEF ProcTypes
  <2>8. OneDog'
    BY <1>a, <2>1, ReleasedDogs, DogsKept
  <2> QED BY <1>a, <2>3, <2>6, <2>7, <2>8, OwnersKept DEF ProcInv
<1> QED BY <1>1, <1>2, <1>3, <1>4, <1>5 DEF MainRuns

\* What the user does with a main process, its heartbeat and its crash.
LEMMA MainUsedStep ==
  ASSUME ProcInv, NEW m \in Mains,
         HeartbeatRun(m) \/ Exit(m) \/ RestartWithNewAdminMode(m) \/ MainCrashes(m) \/ ToggleOff(m) \/ ToggleOn(m)
  PROVE  ProcInv'
<1>a. ProcTypes /\ OneMain /\ OneDog /\ ChildHeld /\ QuitHolds /\ QuitKept
  BY DEF ProcInv
<1>b. Busy
  BY DEF Busy, HeartbeatRun, Exit, RestartWithNewAdminMode, MainCrashes, ToggleOff, ToggleOn
<1>1. CASE HeartbeatRun(m)
  <2>1. UNCHANGED <<main, dog, enabled, sub, want, marks>> /\ EventsAre(graceful, TRUE)
    BY <1>1 DEF HeartbeatRun
  <2>2. ProcTypes'
    BY <1>a, <2>1, EventsFollow DEF ProcTypes
  <2>3. OneMain' /\ OneDog' /\ ChildHeld'
    BY <1>a, <2>1 DEF OneMain, OneDog, Owns, ChildHeld
  <2> QED BY <1>a, <1>b, <2>1, <2>2, <2>3, QuitStep DEF ProcInv
<1>2. CASE Exit(m)
  <2>1. /\ main[m].pc = "up" /\ UNCHANGED enabled /\ EventsAre(TRUE, beat) /\ sub' = FALSE /\ want' = "quit"
        /\ main' = [main EXCEPT ![m].pc = "bye1"] /\ dog' = Released(dog)
        /\ marks' = IF Looking THEN marks \cup {"looking"} ELSE marks
    BY <1>2 DEF Exit, SetGraceful
  <2>2. /\ main' \in [Mains -> MainRec] /\ \A n \in Mains : main'[n].pc = IF n = m THEN "bye1" ELSE main[n].pc
        /\ Children
    BY <1>a, <2>1, MainPc, MainKeeps DEF Started
  <2>3. /\ graceful' \in BOOLEAN /\ beat' \in BOOLEAN
        /\ \A d \in Dogs : dog'[d].pc \notin {"none", "new"} => graceful' = TRUE
        /\ \A n \in Mains : main'[n].beats => graceful' = TRUE
    BY <1>a, <2>1, EventsFollow DEF ProcTypes
  <2>4. OneMain'
    <3>1. \A n \in Mains : Owns(n)' => Owns(n)
      BY <2>1, <2>2 DEF Owns
    <3> QED BY <1>a, <3>1, OwnersKept
  <2>5. ~Busy'
    BY <1>a, <2>1, <2>2 DEF Busy, OneMain, Owns
  <2>c. ChildHeld' /\ \A n \in Mains : main'[n].hdog # NoDog => graceful'
    BY <1>a, <2>2, <2>3, ChildrenKept
  <2>6. QuitHolds'
    <3>1. CASE Looking
      BY <2>1, <3>1 DEF QuitHolds
    <3>2. CASE ~Looking
      <4>1. \A d \in Dogs : dog'[d].pc # "look"
        BY <1>a, <2>1, <3>2, ReleasedDogs DEF Looking
      <4> QED BY <2>3, <2>5, <2>c, <4>1 DEF QuitHolds
    <3> QED BY <3>1, <3>2
  <2>7. QuitKept'
    BY <1>a, <2>1 DEF QuitKept
  <2>8. ProcTypes'
    BY <1>a, <2>1, <2>2, <2>3, ReleasedDogs DEF ProcTypes
  <2>9. OneDog'
    BY <1>a, <2>1, ReleasedDogs, DogsKept
  <2> QED BY <2>4, <2>6, <2>7, <2>8, <2>9, <2>c DEF ProcInv
<1>3. CASE RestartWithNewAdminMode(m)
  <2>1. /\ main[m].pc = "up" /\ dog' = Released(dog) /\ EventsAre(TRUE, beat) /\ sub' = FALSE
        /\ UNCHANGED <<enabled, want, marks>>
    BY <1>3 DEF RestartWithNewAdminMode
  <2> DEFINE new == [NoMain EXCEPT !.pc = "enter", !.restart = TRUE]
  <2>2. PICK n \in FreeMain : main' = [main EXCEPT ![n] = new, ![m].pc = "bye1"]
    BY <1>3 DEF RestartWithNewAdminMode
  <2>3. n \in Mains /\ n # m
    BY <2>1, <2>2 DEF FreeMain, Live
  <2>4. new \in MainRec /\ new.pc = "enter" /\ new.hdog = NoDog
    BY Records
  <2>5. /\ [main[m] EXCEPT !.pc = "bye1"] \in MainRec /\ [main[m] EXCEPT !.pc = "bye1"].pc = "bye1"
        /\ [main[m] EXCEPT !.pc = "bye1"].hdog = main[m].hdog /\ [main[m] EXCEPT !.pc = "bye1"].beats = main[m].beats
    BY <1>a DEF ProcTypes, MainRec
  <2>6. main' = [main EXCEPT ![n] = new, ![m] = [main[m] EXCEPT !.pc = "bye1"]]
    <3> HIDE DEF new
    <3> QED BY <1>a, <2>2, <2>3 DEF ProcTypes
  <2>7. /\ main' \in [Mains -> MainRec]
        /\ \A k \in Mains : main'[k].pc = IF k = m THEN "bye1" ELSE IF k = n THEN "enter" ELSE main[k].pc
        /\ \A k \in Mains : k # n => main'[k].hdog = main[k].hdog /\ main'[k].beats = main[k].beats
        /\ main'[n].hdog = NoDog
    <3> HIDE DEF new
    <3> QED BY <1>a, <2>3, <2>4, <2>5, <2>6 DEF ProcTypes
  <2>c. ChildHeld'
    <3>1. Children
      BY <2>7 DEF Children, Started
    <3> QED BY <1>a, <3>1, ChildrenKept
  <2>8. \A k \in Mains : Owns(k)' => Owns(k)
    BY <2>1, <2>7 DEF Owns
  <2>9. graceful' \in BOOLEAN /\ beat' \in BOOLEAN
    BY <1>a, <2>1, EventsFollow DEF ProcTypes
  <2>10. ProcTypes'
    BY <1>a, <2>1, <2>7, <2>9, ReleasedDogs DEF ProcTypes
  <2>11. OneDog'
    BY <1>a, <2>1, ReleasedDogs, DogsKept
  <2> QED BY <1>a, <1>b, <2>1, <2>8, <2>10, <2>11, <2>c, OwnersKept, QuitStep DEF ProcInv
<1>4. CASE MainCrashes(m)
  <2>1. /\ main' = [main EXCEPT ![m] = NoMain] /\ UNCHANGED <<dog, enabled, sub, want>> /\ SameEvents
        /\ marks' = marks \/ marks' = marks \cup {"no dog"}
    BY <1>4 DEF MainCrashes
  <2>2. /\ main' \in [Mains -> MainRec] /\ \A n \in Mains : main'[n].pc = IF n = m THEN "none" ELSE main[n].pc
        /\ Children
    BY <1>a, <2>1, MainSet, Records DEF Children
  <2>3. \A n \in Mains : Owns(n)' => Owns(n)
    BY <2>2 DEF Owns
  <2>4. ProcTypes'
    BY <1>a, <2>1, <2>2, EventsSame DEF ProcTypes
  <2>5. OneDog'
    BY <1>a, <2>1, DogsKept
  <2>6. ChildHeld' /\ QuitHolds' /\ QuitKept'
    BY <1>a, <1>b, <2>1, <2>2, QuitStep, ChildrenKept
  <2> QED BY <1>a, <2>3, <2>4, <2>5, <2>6, OwnersKept DEF ProcInv
<1>5. CASE ToggleOff(m)
  <2>1. /\ main[m].pc = "up" /\ dog' = [d \in Dogs |-> DeadDog] /\ enabled' = FALSE
        /\ main' = [main EXCEPT ![m].hdog = NoDog, ![m].beats = FALSE]
        /\ UNCHANGED <<sub, want, marks>> /\ EventsAre(TRUE, beat)
    BY <1>5 DEF ToggleOff
  <2>2. [main[m] EXCEPT !.hdog = NoDog, !.beats = FALSE] \in MainRec
        /\ [main[m] EXCEPT !.hdog = NoDog, !.beats = FALSE].pc = "up"
        /\ [main[m] EXCEPT !.hdog = NoDog, !.beats = FALSE].hdog = NoDog
    BY <1>a, <2>1 DEF ProcTypes, MainRec
  <2>3. main' = [main EXCEPT ![m] = [main[m] EXCEPT !.hdog = NoDog, !.beats = FALSE]]
    BY <1>a, <2>1 DEF ProcTypes
  <2>4. main' \in [Mains -> MainRec] /\ Children /\ \A n \in Mains : main'[n].pc = main[n].pc
    <3> DEFINE r == [main[m] EXCEPT !.hdog = NoDog, !.beats = FALSE]
    <3>1. r \in MainRec /\ r.pc = main[m].pc /\ r.hdog = NoDog /\ main' = [main EXCEPT ![m] = r]
      BY <2>1, <2>2, <2>3
    <3> HIDE DEF r
    <3> QED BY <1>a, <3>1, MainSet DEF Children
  <2>5. \A n \in Mains : Owns(n)' => Owns(n)
    BY <2>4 DEF Owns
  <2>6. graceful' \in BOOLEAN /\ beat' \in BOOLEAN
    BY <1>a, <2>1, EventsFollow DEF ProcTypes
  <2>7. dog' \in [Dogs -> DogRec] /\ \A d \in Dogs : dog'[d].pc = "none"
    BY <2>1, Records
  <2>8. OneDog'
    BY <2>7 DEF OneDog, InForce
  <2>9. ProcTypes'
    BY <1>a, <2>1, <2>4, <2>6, <2>7 DEF ProcTypes
  <2> QED BY <1>a, <1>b, <2>1, <2>4, <2>5, <2>8, <2>9, OwnersKept, QuitStep, ChildrenKept DEF ProcInv
<1>6. CASE ToggleOn(m)
  <2>1. main[m].pc = "up" /\ enabled' = TRUE /\ UNCHANGED <<sub, want, marks>> /\ EventsAre(FALSE, beat)
    BY <1>6 DEF ToggleOn
  <2>2. PICK d \in FreeDog : /\ dog' = [dog EXCEPT ![d] = [pc |-> "new", count |-> 0]]
                             /\ main' = [main EXCEPT ![m].beats = TRUE, ![m].hdog = d]
    BY <1>6 DEF ToggleOn
  <2>3. d \in Dogs
    BY DEF FreeDog
  <2>4. /\ [main[m] EXCEPT !.beats = TRUE, !.hdog = d] \in MainRec
        /\ [main[m] EXCEPT !.beats = TRUE, !.hdog = d].pc = "up" /\ [main[m] EXCEPT !.beats = TRUE, !.hdog = d].beats
    BY <1>a, <2>1, <2>3 DEF ProcTypes, MainRec
  <2>5. main' = [main EXCEPT ![m] = [main[m] EXCEPT !.beats = TRUE, !.hdog = d]]
    BY <1>a, <2>2 DEF ProcTypes
  <2>6. main' \in [Mains -> MainRec] /\ \A n \in Mains : main'[n].pc = main[n].pc
    BY <1>a, <2>1, <2>4, <2>5, MainSet
  <2>c. ChildHeld'
    BY <1>a, <2>1, <2>4, <2>5, MainSet DEF ChildHeld, Started
  <2>7. \A n \in Mains : Owns(n)' => Owns(n)
    BY <2>6 DEF Owns
  <2>8. graceful' \in BOOLEAN /\ beat' \in BOOLEAN
    BY <1>a, <2>1, EventsFollow DEF ProcTypes
  <2>9. dog' \in [Dogs -> DogRec] /\ \A e \in Dogs : dog'[e].pc \in InForce => dog[e].pc \in InForce
    BY <1>a, <2>2, <2>3, DogSet, Records DEF InForce
  <2>10. ProcTypes'
    BY <1>a, <2>1, <2>6, <2>8, <2>9 DEF ProcTypes
  <2> QED BY <1>a, <1>b, <2>1, <2>7, <2>9, <2>10, <2>c, OwnersKept, DogsKept, QuitStep DEF ProcInv
<1> QED BY <1>1, <1>2, <1>3, <1>4, <1>5, <1>6

\* The steps of a watchdog.
LEMMA DogStep ==
  ASSUME ProcInv, NEW d \in Dogs, DogRuns(d) \/ WindowPasses(d)
  PROVE  ProcInv'
<1>a. ProcTypes /\ OneMain /\ OneDog /\ ChildHeld /\ QuitHolds /\ QuitKept
  BY DEF ProcInv
<1>m. ASSUME UNCHANGED <<enabled, sub, want>>, SameEvents, dog' \in [Dogs -> DogRec],
             main' \in [Mains -> MainRec],
             \A m \in Mains : /\ main'[m].pc = main[m].pc /\ main'[m].beats = main[m].beats
                              /\ main'[m].hdog # NoDog => main[m].hdog # NoDog
      PROVE  /\ ProcTypes' /\ OneMain' /\ ChildHeld'
             /\ \A m \in Mains : main'[m].hdog # NoDog => main[m].hdog # NoDog /\ graceful' = graceful
  <2>1. ProcTypes' /\ OneMain'
    BY <1>a, <1>m, EventsSame, OwnersKept DEF ProcTypes, Owns
  <2>2. Children
    BY <1>m DEF Children
  <2> QED BY <1>a, <1>m, <2>1, <2>2, EventsSame, ChildrenKept
<1>1. CASE DogEnters(d)
  <2> DEFINE other == \E e \in Dogs \ {d} : dog[e].pc \in InForce
             mute  == want = "quit" /\ ~graceful /\ \A m \in Mains : main[m].hdog # d
             lost  == \E e \in Dogs \ {d} : dog[e].pc = "leaving" \/ (dog[e].pc \in InForce /\ graceful)
  <2>1. /\ dog[d].pc = "new" /\ UNCHANGED <<enabled, sub, want>> /\ SameEvents
        /\ DogGoes(d, IF other THEN "none" ELSE "grace")
        /\ marks' = IF lost THEN marks \cup {"no dog"} ELSE IF mute THEN marks \cup {"late"} ELSE marks
    BY <1>1 DEF DogEnters
  <2>2. PICK pc \in {"none", "grace"} : DogGoes(d, pc) /\ (pc = "grace" => ~other)
    BY <2>1
  <2>3. /\ dog' \in [Dogs -> DogRec] /\ main' \in [Mains -> MainRec]
        /\ \A e \in Dogs : dog'[e].pc = IF e = d THEN pc ELSE dog[e].pc
        /\ \A m \in Mains : /\ main'[m].pc = main[m].pc /\ main'[m].beats = main[m].beats
                            /\ main'[m].hdog # NoDog => main[m].hdog # NoDog
    BY <1>a, <2>2, DogPc DEF InForce
  <2>4. /\ ProcTypes' /\ OneMain' /\ ChildHeld'
        /\ \A m \in Mains : main'[m].hdog # NoDog => main[m].hdog # NoDog /\ graceful' = graceful
    BY <1>m, <2>1, <2>3
  <2>5. OneDog'
    BY <1>a, <2>2, <2>3 DEF OneDog, InForce
  <2>6. marks \subseteq marks' /\ ("revived" \in marks' => "revived" \in marks)
    <3> HIDE DEF lost, mute
    <3> QED BY <2>1
  <2>7. \A e \in Dogs : dog'[e].pc \notin {"none", "new"} => graceful' = graceful
    BY <1>a, <2>1, EventsSame
  <2>8. ASSUME want = "quit", "looking" \notin marks, "late" \notin marks', pc = "grace"
        PROVE  graceful
    <3> SUFFICES ASSUME ~graceful PROVE FALSE
      BY <1>a DEF ProcTypes
    <3>1. "late" \notin marks
      BY <2>6, <2>8
    <3>2. \A m \in Mains : main[m].hdog = NoDog
      BY <1>a, <2>8, <3>1 DEF QuitHolds
    <3>3. \A e \in Dogs : dog[e].pc \in {"none", "new"}
      BY <1>a, <2>8, <3>1 DEF QuitHolds
    <3>4. ~lost
      BY <3>3 DEF InForce
    <3>5. d # NoDog => mute
      BY <2>8, <3>2
    <3> QED BY <2>1, <2>8, <3>4, <3>5, ProcessesAssumption
  <2>9. QuitHolds' /\ QuitKept'
    <3>1. CASE want = "quit" /\ "looking" \notin marks /\ "late" \notin marks'
      <4>1. Calm
        BY <1>a, <2>1, <2>3, <2>4, <2>7, <2>8, <3>1 DEF Calm
      <4> QED BY <1>a, <2>6, <3>1, <4>1, QuitStep
    <3>2. CASE ~(want = "quit" /\ "looking" \notin marks /\ "late" \notin marks')
      BY <1>a, <2>1, <2>6, <3>2 DEF QuitHolds, QuitKept
    <3> QED BY <3>1, <3>2
  <2> QED BY <2>4, <2>5, <2>9 DEF ProcInv
<1>2. ASSUME NEW pc \in InForce \cup {"none"}, DogGoes(d, pc), dog[d].pc \in InForce,
             pc = "look" => ~graceful,
             UNCHANGED <<enabled, sub, want>>, SameEvents,
             marks' = marks \/ marks' = marks \cup {"no dog"}
      PROVE  ProcInv'
  <2>1. /\ dog' \in [Dogs -> DogRec] /\ main' \in [Mains -> MainRec]
        /\ \A e \in Dogs : dog'[e].pc = IF e = d THEN pc ELSE dog[e].pc
        /\ \A m \in Mains : /\ main'[m].pc = main[m].pc /\ main'[m].beats = main[m].beats
                            /\ main'[m].hdog # NoDog => main[m].hdog # NoDog
    BY <1>a, <1>2, DogPc
  <2>2. OneDog'
    BY <1>a, <1>2, <2>1 DEF OneDog
  <2>3. /\ ProcTypes' /\ OneMain' /\ ChildHeld'
        /\ \A m \in Mains : main'[m].hdog # NoDog => main[m].hdog # NoDog /\ graceful' = graceful
    BY <1>m, <1>2, <2>1
  <2>4. Calm
    <3>1. \A e \in Dogs : dog'[e].pc \notin {"none", "new"} => graceful' = graceful
      BY <1>a, <1>2, EventsSame
    <3>2. dog[d].pc \notin {"none", "new"}
      BY <1>2 DEF InForce
    <3> QED BY <1>2, <2>1, <2>3, <3>1, <3>2 DEF Calm
  <2> QED BY <1>a, <1>2, <2>2, <2>3, <2>4, QuitStep DEF ProcInv
<1>3. CASE DogLeaves(d)
  BY <1>2, <1>3 DEF DogLeaves, Waiting, InForce
<1>4. CASE WaitForWatchdogSignal(d)
  <2>1. CASE beat
    <3>1. UNCHANGED <<main, dog, enabled, sub, want, marks>> /\ EventsAre(graceful, FALSE)
      BY <1>4, <2>1 DEF WaitForWatchdogSignal
    <3>2. /\ graceful' \in BOOLEAN /\ beat' \in BOOLEAN /\ \A e \in Dogs : dog'[e].pc \notin {"none", "new"} => graceful' = graceful
          /\ \A m \in Mains : main'[m].beats => graceful' = graceful
      BY <1>a, <3>1, EventsFollow DEF ProcTypes
    <3>3. ProcTypes'
      BY <1>a, <3>1, <3>2 DEF ProcTypes
    <3>4. OneMain' /\ OneDog' /\ ChildHeld'
      BY <1>a, <3>1 DEF OneMain, OneDog, Owns, ChildHeld
    <3>5. Calm
      BY <1>a, <3>1, <3>2 DEF Calm, ChildHeld
    <3> QED BY <1>a, <3>1, <3>3, <3>4, <3>5, QuitStep DEF ProcInv
  <2>2. CASE ~beat
    BY <1>2, <1>4, <2>2 DEF WaitForWatchdogSignal, InForce
  <2> QED BY <2>1, <2>2
<1>5. CASE GraceOver(d)
  BY <1>2, <1>5 DEF GraceOver, InForce
<1>6. CASE LastLook(d)
  <2>1. CASE graceful
    BY <1>2, <1>6, <2>1 DEF LastLook, InForce
  <2>2. CASE ~graceful
    BY <1>2, <1>6, <2>2 DEF LastLook, InForce
  <2> QED BY <2>1, <2>2
<1>7. CASE TryRespawn(d)
  <2>1. dog[d].pc = "look" /\ UNCHANGED <<enabled, sub, want>> /\ SameEvents
    BY <1>7 DEF TryRespawn
  <2>2. CASE DogGoes(d, "none") /\ marks' = marks \cup {"no dog"}
    BY <1>2, <2>1, <2>2 DEF InForce
  <2>3. CASE /\ AllowRestart(d) /\ \E m \in FreeMain : main' = Start(m, FALSE)
             /\ dog' = [dog EXCEPT ![d].pc = "after", ![d].count = @ + 1]
             /\ marks' = IF want = "quit" THEN marks \cup {"revived"} ELSE marks
    <3>1. PICK m \in FreeMain : main' = Start(m, FALSE)
      BY <2>3
    <3>2. m \in Mains
      BY DEF FreeMain
    <3>3. /\ main' \in [Mains -> MainRec] /\ \A n \in Mains : main'[n].pc = IF n = m THEN "enter" ELSE main[n].pc
          /\ Children
      BY <1>a, <3>1, <3>2, MainSet, Records DEF Start, Children
    <3>4. \A n \in Mains : Owns(n)' => Owns(n)
      BY <3>3 DEF Owns
    <3> DEFINE then == [dog[d] EXCEPT !.pc = "after", !.count = @ + 1]
    <3>5. then \in DogRec /\ then.pc = "after"
      <4>1. dog[d].count + 1 \in 0..Restarts
        BY <1>a, <2>3, ProcessesAssumption DEF ProcTypes, DogRec, AllowRestart
      <4> QED BY <1>a, <4>1 DEF ProcTypes, DogRec, InForce
    <3>6. dog' = [dog EXCEPT ![d] = then]
      BY <1>a, <2>3 DEF ProcTypes
    <3>7. dog' \in [Dogs -> DogRec] /\ \A e \in Dogs : dog'[e].pc = IF e = d THEN "after" ELSE dog[e].pc
      <4> HIDE DEF then
      <4> QED BY <1>a, <3>5, <3>6, DogSet
    <3>8. OneDog'
      BY <1>a, <2>1, <3>7 DEF OneDog, InForce
    <3>9. Calm
      BY <1>a, <2>1, <3>3, <3>7, EventsSame, ChildrenKept DEF Calm, Children
    <3>10. want = "quit" => "looking" \in marks \/ "late" \in marks
      BY <1>a, <2>1 DEF QuitHolds
    <3>11. ChildHeld' /\ QuitHolds' /\ QuitKept'
      BY <1>a, <2>1, <2>3, <3>3, <3>9, <3>10, QuitStep, ChildrenKept
    <3>12. ProcTypes'
      BY <1>a, <2>1, <3>3, <3>7, EventsSame DEF ProcTypes
    <3> QED BY <1>a, <3>4, <3>8, <3>11, <3>12, OwnersKept DEF ProcInv
  <2> QED BY <1>7, <2>2, <2>3 DEF TryRespawn
<1>8. CASE StillAlive(d)
  BY <1>2, <1>8 DEF StillAlive, InForce
<1>9. CASE WindowPasses(d)
  <2>1. /\ dog[d].count > 0 /\ dog' = [dog EXCEPT ![d].count = @ - 1]
        /\ UNCHANGED <<main, enabled, sub, want, marks>> /\ SameEvents
    BY <1>9 DEF WindowPasses
  <2>c. main' \in [Mains -> MainRec]
    BY <1>a, <2>1 DEF ProcTypes
  <2>d. /\ \A m \in Mains : /\ main'[m].pc = main[m].pc /\ main'[m].beats = main[m].beats
                            /\ main'[m].hdog # NoDog => main[m].hdog # NoDog
    BY <2>1
  <2> DEFINE then == [dog[d] EXCEPT !.count = @ - 1]
  <2>2. then \in DogRec /\ then.pc = dog[d].pc
    BY <1>a, <2>1, ProcessesAssumption DEF ProcTypes, DogRec
  <2>3. dog' = [dog EXCEPT ![d] = then]
    BY <1>a, <2>1 DEF ProcTypes
  <2>4. dog' \in [Dogs -> DogRec] /\ \A e \in Dogs : dog'[e].pc = dog[e].pc
    <3> HIDE DEF then
    <3> QED BY <1>a, <2>2, <2>3, DogSet
  <2>5. OneDog'
    BY <1>a, <2>4 DEF OneDog
  <2>6. /\ ProcTypes' /\ OneMain' /\ ChildHeld'
        /\ \A m \in Mains : main'[m].hdog # NoDog => main[m].hdog # NoDog /\ graceful' = graceful
    BY <1>m, <2>1, <2>4, <2>c, <2>d
  <2>7. Calm
    BY <1>a, <2>1, <2>4, <2>6, EventsSame DEF Calm
  <2> QED BY <1>a, <2>1, <2>5, <2>6, <2>7, QuitStep DEF ProcInv
<1> QED BY <1>1, <1>3, <1>4, <1>5, <1>6, <1>7, <1>8, <1>9 DEF DogRuns

\* Every step of the processes and of the user.
LEMMA ProcStep == ProcInv /\ [PNext]_pvars => ProcInv'
<1> SUFFICES ASSUME ProcInv, [PNext]_pvars PROVE ProcInv'
  OBVIOUS
<1>a. ProcTypes /\ OneMain /\ OneDog /\ ChildHeld /\ QuitHolds /\ QuitKept
  BY DEF ProcInv
<1>1. CASE UserStartsMain
  <2>1. want' = "run" /\ UNCHANGED <<dog, enabled, sub, marks>> /\ SameEvents
    BY <1>1 DEF UserStartsMain
  <2>2. PICK m \in FreeMain : main' = Start(m, FALSE)
    BY <1>1 DEF UserStartsMain
  <2>3. m \in Mains
    BY DEF FreeMain
  <2>4. /\ main' \in [Mains -> MainRec] /\ \A n \in Mains : main'[n].pc = IF n = m THEN "enter" ELSE main[n].pc
        /\ Children
    BY <1>a, <2>2, <2>3, MainSet, Records DEF Start, Children
  <2>5. \A n \in Mains : Owns(n)' => Owns(n)
    BY <2>4 DEF Owns
  <2>6. ProcTypes'
    BY <1>a, <2>1, <2>4, EventsSame DEF ProcTypes
  <2>7. OneDog'
    BY <1>a, <2>1, DogsKept
  <2> QED BY <1>a, <2>1, <2>4, <2>5, <2>6, <2>7, OwnersKept, QuitStep, ChildrenKept DEF ProcInv
<1>2. CASE OpenDialog \/ CloseDialog
  <2>1. UNCHANGED <<main, dog, enabled, want, marks>> /\ sub' \in BOOLEAN /\ SameEvents
    BY <1>2 DEF OpenDialog, CloseDialog
  <2>2. ProcTypes'
    BY <1>a, <2>1, EventsSame DEF ProcTypes
  <2>3. OneMain' /\ OneDog' /\ ChildHeld'
    BY <1>a, <2>1 DEF OneMain, OneDog, Owns, ChildHeld
  <2>4. Calm
    BY <1>a, <2>1, EventsSame DEF Calm, ChildHeld
  <2> QED BY <1>a, <2>1, <2>2, <2>3, <2>4, QuitStep DEF ProcInv
<1>3. CASE RunScheduledTask
  <2>1. UNCHANGED <<main, enabled, sub, want, marks>> /\ SameEvents
    BY <1>3 DEF RunScheduledTask
  <2>2. PICK d \in FreeDog : dog' = [dog EXCEPT ![d] = [pc |-> "new", count |-> 0]]
    BY <1>3 DEF RunScheduledTask
  <2>3. dog' \in [Dogs -> DogRec] /\ \A e \in Dogs : dog'[e].pc \notin {"none", "new"} => dog'[e] = dog[e]
    BY <1>a, <2>2, DogSet, Records DEF FreeDog
  <2>4. \A e \in Dogs : dog'[e].pc \in InForce => dog[e].pc \in InForce
    BY <2>3 DEF InForce
  <2>5. ProcTypes'
    BY <1>a, <2>1, <2>3, EventsSame DEF ProcTypes
  <2>6. OneMain' /\ ChildHeld'
    BY <1>a, <2>1 DEF OneMain, Owns, ChildHeld
  <2>7. Calm
    BY <1>a, <2>1, <2>3, EventsSame DEF Calm, ChildHeld
  <2> QED BY <1>a, <2>1, <2>4, <2>5, <2>6, <2>7, DogsKept, QuitStep DEF ProcInv
<1>4. CASE UNCHANGED pvars
  BY <1>4, <1>a DEF pvars, ProcInv, ProcTypes, OneMain, OneDog, ChildHeld, Owns, QuitHolds, QuitKept, Busy
<1> QED BY <1>1, <1>2, <1>3, <1>4, MainRunsStep, MainUsedStep, DogStep DEF PNext

\* For any number of processes, orders, crashes and restarts: one main process owns the
\* mutex, one watchdog watches, and what the user has ended no watchdog starts again that
\* ran or was waited for when he did, but for one that had looked at the event just before
\* (VKey_Main_Mutex, VKeyWatchdogSingleton, SignalGracefulShutdown).
THEOREM ProcessesAreOne == PSpec => []OneAtATime
<1>1. PInit => ProcInv
  <2> SUFFICES ASSUME PInit PROVE ProcInv
    OBVIOUS
  <2>1. main \in [Mains -> MainRec] /\ \A m \in Mains : main[m].pc = "none" /\ main[m].hdog = NoDog
    BY Records DEF PInit
  <2>2. dog \in [Dogs -> DogRec] /\ \A d \in Dogs : dog[d].pc = "none"
    BY Records DEF PInit
  <2>3. ProcTypes
    BY <2>1, <2>2 DEF PInit, ProcTypes
  <2>4. OneMain /\ OneDog /\ ChildHeld
    BY <2>1, <2>2 DEF OneMain, OneDog, ChildHeld, Owns, InForce
  <2>5. QuitHolds /\ QuitKept
    BY DEF PInit, QuitHolds, QuitKept
  <2> QED BY <2>3, <2>4, <2>5 DEF ProcInv
<1>2. ProcInv => OneAtATime
  <2> SUFFICES ASSUME ProcInv PROVE OneAtATime
    OBVIOUS
  <2>1. PTypeOK
    BY DEF ProcInv, ProcTypes, PTypeOK, MainRec, DogRec
  <2> QED BY <2>1 DEF ProcInv, OneMain, OneDog, OneAtATime, OnlyOne
<1> QED BY <1>1, <1>2, ProcStep, PTL DEF PSpec
=============================================================================
