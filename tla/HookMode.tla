------------------------------ MODULE HookMode ------------------------------
(***************************************************************************)
(* Who decides whether keys become Vietnamese: the user's toggle, the lock *)
(* of an application to English or Vietnamese, the application's           *)
(* remembered mode (smart switch), the keyboard layout (CJK), the flag in  *)
(* SharedState that the TSF DLL may toggle, and the worker that keeps flag *)
(* and hook in step and writes the remembered modes to disk.               *)
(*                                                                         *)
(* The hook thread's handlers are atomic; the main thread and the worker   *)
(* take one step per access to state they share with it.  HookFocus models *)
(* how a classification reaches ApplyFocus; the browser extension is not   *)
(* connected here.                                                         *)
(***************************************************************************)
EXTENDS Naturals, FiniteSets

CONSTANTS
    Apps,        \* executables
    NoApp,       \* no executable
    Rules,       \* Rules[v][a]: what version v of the settings says of a
    CjkApps,     \* applications whose keyboard layout is Chinese, Japanese or Korean
    Configs,     \* the settings smartSwitch and cjkAutoSwitch
    MaxModes,    \* kMaxSmartSwitchEntries
    Budgets      \* bounds: switches, toggles, keys, reloads

Outside == {"switch", "toggle", "key", "reload"}

ASSUME AppsAssumption == IsFiniteSet(Apps) /\ NoApp \notin Apps /\ CjkApps \subseteq Apps
ASSUME RulesAssumption ==
    \A v \in {1, 2} : Rules[v] \in [Apps -> {"none", "english", "vietnamese", "tsf"}]
ASSUME BoundsAssumption ==
    /\ Budgets \subseteq [Outside -> Nat] /\ MaxModes \in Nat \ {0}
    /\ Configs \subseteq [smart: BOOLEAN, cjk: BOOLEAN]

VARIABLES
    cfg,       \* the two settings, fixed
    budget,    \* what is left of the bounds
    fg,        \* the application in front
    version,   \* the version of the settings in the configuration snapshot
    s,         \* HookEngine: atomics and hook-thread state, and the shared flags
    main,      \* "idle", or the mode ToggleVietnameseMode is about to post
    worker,    \* MainThreadWorker: where it is and what it has read
    saved      \* the modes in config.toml

vars == <<cfg, budget, fg, version, s, main, worker, saved>>

Modes == {"v", "e", "absent"}
ToMode(b) == IF b THEN "v" ELSE "e"
NoModes == [a \in Apps |-> "absent"]

(* Types. *)
TypeOK ==
    /\ fg \in Apps /\ version \in {1, 2}
    /\ {s.vn, s.flag, s.excluded, s.forced, s.tsf, s.tsfActive, s.tsfReadonly,
        s.compat, s.suppressed,
        s.before, s.dirty, s.toggleBit, s.focusDue} \subseteq BOOLEAN
    /\ s.pending \in {"none", "v", "e"}
    /\ {s.active, s.real, s.excludedPid, s.forcedPid} \subseteq Apps \cup {NoApp}
    /\ s.modes \in [Apps -> Modes] /\ saved \in [Apps -> Modes]
    /\ main \in {"idle", "v", "e"}
    /\ worker.pc \in {"idle", "compare", "notify", "store", "snapshot", "save",
                      "excluded", "tsf", "callback"}

Init ==
    /\ cfg \in Configs
    /\ budget \in Budgets
    /\ fg \in Apps
    /\ version = 1
    /\ \E vn \in BOOLEAN :
         s = [vn |-> vn, flag |-> vn, excluded |-> FALSE, forced |-> FALSE, tsf |-> FALSE,
              tsfActive |-> FALSE, tsfReadonly |-> FALSE, compat |-> TRUE,
              suppressed |-> FALSE, before |-> TRUE, dirty |-> FALSE, toggleBit |-> FALSE,
              focusDue |-> TRUE, pending |-> "none", active |-> NoApp, real |-> NoApp,
              excludedPid |-> NoApp, forcedPid |-> NoApp, modes |-> NoModes]
    /\ main = "idle"
    /\ worker = [pc |-> "idle", flag |-> FALSE, excluded |-> FALSE,
                exe |-> NoApp, modes |-> NoModes]
    /\ saved = NoModes

Spend(what) == /\ budget[what] > 0
               /\ budget' = [budget EXCEPT ![what] = @ - 1]

-----------------------------------------------------------------------------
(* Parts of the hook thread's handlers, as functions of HookEngine's state. *)

EffectiveTsf(h) == h.tsf /\ ~h.excluded

(* The mode other processes see: locks win over the user's mode. *)
SharedMode(h) == h.forced \/ (~h.excluded /\ h.vn)
NotifyModeChange(h) == [h EXCEPT !.flag = SharedMode(h)]

TsfModeCallback(h) ==
    [h EXCEPT !.tsfActive = EffectiveTsf(h),
              !.tsfReadonly = ~EffectiveTsf(h) /\ ~h.excluded]

(* DecideCjkSwitch and OnLayoutChanged: entering a CJK layout switches to
   English and remembers the mode, leaving it restores the mode; not while the
   application is locked. *)
OnLayoutChanged(h, compatible) ==
    IF ~cfg.cjk \/ h.excluded \/ h.forced THEN h
    ELSE IF ~compatible /\ ~h.suppressed
           THEN LET in == [h EXCEPT !.suppressed = TRUE, !.before = h.vn, !.vn = FALSE]
                IN IF h.vn THEN NotifyModeChange(in) ELSE in
    ELSE IF compatible /\ h.suppressed
           THEN NotifyModeChange([h EXCEPT !.suppressed = FALSE, !.vn = h.before])
    ELSE h

(* CheckLayoutChange, for the layout of the application in front. *)
CheckLayoutChange(h, app) ==
    LET compatible == app \notin CjkApps
    IN IF compatible = h.compat THEN h
       ELSE OnLayoutChanged([h EXCEPT !.compat = compatible], compatible)

Remembered(modes) == Cardinality({a \in Apps : modes[a] # "absent"})

(* Remember mode for app; a full map is cleared first when the application is left. *)
Remember(h, app, mode) ==
    [h EXCEPT !.modes = [@ EXCEPT ![app] = ToMode(mode)], !.dirty = TRUE]

ClearIfFull(h) ==
    IF Remembered(h.modes) >= MaxModes
      THEN [h EXCEPT !.modes = NoModes] ELSE h

\* Mutant: leaves out the locks.
SaveModeOfLeftAppAlways(h, was, mode) ==
    IF ~cfg.smart \/ h.real = NoApp THEN h ELSE Remember(ClearIfFull(h), h.real, mode)

(* ApplyFocusOnHookThread, smart switch SAVE: mode is vn as it was when the old
   locks were read. *)
SaveModeOfLeftApp(h, was, mode) ==
    IF ~cfg.smart \/ h.real = NoApp \/ was.excluded \/ was.forced THEN h
    ELSE Remember(ClearIfFull(h), h.real, mode)

(* The modes a newly entered application has: forced, remembered or inherited. *)
EnterMode(h, app) ==
    IF h.forced
      THEN IF h.vn THEN h ELSE NotifyModeChange([h EXCEPT !.vn = TRUE])
    ELSE IF cfg.smart /\ h.modes[app] # "absent" /\ h.modes[app] # ToMode(h.vn)
      THEN NotifyModeChange([h EXCEPT !.vn = ~@])
    ELSE h

(* CJK was held off while the application was locked: look again. *)
LeaveLock(h, was) ==
    IF ~(was.excluded \/ was.forced) THEN h
    ELSE LET after == OnLayoutChanged(h, h.compat)
         IN IF after.suppressed = h.suppressed THEN NotifyModeChange(after) ELSE after

(* ApplyFocusOnHookThread for an application window. *)
ApplyFocus(h, app) ==
    LET rule == Rules[version][app]
        was  == CheckLayoutChange(h, app)
        now  == TsfModeCallback(
                  [was EXCEPT !.active = app, !.excluded = rule = "english",
                              !.forced = rule = "vietnamese", !.tsf = rule = "tsf",
                              !.forcedPid = IF rule = "vietnamese" THEN app ELSE @])
        kept == [SaveModeOfLeftApp(now, was, was.vn) EXCEPT !.real = app]
    IN IF now.excluded
         THEN LET out == [kept EXCEPT !.excludedPid = app]
              IN IF was.excluded THEN out ELSE NotifyModeChange(out)
         ELSE LeaveLock(EnterMode(kept, app), was)

\* Mutant: leaves the flag the main thread has toggled.
ApplyToggleKeepingFlag(h) ==
    LET mode == IF h.pending = "none" THEN h.flag ELSE h.pending = "v"
        h0   == [h EXCEPT !.pending = "none", !.toggleBit = FALSE]
    IN IF h.excluded \/ h.forced THEN h0
       ELSE NotifyModeChange([h0 EXCEPT !.vn = mode])

(* ApplyToggleVNOnHookThread: blocked in a locked application, which also takes
   back the toggled flag; a lock of an application that is no longer in front
   is dropped. *)
ApplyToggle(h) ==
    LET mode == IF h.pending = "none" THEN h.flag ELSE h.pending = "v"
        h0   == [h EXCEPT !.pending = "none", !.toggleBit = FALSE]
        h1   == IF h0.forced THEN [h0 EXCEPT !.forced = FALSE] ELSE h0
        h2   == [h1 EXCEPT !.vn = mode]
        h3   == IF cfg.smart /\ h2.active # NoApp
                  THEN Remember(h2, h2.active, mode) ELSE h2
    IN IF h.excluded /\ fg = h.excludedPid THEN [h0 EXCEPT !.flag = FALSE]
       ELSE IF h.excluded THEN NotifyModeChange([h0 EXCEPT !.excluded = FALSE, !.vn = TRUE])
       ELSE IF h.forced /\ fg = h.forcedPid THEN [h0 EXCEPT !.flag = TRUE]
       ELSE NotifyModeChange(h3)

(* RunTopGuards with VerifyExcludedState: an exclusion that belongs to another
   process is dropped with the first key. *)
GuardExcluded(h) ==
    IF ~h.excluded \/ fg = h.excludedPid THEN h
    ELSE IF Rules[version][fg] = "english" THEN [h EXCEPT !.excludedPid = fg]
    ELSE NotifyModeChange([h EXCEPT !.excluded = FALSE, !.excludedPid = NoApp])

(* MarkActivity, when ticks had stopped: the flag first, so that the key is
   typed in the mode the user sees. *)
MarkActivity(h, slow) ==
    IF slow /\ h.flag # h.vn THEN NotifyModeChange([h EXCEPT !.vn = h.flag]) ELSE h

-----------------------------------------------------------------------------
(* Steps of the user, the TSF DLL and the hook thread. *)

SwitchTo(app) ==
    /\ app # fg /\ Spend("switch")
    /\ fg' = app
    /\ s' = [s EXCEPT !.focusDue = TRUE]
    /\ UNCHANGED <<cfg, version, main, worker, saved>>

FocusArrives ==
    /\ s.focusDue
    /\ s' = ApplyFocus([s EXCEPT !.focusDue = FALSE], fg)
    /\ UNCHANGED <<cfg, budget, fg, version, main, worker, saved>>

(* ToggleVietnameseMode: the flag, then the target mode and the command. *)
ToggleFlag ==
    /\ main = "idle" /\ Spend("toggle")
    /\ s' = [s EXCEPT !.flag = ~@]
    /\ main' = ToMode(~s.flag)
    /\ UNCHANGED <<cfg, fg, version, worker, saved>>

TogglePost ==
    /\ main # "idle"
    /\ s' = [s EXCEPT !.pending = main, !.toggleBit = TRUE]
    /\ main' = "idle"
    /\ UNCHANGED <<cfg, budget, fg, version, worker, saved>>

ToggleArrives ==
    /\ s.toggleBit
    /\ s' = ApplyToggle(s)
    /\ UNCHANGED <<cfg, budget, fg, version, main, worker, saved>>

(* The TSF DLL handles the toggle hotkey in an application it owns. *)
DllToggles ==
    /\ EffectiveTsf(s) /\ s.active = fg /\ Spend("toggle")
    /\ s' = [s EXCEPT !.flag = ~@]
    /\ UNCHANGED <<cfg, fg, version, main, worker, saved>>

KeyDown ==
    /\ Spend("key")
    /\ \E slow \in BOOLEAN : s' = GuardExcluded(MarkActivity(s, slow))
    /\ UNCHANGED <<cfg, fg, version, main, worker, saved>>

LayoutTick ==
    /\ s.compat = (fg \in CjkApps)
    /\ s' = CheckLayoutChange(s, fg)
    /\ UNCHANGED <<cfg, budget, fg, version, main, worker, saved>>

-----------------------------------------------------------------------------
(* MainThreadWorker: OnTickPoll, and ReloadFromToml. *)

At(pc) == worker.pc = pc
Become(pc) == worker' = [worker EXCEPT !.pc = pc]

(* The flag is read first, the hook's mode afterwards. *)
TickReadFlag ==
    /\ At("idle") /\ s.flag # s.vn
    /\ worker' = [worker EXCEPT !.pc = "compare", !.flag = s.flag]
    /\ UNCHANGED <<cfg, budget, fg, version, s, main, saved>>

TickCompare ==
    /\ At("compare")
    /\ IF worker.flag # s.vn
         THEN s' = [s EXCEPT !.vn = worker.flag] /\ Become("notify")
         ELSE UNCHANGED s /\ Become("idle")
    /\ UNCHANGED <<cfg, budget, fg, version, main, saved>>

TickNotify ==
    /\ At("notify")
    /\ worker' = [worker EXCEPT !.pc = "store", !.flag = SharedMode(s)]
    /\ UNCHANGED <<cfg, budget, fg, version, s, main, saved>>

TickStoreFlag ==
    /\ At("store")
    /\ s' = [s EXCEPT !.flag = worker.flag]
    /\ worker' = [worker EXCEPT !.pc = "idle", !.flag = FALSE]
    /\ UNCHANGED <<cfg, budget, fg, version, main, saved>>

(* 3 s after the last change: the dirty mark is cleared before the snapshot. *)
FlushClear ==
    /\ At("idle") /\ s.dirty
    /\ s' = [s EXCEPT !.dirty = FALSE]
    /\ Become("snapshot")
    /\ UNCHANGED <<cfg, budget, fg, version, main, saved>>

FlushSnapshot ==
    /\ At("snapshot")
    /\ worker' = [worker EXCEPT !.pc = "save", !.modes = s.modes]
    /\ UNCHANGED <<cfg, budget, fg, version, s, main, saved>>

(* SaveSmartSwitchApps, which may fail: the map is then dirty again. *)
FlushSave ==
    /\ At("save")
    /\ \/ saved' = worker.modes /\ UNCHANGED s
       \/ s' = [s EXCEPT !.dirty = TRUE] /\ UNCHANGED saved
    /\ worker' = [worker EXCEPT !.pc = "idle", !.modes = NoModes]
    /\ UNCHANGED <<cfg, budget, fg, version, main>>

(* ReloadFromToml: the new snapshot, then the locks of the active application.
   curExe refers to a string of the hook thread: each use may see the
   application of the start or the one that has become active since. *)
ReloadSnapshot ==
    /\ At("idle") /\ Spend("reload")
    /\ version' = 2
    /\ worker' = [worker EXCEPT !.pc = "excluded", !.exe = s.active]
    /\ UNCHANGED <<cfg, fg, s, main, saved>>

Says(exe, rule) == exe # NoApp /\ Rules[version][exe] = rule

ReloadStoreExcluded ==
    /\ At("excluded")
    /\ \E exe \in {worker.exe, s.active} :
         LET excluded == IF exe = NoApp THEN s.excluded ELSE Says(exe, "english")
         IN /\ s' = [s EXCEPT !.excluded = excluded]
            /\ worker' = [worker EXCEPT !.pc = "tsf", !.excluded = excluded]
    /\ UNCHANGED <<cfg, budget, fg, version, main, saved>>

ReloadStoreTsf ==
    /\ At("tsf")
    /\ \E exe \in {worker.exe, s.active} :
         LET tsf == ~worker.excluded /\ Says(exe, "tsf")
         IN /\ s' = [s EXCEPT !.tsf = tsf]
            /\ worker' = [worker EXCEPT !.pc = "callback", !.flag = tsf]
    /\ UNCHANGED <<cfg, budget, fg, version, main, saved>>

ReloadCallback ==
    /\ At("callback")
    /\ s' = [s EXCEPT !.tsfActive = worker.flag,
                      !.tsfReadonly = ~worker.flag /\ ~worker.excluded]
    /\ worker' = [worker EXCEPT !.pc = "idle", !.exe = NoApp, !.flag = FALSE,
                                !.excluded = FALSE]
    /\ UNCHANGED <<cfg, budget, fg, version, main, saved>>

-----------------------------------------------------------------------------
Next ==
    \/ \E a \in Apps : SwitchTo(a)
    \/ ToggleFlag \/ TogglePost \/ DllToggles \/ KeyDown
    \/ FocusArrives \/ ToggleArrives \/ LayoutTick
    \/ TickReadFlag \/ TickCompare \/ TickNotify \/ TickStoreFlag
    \/ FlushClear \/ FlushSnapshot \/ FlushSave
    \/ ReloadSnapshot \/ ReloadStoreExcluded \/ ReloadStoreTsf \/ ReloadCallback

HookStep == FocusArrives \/ ToggleArrives \/ LayoutTick
Running  == \/ TickCompare \/ TickNotify \/ TickStoreFlag \/ FlushSnapshot
            \/ ReloadStoreExcluded \/ ReloadStoreTsf \/ ReloadCallback

Spec == Init /\ [][Next]_vars

(* The threads run, the worker keeps ticking while somebody uses the computer,
   and the disk does not fail for ever. *)
FairSpec ==
    /\ Spec
    /\ WF_vars(TogglePost) /\ WF_vars(FocusArrives) /\ WF_vars(ToggleArrives)
    /\ WF_vars(LayoutTick) /\ WF_vars(Running) /\ WF_vars(FlushSave)
    /\ SF_vars(TickReadFlag) /\ SF_vars(FlushClear)
    /\ SF_vars(FlushSave /\ saved' = worker.modes)

-----------------------------------------------------------------------------
(* Properties. *)

(* Hook and SharedState end up with the same mode, however toggles, focus
   changes and the worker's non-atomic synchronisation interleave
   (HookEngine.cpp:2803). *)
ModesAgree == <>[](s.vn = s.flag)

(* The worker stores a mode it worked out before the lock. *)
StaleStore == worker.pc = "store" /\ worker.flag # SharedMode(s)

(* A lock holds: with a locked application in front, what other processes see
   ends up as the lock says, although a toggle changes the flag first
   (HookEngine.cpp:3911, 3937), unless the worker stored a mode it had worked
   out before the lock (HookEngine.cpp:2805). *)
LocksHold ==
    \/ <>StaleStore
    \/ <>[]((s.excluded => ~s.flag) /\ (s.forced => s.flag))

(* The TSF DLL and the hook never both take the keys for good: the flags the
   DLL obeys end up as the hook's own routing says (HookEngineFocus.cpp:431). *)
OneOwner ==
    budget["reload"] = 0 =>
        <>[](/\ s.tsfActive = EffectiveTsf(s)
             /\ s.tsfReadonly = (~EffectiveTsf(s) /\ ~s.excluded))

(* Every remembered mode reaches the disk, although modes change while the
   worker saves and saves fail (HookEngine.cpp:2846). *)
ModesReachDisk == <>[](s.dirty \/ saved = s.modes) /\ []<>(~s.dirty)

LeavesApp == s'.real # s.real /\ s.real # NoApp
Records(app) == s'.modes[app] # s.modes[app] /\ s'.modes[app] # "absent"

(* "Persist the mode that actually belonged to the app being left"
   (HookEngineFocus.cpp:481): what is remembered for an application is the mode
   the hook had there, never a mode imposed by a lock or by a keyboard layout
   of the next application. *)
SavedModeIsOwn ==
    [][LeavesApp /\ Records(s.real)
          => s'.modes[s.real] = ToMode(s.vn) /\ ~s.excluded /\ ~s.forced]_vars

(* A step that leaves an application remembers its own mode, if any, and none of
   another; without the CJK switch it is the mode of the step before. *)
RemembersOwn ==
    /\ \A a \in Apps \ {s.real} : s'.modes[a] \in {s.modes[a], "absent"}
    /\ Records(s.real) => ~s.excluded /\ ~s.forced /\ (~cfg.cjk => s'.modes[s.real] = ToMode(s.vn))

(* "Smart-switch capacity - runtime in-memory cap" (HookEngine.h:707): the toggle
   adds to a full map. *)
ModesWithinCap == Remembered(s.modes) <= MaxModes

(* Where an application is left the map is within its cap again, whatever toggles
   have added to it (kMaxSmartSwitchEntries). *)
CapRestored == s'.modes = s.modes \/ Remembered(s'.modes) <= MaxModes

(* What the other processes are told ends up as the hook has it: the mode, the lock of
   the application in front and who takes the keys in SharedState, the remembered modes
   on the disk (OnTickPoll, NotifyModeChange, ApplyFocusOnHookThread, the flush). *)
ModesArrive == []TypeOK /\ ModesAgree /\ LocksHold /\ OneOwner /\ ModesReachDisk

(* What is remembered for an application that is left is its own mode, never one of a
   lock; every other application keeps what it has, or loses it with the whole map,
   which is cleared at its cap (ApplyFocusOnHookThread). *)
RememberedModesAreOwn == [][LeavesApp => RemembersOwn /\ CapRestored]_vars
=============================================================================
