----------------------------- MODULE ConfigSync -----------------------------
(***************************************************************************)
(* How a choice made in a dialog or in the tray menu becomes the           *)
(* configuration of the hook: through the file config.toml, the SharedState*)
(* mapping with its configGeneration, and the worker of the main process.  *)
(*                                                                         *)
(* Four processes or threads run at once: the Settings dialog, a dialog it *)
(* opened, the main process's user interface (tray menu) and its worker.   *)
(* Each runs handlers that are sequences of steps, each step one call that *)
(* is atomic to the others: a load or a save of the file (under its mutex),*)
(* a Read or a Write of SharedState.  job[p] is what is left of the handler*)
(* of p.  A user interface thread starts a handler when it has none.       *)
(*                                                                         *)
(* A configuration has one typing option that SharedState and file hold,   *)
(* the code table, an option only the file holds and another dialog edits  *)
(* (exclusions, triggers, key map) or the Settings dialog (the apps of the *)
(* text service), and two system options: one of the Settings dialog, one  *)
(* of the main process.                                                    *)
(***************************************************************************)
EXTENDS Naturals, Sequences, FiniteSets

CONSTANTS
  Scenarios,   \* who does what: ui, acts, edits, restarts
  Gens         \* values of SharedState::configGeneration (256 in the code)

ASSUME GensAssumption == Gens \in Nat \ {0, 1}

VARIABLES
  sc,       \* the scenario (fixed)
  file,     \* config.toml
  sh,       \* SharedState: option, code table, configGeneration
  unseen,   \* the epoch is not the one QuickSync has claimed
  mem,      \* what each process holds: configurations loaded, snapshot read, choice
  job,      \* steps left of each process's handler
  dlg,      \* the Settings dialog: open, configDirty_, WM_VKEY_CONFIG_CHANGED posted
  sub,      \* the dialog opened from it is open
  note,     \* WM_VKEY_HOOK_RELOAD is posted to the tray window
  work,     \* MainThreadWorker::workPending_
  hook,     \* HookEngine: config_, code table, snapshot, what QuickSync saw last
  posted,   \* kConfigApply is in the mailbox
  engine,   \* configuration the typing engine was created with
  quit,     \* the main process has been asked to end
  used,     \* edits and restarts used
  wanted,   \* what the user chose last, of every option
  races     \* races of the writers that have happened

cvars == <<sc, file, sh, unseen, mem, job, dlg, sub, note, work, hook, posted,
          engine, quit, used, wanted, races>>

Procs   == {"dlg", "sub", "menu", "worker"}
Classic == sc.ui = "classic"

Typing(f) == [opt |-> f.opt, table |-> f.table, own |-> f.own]
System(f) == [sys |-> f.sys, ext |-> f.ext]
With(f, g) == [x \in DOMAIN f |-> IF x \in DOMAIN g THEN g[x] ELSE f[x]]

Fresh == [opt |-> 0, table |-> 0, own |-> 0, sys |-> 0, ext |-> 0]
Mem   == [cfg |-> Typing(Fresh), base |-> Typing(Fresh), sysc |-> System(Fresh),
          sbase |-> System(Fresh), snap |-> [opt |-> 0, table |-> 0, gen |-> 0],
          pick |-> <<"opt", 0>>]
Closed == [open |-> FALSE, dirty |-> FALSE, inbox |-> FALSE]

(* The configuration a hook takes from file f at the start. *)
HookOf(f) == [opt |-> f.opt, table |-> f.table, own |-> f.own, snap |-> f.own, gen |-> 0,
              lopt |-> f.opt, ltable |-> f.table]

ConfigInit ==
  /\ sc \in Scenarios
  /\ file = Fresh /\ wanted = Fresh
  /\ sh = [opt |-> 0, table |-> 0, gen |-> 0] /\ unseen = FALSE
  /\ mem = [p \in Procs |-> Mem] /\ job = [p \in Procs |-> <<>>]
  /\ dlg = Closed /\ sub = FALSE /\ note = FALSE
  /\ work = FALSE /\ hook = HookOf(Fresh) /\ posted = FALSE
  /\ engine = [opt |-> 0, own |-> 0]
  /\ quit = FALSE /\ used = [edits |-> 0, restarts |-> 0] /\ races = {}

-----------------------------------------------------------------------------
(* Steps.  AtStep(p, s): s is the next step of p. *)

AtStep(p, s) == job[p] # <<>> /\ Head(job[p]) = s
Done(p)  == job' = [job EXCEPT ![p] = Tail(@)]
Race(r, happens) == races' = IF happens THEN races \cup {r} ELSE races

(* ConfigManager::LoadOrDefault, and the choice put into what was loaded. *)
Chosen(cfg, pick) == [x \in DOMAIN cfg |-> IF pick[1] = x THEN pick[2] ELSE cfg[x]]
LoadOrDefault(p) ==
  /\ AtStep(p, "load") /\ Done(p)
  /\ mem' = [mem EXCEPT ![p].cfg = Chosen(Typing(file), mem[p].pick),
                        ![p].base = Typing(file)]
  /\ UNCHANGED <<sc, file, sh, unseen, dlg, sub, note, work, hook, posted, engine, quit, used, wanted, races>>

(* SaveToFile replaces [input], [features] and the key map with what the   *)
(* caller holds; the other sections stay as they are in the file.          *)
SaveToFile(p) ==
  /\ AtStep(p, "save") /\ Done(p)
  /\ file' = With(file, mem[p].cfg)
  /\ mem' = [mem EXCEPT ![p].base = mem[p].cfg]
  /\ Race("stale", mem[p].base # Typing(file))
  /\ UNCHANGED <<sc, sh, unseen, dlg, sub, note, work, hook, posted, engine, quit, used, wanted>>

(* The system options: loaded and merged with the choice, then saved. *)
LoadSystemConfig(p) ==
  /\ AtStep(p, "loadsys") /\ Done(p)
  /\ mem' = [mem EXCEPT ![p].sysc = Chosen(System(file), mem[p].pick),
                        ![p].sbase = System(file)]
  /\ UNCHANGED <<sc, file, sh, unseen, dlg, sub, note, work, hook, posted, engine, quit, used, wanted, races>>

SaveSystemConfig(p) ==
  /\ AtStep(p, "savesys") /\ Done(p)
  /\ file' = With(file, mem[p].sysc)
  /\ mem' = [mem EXCEPT ![p].sbase = mem[p].sysc]
  /\ Race("stale", mem[p].sbase # System(file))
  /\ UNCHANGED <<sc, sh, unseen, dlg, sub, note, work, hook, posted, engine, quit, used, wanted>>

(* SharedStateManager::Read *)
ReadShared(p) ==
  /\ AtStep(p, "read") /\ Done(p)
  /\ mem' = [mem EXCEPT ![p].snap = sh]
  /\ UNCHANGED <<sc, file, sh, unseen, dlg, sub, note, work, hook, posted, engine, quit, used, wanted, races>>

Bumped(s) == [s EXCEPT !.gen = (@ + 1) % Gens]

(* SharedStateManager::Write of s, made from what p has read before.  Lapped:  *)
(* the generation is again the one the hook has noted.                         *)
WriteShared(p, s) ==
  /\ Done(p)
  /\ sh' = s /\ unseen' = TRUE
  /\ races' = races \cup (IF mem[p].snap # sh THEN {"lost"} ELSE {})
                   \cup (IF s.gen # mem[p].snap.gen /\ s.gen = hook.gen THEN {"lapped"} ELSE {})
  /\ UNCHANGED <<sc, file, mem, dlg, sub, note, work, hook, posted, engine, quit, used, wanted>>

(* The fields of the caller's configuration with a new generation. *)
WriteFields(p) ==
  AtStep(p, "sync") /\ WriteShared(p, Bumped(With(mem[p].snap, [opt |-> mem[p].cfg.opt, table |-> mem[p].cfg.table])))
(* A new generation only: the file has changed. *)
WriteGeneration(p) == AtStep(p, "bump") /\ WriteShared(p, Bumped(mem[p].snap))
(* The code table of the tray menu: no new generation. *)
WriteTable(p) == AtStep(p, "table") /\ WriteShared(p, [mem[p].snap EXCEPT !.table = mem[p].pick[2]])

(* HookEngine::SetCodeTable, called by the menu. *)
SetCodeTable ==
  /\ AtStep("menu", "hooktable") /\ Done("menu")
  /\ hook' = [hook EXCEPT !.table = mem["menu"].pick[2]]
  /\ UNCHANGED <<sc, file, sh, unseen, mem, dlg, sub, note, work, posted, engine, quit, used, wanted, races>>

(* Messages to the Settings dialog and to the tray window; a dialog opens. *)
PostConfigChanged ==
  /\ AtStep("menu", "post") /\ Done("menu")
  /\ dlg' = [dlg EXCEPT !.inbox = @ \/ dlg.open]
  /\ UNCHANGED <<sc, file, sh, unseen, mem, sub, note, work, hook, posted, engine, quit, used, wanted, races>>

PostHookReload(p) ==
  /\ AtStep(p, "wake") /\ Done(p)
  /\ note' = TRUE
  /\ UNCHANGED <<sc, file, sh, unseen, mem, dlg, sub, work, hook, posted, engine, quit, used, wanted, races>>

SpawnSub(p) ==
  /\ AtStep(p, "spawn") /\ Done(p)
  /\ sub' = TRUE
  /\ UNCHANGED <<sc, file, sh, unseen, mem, dlg, note, work, hook, posted, engine, quit, used, wanted, races>>

(* The dialog is gone; "end" asks the main process to end and start again. *)
DestroyDialog ==
  /\ AtStep("dlg", "close") \/ AtStep("dlg", "end")
  /\ Done("dlg")
  /\ dlg' = Closed
  /\ quit' = (quit \/ AtStep("dlg", "end"))
  /\ UNCHANGED <<sc, file, sh, unseen, mem, sub, note, work, hook, posted, engine, used, wanted, races>>

-----------------------------------------------------------------------------
(* Handlers, as the steps they run. *)

(* SettingsDialog *)
SyncToSharedState == <<"read", "sync">>
SettingsSaveToToml == <<"save", "read", "bump">>
SaveSystemSettings == <<"loadsys", "savesys">>
(* ClassicSettingsDialog saves the system options it has cached as well. *)
ClassicSaveToToml == <<"save", "savesys", "read", "bump">>
SaveToToml == IF Classic THEN ClassicSaveToToml ELSE SettingsSaveToToml

(* Mutant: what waits for its timer is left to it. *)
FlushForgotten(dirty) == <<>>

FlushBeforeSpawn(dirty) == IF dirty /\ ~Classic THEN SettingsSaveToToml ELSE <<>>
(* The dialogs opened from Settings: load, change, save, SignalConfigChange. *)
SignalConfigChange == <<"read", "bump", "wake">>
PersistAndSignal == <<"load", "save">> \o SignalConfigChange
(* The tray menu *)
ApplyConfigChange == <<"load", "save", "read", "sync", "post">>
ApplyCodeTable == <<"hooktable", "read", "table", "load", "save", "post">>
ToggleSystem == <<"loadsys", "savesys">>

(* An edit in p; "busy" if another process has not finished one. *)
Busy(p) == job[p] # <<>> \/ (p = "dlg" /\ dlg.dirty)
Edits(p, act, other) ==
  /\ act \in sc.acts /\ used.edits < sc.edits
  /\ used' = [used EXCEPT !.edits = @ + 1]
  /\ races' = races \cup other \cup
       (IF \E q \in Procs \ {p, "worker"} : Busy(q) THEN {"busy"} ELSE {})

(* The thread of the Settings dialog can take a message. *)
DlgIdle == dlg.open /\ job["dlg"] = <<>> /\ (Classic => job["sub"] = <<>>)
Run(p, steps) == job' = [job EXCEPT ![p] = steps]
Wants(x, v) == wanted' = [wanted EXCEPT ![x] = v]

Loaded(m) == [m EXCEPT !.cfg = Typing(file), !.base = Typing(file),
                       !.sysc = System(file), !.sbase = System(file)]

(* A Settings process starts and loads the file. *)
OpenSettings ==
  /\ ~dlg.open /\ job["dlg"] = <<>> /\ ~quit
  /\ dlg' = [Closed EXCEPT !.open = TRUE]
  /\ mem' = [mem EXCEPT !["dlg"] = Loaded(@)]
  /\ UNCHANGED <<sc, file, sh, unseen, job, sub, note, work, hook, posted, engine, quit, used, wanted, races>>

(* A typing option or the code table: written to SharedState at once, to   *)
(* the file when the timer fires.                                          *)
SaveSettings(x) ==
  LET v == 1 - mem["dlg"].cfg[x]
  IN /\ DlgIdle /\ Edits("dlg", x, {})
     /\ mem' = [mem EXCEPT !["dlg"].cfg[x] = v]
     /\ dlg' = [dlg EXCEPT !.dirty = TRUE]
     /\ Run("dlg", SyncToSharedState)
     /\ Wants(x, v)
     /\ UNCHANGED <<sc, file, sh, unseen, sub, note, work, hook, posted, engine, quit>>
HandleToggleChange   == SaveSettings("opt")
HandleDropdownChange == SaveSettings("table")

(* A system option: Settings merges it into the file at once; the classic  *)
(* dialog saves all it has cached.                                         *)
HandleSystemToggle ==
  LET v == 1 - mem["dlg"].sysc.sys
  IN /\ DlgIdle /\ Edits("dlg", "sys", {})
     /\ Wants("sys", v)
     /\ IF Classic
        THEN /\ mem' = [mem EXCEPT !["dlg"].sysc.sys = v]
             /\ Run("dlg", SyncToSharedState \o ClassicSaveToToml)
             /\ dlg' = [dlg EXCEPT !.dirty = FALSE]
        ELSE /\ mem' = [mem EXCEPT !["dlg"].pick = <<"sys", v>>]
             /\ Run("dlg", SaveSystemSettings)
             /\ UNCHANGED dlg
     /\ UNCHANGED <<sc, file, sh, unseen, sub, note, work, hook, posted, engine, quit>>

(* The option that registers the text service, which SharedState does not  *)
(* carry.  Settings registers first and changes nothing when that fails;   *)
(* the classic dialog has written SharedState by then and takes the option *)
(* back in its copy and the file.                                          *)
HandleTsfToggle(ok) ==
  LET v == 1 - mem["dlg"].cfg.own
      took == [mem EXCEPT !["dlg"].cfg.own = v]
  IN /\ DlgIdle /\ Edits("dlg", "tsf", {}) /\ ~Classic
     /\ IF ok
        THEN /\ mem' = took /\ Wants("own", v)
             /\ dlg' = [dlg EXCEPT !.dirty = FALSE]
             /\ Run("dlg", SyncToSharedState \o SettingsSaveToToml)
        ELSE UNCHANGED <<mem, wanted, dlg, job>>
     /\ UNCHANGED <<sc, file, sh, unseen, sub, note, work, hook, posted, engine, quit>>

ClassicTsfToggle(ok) ==
  LET v == 1 - mem["dlg"].cfg.own
  IN /\ DlgIdle /\ Edits("dlg", "tsf", IF ok THEN {} ELSE {"refused"}) /\ Classic
     /\ mem' = [mem EXCEPT !["dlg"].cfg.own = v, !["dlg"].pick = <<"own", IF ok THEN v ELSE 1 - v>>]
     /\ Run("dlg", SyncToSharedState \o <<"choice">> \o ClassicSaveToToml)
     /\ dlg' = [dlg EXCEPT !.dirty = FALSE]
     /\ IF ok THEN Wants("own", v) ELSE UNCHANGED wanted
     /\ UNCHANGED <<sc, file, sh, unseen, sub, note, work, hook, posted, engine, quit>>

TakeChoice ==
  /\ AtStep("dlg", "choice") /\ Done("dlg")
  /\ mem' = [mem EXCEPT !["dlg"].cfg = Chosen(@, mem["dlg"].pick)]
  /\ UNCHANGED <<sc, file, sh, unseen, dlg, sub, note, work, hook, posted, engine, quit, used, wanted, races>>

(* The Advanced spell check: its engine cannot be installed and everything *)
(* is saved as it was, or the application is started again with it.        *)
HandleAdvancedLevel(ready) ==
  LET v == 1 - mem["dlg"].cfg.opt
      save == SyncToSharedState \o SaveToToml
  IN /\ DlgIdle /\ Edits("dlg", "adv", {})
     /\ dlg' = [dlg EXCEPT !.dirty = FALSE]
     /\ IF ready
        THEN /\ mem' = [mem EXCEPT !["dlg"].cfg.opt = v] /\ Wants("opt", v)
             /\ Run("dlg", save \o <<"end">>)
        ELSE /\ Run("dlg", save) /\ UNCHANGED <<mem, wanted>>
     /\ UNCHANGED <<sc, file, sh, unseen, sub, note, work, hook, posted, engine, quit>>

(* TIMER_DEFERRED_SAVE *)
DeferredSave ==
  /\ DlgIdle /\ dlg.dirty
  /\ dlg' = [dlg EXCEPT !.dirty = FALSE]
  /\ Run("dlg", SaveToToml)
  /\ UNCHANGED <<sc, file, sh, unseen, mem, sub, note, work, hook, posted, engine, quit, used, wanted, races>>

(* Mutant: the message is not taken out of the queue. *)
OnConfigChangedAgain ==
  /\ DlgIdle /\ dlg.inbox
  /\ mem' = [mem EXCEPT !["dlg"] = Loaded(@)]
  /\ Race("undone", dlg.dirty)
  /\ UNCHANGED <<sc, file, sh, unseen, job, dlg, sub, note, work, hook, posted, engine, quit, used, wanted>>

(* WM_VKEY_CONFIG_CHANGED: the file is loaded over what the dialog holds;  *)
(* configDirty_ and its timer stay.                                        *)
OnConfigChanged ==
  /\ DlgIdle /\ dlg.inbox
  /\ dlg' = [dlg EXCEPT !.inbox = FALSE]
  /\ mem' = [mem EXCEPT !["dlg"] = Loaded(@)]
  /\ Race("undone", dlg.dirty)
  /\ UNCHANGED <<sc, file, sh, unseen, job, sub, note, work, hook, posted, engine, quit, used, wanted>>

(* A button opens another dialog. *)
OpenFromSettings ==
  /\ DlgIdle /\ "sub" \in sc.acts /\ ~sub
  /\ dlg' = IF Classic THEN dlg ELSE [dlg EXCEPT !.dirty = FALSE]
  /\ Run("dlg", FlushBeforeSpawn(dlg.dirty) \o <<"spawn">>)
  /\ UNCHANGED <<sc, file, sh, unseen, mem, sub, note, work, hook, posted, engine, quit, used, wanted, races>>

(* WM_CLOSE ends the dialogs it opened wherever they are, then saves. *)
OnClose ==
  /\ DlgIdle /\ (Classic => ~sub)
  /\ sub' = FALSE
  /\ job' = [job EXCEPT !["sub"] = <<>>,
                        !["dlg"] = (IF dlg.dirty THEN SaveToToml ELSE <<>>) \o <<"close">>]
  /\ dlg' = [dlg EXCEPT !.dirty = FALSE]
  /\ Race("killed", job["sub"] # <<>>)
  /\ UNCHANGED <<sc, file, sh, unseen, mem, note, work, hook, posted, engine, quit, used, wanted>>

(* An edit in the other dialog. *)
SubIdle == sub /\ job["sub"] = <<>> /\ (Classic => job["dlg"] = <<>>)
SubEdit ==
  LET v == 1 - file.own
  IN /\ SubIdle /\ Edits("sub", "own", {})
     /\ mem' = [mem EXCEPT !["sub"].pick = <<"own", v>>]
     /\ Run("sub", PersistAndSignal)
     /\ Wants("own", v)
     /\ UNCHANGED <<sc, file, sh, unseen, dlg, sub, note, work, hook, posted, engine, quit>>

(* It closes.  The classic dialog loads the file after some of them,       *)
(* without saving first what it holds.                                     *)
CloseSub ==
  /\ SubIdle
  /\ sub' = FALSE
  /\ mem' = IF Classic /\ "reload" \in sc.acts THEN [mem EXCEPT !["dlg"] = Loaded(@)] ELSE mem
  /\ Race("undone", Classic /\ "reload" \in sc.acts /\ dlg.dirty)
  /\ UNCHANGED <<sc, file, sh, unseen, job, dlg, note, work, hook, posted, engine, quit, used, wanted>>

(* The code table QuickSync has read last. *)
LastTable == IF job["worker"] # <<>> THEN mem["worker"].snap.table ELSE hook.ltable

(* The tray menu: an option, the code table, a system option.  A code table  *)
(* is chosen before the hook has seen the one chosen last: "table".          *)
OnMenuCommand(act, x, script) ==
  LET v == 1 - file[x]
      twice == x = "table" /\ sh.table # LastTable
  IN /\ job["menu"] = <<>> /\ ~quit /\ Edits("menu", act, IF twice THEN {"table"} ELSE {})
     /\ mem' = [mem EXCEPT !["menu"].pick = <<x, v>>]
     /\ Run("menu", script)
     /\ Wants(x, v)
     /\ UNCHANGED <<sc, file, sh, unseen, dlg, sub, note, work, hook, posted, engine, quit>>
MenuOption == OnMenuCommand("menu option", "opt", ApplyConfigChange)
MenuTable  == OnMenuCommand("menu table", "table", ApplyCodeTable)
MenuSystem == OnMenuCommand("menu system", "ext", ToggleSystem)

-----------------------------------------------------------------------------
(* The hook thread, the worker and the life of the main process. *)

(* A key: QuickSync on the hook thread only wakes the worker. *)
Key ==
  /\ unseen /\ ~work
  /\ work' = TRUE
  /\ UNCHANGED <<sc, file, sh, unseen, mem, job, dlg, sub, note, hook, posted, engine, quit, used, wanted, races>>

OnHookReload ==
  /\ note /\ job["menu"] = <<>>
  /\ note' = FALSE /\ work' = TRUE
  /\ UNCHANGED <<sc, file, sh, unseen, mem, job, dlg, sub, hook, posted, engine, quit, used, wanted, races>>

(* QuickSync on the worker: the epoch is claimed with the state read; a    *)
(* new generation is noted before the file is loaded.                      *)
QuickSync ==
  /\ work /\ job["worker"] = <<>>
  /\ work' = FALSE
  /\ IF unseen
     THEN /\ unseen' = FALSE
          /\ mem' = [mem EXCEPT !["worker"].snap = sh]
          /\ hook' = [hook EXCEPT !.gen = sh.gen]
          /\ Run("worker", IF sh.gen # hook.gen
                           THEN <<"rload", "rapply", "rsnap", "compare">> ELSE <<"compare">>)
     ELSE UNCHANGED <<unseen, mem, hook, job>>
  /\ UNCHANGED <<sc, file, sh, dlg, sub, note, posted, engine, quit, used, wanted, races>>

(* ReloadFromToml: the file, then the fields of SharedState as they are    *)
(* now over it - not the code table -, then the lists, and a command to    *)
(* the hook thread.                                                        *)
ReloadLoad ==
  /\ AtStep("worker", "rload") /\ Done("worker")
  /\ mem' = [mem EXCEPT !["worker"].cfg = Typing(file)]
  /\ UNCHANGED <<sc, file, sh, unseen, dlg, sub, note, work, hook, posted, engine, quit, used, wanted, races>>
ReloadFromToml ==
  /\ AtStep("worker", "rapply") /\ Done("worker")
  /\ hook' = With(hook, [mem["worker"].cfg EXCEPT !.opt = sh.opt])
  /\ UNCHANGED <<sc, file, sh, unseen, mem, dlg, sub, note, work, posted, engine, quit, used, wanted, races>>
RebuildSnapshotFromToml ==
  /\ AtStep("worker", "rsnap") /\ Done("worker")
  /\ hook' = [hook EXCEPT !.snap = file.own]
  /\ posted' = TRUE
  /\ UNCHANGED <<sc, file, sh, unseen, mem, dlg, sub, note, work, engine, quit, used, wanted, races>>

(* The rest of QuickSync: fields that differ from the last ones seen. *)
CompareFields ==
  LET s == mem["worker"].snap
  IN /\ AtStep("worker", "compare") /\ Done("worker")
     /\ hook' = IF s.opt = hook.lopt /\ s.table = hook.ltable THEN hook
                ELSE [hook EXCEPT !.lopt = s.opt, !.ltable = s.table, !.opt = s.opt, !.table = s.table]
     /\ UNCHANGED <<sc, file, sh, unseen, mem, dlg, sub, note, work, posted, engine, quit, used, wanted, races>>

(* ApplyConfigOnHookThread creates the engine anew. *)
ApplyConfigOnHookThread ==
  /\ posted
  /\ posted' = FALSE
  /\ engine' = [opt |-> hook.opt, own |-> hook.own]
  /\ UNCHANGED <<sc, file, sh, unseen, mem, job, dlg, sub, note, work, hook, quit, used, wanted, races>>

(* Exit in the tray menu, by the user. *)
MenuExit ==
  /\ job["menu"] = <<>> /\ ~quit /\ "restart" \in sc.acts /\ used.restarts < sc.restarts
  /\ quit' = TRUE
  /\ used' = [used EXCEPT !.restarts = @ + 1]
  /\ UNCHANGED <<sc, file, sh, unseen, mem, job, dlg, sub, note, work, hook, posted, engine, wanted, races>>

(* The main process ends: TerminateAllSubprocesses kills the dialogs where *)
(* they are; a new one starts from the file and fills SharedState from it. *)
MainRestart ==
  /\ quit /\ job["menu"] = <<>> /\ job["worker"] = <<>>
  /\ quit' = FALSE /\ dlg' = Closed /\ sub' = FALSE /\ note' = FALSE
  /\ work' = FALSE /\ posted' = FALSE /\ unseen' = FALSE
  /\ job' = [p \in Procs |-> <<>>]
  /\ sh' = [opt |-> file.opt, table |-> file.table, gen |-> 0]
  /\ hook' = HookOf(file)
  /\ engine' = [opt |-> file.opt, own |-> file.own]
  /\ Race("killed", dlg.dirty \/ job["dlg"] # <<>> \/ job["sub"] # <<>>)
  /\ UNCHANGED <<sc, file, mem, used, wanted>>

ProcStep(p) ==
  \/ LoadOrDefault(p) \/ SaveToFile(p) \/ LoadSystemConfig(p) \/ SaveSystemConfig(p)
  \/ ReadShared(p) \/ WriteFields(p) \/ WriteGeneration(p) \/ WriteTable(p)
  \/ PostHookReload(p) \/ SpawnSub(p)
OtherSteps == SetCodeTable \/ PostConfigChanged \/ DestroyDialog \/ TakeChoice
WorkerStep == QuickSync \/ ReloadLoad \/ ReloadFromToml \/ RebuildSnapshotFromToml \/ CompareFields
SettingsHandler ==
  \/ OpenSettings \/ HandleToggleChange \/ HandleDropdownChange \/ HandleSystemToggle
  \/ \E ok \in BOOLEAN : HandleTsfToggle(ok) \/ ClassicTsfToggle(ok) \/ HandleAdvancedLevel(ok)
  \/ OpenFromSettings \/ OnClose
UserAction ==
  \/ SettingsHandler \/ SubEdit \/ CloseSub \/ MenuOption \/ MenuTable \/ MenuSystem \/ MenuExit
Threads ==
  \/ OtherSteps \/ WorkerStep \/ Key \/ OnHookReload \/ ApplyConfigOnHookThread \/ MainRestart
  \/ \E p \in {"dlg", "sub", "menu"} : ProcStep(p)

ConfigNext == UserAction \/ DeferredSave \/ OnConfigChanged \/ Threads
ConfigSpec == ConfigInit /\ [][ConfigNext]_cvars

(* Every thread runs on, every message and timer is delivered, and the user types. *)
Fairness ==
  /\ WF_cvars(WorkerStep) /\ WF_cvars(Key) /\ WF_cvars(OnHookReload)
  /\ WF_cvars(ApplyConfigOnHookThread) /\ WF_cvars(MainRestart)
  /\ WF_cvars(ProcStep("dlg") \/ DestroyDialog \/ TakeChoice) /\ WF_cvars(ProcStep("sub"))
  /\ WF_cvars(ProcStep("menu") \/ SetCodeTable \/ PostConfigChanged)
  /\ SF_cvars(DeferredSave) /\ SF_cvars(OnConfigChanged)
ConfigFairSpec == ConfigSpec /\ Fairness

-----------------------------------------------------------------------------
(* Everything a choice has set going has come to its end. *)
Quiet ==
  /\ job = [p \in Procs |-> <<>>]
  /\ ~(dlg.dirty \/ dlg.inbox \/ unseen \/ note \/ work \/ posted \/ quit)

(* Types: the steps of the handlers, the options and the races.                      *)
ConfigTypes ==
  /\ file \in [DOMAIN Fresh -> 0..1] /\ wanted \in [DOMAIN Fresh -> 0..1]
  /\ sh.gen \in 0..Gens - 1 /\ hook.gen \in 0..Gens - 1
  /\ races \subseteq {"stale", "lost", "lapped", "busy", "table", "undone", "refused", "killed"}
  /\ \A p \in Procs : Len(job[p]) <= 8

(* What the hook types with is what SharedState says, whatever the writers of the    *)
(* file did to each other: QuickSync claims an epoch with the state it read, and a   *)
(* state written meanwhile is taken by the next one.  A write made from a state that *)
(* was no longer there puts an old generation back, and with it can go unseen.       *)
HookFollowsShared == Quiet /\ races \cap {"lost", "lapped"} = {} => hook.opt = sh.opt

(* What only the file holds reaches the hook and its engine: no save is missed by    *)
(* the generation, although the worker notes it before it loads, unless two writers  *)
(* counted to the same number, one was killed between its save and its count, or the *)
(* tray menu, which does not count the save of a code table, saved an old file.      *)
HookFollowsFile ==
  /\ Quiet /\ races \cap {"lost", "lapped", "killed"} = {}
  /\ "stale" \in races => "menu table" \notin sc.acts
  => hook.own = file.own /\ hook.snap = file.own /\ engine = [opt |-> sh.opt, own |-> file.own]

(* Without one of the races named, the last choice of every option is in the file,   *)
(* in SharedState and in the hook once everything has come to its end.               *)
ChoicesKept ==
  Quiet /\ races = {} =>
    /\ file = wanted
    /\ sh.opt = wanted.opt /\ sh.table = wanted.table
    /\ hook.opt = wanted.opt /\ hook.table = wanted.table /\ hook.own = wanted.own

(* Everything a choice has set going ends: no save is put off forever, no reload     *)
(* signals the next one.                                                             *)
Settles == []<>Quiet

(* Choices arrive: the hook and its engine follow SharedState and the file, and,     *)
(* without one of the races named, the last choice of every option is in all of them *)
(* (SaveToFile, SignalConfigChange, QuickSyncFromSharedState, ReloadFromToml).       *)
ChoicesArrive == ConfigTypes /\ HookFollowsShared /\ HookFollowsFile /\ ChoicesKept
=============================================================================
