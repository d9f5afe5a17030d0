# VKey: a TLA+ model

VKey is a Vietnamese input method for Windows. Several processes share one
configuration and one *lexicon* (the spell-check exclusions and the suggestion
flag in `config.toml`, and the words of `user_dictionary.txt`): the main process
(`VKey.exe`: keyboard hook, tray icon, worker thread), the Settings process, a
TSF text service loaded into every application that takes text, a watchdog, an
installer and a browser host. They meet on disk and in shared memory, any of
them may be killed at any moment, and what the user types has to stay right
meanwhile. That is what this project is about: the protocols between those
processes and threads, and the long sequences of keys, where a unit test sees
one order of events out of many.

Paths below are relative to `src/src/`.

## 1. Inventory

| Component | State | Operations | Talks to | What is hard, and what must hold |
|---|---|---|---|---|
| **Lexicon transactions** `core/config/LexiconTransaction.cpp` | the two files, their `.tmp` and `.bak`, the journal | `CommitTransaction`, `CommitLexiconUpdate`, `RecoverIfNeeded`, `RollbackToBackup`, `LexiconReader::Load` | ordinary saves (same named mutex), wire, SharedState | death or a failing file operation at any step, also of the recovery; a reader sees both files of one version, an acknowledged commit stays, an interrupted one is resolved |
| **Configuration file, dialogs** `core/config/ConfigManager.cpp`, `app/dialogs`, `app/classic` | `config.toml`; every dialog's copy of it | load, read-modify-write saves, signals | worker, hook, SharedState | lost updates; a change nobody takes up |
| **SharedState** `core/ipc/SharedStateManager.cpp` | one mapping: magic, version, epoch, some thirty fields | `Create`, `Open`, `OpenReadWrite`, `Read`, `Write`, `CheckAbiCompatibility`, flag operations | all processes | readers of a mapping under (re)creation, dead writers, several writers; `Read` is atomic |
| **Context anchor, NativeConvert flags** `core/ipc/SharedState.h` | a second seqlock and interlocked bits beside the epoch | publish, consume, toggle | hook and TSF | bits lost between a plain store and an interlocked one |
| **Lexicon wire** `core/ipc/LexiconWire*.{h,cpp}` | mapping with header, CRC and payload; cached identity of each reader | `Create`, `Publish`, `Close`, `Open`, `ReadSnapshot(Fast)`, `ResetCachedIdentity` | main process to every TSF thread | torn reads, death inside `Publish`, a stale identity taken for the current one |
| **TSF EngineController** `tsf/EngineController.cpp` | active and pending configuration, pending dictionary, engine | `CheckConfigEvent`, `RefreshFlags`, `ApplySharedState`, `RefreshUserDictionarySnapshot`, promotion | SharedState, wire, keys, Rust library | one lexicon arrives in three pieces at three times; nothing is swapped inside a word; every change takes effect at last |
| **TSF composition** `tsf/KeyEventSink.cpp`, `CompositionManager.cpp` | composition, claimed keys, undo, macro buffer | test-key and key callbacks, edit sessions | the application | callbacks that come twice or not at all, refused sessions; a key takes effect once |
| **Hook: configuration take-over** `app/system/HookEngine.cpp`, `HookCommandMailbox.h` | snapshot in use, mailbox bits, wake latch | post, drain, apply, reload | worker, SharedState, Settings | the older of two snapshots applied last; a lost wake-up |
| **Focus owner** `FocusOwner.cpp`, `HookEngineFocus.cpp` | latest request serial, deferred classification | request, classify, apply | worker and hook | answers that are older than the focus, or arrive inside a word |
| **Smart switch** `core/SmartSwitchManager.cpp`, `HookEngine.cpp` | mode, locks, mode per application, shared flag | toggle, switch, restore, flush | focus, TSF, disk | toggles against automatic switches; what is remembered belongs to its application |
| **Hook: key pipeline** `HookEngine.cpp`, `core/pipeline`, `OutputDispatcher.cpp`, `HookEngineCommitUndo.cpp` | composition, events under way, committed words, macro buffer | key, Backspace, commit, recall, expand, undo | the application | events sent arrive after keys passed; buffer and screen are one |
| **Hotkeys** `HotkeyManager.cpp`, `core/hotkey`, `HookEngine.cpp` | modifiers down, latched keys, taps | match, track, reconcile, rebind | every key | gestures told from the tails of others; missed releases |
| **Injectors, quick convert** `app/output`, `QuickConvert.cpp` | saved clipboard, cycle | copy, convert, paste, select, restore | clipboard, application | somebody else uses the clipboard in between |
| **Typing engine** `core/engine` | the word being typed | push, backspace, commit, restore | hook, TSF | tone, spelling verdict and raw keys stay consistent over every sequence of keys |
| **Updates** `UpdateInstaller.cpp`, `PendingDllApply.cpp`, `UpdateChecker.cpp` | live, pending and parked files, markers | download, verify, install, roll back, apply | the next start | failure or death between two renames |
| **Watchdog, main process** `watchdog/main.cpp`, `app/main.cpp` | mutexes, heartbeat and quit events | start, wait, look, respawn | each other | quitting and starting against respawning |
| **Start at logon** `StartupHelper.h` | registry value, scheduled task | switch, repair, restart elevated | Settings, start | prompts declined half-way |
| **Hook life cycle** `HookLifecycle.cpp` | hook handle, tickets, policy | observe, request, retry, replace | focus | replaced twice, or never answered |
| **Advanced engine** `AdvancedEngineInstaller.cpp`, `core/engine/Rust*` | engine and signature on disk, copy loaded per process | download, put in place, verify, load | Settings, main process, TSF hosts | two installers; what is loaded is what was verified |
| **Browser host** `browser_host`, `core/ipc/BrowserContextManager.cpp` | framed pipe, a mapping | receive, publish | extension, hook | stale context |
| Automatic capitals, windows, registration, logging, validation | | | | no protocol state of their own |

`PROJECT.json` lists them with their sources under `components`, and under
`hazards` the places where one of these behaviours bites, by line.

## 2. Modules

| Module | Models | Composed or checked in |
|---|---|---|
| `LexiconTransaction` | transaction, recovery, reader, saves: one file operation per step | `LexiconMC` |
| `LexiconTransactionProofs` | its theorems | extends `LexiconTransaction` |
| `SnapshotRegister` | **abstract**: what `SharedStateManager` and the wire promise - a register with one current snapshot; a read returns the whole of it as it is at one instant, or fails, and publications never go backwards | |
| `SharedStateSeqlock` | SharedState, one store or load per step; implements `SnapshotRegister` | `SharedStateMC` |
| `SharedStateSeqlockProofs` | its theorems, the refinement among them | extends `SharedStateSeqlock` |
| `LexiconWire` | wire, one store or load per step; the main process's life; implements `SnapshotRegister` | `LexiconWireMC` |
| `LexiconWireProofs` | its theorems, the refinement among them | extends `LexiconWire` |
| `TsfLexicon` | one TSF thread between SharedState and wire, both as the registers they were shown to be | `TsfLexiconMC` |
| `TsfLexiconProofs` | the theorems of the text service | extends `TsfLexicon` and `TsfComposition` |
| `TsfComposition` | keys, sessions and the document in a host of the text service | `TsfCompositionMC` |
| `HookFocus` | main thread, worker, mailbox and hook thread: focus and configuration | `HookFocusMC` |
| `HookMode` | everybody who sets the mode | `HookModeMC` |
| `HookKeys`, `HotkeyGestures`, `QuickConversion` | what a key does at the hook: words, hotkeys, and the conversion one of them starts | `HookKeysMC`, one part per behaviour |
| `HookProofs` | the theorems of the hook process | extends `HookFocus`, `HotkeyGestures` and `QuickConversion` |
| `ConfigSync`, `ListDialogs` | a choice on its way from a dialog to the hook; what the list dialogs save | `ConfigMC`, one part per behaviour |
| `Phonology`, `TypingEngine` | syllable, tone place, English protection; the word from its keys | `TypingEngineMC` |
| `UpdateInstall`, `AppProcesses`, `StartupEntries`, `HookReclaim`, `AdvancedEngine` | the processes around the input method | `SystemMC`, one part per behaviour |
| `LifeCycleProofs` | theorems of `AppProcesses`, `StartupEntries`, `HookReclaim` | extends them |
| `InstallProofs` | theorems of `AdvancedEngine` and `UpdateInstall` | extends them |
| `SettingsProofs` | theorems of `ListDialogs`, `HookMode` and `ConfigSync` | extends them |

The parts of `HookKeysMC`, `ConfigMC` and `SystemMC` share no state that the models keep, so a
behaviour looks at one and the others stay where they began.

Some properties set named situations apart, in which the code does not keep
what is otherwise kept: a module collects them in a variable (`flaws`, `faults`,
`races`, `hurt`, `slips`, `marks`, `notes`, `mishaps`, `sins`, `upsets`), marked by the
action in which they arise. Section 4 lists them; taking one out of the property shows it.

### LexiconTransaction

`file[p]` is what path `p` holds: nothing, part of a write, or a version - the
number of the transaction that wrote it and, for `config.toml`, the number of
the ordinary save whose settings it also holds. SHA-256 is modelled as what it
decides: `HashesMatch` compares versions. The journal is a record with its state
(`Prepared`, `FilesReplaced`, `RollbackPending`, `GenerationPublished`,
`Committed`); it is written durably by rename, so it is never partial. `pc`
is the place of the process that holds the named mutex; everybody else waits, so
one `pc` is enough, and a death (`Crash`) frees the mutex with the files as they
are. `Begin` picks the operation: `update` (`CommitLexiconUpdate`, which merges
with the file on disk), `commit` (`CommitTransaction` with wire and generation),
`read`, `publish` (the main process's worker), `save` and `saveStale`
(`ConfigManager::SaveToFile` with a configuration loaded now or earlier). All but
the saves start with `RecoverIfNeeded`. Every step of every operation is one
action, named after its code, and takes the code's failure branch when the
environment uses one of `MaxFaults`.

### SharedStateSeqlock and SnapshotRegister

A publication is a number; a cell of `mem` holds the number of the publication
whose value it has. `Create` and `Write` store magic, the fields in any order
(the copy is plain, so the compiler and processor choose) and the epoch; `Read`
loads epoch, cells, epoch, up to `SEQLOCK_MAX_RETRIES` times. The writers are
the main process and the processes of `Others`, which write only what a valid
`Read` gave them, as the Settings dialog does. Refinement mapping: a publication
takes effect when its writer stores the even epoch.

### LexiconWire

`mem` has one cell per field that a reader compares or uses: generation, CRC,
flag, payload. Two lexicons may share their payload (`SharedPayload`), so that
they differ only in the flag, which the CRC does not cover. The main process is
modelled from start to end: `InitLexiconWireMapping`, its worker's
`PublishCurrentLexiconToWire`, `RecoverPublish`, failures of any of them, and
`Die`, between publications or, with `DieInPublish`, inside one. The mapping
outlives it while a reader has it open. Readers have both paths of
`ReadSnapshotFast`.

### TsfLexicon

The controller `ctl` is a record of the members of `EngineController` that
configuration and lexicon touch. Callbacks of a TSF thread run one after the
other, so a callback is one action, composed of operators that stand for the
functions it calls (`CheckConfig`, `Refresh`, `Stage`, `ApplySharedState`,
`TryPromote`, `TryAttach`). Outside the thread, `ChangeLexicon` commits,
`PublishLexicon` and `PublishGeneration` deliver the two halves in either order,
and `WriteSharedState` changes the settings. A fault - a wire read, a compile, an
engine without handle, a SharedState read - hits one callback.

### HookFocus

Three threads, one atomic access to shared state per step. The main thread
receives focus events (`events`), captures a request with a new serial in the
latch and wakes the worker; the worker classifies, publishes the classification
in the mailbox's slot, sets its bit and wakes the hook thread unless the wake
latch is set; the hook thread drains between keys. `DecideFocusApply` is
`FocusApplyDecision.h`: apply, drop as stale or defer to the end of the word. The
worker's tick poll notices a foreground that raised no event; it stops after
thirty minutes without input, which is the `ticking` of the liveness properties.
Settings reach the engine through the same mailbox.

### HookMode

`s` holds the mode of the hook (`vn`), the flag of SharedState, the locks of the
application in front, its routing to TSF and the remembered modes. Handlers of
the hook thread are atomic; the worker's tick (`TickRead`, `TickCompare`,
`TickNotify`, `TickStoreFlag`), its flush and the main thread's toggle take one step per access.

### HookKeys, HotkeyGestures, QuickConversion

In `HookKeys` a handler of the callback is an operator from the hook's record to
a record with the callback's verdict; what interleaves is the delivery of the
events it sends: `SendInput` queues them, and a key that is passed on
arrives first. A keyboard of `HookKeysMC` is a host with its output channel, a
configuration and the keys that matter. `HotkeyGestures` runs the same key events
through `HotkeyManager` and through the engine's registry and compares what
fires with what the keys pressed mean (`odd` collects the differences with the
circumstances). `QuickConversion` has the conversion thread step by step, the
clipboard with its sequence number, the application that answers posted keys late, the
injector with its timer and a user who copies.

### ConfigSync, ListDialogs

A handler of a dialog, menu or worker is a sequence of steps (`job`), each one
call that is atomic to the others: load, save, `Read`, `Write`, post. The hook
thread takes SharedState over with a key (`Key`), the worker reloads when
`configGeneration` has moved. `ListDialogs` has the dialogs' copies, the saves
in one or two arrays, failing saves, the end of a dialog's process, imports and the worker's
own edits.

### Phonology, TypingEngine

The engine is a record; `ProcessChar` and its handlers are functions from engine
to engine, in the order of the code, for every input method. `Phonology` holds
the tables and decisions. A scenario is a configuration with an alphabet that
exercises one family of rules.

### TsfComposition

A callback is an operator from the record of `NewText` to the same with a verdict;
`phase` is the place between the two callbacks of a key. Hosts are of three
kinds: calling `OnKeyDown` after a claiming test, calling both always, or calling
`OnKeyDown` alone. `before` keeps what the text was when the key came, for
comparison with an application without the service.

### UpdateInstall, AppProcesses, StartupEntries, HookReclaim, AdvancedEngine

Files are their versions, processes the place they are at; named objects
(mutexes, events) live as long as a handle does. Failures, deaths and acts of
the user are bounded. `AdvancedEngine` has the two askers' dialog and worker, and
for every process the copy it has loaded, or the failure it remembers.

## 3. Runs

Bounds are chosen so that each mechanism can meet itself: a transaction needs
one predecessor (`MaxVer = 2`) to inherit stale artifacts, recovery one death
inside itself after the death it recovers from, a rollback one
failure to start and one more inside it. For the seqlocks two fields are enough to tell a
mixture from a snapshot; two publications after the first let a reader straddle
one whole writer; two attempts of a read show what a retry changes. For TSF, two lexicon changes and one
settings change give every order of staging, refresh and promotion. In the hook,
two switches of window let a classification be overtaken, two words in the stack
show the recall of the wrong one, seven keys are two words with a
correction. Six keys reach every rule of the typing engine that depends on what
came before. Two main processes and two watchdogs are what a restart has at one
time; three processes with limits of two fill the lists of the reclaim policy.
Numbers of attempts (`KMaxRedirects`, `GateChecks`, `Restarts`) are smaller than in the code:
each attempt starts from the state the one before it left.

A property of a run that says one thing in several parts is the conjunction of
those parts, each a definition with its own comment; the table gives the parts in
brackets. Type invariants are parts as well.

| Run | Shows |
|---|---|
| `lexicon` | `PairAtomic`: a reader after recovery has both files of one version. `NothingIsLost` (`CommitDurable`: never older than an acknowledged commit; `OldPairRecoverable`: until the journal says the files are replaced, the old pair can be put back; `SavesSurvive`: saves and updates do not undo each other). `JournalResolved`: readers keep coming, deaths and faults stop, then the journal goes. Six instances mix the operations |
| `lexicon_rollback_new_file` | a counterexample (section 4) |
| `sharedstate` | `ReadsAreAtomic` (refinement), `NoFalseMismatch`, `SharedStateHeals` (`QuietMeansStable`, `EpochIncreases`, `SnapshotReachesReaders`): either the main process alone, dying once anywhere and started again, or with Settings as a second, never simultaneous writer |
| `wire` | `ReadsAreAtomic` (refinement), `SeqlockSound` (`ParityTellsWriting`, `StableCopyIsSound`), `LexiconReachesReaders`, with failing publications or a death between two |
| `tsf` | `OneLexicon`: exclusions, flag and dictionary of the engine in service come from one lexicon. `EngineAsConfigured` (`CastIsSafe`: the downcast in `TryAttachUserDictionary` meets a Rust engine; `PendingIsScheduled`). `ChangesAreTakenUp` (`NoMidWordSwap`; `MildLexiconIsActivated`, `MildSettingsAreActivated` where failures are of the kind that is tried again) |
| `hook_focus` | `CommandHasWake`: no command waits without a wake-up. `FocusAndSettingsArrive` (`NoStaleApply`, `WordStaysWhole`: no overtaken classification is applied and none cuts a word; `SettingsReachEngine`, `FocusConvergesUndisturbed`); with window switches, the focus events of a background window, keys, a toggle and a settings change |
| `hook_mode` | `ModesArrive` (`ModesAgree`, `LocksHold`, `OneOwner`, `ModesReachDisk`), `RememberedModesAreOwn`: leaving an application remembers its own mode (`RemembersOwn`), none that a lock imposed, and brings the map within its cap (`CapRestored`) |
| `hook_keys` | words: `InStep` (composition and screen are one), `RecallAndMacrosInPlace` (`FreshRecallPointsAtWord`, `FreshExpansionTakesShortcut`), `GivesBack`. Hotkeys: `HotkeysAsMeant` (`OnePressOneHotkey`, `KeysArrive`, `HotkeyAsMeant`, `ToggleAsMeant`). Conversion: `ConversionHarmless` (`RoundTrip`, `WordsKept`, `ClipboardKept`), `ConversionEnds` |
| `config` | `ChoicesArrive` (`HookFollowsShared`, `HookFollowsFile`, `ChoicesKept`), `Settles`; lists: `ListsKept` (`EntriesKept`, `HookToldOfLists`) |
| `typing_engine` | `SyllableIsRight` (`ToneInPlace`, `MarkedIsSyllable`), `KeysStayHome` (`KeysPointHome`), `DoublePress` |
| `tsf_composition` | `KeysCount` (`KeyTakesEffectOnce`, against an application without the service; `EnterKept`), `WordInStep`, `MacrosReplace` (`ExpansionTakesShortcut`, `UndoTakesExpansion`), `SecretFieldUntouched` |
| `life_cycle` | update: `UpdateIsWhole` (`OneVersion`, `OnlyVouchedFor`), `UserIsTold` (`ToldTrue`, `CancelKept`); processes: `OneAtATime` (`OnlyOne`, `QuitKept`); logon: `EntryIsRight` (`NotTwice`, `StartsAtLogon`); hook: `HookKept` (`OneHook`, `PendingIsInWork`, `OncePerProcess`); advanced engine: `EngineIsTrusted` (`LoadedIsTrusted`, `AdvancedWorks`), `PairKept`; all of them: `WorkIsDone` (`InstallerEnds`, `WantedRuns`, `Watched`, `Answered`) |

The instances of `lexicon` do not mix everything, because some mixes break the
properties (section 4): a save after a death with a `Prepared` journal makes
`OldPairRecoverable` fail, so the instance with saves and updates has no deaths;
`saveStale` beside `update` breaks `PairAtomic`; and a removal that fails twice
with two deaths breaks `OldPairRecoverable`, so the instances where removals fail have
two deaths and one failure, or one and two.

`CHECK_DEADLOCK FALSE` is set where the user's budget of acts runs out and the
system rightly rests.

Fairness, and why the code has it:

- lexicon: weak for the steps of whoever holds the mutex (a running thread goes
  on), strong for readers (they come with every start, dialog and worker wake);
  none for commits, saves, deaths or failures;
- SharedState: weak for `Create` (the main process is started) and for the
  steps of a writer or reader inside a call, strong for opening and calling (a
  TSF thread reads with each key and focus change, though not at each instant);
- wire: weak for the steps of a publication and of a read, weak for calling and
  strong for opening, which fails while there is no mapping;
- TSF: weak for construction, for the two deliveries of the main process and for
  keys; strong for the end of a word, since words begin again and again. Settings and
  lexicon are only promised to a user who types;
- hook focus and mode: weak for the steps of the three threads and for the
  worker's tick as long as it runs;
- configuration: weak for every thread's next step and for keys (the user
  types); strong for the timer of a deferred save and for a posted message, since
  a thread's queue is served in order;
- conversion: weak for its thread, whose waits end by time-outs; nothing
  for the application or the user;
- life cycle: weak for the installer, the main processes, the watchdogs (their
  waits have time-outs), for closing a dialog that stands in the way, for posted
  requests and timers of the hook thread; nothing for the user. The advanced
  engine has safety properties only: its download may last as long as it likes.

The runs with liveness have budgets of deaths and faults that run out: what is shown
is that they heal, not that nothing ever goes wrong again.

## 4. Disagreements between code and comments

One run ends in a counterexample to something a comment of the repository says;
`findings` in `PROJECT.json` quotes it: in `lexicon_rollback_new_file` the commit
creates one of the files, fails, and dies inside its rollback after the first
file; the new file counts as restored, and readers get a mixed pair.

The models show more of the same kind, which are kept as properties and
constants rather than as runs. Each is found within about two minutes by checking the property
under the constants given; those not named are as in the run in brackets.

| Property | Constants | What happens |
|---|---|---|
| `SavesSurvive` | (`lexicon`) the instance `Instance({"update", "read", "save"}, AnyFiles, 2, 1, 0, FALSE)` | death at `Prepared`; a save succeeds without recovering first; the rollback restores the older `config.toml` over it. `LexiconTransaction.h:19-20` says that transactions "cannot race ordinary config.toml saves" |
| `JournalResolved` | (`lexicon`) the same with two deaths | a rollback has renamed its backups away and dies before it removes the journal; a save changes the hash; line 204 then refuses for ever |
| `WireBeforeGeneration` | (`lexicon`) `Instance({"commit", "read"}, BothFiles, 0, 1, 0, FALSE)` | rolling forward (lines 607-608) announces the generation without the wire, against the comment at lines 1032-1033 |
| `PairAtomic` | (`lexicon`) `Instance({"update", "read", "saveStale"}, AnyFiles, 2, 0, 0, FALSE)` | Settings saves the whole configuration it loaded before somebody else's lexicon commit, and with it the older exclusions |
| `WholeSnapshot` | (`sharedstate`, module `SharedStateSeqlock`, `Spec`) `MaxWrites = 2` | two processes inside `Write` use the same epoch numbers and a mixture is accepted; the comment at `SharedStateManager.cpp:417-420` says the epoch strictly increases |
| `SnapshotReachesReaders` | (`sharedstate`, `FairSpec`) `Fields = {"config"}`, `SEQLOCK_MAX_RETRIES = 1`, `MaxWrites = 2` | Settings dies inside `Write`; nobody makes the epoch even while the main process lives |
| `WholeLexicon` | (`wire`, module `LexiconWire`, `Spec`) `DieInPublish = TRUE`, `MaxPublish = 3` | the main process ends inside `Publish` (`app/main.cpp:1258`) while a host keeps the mapping; the parity of the seqlock (`LexiconWireFormat.h:188`) is inverted from then on, readers copy while its successor writes, and accept the flags of one lexicon with the payload of another |
| `ReadsAreAtomic` | (`wire`) `SharedPayload = TRUE`, `MaxFailures = 0` | after a restart, another flag under the same generation and CRC passes for the cached lexicon; without a death (`MaxDeaths = 0`) the fresh generation of each publication prevents it |
| `FailureIsStale` | (`tsf`) `Faults = {"create"}` | an engine that could not be created replaces the one in service, against the comment at `RustInputEngine.cpp:638` |
| `FocusConverges` | (`hook_focus`) `Budgets <- HelperBudgets` | a background window's focus event overtakes a classification; `HookEngine.cpp:3136` has noted the window as dispatched, so the newer request is dropped as spurious and the window is never applied. `HookEngineFocus.cpp:129`: "Dropping is safe only because the superseding request is guaranteed to produce its own apply OR to leave the tick poll able to retry" |
| `SavedModeIsOwn` | (`hook_mode`) `Configs <- SmartAndCjk` | `CheckLayoutChange` (`HookEngineFocus.cpp:352`) runs before the mode of the application being left is read (398): entering one with a CJK layout remembers English for the other. Line 481: "persist the mode that actually belonged to the app being left" |
| `ModesWithinCap` | (`hook_mode`) `MaxModes = 1` | a toggle adds the application in front to a map that is full (`HookEngine.cpp:4003`); `HookEngine.h:707` calls the cap a "runtime in-memory cap". The next application left clears the map, unless it is locked by then, and then another toggle adds one more |
| `RecallPointsAtWord` | (`hook_keys`) `Parts = {"words"}` | a letter glued to a recalled word and deleted again arms the recall of the word before it, which is not before the caret; the comment at `HookEngineCommitUndo.cpp:225` means to prevent it, line 233 drops one entry only |
| `NothingOvertakes` | (`hook_keys`) `Parts = {"words"}` | the trigger that `HookEngine.cpp:1911` re-injects "AFTER all pending synthetic events" is one way; a key that is passed on overtakes what is under way |
| `TakenKeyCounts` | (`hook_keys`) `Parts = {"hotkeys"}` | a key that `HotkeyManager` takes away does not mark the modifier as used, so its release toggles; the comment at `HookEngine.cpp:2023` says "Clean release = no main key was pressed during the modifier window" |
| `CaretNoticed` | (`hook_keys`) `Parts = {"convert"}` | outside Edit controls a moved caret does not end the cycle (`QuickConvert.cpp:638`), and the text before it is replaced |
| `EmptyIsFresh` | (`typing_engine`) | after `w`, `w`, Backspace no letter is left but one `w` in the raw keys (`TypingEngine.cpp:1890`), which a later restore brings back; the comment at 1887 says that Backspace removes all of them |
| `QuitStaysQuit` | (`life_cycle`) | the user quits before the scheduled task runs, 10 s after logon (`StartupHelper.h:323`). The task looks at `watchdogEnabled` alone (`WatchdogController.cpp:108-112`); its watchdog finds no event left that says what the user chose, creates a new one (`watchdog/main.cpp:143-146`) and, when no heartbeat comes, starts the application again. `WatchdogController.cpp:100-101`: "Never leave a newly scheduled supervisor to start after the last publisher handle dies"; `docs/GUIDE.md:186` says that the watchdog tells an end the user chose from a crash and does not start the program again |

Situations the properties set apart, by the name their module gives them; the
text in brackets names the place.

*HookMode* - `StaleStore`: the worker writes a mode to SharedState that it worked out before
a focus change (`HookEngine.cpp:2539`), and a lock is not shown. In an excluded application the tick poll drags the
mode to English; a reload stores for the application it read at the beginning (822).
`tests/FocusInterleavingTest.cpp:9` says the configuration is applied first in a drain; the code applies it last.

*HookKeys* - `overtaken`: see `NothingOvertakes`. `stale`: words left in the stack. `recalled`: the
keys of a recalled word are not in the macro buffer, and in English mode
(`kb.vn`) the buffer runs on across words (3298-3317). `TryEscRestoreRaw` counts
characters, not units, so a two-unit code table loses text (3588-3591).

*HotkeyGestures* - `hotkey` (above); `held`: auto-repeat toggles again (1608); `joined`:
Ctrl+A and then a tap of Shift within it; `excluded`: the guards at 1511 and 1517 do not reset the
taps; `lock`: Caps Lock; `combo`: a release in a combination counts as a tap;
`tail`: `HotkeyManager` fires Ctrl alone on the end of Ctrl+Shift, which the engine was
taught not to (after three modifiers the engine too takes the two that are left for two pressed alone); `noise`: a focus change spoils the gesture under way;
`rerouted`: the browser's route changes during it; `missed`: the hook missed an event; and the keys of `lost`.

*QuickConversion* - `copied`: the user copies between the thread's save and its
next look at the sequence number; `raced`: the restore checks and then writes;
`busy`: `EmptyClipboard` fails; `late`: the copy arrives after the time-out;
`both`: a conversion within 200 ms of an injected word; `refused`: the TSF
`SetText` is refused and the cycle goes on; `typed`: typing between two presses
does not end the cycle; `moved` (above); `fallback`: the selection could not be copied, so the clipboard's
old content is converted and pasted over it; `twin`: outside Edit controls the same text at another
place goes on with the cycle of the one before (`QuickConvert.cpp:582`); `astray`: `EM_SETSEL` selects more than
the word that was pasted (498-508). A failed capture empties the clipboard, and content that is
not text is lost.

*ConfigSync* - `stale`: a save is made from a copy that is no longer the file
(`SettingsDialog.cpp:1656-1665` merges into what it has just loaded, the others do not);
`lost`: a `Write` is made from a `Read` that is no longer what SharedState holds, so that it takes
back what was written between; `lapped`: the generation written is again the one the hook has noted;
`busy`: the user begins an edit while another process has not finished one; `table`: a second code
table is chosen in the tray menu before the hook has seen the first, whose reload may then take the older
one from the file (`main.cpp:1281-1307`, `HookEngine.cpp:737-811`); `undone`: a reload meets a save that
waits; `refused`: registering the service is refused after it was stored
(`ClassicSettingsDialog.cpp:1077`); `killed`: the process is ended between save and count.
`HookFollowsFile` also leaves `stale` out where the tray menu saves code tables: that save
writes an old file back and counts nothing.

*ListDialogs* (`hurt`) - an import clears the copy first (`MacroTableDialog.cpp:216`); the tagged
list is two saves (`ExcludedAppsStore.h:63`); the worker's edits (`HookEngine.cpp:2990`) and a
dialog's copy overwrite each other.

*TypingEngine* - bracket and quick inserts do not move the tone; two toned
vowels can arise (`osoos`, `irer`), and `RelocateToneToHornVowel` (1677-1678)
leaves `toneRawIdx` behind (`wsows`), as does a Backspace (`toans`, Backspace, `ns`;
1550-1551); the verdict is not worked out again after
`RevertProvisionalOoTone` (`do9o5`; 1920, 1951). Line 283 cannot be reached.

*TsfComposition* (`upsets`) - `stranded`: a refused commit before desync recovery wipes the word
(401-404, 711); `left open`: classic hosts lose the routing inside a word
(348-350 against 461-463), and when Vietnamese is turned off inside a
word while macros work in English, the second callback passes the next keys with the word still open (755-795):
all of them in hosts that only call `OnKeyDown`, in the others punctuation that the first one claimed (468-476); `overlap`: a second Enter within 30 ms; `between`: the
flags change between test and key; `unread`: the scope read is refused and
the field counts as ordinary (`EngineController.cpp:252-253`). In
`KeyTakesEffectOnce`: Esc after a revived word loses letters (`before.whole`), Esc with a
selection deletes it (`before.sel`), a shortcut of several words survives a click (`before.tracked`), a stale revival
(`before.stale`); in hosts that call both, an Esc that gave back the keys is passed on
(`KeyEventSink.cpp:425-426`).

*UpdateInstall* - `no backup`: a failed move is not noticed (`UpdateInstaller.cpp:421`), and a later
rollback leaves two versions; `no way back`: restoring fails; `failure kept`: the marker of an
earlier failure cannot be removed (474), and the next start tells of a failure after an update that
succeeded; `cut off`:
killed between two steps (between the renames of `PendingDllApply.cpp:93-99` no live DLL is left, the next start fails to
swap and removes the parked copy); `crossed`: the user starts the application during
the installation; `unread`: a pending DLL whose hash cannot be read is deleted
(78-85); `late cancel`: cancelled after the last look (`UpdateChecker.cpp:450`). The receipt and the
failure marker may each fail to be written or removed, by the installer (338, 341-343, 287-291, 465-474) as by the
start that reads them (`UpdateOutcome.h:25-26`, 35): what was said may be said again. Removing the pending DLL and its
marker is taken to succeed.

*AppProcesses* - `looking`: quit between the watchdog's last look (186) and its
list of processes; `late`: a watchdog runs for the first time when the user has ended the
application, and the event that says so is gone - a watchdog opens it only when it runs itself
(`watchdog/main.cpp:143-146`), and the main process waits for the one it started, no other
(`WatchdogController.cpp:97-106`): that of the scheduled task, or of a main process that crashed before its watchdog ran
(`QuitKept` excepts both, `QuitStaysQuit` in the table does not); `no dog`: the new watchdog gives way to one that is leaving
(160-165); `start lost`: a start while the old process is ending (`app/main.cpp:406-427`); a settings
process of the same name hides a crash; the throttle and a failed start end the watchdog.

*StartupEntries* - declining the prompt after "run as administrator" leaves no
entry until the next start (`SettingsDialog.cpp:819`, `StartupHelper.h:744`); `no restart`: already elevated;
`left behind`: declining with a task present leaves both (704-709, 556).
*HookReclaim*: a failed installation leaves no hook until the program comes to the foreground again.

*AdvancedEngine* - `latched`: a load that failed once is not tried again in that
process (`RustInputEngine.cpp:93`), and text service hosts try at any level
(`EngineController.cpp:1254`, 1309), so those running at the installation stay
without; `unsaved`: the repair's save fails unnoticed (`app/main.cpp:455`);
`crossed`: a second installer with a spoilt signature; `unread`: a check fails for once and the user cancels
between signature and engine; `by hand`: the user copies files.

## 5. Proofs

Checked by TLAPS for all values of the constants: any number of processes,
windows, readers, publications, failures and deaths, where a run has a handful.
Each safety property below is proved from an inductive invariant, and TLC
checked that invariant on a small instance before it was proved. An invariant
is proved to hold initially, to be kept by every action (one lemma or one step
for each) and to imply the property.

### The lexicon on its way

`LexiconTransactionProofs`. `TypeCorrect`, action by action. `PairIsAtomic`
(`PairAtomic`) and `NothingIsEverLost` (`NothingIsLost`) assume
`OnlyLexiconOps`: the operations are
`update`, `read` and `publish`, and removing a file does not fail silently. Both
of them matter: section 4 breaks `PairAtomic` with a stale save and with
a rollback that a failing publication started, and if the journal of a
rolled-back transaction stays behind because its removal failed silently, a next
transaction that dies while it copies a backup has that partial backup restored
(the first instance of `lexicon` with removals that fail). `PairAtomic`
speaks only of the moment a reader loads, so it is not inductive. The invariant
`IndInv` adds what the journal on disk promises about the files (`JournalInv`: no
journal, one consistent pair; `Prepared`, each old file is in its place or in its
backup; from `FilesReplaced` on, both files are new), what a commit has done by
each of its steps (`CommitInv`), what a rollback has restored as long as none of
its steps failed (`RollbackInv`), that the journal goes only when the files need
it no more (`RemoveInv`), and which operation may be at which step (`OpInv`).
`AckInv` adds to it that no version that may yet be put in place - the one in
the files, the old and the new one of a journal, the one the operation is about to
commit - is older than the last one acknowledged. Without saves `SavesSurvive`, one
part of `NothingIsLost`, has nothing to say; what saves do is TLC's.

`SharedStateSeqlockProofs`. `TypeCorrect` for any writers; with `OneWriter` (no
process but the main one writes, which `WholeSnapshot` in section 4 shows to be
necessary) `NoFalseMismatchHolds`, `QuietIsStable`, `EpochNeverReturns` and
`SeqlockImplementsRegister`: each
initial state maps to an initial state of `SnapshotRegister` and each step to a
step or a stutter. `WriterInv` ties the parity of the epoch to the writer's
place and says that at an even epoch every cell holds the last publication;
`ReaderInv` says that as long as the epoch is the one a reader started with, what
it has copied is that publication. `Parity` is the arithmetic on odd and even
both rest on.

`LexiconWireProofs`. `TypeCorrect`; with `PublishesEnd` (no main process ends
between the two increments of `Publish`; section 4 shows what happens otherwise)
`SeqlockIsSound`, and with `PayloadsDiffer` as well (lexicons that differ have
different CRCs, which section 4 shows the fast path to need)
`WireImplementsRegister`. `WireInv` is of the same make as that of the
seqlock of SharedState, and says of the fast path that a cached generation and
CRC name the lexicon the reader has.

`TsfLexiconProofs`. `TheEngineIsAsConfigured`, `TheLexiconIsOne` and, for every
step, `NoWordSwapsItsEngine`, for any lexicons, changes and failures. What the engine will
be depends on what is staged, so the invariant (`Steady`, in
`TheNextLexiconIsWhole`) is about the *next* promotion: pending configuration
and pending dictionary, or the active ones where nothing is pending, are of one
lexicon. Between the calls of one handler it is weaker (`Ready`): `TryAttach`
can give the engine of the old configuration the new dictionary, provided that a
new engine is due and the same call builds it. There is a lemma for each method,
cited by the methods that call it.

For `TsfComposition` it has `SecretFieldsAreUntouched` (`SecretFieldUntouched`), for any scenarios: keys,
settings, macros, kinds of host and numbers of events. The property says nothing of how a field is
entered, so it is not inductive. `FieldsInv` adds that an engine with letters has a composition
(`Joined`) - which no callback may break whatever the application does with its sessions, and which makes
ending the composition enough to empty the engine when the field is left - and that the scope, once
read, says what the field is (`Sealed`). Each operator of the key event sink and the controller has a lemma
that it keeps `Joined`; in a sealed field only the blocked branch of a callback is reached
(`CallbacksSealed`), and what the application writes itself is plain (`HostKeyKeeps`).

`WordsAreInStep` is `WordInStep` for any scenarios. What is on the screen inside a word need not be carried
from key to key: a callback that has its sessions ends with no composition, or with one whose text it has
just written (`PushesShow`, `BackspacesShow`, `RevivalsShow`, which rest on what an edit of the document does
to text and ranges, `Splice` and `Shifts`). `DownCallback` says where it may end with another
one, and `WordInv` that these places are not reached with a word under way: a key held for the macros, a claimed
space, an expansion that Backspace would take back now (`Quiet`), a field not read yet or one to keep out of
(`Open`), and the key of a classic host that the service has not claimed. An engine with letters but
no composition is excluded by `FieldsInv`. `DesksAssumption` says of a scenario that its keys are keys and its text is
one; TLC checked the parts of `WordInv` on the instance of `tsf_composition` before they were proved.

### The hook

`HookProofs`. `TypeCorrect`; `NoWakeIsLost` (`CommandHasWake`), whose
invariant adds that the latch is never set without a wake-up on its way
(`LatchHasWake`); `NothingStaleIsApplied` and `WordsStayWhole`, which with the
liveness properties make up `FocusAndSettingsArrive`. That serials are given out in order and every classification carries
one already given out is in the types (`Requests`, `Classes`), which depend on
the latest serial.

`ConversionsAreHarmless` (`ConversionHarmless`) for any document, configuration and number
of conversions, copies and typed words, provided that `Words` and `Setups` are what their
names say (`WordsAssumption`, `SetupsAssumption`). `QInv` follows the three texts
that could get lost. `Turns` says which keys can be posted at each place of the
conversion's thread and that injector and thread never work at once; on it rest `Clips` (the user's
clipboard is on the clipboard or saved by one of the two, and the clipboard's
number tells which), `Copies` (what the thread has read is the selected word),
`Meets` (what is to be pasted meets a caret or the same word) and `Rounds` (the cycle
and the user's count agree, and the document shows it or is about to). Each part
is asked only while what it is about has been well (`Clean`, `Fine`), as the properties are.

`HotkeysDoAsMeant` (`HotkeysAsMeant`) for any number of keys, modifiers, hotkeys and
bindings, provided that no key is both a modifier and a letter (`KeysAssumption`), that
hotkeys are numbered (`SlotsAssumption`) and that the setups are what their names say
(`GesturesAssumption`). `GInv` says that a key holds one slot (`OneEach`), that one
which has fired holds it until it comes up (`Fired`), that a latched key is down and was
kept from the application, or is excused (`Taken`), and when the two matchers' ideas
of the modifiers, of the other keys and of the taps are the user's: as long as the gesture
has no mark that says otherwise (`ManagerKnows`, `EngineKnows`). With these, each Up of a
modifier is judged as the user means it or carries a mark that the property names.

### Processes and installation

`LifeCycleProofs`. `HookIsKept` (`HookKept`): `ReclaimInv` adds that a process is
waiting as a request or as a ticket but never as both, and that one served is
never observed again. `EntriesAreRight` (`EntryIsRight`): `StartupInv`
says that dialog and file agree on the start (`OneMind`), whose settings a task
belongs to (`TaskIsMeant`), and that a restart which gives the elevation up has its
entry before it is tried (`EntryBeforeRestart`).
`ProcessesAreOne` (`OneAtATime`): `ProcInv` says who holds which mutex and event
at which place, who may still use the quit event, and what the named objects
outlive. A scheduled watchdog may come at any time, before it runs it holds nothing, and from the moment the
user has quit every watchdog that works finds the event set, is at its decision already (`looking`),
or came `late`.

`InstallProofs`. `TheEngineIsTrusted` (`EngineIsTrusted`) and `ThePairIsKept`
(`PairKept`): a verified engine that a process keeps open is the one on disk
(`DllHeld`), a worker at its last step has this build's engine (`DeskInv`), and
as long as nothing happened that `AdvancedWorks` sets apart, what is about to be
loaded fits (`CleanInv`).

For `UpdateInstall` it has `UpdateStaysWhole` (`UpdateIsWhole`) and `TheUserIsTold`
(`UserIsTold`). Both speak of moments of rest; `StageInv` says for each stage of
the installer and of its roll-back where the files of the old version are, so that they
can be brought back until the new ones are complete.

### Settings

`SettingsProofs`. `TheListsAreKept` (`ListsKept`), for any names, dialogs and
edits: `ListInv` says of every name that no mishap touched where the last word on it
is - in the worker's copy while it toggles, in the dialog's copy until it is
saved, otherwise in the file (`Asked`) - and, for the two arrays of the tagged
lists, what each holds when only the first is saved (`Tagged`).

`ModesAreTheirOwn` (`RememberedModesAreOwn`) and `ModesKeepTypes` for any applications,
rules and caps. The invariant is the types alone (`ModeTypes`); the work is in the handler of a
focus change, a composition of nine functions, of which a lemma each says what
it leaves alone (`ApplyFocusIs` puts them together). No other step leaves an application.

`ChoicesDoArrive` (`ChoicesArrive`) for any scenarios, any width of `configGeneration` and any
number of edits and restarts. A handler in `job` is a sequence of which each process
has its own order of steps (`Jobs`, `Script`), so that what a step does to what is left of it is
one lemma (`StepTaken`), and the invariant, `ConfigInv`, can speak of the *set* of steps left.
`Shapes` and `Picked` say which steps imply which, and what they are about. The rest follows a choice
against the stream. As long as the generation has not been lapped or written over,
a hook that has noted it has the option of SharedState, or its worker has still to apply it, and an
engine that differs is about to be created anew (`SharedInv`). A save that nobody has
still to count is in the hook, or the worker has the reload before it (`FileInv`). These two do not know the
user; `ChoiceInv` does, as long as no race has happened: one process at a time has something to save
(`Alone`), the file has the choices but for it (`InFile`), its copy has them then
(`InDialog`, `InHandler`), SharedState has them but for a write it still has to make
(`InShared`), and the code table, which comes to the hook from three sides, is nowhere older than the
file when the worker loads it (`InHook`). There is one lemma for what each action does and one
for why that keeps `ConfigInv`. TLC checked `ConfigInv` on this instance and from random states
that satisfy it before it was proved.

### What the proofs found in the models

Twelve attempts failed because the model, or the property, was wrong, and it was
corrected. Three of them in `ConfigSync`, whose property claimed too much: after a
lost write an old generation is back, and the hook can miss the option in SharedState
(`HookFollowsShared` now excepts `lost` and `lapped`); the tray menu's save of a code table can write an old
file back without counting it (`HookFollowsFile`); and of two code tables chosen there in a
row the hook may keep the first (`table`). None came up in the run, whose generation was too
wide to come round and whose user makes two edits. The others: the type invariant of `HookMode` bounded the remembered modes by one more
than the cap, which four applications break (`ModesWithinCap`, section 4), and now states no
bound; in `AppProcesses` a process that gets the mutex now forgets an older wish to
end (`TakeMainMutex`), and in `AdvancedEngine` an installation is marked as
crossed also by a signature put in place between another worker's
check and its last step (`Crosses`). `QuickConversion` forgot the user's count when he
selected another word and came back, which broke `RoundTrip` with three selections, and left the selection
alone where `TryReselect` moves the caret back to its anchor; the count now
belongs to the place, and `twin` and `astray` came with it. `HotkeyGestures` had only
two modifiers in its runs: of three, the two that are left when one comes up count for the
engine as pressed alone (`tail`); and a slot that is bound to modifiers while its old key is still
down does not fire, as the comment at `HotkeyManager.cpp:128` says (`MeansHotkeys`). The run now
has both. In `TsfComposition` a word is also left open where the keys are watched for macros in English
(`left open`, section 4): in hosts that only call `OnKeyDown`, which no scenario reached and
`Switching` now does, and, as `WordsAreInStep` showed, by punctuation in the others; and a repeated
space notes what it leaves behind like any other key (`Repeat`). The others need more applications, processes or steps than the runs have.

### What stays with TLC

- Liveness, which TLAPS cannot prove, as it has no rules for fairness and
  `ENABLED`: `JournalResolved`, `SnapshotReachesReaders`, `LexiconReachesReaders`,
  `MildLexiconIsActivated`, `MildSettingsAreActivated`, `SettingsReachEngine`,
  `FocusConvergesUndisturbed`, `ConversionEnds`, `Settles`, `WorkIsDone` and the other
  properties with `<>` or `~>`. Properties that have such parts beside others
  (`ChangesAreTakenUp`, `FocusAndSettingsArrive`, `SharedStateHeals`) are proved
  in their safety parts.
- What has a counterexample without the assumption: several writers of
  SharedState, `commit`, `save` and `saveStale` of the lexicon, a main process
  that ends inside `Publish`.
- The pipelines of keys: `HookKeys`, `TypingEngine` with `Phonology`, and of `TsfComposition`
  `KeysCount` and `MacrosReplace`. Their properties compare buffers and screens that folds compute from
  sequences of any length; that needs induction over data, which the prover does not offer.
- `ModesArrive` of `HookMode` is liveness but for the types.

## 6. Left out

- LexiconTransaction: a corrupt journal, which is quarantined and refused (lines
  513-535); the temporary file of the journal; time-outs of the mutex; word
  validation.
- SharedState: the wrap of the 32-bit epoch (2^31 writes inside one read); the
  destruction of the mapping when its last handle closes; the interlocked flags
  other than the mode (`HookMode`) and the context anchor; mappings of another version.
- Wire: payload layout, security descriptors, the wrap of the seqlock.
- TsfLexicon: macro reload, ABI recovery after an upgrade of a running system,
  the process-global exclusions that several TSF threads of one host share, the
  Rust library itself, which appears as outcomes.
- HookFocus, HookMode: how a window is classified; windows of one process are not told
  apart; the browser extension.
- HookKeys: automatic capitals, the hotkey that skips a macro, user-defined and
  bracket keys, macros long enough to be pasted. HotkeyGestures: one physical key per modifier; the
  dispatch of what fired.
- QuickConversion: what a conversion does to characters; the user leaves the document alone during a
  conversion, and nothing new begins after a situation that is set apart.
- ConfigSync: the applications of the text service are one option that is in the file only (`own`), as `tsfApps`
  is; the width of `configGeneration` is 3 values in the run instead of 256, so that
  it comes round (`lapped`); classic's `tsfApps := IsTsfRegistered` on loading. ListDialogs:
  the position `IconSettingsDialog` writes back, formats of import files.
- TypingEngine: upper case; some actions of the user-defined method.
- TsfComposition: the typing engine is cut down to one tone key; digit-led words, brackets, capitals, the limits of 16 and 64
  characters, `Activate` and `Deactivate`; a session is granted or refused for a whole callback.
- UpdateInstall: release notes, progress. AppProcesses: periods, so that a time-out may come
  whenever its event has not. AdvancedEngine: releases below the
  version floor count as bad ones; a rename and the close of its handle are one step; hosts only load.
- Not modelled at all: context anchor and NativeConvert flags, browser host and
  extension installer, automatic capitals, lexicon validation, windows, registration, logging (`components` says why).

## 7. Plan

Done: the lexicon's way from disk to the engine in use; configuration, focus,
mode, keys and hotkeys of the hook; the typing engine; composition in the text service;
the dialogs; updates, processes, start at logon, hook replacement and the advanced engine. Next:

1. `ContextAnchor`: the second seqlock and the interlocked flags; the lost-bit
   hazards of `Write`.
2. `BrowserContext`: the mapping and the pipe of the browser host, composed with `HookMode`.
