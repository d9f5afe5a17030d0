------------------------------ MODULE HookFocus ------------------------------
(***************************************************************************)
(* How a change of the foreground window reaches the keyboard hook: the    *)
(* main thread receives WinEvents, MainThreadWorker classifies windows,    *)
(* and the hook thread drains HookCommandMailbox and applies the result    *)
(* between, never inside, the words being typed.                           *)
(*                                                                         *)
(* One action is one atomic access to state that threads share; a handler  *)
(* that only touches its own thread's state is one action.  Windows of one *)
(* process are not told apart: a window stands for its process as well.    *)
(***************************************************************************)
EXTENDS Naturals, Sequences, FiniteSets

CONSTANTS
    Windows,        \* windows of applications that can come to the foreground
    Helper,         \* a tool window in the background that raises focus events
    NoWindow,       \* a null HWND
    Budgets         \* bounds: how often each thing outside the threads may happen

ASSUME WindowsAssumption ==
    /\ IsFiniteSet(Windows) /\ Windows # {}
    /\ Helper \notin Windows /\ NoWindow \notin Windows /\ Helper # NoWindow

(* Changes of the foreground window, focus events of the helper, key-downs and
   clicks, toggles by the main thread, changes of the settings. *)
Outside == {"switch", "background", "key", "toggle", "settings"}
ASSUME BudgetsAssumption == Budgets \subseteq [Outside -> Nat] /\ Budgets # {}

VARIABLES
    fg,             \* what GetForegroundWindow returns
    events,         \* WinEvents queued for the main thread
    budget,         \* what is left of the bounds
    latest,         \* latestFocusRequestSerial_
    epoch,          \* physicalInputEpoch_
    latch,          \* pendingClassifyRequest_
    worker,         \* MainThreadWorker: where it is, its request, its result
    workPending,    \* workPending_
    ticking,        \* the tick interval is not 0 (it is, once the user is idle)
    settingsNew,    \* SharedState holds settings the worker has not taken
    dispatched,     \* lastDispatchedHwnd_
    fgPid,          \* FocusOwner's last foreground process
    bits,           \* HookCommandMailbox::bits_
    focusSlot,      \* HookCommandMailbox::pendingFocus_
    wakePosted,     \* HookCommandMailbox::wakePosted_
    wakes,          \* WM_APP_HOOK_COMMAND messages in the hook thread's queue
    main,           \* "idle", or "wake" inside Post(kToggleVN)
    hook            \* the hook thread's own state

vars == <<fg, events, budget, latest, epoch, latch, worker, workPending, ticking,
          settingsNew, dispatched, fgPid, bits, focusSlot, wakePosted, wakes,
          main, hook>>

workerVars == <<latch, worker, workPending, ticking, settingsNew, dispatched>>
mailVars   == <<bits, focusSlot, wakePosted, wakes>>

Commands == {"focus", "config", "tick", "toggle"}
Keys     == {"letter", "boundary"}

NoRequest == [trigger |-> NoWindow, serial |-> 0, epoch |-> 0]
NoClass   == [win |-> NoWindow, serial |-> 0, epoch |-> 0]

IdleWorker == [pc |-> "idle", req |-> NoRequest, cls |-> NoClass, cmd |-> "tick", next |-> "idle"]

(* Requests and classifications carry serials and epochs that were given out, the
   threads are at places their handlers have. *)
TypeOK ==
    /\ fg \in Windows
    /\ events \in Seq(Windows \cup {Helper})
    /\ budget \in [Outside -> Nat]
    /\ latest \in Nat /\ epoch \in Nat
    /\ {latch, worker.req} \subseteq
           [trigger: Windows \cup {Helper, NoWindow}, serial: 0 .. latest, epoch: 0 .. epoch]
    /\ {focusSlot, worker.cls, hook.deferred} \subseteq
           [win: Windows \cup {NoWindow}, serial: 0 .. latest, epoch: 0 .. epoch]
    /\ worker.pc \in {"idle", "latch", "classify", "publish", "bit", "wake", "pid",
                      "retune"}
    /\ worker.cmd \in Commands /\ worker.next \in {"idle", "latch", "pid", "retune"}
    /\ {workPending, ticking, settingsNew, wakePosted, hook.composing, hook.config} \subseteq BOOLEAN
    /\ {dispatched, fgPid, hook.applied} \subseteq Windows \cup {NoWindow}
    /\ bits \subseteq Commands
    /\ wakes \in Nat
    /\ main \in {"idle", "wake"}
    /\ hook.pc \in {"idle", "drain"} /\ hook.key \in Keys \cup {"none"}
    /\ hook.appliedSerial \in 0 .. latest

-----------------------------------------------------------------------------
(* Start: hooks installed, nothing applied yet, the first tick still to come. *)

Init ==
    /\ fg \in Windows
    /\ events = <<>>
    /\ budget \in Budgets
    /\ latest = 0 /\ epoch = 0
    /\ latch = NoRequest
    /\ worker = IdleWorker
    /\ workPending = FALSE /\ ticking = TRUE /\ settingsNew = FALSE
    /\ dispatched = NoWindow /\ fgPid = NoWindow
    /\ bits = {} /\ focusSlot = NoClass /\ wakePosted = FALSE /\ wakes = 0
    /\ main = "idle"
    /\ hook = [pc |-> "idle", key |-> "none", composing |-> FALSE,
               deferred |-> NoClass, config |-> FALSE,
               applied |-> NoWindow, appliedSerial |-> 0]

-----------------------------------------------------------------------------
(* The user, the window manager and the Settings process. *)

Spend(what) == /\ budget[what] > 0
               /\ budget' = [budget EXCEPT ![what] = @ - 1]

(* Another window comes to the foreground.  Its focus event is queued for the
   main thread, or the window manager raises none. *)
SwitchTo(w) ==
    /\ w # fg /\ Spend("switch")
    /\ fg' = w
    /\ events' \in {events, Append(events, w)}
    /\ UNCHANGED <<latest, epoch, fgPid, main, hook>>
    /\ UNCHANGED workerVars /\ UNCHANGED mailVars

HelperEvent ==
    /\ Spend("background")
    /\ events' = Append(events, Helper)
    /\ UNCHANGED <<fg, latest, epoch, fgPid, main, hook>>
    /\ UNCHANGED workerVars /\ UNCHANGED mailVars

(* A settings process saves and posts WM_VKEY_HOOK_RELOAD, which signals the worker. *)
SettingsChange ==
    /\ Spend("settings")
    /\ settingsNew' = TRUE /\ workPending' = TRUE
    /\ UNCHANGED <<fg, events, latest, epoch, fgPid, main, hook, latch, worker, ticking,
                   dispatched>>
    /\ UNCHANGED mailVars

-----------------------------------------------------------------------------
(* The mailbox.  A post sets its bit and then, in a second step, wakes the
   hook thread unless a wake is already on its way. *)

PostBit(cmd) == bits' = bits \cup {cmd}

PostWake ==
    /\ wakes' = IF wakePosted THEN wakes ELSE wakes + 1
    /\ wakePosted' = TRUE

-----------------------------------------------------------------------------
(* Main thread. *)

CaptureRequest(trigger) ==
    [trigger |-> trigger, serial |-> latest + 1, epoch |-> epoch]

(* WinEventProc: one latch, the newest request replaces an older one. *)
OnFocusChanged ==
    /\ main = "idle" /\ events # <<>>
    /\ latch' = CaptureRequest(Head(events))
    /\ latest' = latest + 1
    /\ events' = Tail(events)
    /\ workPending' = TRUE
    /\ UNCHANGED <<fg, budget, epoch, worker, ticking, settingsNew, dispatched, fgPid, main,
                   hook>>
    /\ UNCHANGED mailVars

ToggleBit ==
    /\ main = "idle" /\ Spend("toggle")
    /\ PostBit("toggle")
    /\ main' = "wake"
    /\ UNCHANGED <<fg, events, latest, epoch, fgPid, focusSlot, wakePosted, wakes, hook>>
    /\ UNCHANGED workerVars

ToggleWake ==
    /\ main = "wake"
    /\ PostWake
    /\ main' = "idle"
    /\ UNCHANGED <<fg, events, budget, latest, epoch, fgPid, bits, focusSlot, hook>>
    /\ UNCHANGED workerVars

-----------------------------------------------------------------------------
(* MainThreadWorker. *)

Become(pc) == worker' = [IdleWorker EXCEPT !.pc = pc]
Post(cmd, next) == worker' = [IdleWorker EXCEPT !.pc = "bit", !.cmd = cmd, !.next = next]

(* RetuneCadenceIfNeeded, at the end of both handlers: how long the user has
   been idle decides whether ticks go on. *)
RetuneCadence ==
    /\ worker.pc = "retune"
    /\ ticking' \in BOOLEAN
    /\ Become("idle")
    /\ UNCHANGED <<fg, events, budget, latest, epoch, latch, workPending, settingsNew,
                   dispatched, fgPid, main, hook>>
    /\ UNCHANGED mailVars

(* A signal: take over settings (ReloadFromToml ends with Post(kConfigApply)),
   then the pending classification. *)
RunWork ==
    /\ worker.pc = "idle" /\ workPending
    /\ workPending' = FALSE
    /\ settingsNew' = FALSE
    /\ IF settingsNew THEN Post("config", "latch") ELSE Become("latch")
    /\ UNCHANGED <<fg, events, budget, latest, epoch, latch, ticking, dispatched, fgPid,
                   main, hook>>
    /\ UNCHANGED mailVars

(* The interval passed without a signal: OnTickPoll posts kTickPoll first. *)
RunTick ==
    /\ worker.pc = "idle" /\ ~workPending /\ ticking
    /\ Post("tick", "pid")
    /\ UNCHANGED <<fg, events, budget, latest, epoch, latch, workPending, ticking, settingsNew,
                   dispatched, fgPid, main, hook>>
    /\ UNCHANGED mailVars

(* OnTickPoll: a foreground process nobody announced is classified here. *)
TickForeground ==
    /\ worker.pc = "pid"
    /\ IF fg = fgPid
         THEN /\ Become("retune")
              /\ UNCHANGED <<latest, fgPid>>
         ELSE /\ fgPid' = fg
              /\ latest' = latest + 1
              /\ worker' = [IdleWorker EXCEPT !.pc = "classify", !.req = CaptureRequest(NoWindow)]
    /\ UNCHANGED <<fg, events, budget, epoch, latch, workPending, ticking, settingsNew,
                   dispatched, main, hook>>
    /\ UNCHANGED mailVars

DrainClassify ==
    /\ worker.pc = "latch"
    /\ latch' = NoRequest
    /\ worker' = [IdleWorker EXCEPT !.pc = IF latch = NoRequest THEN "retune" ELSE "classify",
                                    !.req = latch]
    /\ UNCHANGED <<fg, events, budget, latest, epoch, workPending, ticking, settingsNew,
                   dispatched, fgPid, main, hook>>
    /\ UNCHANGED mailVars

(* The event of a window that is not the one in front, while the front window
   is the one that was handed out last. *)
IsSpuriousBackgroundFocusEvent(trigger, win, lastWin) ==
    trigger # NoWindow /\ trigger # win /\ win = lastWin

(* OnFocusChangedSyncOnWorker up to PrepareFocusOutput.  ChooseFocusTarget
   prefers the foreground window to the window that raised the event. *)
Classify ==
    /\ worker.pc = "classify"
    /\ IF \/ worker.req.serial # latest
          \/ IsSpuriousBackgroundFocusEvent(worker.req.trigger, fg, dispatched)
         THEN /\ Become("retune")
              /\ UNCHANGED dispatched
         ELSE /\ dispatched' = fg
              /\ worker' = [IdleWorker EXCEPT
                    !.pc = "publish",
                    !.cls = [win |-> fg, serial |-> worker.req.serial,
                             epoch |-> worker.req.epoch]]
    /\ UNCHANGED <<fg, events, budget, latest, epoch, latch, workPending, ticking, settingsNew,
                   fgPid, main, hook>>
    /\ UNCHANGED mailVars

(* The second look at the serial, then Post(kFocusChanged, cls): the slot first. *)
Publish ==
    /\ worker.pc = "publish"
    /\ IF worker.cls.serial # latest
         THEN Become("retune") /\ UNCHANGED focusSlot
         ELSE /\ focusSlot' = worker.cls
              /\ Post("focus", "retune")
    /\ UNCHANGED <<fg, events, budget, latest, epoch, latch, workPending, ticking, settingsNew,
                   dispatched, fgPid, bits, wakePosted, wakes, main, hook>>

WorkerPostBit ==
    /\ worker.pc = "bit"
    /\ PostBit(worker.cmd)
    /\ worker' = [worker EXCEPT !.pc = "wake"]
    /\ UNCHANGED <<fg, events, budget, latest, epoch, latch, workPending, ticking, settingsNew,
                   dispatched, fgPid, focusSlot, wakePosted, wakes, main, hook>>

WorkerPostWake ==
    /\ worker.pc = "wake"
    /\ PostWake
    /\ Become(worker.next)
    /\ UNCHANGED <<fg, events, budget, latest, epoch, latch, workPending, ticking, settingsNew,
                   dispatched, fgPid, bits, focusSlot, main, hook>>

-----------------------------------------------------------------------------
(* Hook thread. *)

(* DecideFocusApply, with what the hook thread knows when it decides. *)
DecideFocusApply(cls, composing) ==
    IF cls.serial # latest THEN "DropStale"
    ELSE IF composing /\ cls.epoch # epoch THEN "DeferUntilBoundary"
    ELSE "ApplyNow"

(* ApplyFocusOnHookThread: another target resets the composition. *)
ApplyFocus(h, cls) ==
    [h EXCEPT !.composing = @ /\ cls.win = h.applied,
              !.applied = cls.win, !.appliedSerial = cls.serial]

RouteFocus(h, cls) ==
    IF cls = NoClass THEN h
    ELSE CASE DecideFocusApply(cls, h.composing) = "DropStale" -> h
           [] DecideFocusApply(cls, h.composing) = "DeferUntilBoundary" ->
                [h EXCEPT !.deferred = cls]
           [] OTHER -> ApplyFocus([h EXCEPT !.deferred = NoClass], cls)

\* Mutant: waits for the next focus event instead of the end of the word.
TryApplyDeferredFocusNever(h) == h

TryApplyDeferredFocus(h) ==
    IF h.deferred = NoClass THEN h
    ELSE CASE DecideFocusApply(h.deferred, h.composing) = "DropStale" ->
                [h EXCEPT !.deferred = NoClass]
           [] DecideFocusApply(h.deferred, h.composing) = "DeferUntilBoundary" -> h
           [] OTHER -> ApplyFocus([h EXCEPT !.deferred = NoClass], h.deferred)

(* A toggle commits the word; new settings replace the engine between words. *)
ApplyToggle(h, asked) == [h EXCEPT !.composing = @ /\ ~asked]
ApplyConfig(h) == IF h.config /\ ~h.composing THEN [h EXCEPT !.config = FALSE] ELSE h

(* DrainHookCommands, after the bits have been taken, in its fixed order. *)
DrainCommands(h, cmds, slot) ==
    LET h1 == IF "config" \in cmds THEN [h EXCEPT !.config = TRUE] ELSE h
        h2 == IF "focus" \in cmds THEN RouteFocus(h1, slot) ELSE h1
        h3 == TryApplyDeferredFocus(h2)
        h4 == ApplyToggle(h3, "toggle" \in cmds)
    IN ApplyConfig(h4)

(* LowLevelKeyboardProc after the drain: the epoch, then the key itself. *)
ProcessKeyDown(h) == [h EXCEPT !.composing = h.key = "letter", !.key = "none"]

\* Mutant: leaves the latch to the poster.
ClearWakeLatchNever == UNCHANGED wakePosted

(* DrainBits clears the wake latch before it takes the bits. *)
ClearWakeLatch == wakePosted' = FALSE

WakeMessage ==
    /\ hook.pc = "idle" /\ wakes > 0
    /\ wakes' = wakes - 1
    /\ ClearWakeLatch
    /\ hook' = [hook EXCEPT !.pc = "drain"]
    /\ UNCHANGED <<fg, events, budget, latest, epoch, fgPid, bits, focusSlot, main>>
    /\ UNCHANGED workerVars

(* LowLevelKeyboardProc: MarkActivity signals a worker that does not tick. *)
KeyDown(key) ==
    /\ hook.pc = "idle" /\ Spend("key")
    /\ workPending' = (workPending \/ ~ticking)
    /\ ClearWakeLatch
    /\ hook' = [hook EXCEPT !.pc = "drain", !.key = key]
    /\ UNCHANGED <<fg, events, latest, epoch, latch, worker, ticking, settingsNew, dispatched,
                   fgPid, bits, focusSlot, wakes, main>>

(* The exchange of the bits, their handlers, and the key that caused the drain. *)
TakeBits ==
    /\ hook.pc = "drain"
    /\ LET h == [DrainCommands(hook, bits, focusSlot) EXCEPT !.pc = "idle"]
       IN /\ hook' = IF hook.key = "none" THEN h ELSE ProcessKeyDown(h)
          /\ fgPid' = IF h.appliedSerial # hook.appliedSerial THEN h.applied ELSE fgPid
    /\ bits' = {}
    /\ focusSlot' = IF "focus" \in bits THEN NoClass ELSE focusSlot
    /\ epoch' = IF hook.key = "none" THEN epoch ELSE epoch + 1
    /\ UNCHANGED <<fg, events, budget, latest, wakePosted, wakes, main>>
    /\ UNCHANGED workerVars

(* LowLevelMouseProc: a click ends the composition. *)
MouseDown ==
    /\ hook.pc = "idle" /\ Spend("key")
    /\ hook' = [hook EXCEPT !.composing = FALSE]
    /\ UNCHANGED <<fg, events, latest, epoch, fgPid, main>>
    /\ UNCHANGED workerVars /\ UNCHANGED mailVars

-----------------------------------------------------------------------------
Next ==
    \/ \E w \in Windows : SwitchTo(w)
    \/ HelperEvent
    \/ SettingsChange
    \/ OnFocusChanged \/ ToggleBit \/ ToggleWake
    \/ RunWork \/ RunTick \/ TickForeground \/ DrainClassify \/ Classify
    \/ Publish \/ WorkerPostBit \/ WorkerPostWake \/ RetuneCadence
    \/ WakeMessage \/ TakeBits \/ MouseDown
    \/ \E k \in Keys : KeyDown(k)

(* Each thread's message loop runs; the user owes nothing. *)
MainStep   == OnFocusChanged \/ ToggleWake
WorkerStep == \/ RunWork \/ RunTick \/ TickForeground \/ DrainClassify \/ Classify
              \/ Publish \/ WorkerPostBit \/ WorkerPostWake \/ RetuneCadence
HookStep   == WakeMessage \/ TakeBits

Spec == Init /\ [][Next]_vars
FairSpec == Spec /\ WF_vars(MainStep) /\ WF_vars(WorkerStep) /\ WF_vars(HookStep)

-----------------------------------------------------------------------------
(* Properties. *)

(* No wake-up is lost (HookCommandMailbox.cpp:67): a command in the mailbox has
   a wake message queued, a poster that has yet to wake the hook thread, or a
   drain that is about to take it. *)
CommandHasWake ==
    bits # {} => \/ wakes > 0
                 \/ worker.pc = "wake" \/ main = "wake"
                 \/ hook.pc = "drain"

(* Classifications are never applied out of order, and one that a newer focus
   request has overtaken is never applied (HookEngineFocus.cpp:41). *)
NoStaleApply ==
    [][hook'.appliedSerial # hook.appliedSerial =>
          /\ hook'.appliedSerial = latest
          /\ hook'.appliedSerial > hook.appliedSerial]_vars

(* A word that was begun after the focus request is not cut in two by it: the
   focus waits for the word's end (FocusApplyDecision.h:48). *)
WordStaysWhole ==
    [][hook.composing /\ hook'.appliedSerial # hook.appliedSerial =>
          \E c \in {focusSlot, hook.deferred} :
              c.serial = hook'.appliedSerial /\ c.epoch = epoch]_vars

(* Settings are taken by the engine, unless a word is never finished
   (HookEngine.cpp:3866). *)
SettingsReachEngine ==
    (settingsNew \/ "config" \in bits \/ hook.config)
        ~> (hook.composing \/ ~(settingsNew \/ "config" \in bits \/ hook.config))

(* The claim at HookEngineFocus.cpp:129: a request that supersedes another one
   produces its own apply or leaves the tick poll able to retry.  Once the user
   stays in a window, the hook thread ends up with that window, unless a word is
   never finished or the ticks have stopped.  It fails when the event of a window
   that is not in front overtakes the classification of the one that is: the older
   request is dropped as stale, the newer one as spurious. *)
FocusConverges == <>[](hook.applied = fg \/ hook.composing \/ ~ticking)

(* It holds when only the window that comes to the front raises an event, or
   none does and the tick poll has to notice (HookEngine.cpp:2780). *)
FocusConvergesUndisturbed ==
    (budget["switch"] <= 1 /\ budget["background"] = 0) => FocusConverges

(* Focus and settings arrive, in order and between words: no classification that
   was overtaken is applied, none cuts a word that was begun after its request, and
   the last one is applied in the end (FocusApplyDecision.h, TryApplyDeferredFocus). *)
FocusAndSettingsArrive ==
    []TypeOK /\ NoStaleApply /\ WordStaysWhole /\ SettingsReachEngine /\ FocusConvergesUndisturbed
=============================================================================
