----------------------------- MODULE HookProofs -----------------------------
(***************************************************************************)
(* Proofs about the hook process: no wake-up of the hook thread is lost    *)
(* and no classification of the focus is applied out of order or inside a  *)
(* word that began after its request (HookFocus); a quick conversion and a *)
(* word typed by pasting harm neither the document nor the clipboard       *)
(* (QuickConversion); hotkeys fire as they were pressed (HotkeyGestures).  *)
(* For any number of windows, keys, hotkeys, words and settings.           *)
(***************************************************************************)
EXTENDS HookFocus, HotkeyGestures, QuickConversion, TLAPS, SequenceTheorems, WellFoundedInduction

\* Requests and classifications with serials up to l and epochs up to e.
Requests(l, e) == [trigger : Windows \cup {Helper, NoWindow}, serial : 0 .. l, epoch : 0 .. e]
Classes(l, e)  == [win : Windows \cup {NoWindow}, serial : 0 .. l, epoch : 0 .. e]

WorkerPlaces == {"idle", "latch", "classify", "publish", "bit", "wake", "pid", "retune"}
WorkerNexts  == {"idle", "latch", "pid", "retune"}
Workers(l, e) == [pc : WorkerPlaces, req : Requests(l, e), cls : Classes(l, e), cmd : Commands,
                  next : WorkerNexts]
Hooks(l, e) == [pc : {"idle", "drain"}, key : Keys \cup {"none"}, composing : BOOLEAN,
                deferred : Classes(l, e), config : BOOLEAN, applied : Windows \cup {NoWindow},
                appliedSerial : 0 .. l]

\* What the three threads keep for themselves, and what they share.
Own    == /\ worker \in Workers(latest, epoch) /\ hook \in Hooks(latest, epoch) /\ main \in {"idle", "wake"}
Given  == /\ latest \in Nat /\ epoch \in Nat
          /\ latch \in Requests(latest, epoch) /\ focusSlot \in Classes(latest, epoch)
Counts == /\ wakes \in Nat /\ bits \in SUBSET Commands /\ events \in Seq(Windows \cup {Helper})
          /\ budget \in [Outside -> Nat]
Flags  == /\ workPending \in BOOLEAN /\ ticking \in BOOLEAN /\ settingsNew \in BOOLEAN /\ wakePosted \in BOOLEAN
Places == /\ fg \in Windows /\ dispatched \in Windows \cup {NoWindow} /\ fgPid \in Windows \cup {NoWindow}

FocusTypes == Own /\ Given /\ Counts /\ Flags /\ Places

\* Serials and epochs only grow, so what was given out stays given out.
LEMMA Grow ==
  ASSUME NEW l \in Nat, NEW e \in Nat, NEW l2 \in Nat, NEW e2 \in Nat, l <= l2, e <= e2
  PROVE  /\ Requests(l, e) \subseteq Requests(l2, e2) /\ Classes(l, e) \subseteq Classes(l2, e2)
         /\ Workers(l, e) \subseteq Workers(l2, e2) /\ Hooks(l, e) \subseteq Hooks(l2, e2)
<1>1. 0 .. l \subseteq 0 .. l2 /\ 0 .. e \subseteq 0 .. e2
  OBVIOUS
<1>2. Requests(l, e) \subseteq Requests(l2, e2) /\ Classes(l, e) \subseteq Classes(l2, e2)
  BY <1>1 DEF Requests, Classes
<1>3. Workers(l, e) \subseteq Workers(l2, e2)
  BY <1>2 DEF Workers
<1>4. Hooks(l, e) \subseteq Hooks(l2, e2)
  BY <1>1, <1>2 DEF Hooks
<1> QED BY <1>2, <1>3, <1>4

\* The empty request and classification.
LEMMA Nothing ==
  ASSUME Given
  PROVE  NoRequest \in Requests(latest, epoch) /\ NoClass \in Classes(latest, epoch)
BY DEF Given, NoRequest, NoClass, Requests, Classes

\* What the worker becomes after a step.
LEMMA Becomes ==
  ASSUME Given, NEW w,
         \/ \E p \in WorkerPlaces : w = [IdleWorker EXCEPT !.pc = p]
         \/ \E c \in Commands, n \in WorkerNexts : w = [IdleWorker EXCEPT !.pc = "bit", !.cmd = c, !.next = n]
         \/ \E p \in WorkerPlaces, r \in Requests(latest, epoch) : w = [IdleWorker EXCEPT !.pc = p, !.req = r]
         \/ \E p \in WorkerPlaces, c \in Classes(latest, epoch) : w = [IdleWorker EXCEPT !.pc = p, !.cls = c]
  PROVE  w \in Workers(latest, epoch)
BY Nothing DEF IdleWorker, Workers, WorkerPlaces, WorkerNexts, Commands

\* Spending one of a bound leaves the bounds numbers.
LEMMA SpendType == ASSUME Counts, NEW k \in Outside, Spend(k) PROVE budget' \in [Outside -> Nat]
BY DEF Counts, Spend

\* The hook thread's methods on its own state.
LEMMA ApplyFocusType ==
  ASSUME Given, NEW h \in Hooks(latest, epoch), NEW c \in Classes(latest, epoch)
  PROVE  /\ ApplyFocus(h, c) \in Hooks(latest, epoch)
         /\ [h EXCEPT !.deferred = c] \in Hooks(latest, epoch)
BY DEF ApplyFocus, Hooks, Classes

\* The hook stays typed when it routes a classification.  (RouteFocus)
LEMMA RouteFocusType ==
  ASSUME Given, NEW h \in Hooks(latest, epoch), NEW c \in Classes(latest, epoch)
  PROVE  RouteFocus(h, c) \in Hooks(latest, epoch)
BY Nothing, ApplyFocusType DEF RouteFocus, DecideFocusApply

\* So it does when it applies the one it deferred.  (TryApplyDeferredFocus)
LEMMA DeferredType ==
  ASSUME Given, NEW h \in Hooks(latest, epoch)
  PROVE  TryApplyDeferredFocus(h) \in Hooks(latest, epoch)
<1>1. h.deferred \in Classes(latest, epoch)
  BY DEF Hooks
<1> QED BY <1>1, Nothing, ApplyFocusType DEF TryApplyDeferredFocus, DecideFocusApply

\* And when it drains its commands.  (DrainCommands)
LEMMA DrainType ==
  ASSUME Given, NEW h \in Hooks(latest, epoch), NEW cmds
  PROVE  DrainCommands(h, cmds, focusSlot) \in Hooks(latest, epoch)
<1> DEFINE h1 == IF "config" \in cmds THEN [h EXCEPT !.config = TRUE] ELSE h
           h2 == IF "focus" \in cmds THEN RouteFocus(h1, focusSlot) ELSE h1
           h3 == TryApplyDeferredFocus(h2)
           h4 == ApplyToggle(h3, "toggle" \in cmds)
<1>1. h1 \in Hooks(latest, epoch)
  BY DEF Hooks
<1> HIDE DEF h1
<1>2. h2 \in Hooks(latest, epoch)
  BY <1>1, RouteFocusType DEF Given
<1> HIDE DEF h2
<1>3. h3 \in Hooks(latest, epoch)
  BY <1>2, DeferredType
<1> HIDE DEF h3
<1>4. h4 \in Hooks(latest, epoch)
  BY <1>3 DEF ApplyToggle, Hooks
<1> HIDE DEF h4
<1>5. ApplyConfig(h4) \in Hooks(latest, epoch)
  BY <1>4 DEF ApplyConfig, Hooks
<1> QED BY <1>5 DEF DrainCommands, h4, h3, h2, h1

\* The types hold at the start.
LEMMA FocusStart == Init => FocusTypes
<1> SUFFICES ASSUME Init PROVE FocusTypes
  OBVIOUS
<1>1. Given
  BY DEF Init, Given, NoRequest, NoClass, Requests, Classes
<1>2. worker \in Workers(latest, epoch)
  <2>1. worker = [IdleWorker EXCEPT !.pc = "idle"]
    BY DEF Init, IdleWorker
  <2> QED BY <1>1, <2>1, Becomes DEF WorkerPlaces
<1>3. hook \in Hooks(latest, epoch) /\ main \in {"idle", "wake"}
  BY <1>1, Nothing DEF Init, Hooks
<1>4. Counts
  BY BudgetsAssumption DEF Init, Counts
<1>5. Flags /\ Places
  BY DEF Init, Flags, Places
<1> QED BY <1>1, <1>2, <1>3, <1>4, <1>5 DEF FocusTypes, Own

\* Every step of the user, of the three threads and of the window manager keeps the types.
LEMMA FocusStep == FocusTypes /\ [Next]_vars => FocusTypes'
<1> SUFFICES ASSUME FocusTypes, [Next]_vars PROVE FocusTypes'
  OBVIOUS
<1>a. Own /\ Given /\ Counts /\ Flags /\ Places
  BY DEF FocusTypes
<1> USE DEF workerVars, mailVars
<1>1. ASSUME NEW w \in Windows, SwitchTo(w) PROVE FocusTypes'
  <2>0. events' \in Seq(Windows \cup {Helper})
    <3>1. Append(events, w) \in Seq(Windows \cup {Helper})
      BY <1>a DEF Counts
    <3> QED BY <1>a, <1>1, <3>1 DEF SwitchTo, Counts
  <2>1. Counts'
    BY <1>a, <1>1, <2>0, SpendType DEF SwitchTo, Counts, Outside
  <2> QED BY <1>a, <1>1, <2>1 DEF SwitchTo, FocusTypes, Own, Given, Flags, Places
<1>2. CASE HelperEvent
  <2>1. Counts'
    BY <1>a, <1>2, SpendType DEF HelperEvent, Counts, Outside
  <2> QED BY <1>a, <1>2, <2>1 DEF HelperEvent, FocusTypes, Own, Given, Flags, Places
<1>3. CASE SettingsChange
  <2>1. Counts'
    BY <1>a, <1>3, SpendType DEF SettingsChange, Counts, Outside
  <2> QED BY <1>a, <1>3, <2>1 DEF SettingsChange, FocusTypes, Own, Given, Flags, Places
<1>4. CASE OnFocusChanged
  <2>1. latest' \in Nat /\ epoch' \in Nat /\ latest <= latest' /\ epoch <= epoch' /\ latest' = latest + 1
    BY <1>a, <1>4 DEF OnFocusChanged, Given
  <2>2. Head(events) \in Windows \cup {Helper} /\ events' \in Seq(Windows \cup {Helper})
    BY <1>a, <1>4 DEF OnFocusChanged, Counts
  <2>3. latch' \in Requests(latest', epoch')
    BY <1>a, <1>4, <2>1, <2>2 DEF OnFocusChanged, CaptureRequest, Requests, Given
  <2>4. Own' /\ Given'
    BY <1>a, <1>4, <2>1, <2>3, Grow DEF OnFocusChanged, Own, Given
  <2> QED BY <1>a, <1>4, <2>2, <2>4 DEF OnFocusChanged, FocusTypes, Counts, Flags, Places
<1>5. CASE ToggleBit
  <2>1. Counts'
    BY <1>a, <1>5, SpendType DEF ToggleBit, PostBit, Counts, Outside, Commands
  <2> QED BY <1>a, <1>5, <2>1 DEF ToggleBit, FocusTypes, Own, Given, Flags, Places
<1>6. CASE ToggleWake
  BY <1>a, <1>6 DEF ToggleWake, PostWake, FocusTypes, Own, Given, Counts, Flags, Places
\* Steps of the worker that change nothing shared but flags and places.
<1>7. ASSUME worker' \in Workers(latest, epoch), Flags', Places',
             UNCHANGED <<latest, epoch, events, budget, latch, focusSlot, bits, wakes, main, hook>>
      PROVE  FocusTypes'
  BY <1>a, <1>7 DEF FocusTypes, Own, Given, Counts
<1>8. CASE RetuneCadence
  BY <1>7, <1>8, <1>a, Becomes DEF RetuneCadence, Become, WorkerPlaces, Flags, Places
<1>9. CASE RunWork
  <2>1. worker' \in Workers(latest, epoch)
    BY <1>9, <1>a, Becomes DEF RunWork, Become, Post, WorkerPlaces, WorkerNexts, Commands
  <2> QED BY <1>7, <1>9, <1>a, <2>1 DEF RunWork, Flags, Places
<1>10. CASE RunTick
  <2>1. worker' \in Workers(latest, epoch)
    BY <1>10, <1>a, Becomes DEF RunTick, Post, WorkerNexts, Commands
  <2> QED BY <1>7, <1>10, <1>a, <2>1 DEF RunTick, Flags, Places
<1>11. CASE TickForeground
  <2>1. CASE fg = fgPid
    BY <1>7, <1>11, <1>a, <2>1, Becomes DEF TickForeground, Become, WorkerPlaces, Flags, Places
  <2>2. CASE fg # fgPid
    <3>1. latest' \in Nat /\ epoch' \in Nat /\ latest <= latest' /\ epoch <= epoch' /\ latest' = latest + 1
      BY <1>11, <1>a, <2>2 DEF TickForeground, Given
    <3>2. Given'
      BY <1>11, <1>a, <3>1, Grow DEF TickForeground, Given
    <3>3. CaptureRequest(NoWindow) \in Requests(latest', epoch')
      BY <1>11, <1>a, <3>1 DEF TickForeground, CaptureRequest, Requests, Given
    <3>4. worker' \in Workers(latest', epoch')
      <4>1. worker' = [IdleWorker EXCEPT !.pc = "classify", !.req = CaptureRequest(NoWindow)]
        BY <1>11, <2>2 DEF TickForeground
      <4>2. NoRequest \in Requests(latest', epoch') /\ NoClass \in Classes(latest', epoch')
        BY <3>1 DEF NoRequest, NoClass, Requests, Classes
      <4> QED BY <3>3, <4>1, <4>2 DEF IdleWorker, Workers, WorkerPlaces, WorkerNexts, Commands
    <3>5. hook' \in Hooks(latest', epoch')
      BY <1>11, <1>a, <3>1, Grow DEF TickForeground, Own, Given
    <3> QED BY <1>11, <1>a, <2>2, <3>2, <3>4, <3>5 DEF TickForeground, FocusTypes, Own, Counts, Flags, Places
  <2> QED BY <2>1, <2>2
<1>12. CASE DrainClassify
  <2>1. worker' \in Workers(latest, epoch)
    BY <1>12, <1>a, Becomes DEF DrainClassify, WorkerPlaces, Given
  <2>2. latch' \in Requests(latest, epoch)
    BY <1>12, <1>a, Nothing DEF DrainClassify
  <2> QED BY <1>12, <1>a, <2>1, <2>2 DEF DrainClassify, FocusTypes, Own, Given, Counts, Flags, Places
<1>13. CASE Classify
  <2>1. [win |-> fg, serial |-> worker.req.serial, epoch |-> worker.req.epoch] \in Classes(latest, epoch)
    BY <1>a DEF Own, Workers, Requests, Classes, Places
  <2>2. worker' \in Workers(latest, epoch)
    BY <1>13, <1>a, <2>1, Becomes DEF Classify, Become, WorkerPlaces
  <2> QED BY <1>7, <1>13, <1>a, <2>2 DEF Classify, Flags, Places
<1>14. CASE Publish
  <2>1. worker' \in Workers(latest, epoch)
    BY <1>14, <1>a, Becomes DEF Publish, Become, Post, WorkerPlaces, WorkerNexts, Commands
  <2>2. focusSlot' \in Classes(latest, epoch)
    BY <1>14, <1>a DEF Publish, Own, Given, Workers
  <2> QED BY <1>14, <1>a, <2>1, <2>2 DEF Publish, FocusTypes, Own, Given, Counts, Flags, Places
<1>15. CASE WorkerPostBit
  <2>1. worker' \in Workers(latest, epoch) /\ bits' \in SUBSET Commands
    BY <1>15, <1>a DEF WorkerPostBit, PostBit, Own, Workers, WorkerPlaces, Counts
  <2> QED BY <1>15, <1>a, <2>1 DEF WorkerPostBit, FocusTypes, Own, Given, Counts, Flags, Places
<1>16. CASE WorkerPostWake
  <2>1. worker' \in Workers(latest, epoch)
    BY <1>16, <1>a, Becomes DEF WorkerPostWake, Become, Own, Workers, WorkerPlaces, WorkerNexts
  <2> QED BY <1>16, <1>a, <2>1 DEF WorkerPostWake, PostWake, FocusTypes, Own, Given, Counts, Flags, Places
<1>17. CASE WakeMessage
  <2>1. hook' \in Hooks(latest, epoch)
    BY <1>17, <1>a DEF WakeMessage, Own, Hooks
  <2>2. Counts'
    BY <1>17, <1>a DEF WakeMessage, Counts
  <2>3. Flags'
    BY <1>17, <1>a DEF WakeMessage, ClearWakeLatch, Flags
  <2> QED BY <1>17, <1>a, <2>1, <2>2, <2>3 DEF WakeMessage, FocusTypes, Own, Given, Places
<1>18. ASSUME NEW k \in Keys, KeyDown(k) PROVE FocusTypes'
  <2>1. hook' \in Hooks(latest, epoch)
    BY <1>18, <1>a DEF KeyDown, Own, Hooks
  <2>2. Counts'
    BY <1>18, <1>a, SpendType DEF KeyDown, Counts, Outside
  <2>3. Flags'
    BY <1>18, <1>a DEF KeyDown, ClearWakeLatch, Flags
  <2> QED BY <1>18, <1>a, <2>1, <2>2, <2>3 DEF KeyDown, FocusTypes, Own, Given, Places
<1>19. CASE TakeBits
  <2> DEFINE h == [DrainCommands(hook, bits, focusSlot) EXCEPT !.pc = "idle"]
  <2>1. latest' = latest /\ epoch' \in Nat /\ epoch <= epoch'
    BY <1>19, <1>a DEF TakeBits, Given
  <2>2. h \in Hooks(latest, epoch)
    BY <1>a, DrainType DEF Own, Hooks
  <2>3. /\ hook' = IF hook.key = "none" THEN h ELSE ProcessKeyDown(h)
        /\ fgPid' = IF h.appliedSerial # hook.appliedSerial THEN h.applied ELSE fgPid
    BY <1>19 DEF TakeBits
  <2> HIDE DEF h
  <2>4. ProcessKeyDown(h) \in Hooks(latest, epoch) /\ h.applied \in Windows \cup {NoWindow}
    BY <2>2 DEF ProcessKeyDown, Hooks
  <2>5. hook' \in Hooks(latest', epoch') /\ worker' \in Workers(latest', epoch')
    BY <1>19, <1>a, <2>1, <2>2, <2>3, <2>4, Grow DEF TakeBits, Own, Given
  <2>6. Given'
    BY <1>19, <1>a, <2>1, Nothing, Grow DEF TakeBits, Given
  <2> QED BY <1>19, <1>a, <2>3, <2>4, <2>5, <2>6 DEF TakeBits, FocusTypes, Own, Counts, Flags, Places
<1>20. CASE MouseDown
  <2>1. hook' \in Hooks(latest, epoch) /\ Counts'
    BY <1>20, <1>a, SpendType DEF MouseDown, Own, Hooks, Counts, Outside
  <2> QED BY <1>20, <1>a, <2>1 DEF MouseDown, FocusTypes, Own, Given, Flags, Places
<1>21. CASE UNCHANGED vars
  BY <1>21, <1>a DEF vars, FocusTypes, Own, Given, Counts, Flags, Places
<1> QED BY <1>1, <1>2, <1>3, <1>4, <1>5, <1>6, <1>8, <1>9, <1>10, <1>11, <1>12, <1>13, <1>14, <1>15, <1>16,
           <1>17, <1>18, <1>19, <1>20, <1>21 DEF Next

\* Requests, classifications and the state of the three threads are well typed.
THEOREM TypeCorrect == Spec => []TypeOK
<1>1. FocusTypes => TypeOK
  <2> SUFFICES ASSUME FocusTypes PROVE TypeOK
    OBVIOUS
  <2>a. Own /\ Given /\ Counts /\ Flags /\ Places
    BY DEF FocusTypes
  <2>1. /\ latch \in Requests(latest, epoch) /\ worker.req \in Requests(latest, epoch)
        /\ focusSlot \in Classes(latest, epoch) /\ worker.cls \in Classes(latest, epoch)
        /\ hook.deferred \in Classes(latest, epoch)
    BY <2>a DEF Own, Given, Workers, Hooks
  <2>2. hook.composing \in BOOLEAN /\ hook.config \in BOOLEAN
    BY <2>a DEF Own, Hooks
  <2>3. {workPending, ticking, settingsNew, wakePosted, hook.composing, hook.config} \subseteq BOOLEAN
    BY <2>a, <2>2, Zenon DEF Flags
  <2>4. /\ worker.pc \in WorkerPlaces /\ worker.cmd \in Commands /\ worker.next \in WorkerNexts
        /\ hook.pc \in {"idle", "drain"} /\ hook.key \in Keys \cup {"none"} /\ hook.appliedSerial \in 0 .. latest
        /\ hook.applied \in Windows \cup {NoWindow}
    BY <2>a DEF Own, Workers, Hooks
  <2> QED BY <2>a, <2>1, <2>3, <2>4 DEF TypeOK, Own, Given, Counts, Places, Requests, Classes, WorkerPlaces,
             WorkerNexts
<1> QED BY <1>1, FocusStart, FocusStep, PTL DEF Spec

-----------------------------------------------------------------------------
(* No wake-up is lost.                                                      *)

\* The latch of the mailbox is only set while a wake message is queued.
LatchHasWake == wakePosted => wakes > 0

WakeInv == LatchHasWake /\ CommandHasWake

\* No step leaves a command or the latch without a wake message on its way.
LEMMA WakeStep == FocusTypes /\ WakeInv /\ [Next]_vars => WakeInv'
<1> SUFFICES ASSUME FocusTypes, WakeInv, [Next]_vars PROVE WakeInv'
  OBVIOUS
<1>a. wakes \in Nat /\ hook \in Hooks(latest, epoch) /\ worker \in Workers(latest, epoch)
  BY DEF FocusTypes, Own, Counts
<1> USE DEF WakeInv, LatchHasWake, CommandHasWake
<1>1. CASE ToggleBit
  BY <1>1 DEF ToggleBit
<1>2. CASE ToggleWake
  BY <1>2, <1>a DEF ToggleWake, PostWake
<1>3. CASE WorkerPostBit
  BY <1>3, <1>a DEF WorkerPostBit, Workers
<1>4. CASE WorkerPostWake
  BY <1>4, <1>a DEF WorkerPostWake, PostWake
<1>5. CASE WakeMessage
  BY <1>5, <1>a DEF WakeMessage, ClearWakeLatch, Hooks
<1>6. CASE TakeBits
  BY <1>6 DEF TakeBits
<1>7. ASSUME NEW k \in Keys, KeyDown(k) PROVE WakeInv'
  BY <1>7, <1>a DEF KeyDown, ClearWakeLatch, Hooks
<1>8. CASE MouseDown
  BY <1>8, <1>a DEF MouseDown, mailVars, workerVars, Hooks
<1>9. ASSUME UNCHANGED <<main, hook, bits, wakePosted, wakes>>, worker.pc # "wake"
      PROVE  WakeInv'
  BY <1>9
<1>10. ASSUME NEW w \in Windows, SwitchTo(w) PROVE WakeInv'
  BY <1>10 DEF SwitchTo, mailVars, workerVars
<1>11. CASE HelperEvent \/ SettingsChange \/ OnFocusChanged
  BY <1>11 DEF HelperEvent, SettingsChange, OnFocusChanged, mailVars, workerVars
<1>12. CASE RetuneCadence \/ RunWork \/ RunTick \/ TickForeground \/ DrainClassify \/ Classify \/ Publish
  BY <1>9, <1>12 DEF RetuneCadence, RunWork, RunTick, TickForeground, DrainClassify, Classify, Publish, mailVars
<1>13. CASE UNCHANGED vars
  BY <1>13 DEF vars
<1> QED BY <1>1, <1>2, <1>3, <1>4, <1>5, <1>6, <1>7, <1>8, <1>10, <1>11, <1>12, <1>13 DEF Next

\* A command in the mailbox is never forgotten, however the three threads interleave the
\* two halves of Post and of DrainBits (HookCommandMailbox).
THEOREM NoWakeIsLost == Spec => []CommandHasWake
<1>1. Init => WakeInv
  <2> SUFFICES ASSUME Init PROVE WakeInv
    OBVIOUS
  <2>1. LatchHasWake
    BY DEF Init, LatchHasWake
  <2>2. CommandHasWake
    BY DEF Init, CommandHasWake
  <2> QED BY <2>1, <2>2 DEF WakeInv
<1>2. WakeInv => CommandHasWake
  BY DEF WakeInv
<1> QED BY <1>1, <1>2, FocusStart, FocusStep, WakeStep, PTL DEF Spec

-----------------------------------------------------------------------------
(* What is applied, and when.                                               *)

\* Applying a classification takes its serial, and only the newest request's is applied:
\* in a word only one whose epoch is still the current one.
Applies(h, g, c) ==
  g.appliedSerial # h.appliedSerial =>
    g.appliedSerial = latest /\ c.serial = latest /\ (h.composing => c.epoch = epoch)

\* Routing a classification applies it only as it should.
LEMMA RouteApplies ==
  ASSUME FocusTypes, NEW h \in Hooks(latest, epoch), NEW c \in Classes(latest, epoch)
  PROVE  /\ Applies(h, RouteFocus(h, c), c)
         /\ \/ RouteFocus(h, c).deferred = NoClass
            \/ /\ RouteFocus(h, c).appliedSerial = h.appliedSerial
               /\ RouteFocus(h, c).composing = h.composing
               /\ RouteFocus(h, c).deferred \in {h.deferred, c}
<1>1. CASE RouteFocus(h, c) = h
  BY <1>1 DEF Applies
<1>2. CASE RouteFocus(h, c) = [h EXCEPT !.deferred = c]
  BY <1>2 DEF Applies, Hooks
<1>3. CASE /\ RouteFocus(h, c) = ApplyFocus([h EXCEPT !.deferred = NoClass], c)
           /\ c.serial = latest /\ (h.composing => c.epoch = epoch)
  BY <1>3 DEF Applies, ApplyFocus, Hooks
<1> QED BY <1>1, <1>2, <1>3 DEF RouteFocus, DecideFocusApply

\* So does the end of a word that had one deferred.
LEMMA DeferredApplies ==
  ASSUME FocusTypes, NEW h \in Hooks(latest, epoch)
  PROVE  Applies(h, TryApplyDeferredFocus(h), h.deferred)
<1>1. CASE TryApplyDeferredFocus(h) = h
  BY <1>1 DEF Applies
<1>2. CASE TryApplyDeferredFocus(h) = [h EXCEPT !.deferred = NoClass]
  BY <1>2 DEF Applies, Hooks
<1>3. CASE /\ TryApplyDeferredFocus(h) = ApplyFocus([h EXCEPT !.deferred = NoClass], h.deferred)
           /\ h.deferred.serial = latest /\ (h.composing => h.deferred.epoch = epoch)
  BY <1>3 DEF Applies, ApplyFocus, Hooks
<1> QED BY <1>1, <1>2, <1>3 DEF TryApplyDeferredFocus, DecideFocusApply

\* The drain applies the classification in the mailbox or the one that was deferred.
LEMMA DrainApplies ==
  ASSUME FocusTypes, hook.pc = "drain", NEW g, g = DrainCommands(hook, bits, focusSlot),
         g.appliedSerial # hook.appliedSerial
  PROVE  /\ g.appliedSerial = latest
         /\ hook.composing => \E c \in {focusSlot, hook.deferred} : c.serial = latest /\ c.epoch = epoch
<1> DEFINE h1 == IF "config" \in bits THEN [hook EXCEPT !.config = TRUE] ELSE hook
           h2 == IF "focus" \in bits THEN RouteFocus(h1, focusSlot) ELSE h1
           h3 == TryApplyDeferredFocus(h2)
           h4 == ApplyToggle(h3, "toggle" \in bits)
<1>a. hook \in Hooks(latest, epoch) /\ focusSlot \in Classes(latest, epoch) /\ Given
  BY DEF FocusTypes, Own, Given
<1>1. /\ h1 \in Hooks(latest, epoch) /\ h1.appliedSerial = hook.appliedSerial /\ h1.deferred = hook.deferred
      /\ h1.composing = hook.composing
  BY <1>a DEF Hooks
<1>5. g = ApplyConfig(h4)
  BY DEF DrainCommands
<1> HIDE DEF h1
<1>2. /\ h2 \in Hooks(latest, epoch) /\ Applies(h1, h2, focusSlot)
      /\ \/ h2.deferred = NoClass
         \/ /\ h2.appliedSerial = h1.appliedSerial /\ h2.composing = h1.composing
            /\ h2.deferred \in {h1.deferred, focusSlot}
  BY <1>a, <1>1, RouteApplies, RouteFocusType DEF Applies
<1> HIDE DEF h2
<1>3. /\ h3 \in Hooks(latest, epoch) /\ Applies(h2, h3, h2.deferred)
      /\ h2.deferred = NoClass => h3 = h2
  BY <1>a, <1>2, DeferredApplies, DeferredType DEF TryApplyDeferredFocus
<1> HIDE DEF h3
<1>4. h4 \in Hooks(latest, epoch) /\ h4.appliedSerial = h3.appliedSerial
  BY <1>3 DEF ApplyToggle, Hooks
<1> HIDE DEF h4
<1>6. g.appliedSerial = h3.appliedSerial
  BY <1>4, <1>5 DEF ApplyConfig, Hooks
<1>7. CASE h2.deferred = NoClass
  BY <1>1, <1>2, <1>3, <1>6, <1>7 DEF Applies
<1>8. CASE /\ h2.appliedSerial = h1.appliedSerial /\ h2.composing = h1.composing
           /\ h2.deferred \in {h1.deferred, focusSlot}
  BY <1>1, <1>2, <1>3, <1>6, <1>8 DEF Applies
<1> QED BY <1>2, <1>7, <1>8

\* A step that applies a classification is a drain.
LEMMA OnlyDrainApplies ==
  ASSUME FocusTypes, [Next]_vars, hook'.appliedSerial # hook.appliedSerial
  PROVE  /\ TakeBits
         /\ hook'.appliedSerial = DrainCommands(hook, bits, focusSlot).appliedSerial
<1>a. hook \in Hooks(latest, epoch) /\ Given
  BY DEF FocusTypes, Own
<1>1. ~WakeMessage /\ ~MouseDown /\ \A k \in Keys : ~KeyDown(k)
  BY <1>a DEF WakeMessage, MouseDown, KeyDown, Hooks
<1>2. TakeBits
  BY <1>1 DEF Next, vars, SwitchTo, HelperEvent, SettingsChange, OnFocusChanged, ToggleBit, ToggleWake,
     RunWork, RunTick, TickForeground, DrainClassify, Classify, Publish, WorkerPostBit, WorkerPostWake,
     RetuneCadence
<1> DEFINE d == DrainCommands(hook, bits, focusSlot)
           h == [d EXCEPT !.pc = "idle"]
<1>3. hook' = IF hook.key = "none" THEN h ELSE ProcessKeyDown(h)
  BY <1>2 DEF TakeBits
<1>4. d \in Hooks(latest, epoch)
  BY <1>a, DrainType
<1> HIDE DEF d
<1> QED BY <1>2, <1>3, <1>4 DEF ProcessKeyDown, Hooks, d

\* Classifications are applied in the order of their requests, and never one that a newer
\* request has overtaken (DecideFocusApply).
THEOREM NothingStaleIsApplied == Spec => NoStaleApply
<1>1. FocusTypes /\ [Next]_vars =>
        [hook'.appliedSerial # hook.appliedSerial =>
           hook'.appliedSerial = latest /\ hook'.appliedSerial > hook.appliedSerial]_vars
  <2> SUFFICES ASSUME FocusTypes, [Next]_vars, hook'.appliedSerial # hook.appliedSerial
               PROVE  hook'.appliedSerial = latest /\ hook'.appliedSerial > hook.appliedSerial
    OBVIOUS
  <2>1. hook'.appliedSerial = latest
    BY OnlyDrainApplies, DrainApplies DEF TakeBits
  <2>2. hook.appliedSerial \in 0 .. latest /\ latest \in Nat
    BY DEF FocusTypes, Own, Given, Hooks
  <2> QED BY <2>1, <2>2
<1> QED BY <1>1, FocusStart, FocusStep, PTL DEF Spec, NoStaleApply

\* A word is only cut by the focus of a request that came after its last key
\* (TryApplyDeferredFocus, ApplyFocusOnHookThread).
THEOREM WordsStayWhole == Spec => WordStaysWhole
<1>1. FocusTypes /\ [Next]_vars =>
        [hook.composing /\ hook'.appliedSerial # hook.appliedSerial =>
          \E c \in {focusSlot, hook.deferred} :
              c.serial = hook'.appliedSerial /\ c.epoch = epoch]_vars
  <2> SUFFICES ASSUME FocusTypes, [Next]_vars, hook.composing, hook'.appliedSerial # hook.appliedSerial
               PROVE  \E c \in {focusSlot, hook.deferred} :
                        c.serial = hook'.appliedSerial /\ c.epoch = epoch
    OBVIOUS
  <2> QED BY OnlyDrainApplies, DrainApplies DEF TakeBits
<1> QED BY <1>1, FocusStart, FocusStep, PTL DEF Spec, WordStaysWhole
-----------------------------------------------------------------------------
(***************************************************************************)
(* Quick conversion.                                                       *)
(***************************************************************************)
\* The texts there are: the words in any form, what the user copies, what is typed
\* by pasting, and none.
AnyWord == {Words[i] : i \in 1 .. Len(Words)} \cup {"u", "v", "t"}
Written == [w : AnyWord, f : Nat]
Texts   == Written \cup {NoText}

\* The places of the conversion's thread: before it has decided, and from there
\* until the paste is posted.
Reading == {"save", "seq", "copy", "wait", "read", "decide"}
Pasting == {"write", "paste"}
ConvertPlaces == Reading \cup Pasting \cup {"idle", "restore", "putback", "reselect"}
Anchors == [has : BOOLEAN, valid : BOOLEAN, start : Nat, end : Nat]

Threads == [pc : ConvertPlaces, tries : Nat, anchor : Anchors, saved : Texts, seq : Nat, text : Texts,
            recovery : BOOLEAN, result : Texts]
Cycles  == [on : BOOLEAN, origin : Texts, index : Nat, last : Texts, anchor : Anchors, pasted : BOOLEAN]
Injectors == [pc : {"idle", "write", "send", "unwritten"}, has : BOOLEAN, orig : Texts, seq : Nat,
              timer : BOOLEAN]

\* The types: the document with its selection, the clipboard with the keys that
\* are posted, the three programs, the user.
Page  == /\ doc \in Seq(Written) /\ sel \in [from : Nat, to : Nat] /\ sel.from <= sel.to /\ sel.to <= Len(doc)
Board == /\ cb \in [text : Texts, seq : Nat] /\ qc.seq <= cb.seq /\ inj.seq <= cb.seq
         /\ keys \in Seq({"copy", "left", "paste"})
Thread == /\ qc \in Threads /\ (qc.pc \in Pasting => qc.result \in Written)
          /\ cycle \in Cycles /\ (cycle.on => cycle.origin \in Written /\ cycle.last \in Written)
          /\ inj \in Injectors
User  == /\ setup \in Setups /\ mine \in Written /\ round \in [place : Nat, text : Texts, n : Nat]
         /\ rest \in [Acts -> Nat]
\* TSF converts in one step: no thread runs there, no key is posted.
Service == setup.kind = "tsf" => qc = Idle /\ keys = <<>> /\ inj = NoInj /\ sel.to <= sel.from + 1

QTypes == Page /\ Board /\ Thread /\ User /\ Service

\* What has to have been well so far: for the clipboard, for the words of the document.
Clean == slips \cap Excused = {}
Fine  == slips \subseteq {"fallback", "typed", "twin"}

\* The thread, the injector and the application take turns: which keys there can be
\* at each place of the thread, and that the two programs never work at once.
Turns ==
  /\ qc.pc \in Reading \ {"wait"} => keys = <<>>
  /\ qc.pc = "wait" => keys \in {<<>>, <<"copy">>}
  /\ qc.pc \in Pasting \cup {"restore", "putback"} => keys \in {<<>>, <<"left">>}
  /\ qc.pc = "reselect" => keys \in {<<>>, <<"paste">>, <<"left", "paste">>}
  /\ qc.pc = "idle" => keys \in {<<>>, <<"left">>, <<"paste">>, <<"paste", "left">>, <<"left", "paste", "left">>}
  /\ qc.pc # "idle" => ~inj.has
  /\ inj.pc # "idle" \/ inj.timer => inj.has
  /\ inj.pc # "idle" => keys = <<>> /\ Caret

\* Where the user's clipboard is: on the clipboard, or saved by one of the two, who
\* tells which by the clipboard's number.
Clips ==
  /\ inj.pc # "unwritten"
  /\ ~inj.has /\ qc.pc \in {"idle", "save", "paste", "reselect"} => cb.text = mine
  /\ qc.pc \in {"seq", "copy", "wait", "read", "putback"} => qc.saved = mine
  /\ qc.pc \in {"decide", "restore"} => IF cb.seq = qc.seq THEN qc.saved = mine ELSE cb.text = mine
  /\ qc.pc = "wait" /\ cb.text = NoText => qc.seq = cb.seq
  /\ inj.has => IF inj.pc # "idle" \/ cb.seq = inj.seq THEN inj.orig = mine ELSE cb.text = mine

\* What the thread has read is the word that is selected.
Copies ==
  /\ qc.pc \in Reading => /\ qc.anchor.has /\ ~qc.anchor.valid => Caret
                          /\ qc.anchor.valid => ~Caret /\ qc.anchor.start = sel.from
  /\ qc.pc \in {"save", "seq", "copy", "wait"} => qc.text = NoText
  /\ qc.pc = "wait" => IF cb.text # NoText THEN keys = <<>> /\ ~Caret /\ cb.text = doc[sel.to]
                       ELSE keys = <<>> => Caret
  /\ qc.pc = "read" => qc.text # NoText
  /\ qc.pc \in {"read", "decide"} => IF qc.text # NoText THEN ~Caret /\ qc.text = doc[sel.to] ELSE Caret

\* A text is going to be pasted; which; and the word before is selected first.
Pending == qc.pc \in Pasting \/ Posted("paste")
Coming  == IF qc.pc \in Pasting THEN qc.result ELSE cb.text
LeftFirst == keys # <<>> /\ Head(keys) = "left"

\* A text that is going to be pasted meets a caret or the same word in another form.
Meets ==
  /\ qc.pc = "paste" => cb.text = qc.result
  /\ sel.to <= sel.from + 1
  /\ cycle.on => cycle.last.w = cycle.origin.w
  /\ Pending => /\ Coming # NoText
                /\ LeftFirst => Caret /\ sel.to > 0 /\ doc[sel.to].w = Coming.w
                /\ ~LeftFirst /\ ~Caret => doc[sel.to].w = Coming.w
  /\ \A i \in 1..Len(Words) : \E j \in 1..Len(doc) : doc[j].w = Words[i]

\* The cycle and the user's count agree on the place, the original text and the
\* option, and the document shows it or is about to.
Rounds ==
  /\ cycle.on <=> round.place > 0
  /\ round.place <= Len(doc)
  /\ cycle.on =>
       /\ ~inj.has /\ setup.options > 0
       /\ cycle.origin = round.text /\ cycle.index = round.n % (setup.options + 1)
       /\ cycle.last = Output(cycle.origin, cycle.index)
       /\ cycle.anchor.valid \/ setup.kind = "tsf" => cycle.anchor.start + 1 = round.place
       /\ Pending  => Coming = cycle.last /\ sel.to = round.place /\ (~LeftFirst => ~Caret)
       /\ ~Pending => doc[round.place] = cycle.last

\* The invariant: each part holds as long as what it is about has been well.
QInv == /\ QTypes
        /\ Clean => Turns /\ Clips /\ Copies
        /\ Fine => Meets
        /\ slips = {} /\ Cyclic => Rounds
-----------------------------------------------------------------------------
\* No text is a word's text, and every other text is one.
LEMMA TextsAreWritten ==
  /\ NoText \in Texts /\ NoText \notin Written
  /\ \A t \in Texts : t # NoText => t \in Written
  /\ \A w \in AnyWord : Unconverted(w) \in Written /\ Unconverted(w).w = w
  /\ Typed \in Written /\ Unconverted("u") \in Written /\ Unconverted("v") \in Written
<1>1. \A w \in AnyWord : Unconverted(w) \in Written /\ Unconverted(w).w = w
  BY DEF Written, Unconverted
<1>2. "u" \in AnyWord /\ "v" \in AnyWord /\ "t" \in AnyWord
  BY DEF AnyWord
<1>5. \A i \in 1 .. Len(Words) : Words[i] # "none"
  BY WordsAssumption
<1>3. "none" \notin AnyWord
  BY <1>5 DEF AnyWord
<1>4. NoText \in Texts /\ NoText \notin Written /\ \A t \in Texts : t # NoText => t \in Written
  BY <1>3 DEF Texts, Written, NoText
<1> QED BY <1>1, <1>2, <1>4 DEF Typed

\* A conversion changes the form of a word and not the word.
\* (ApplyQuickConvertOption)
LEMMA ConversionKeepsWord ==
  ASSUME NEW t \in Written, NEW k \in Nat
  PROVE  /\ ApplyQuickConvertOption(t, k) \in Written /\ ApplyQuickConvertOption(t, k).w = t.w
         /\ Output(t, k) \in Written /\ Output(t, k).w = t.w
<1>1. ApplyQuickConvertOption(t, k) \in Written /\ ApplyQuickConvertOption(t, k).w = t.w
  BY DEF ApplyQuickConvertOption, Written
<1> QED BY <1>1 DEF Output

\* What stands between a and b replaced by t.
Replaced(d, a, b, t) == SubSeq(d, 1, a) \o <<t>> \o SubSeq(d, b + 1, Len(d))

ReplacedLaw(d, a, b, t) ==
  /\ Replaced(d, a, b, t) \in Seq(Written) /\ Len(Replaced(d, a, b, t)) = a + 1 + (Len(d) - b)
  /\ \A i \in 1 .. a : Replaced(d, a, b, t)[i] = d[i]
  /\ Replaced(d, a, b, t)[a + 1] = t
  /\ \A i \in b + 1 .. Len(d) : Replaced(d, a, b, t)[a + 1 + (i - b)] = d[i]

\* The words before and behind stay what they are.
LEMMA ReplacedIs ==
  ASSUME NEW d \in Seq(Written), NEW t \in Written, NEW a \in Nat, NEW b \in Nat, a <= b, b <= Len(d)
  PROVE  ReplacedLaw(d, a, b, t)
<1> DEFINE l == SubSeq(d, 1, a)
           r == SubSeq(d, b + 1, Len(d))
           m == l \o <<t>>
           p == m \o r
<1>1. l \in Seq(Written) /\ Len(l) = a /\ \A i \in 1 .. a : l[i] = d[i]
  OBVIOUS
<1>2. r \in Seq(Written) /\ Len(r) = Len(d) - b /\ \A i \in 1 .. Len(d) - b : r[i] = d[b + i]
  OBVIOUS
<1> HIDE DEF l, r
<1>3. m \in Seq(Written) /\ Len(m) = a + 1 /\ m[a + 1] = t /\ \A i \in 1 .. a : m[i] = l[i]
  BY <1>1
<1> HIDE DEF m
<1>4. /\ p \in Seq(Written) /\ Len(p) = Len(m) + Len(r)
      /\ \A i \in 1 .. Len(m) : p[i] = m[i]
      /\ \A i \in 1 .. Len(r) : p[Len(m) + i] = r[i]
  <2>1. m \in Seq(Written) /\ r \in Seq(Written)
    BY <1>2, <1>3
  <2> QED BY <2>1
<1> HIDE DEF p
<1>5. ASSUME NEW i \in b + 1 .. Len(d) PROVE p[a + 1 + (i - b)] = d[i]
  <2>1. i - b \in 1 .. Len(r) /\ i - b \in 1 .. Len(d) - b /\ b + (i - b) = i
    BY <1>2
  <2>2. p[Len(m) + (i - b)] = r[i - b] /\ r[i - b] = d[b + (i - b)]
    BY <2>1, <1>2, <1>4
  <2> QED BY <2>1, <2>2, <1>3
<1>6. /\ p \in Seq(Written) /\ Len(p) = a + 1 + (Len(d) - b)
      /\ \A i \in 1 .. a : p[i] = d[i]
      /\ p[a + 1] = t
  BY <1>1, <1>2, <1>3, <1>4
<1>7. Replaced(d, a, b, t) = p
  BY DEF Replaced, p, m, l, r
<1> QED BY <1>5, <1>6, <1>7 DEF ReplacedLaw

\* A paste is such a replacement.
LEMMA PastedIs == \A t : Pasted(t) = Replaced(doc, sel.from, sel.to, t)
BY DEF Pasted, Replaced

\* A remainder is known by its equation.
LEMMA DivisionIs ==
  ASSUME NEW m \in Int, m > 0, NEW n \in Int
  PROVE  /\ n = m * (n \div m) + (n % m)
         /\ \A q, r \in Int : n = m * q + r /\ 0 <= r /\ r < m => n % m = r
<1>1. n = m * (n \div m) + (n % m)
  BY SMTT(20)
<1>2. ASSUME NEW q \in Int, NEW r \in Int, n = m * q + r, 0 <= r, r < m
      PROVE  n % m = r
  BY <1>2, SMTT(20)
<1> QED BY <1>1, <1>2

\* The option after n presses, and after one more, when there are o of them.
NextLaw(n, o) ==
  /\ n % (o + 1) \in Nat /\ n % (o + 1) <= o
  /\ (n + 1) % (o + 1) = ((n % (o + 1)) + 1) % (o + 1)
  /\ (o > 0 => 1 % (o + 1) = 1)

\* Counting on within the cycle is counting on and then taking the remainder.
LEMMA NextModulo ==
  ASSUME NEW n \in Nat, NEW o \in Nat
  PROVE  NextLaw(n, o)
<1> DEFINE m == o + 1
           q == n \div m
           r == n % m
<1>1. m \in Int /\ m > 0 /\ q \in Int /\ r \in Int /\ 0 <= r /\ r < m
  OBVIOUS
<1>2. n = m * q + r
  BY <1>1, DivisionIs
<1> HIDE DEF q, r, m
<1>3. o > 0 => 1 % m = 1
  <2>1. 1 = m * 0 + 1
    BY <1>1
  <2> QED BY <2>1, <1>1, DivisionIs DEF m
<1>4. CASE r + 1 < m
  <2>1. n + 1 = m * q + (r + 1)
    BY <1>1, <1>2
  <2>2. n + 1 \in Int /\ r + 1 \in Int /\ 0 <= r + 1
    BY <1>1
  <2>3. (n + 1) % m = r + 1
    BY <1>1, <1>4, <2>1, <2>2, DivisionIs
  <2>4. r + 1 = m * 0 + (r + 1)
    BY <1>1
  <2>5. (r + 1) % m = r + 1
    BY <1>1, <1>4, <2>4, DivisionIs
  <2> QED BY <2>3, <2>5, <1>1, <1>3 DEF NextLaw, m, r
<1>5. CASE r + 1 = m
  <2>1. n + 1 = m * (q + 1) + 0
    BY <1>1, <1>2, <1>5
  <2>2. (n + 1) % m = 0
    BY <1>1, <2>1, DivisionIs
  <2>3. r + 1 = m * 1 + 0
    BY <1>1, <1>5
  <2>4. (r + 1) % m = 0
    BY <1>1, <2>3, DivisionIs
  <2> QED BY <2>2, <2>4, <1>1, <1>3 DEF NextLaw, m, r
<1> QED BY <1>1, <1>4, <1>5 DEF m, r
-----------------------------------------------------------------------------
\* What the words need includes what the clipboard needs.
LEMMA SlipsApart ==
  /\ Fine => Clean
  /\ slips = {} => Fine
  /\ (slips' \cap Excused = {}) <=> Clean'
BY DEF Fine, Clean, Excused

\* The keys there can be, what is posted and what comes first.
KeysLaw ==
  /\ keys = <<>> => ~Posted("paste") /\ ~Posted("copy") /\ ~LeftFirst
  /\ keys = <<"copy">> => ~Posted("paste") /\ Posted("copy") /\ ~LeftFirst
  /\ keys = <<"left">> => ~Posted("paste") /\ LeftFirst
  /\ keys = <<"paste">> => Posted("paste") /\ ~LeftFirst
  /\ keys = <<"left", "paste">> => Posted("paste") /\ LeftFirst
  /\ keys = <<"paste", "left">> => Posted("paste") /\ ~LeftFirst
  /\ keys = <<"left", "paste", "left">> => Posted("paste") /\ LeftFirst

\* So it is for each sequence of keys.
LEMMA KeysAre == KeysLaw
<1>1. keys = <<>> => ~Posted("paste") /\ ~Posted("copy") /\ ~LeftFirst
  BY DEF Posted, LeftFirst
<1>2. keys = <<"copy">> => ~Posted("paste") /\ Posted("copy") /\ ~LeftFirst
  BY DEF Posted, LeftFirst
<1>3. keys = <<"left">> => ~Posted("paste") /\ LeftFirst
  BY DEF Posted, LeftFirst
<1>4. keys = <<"paste">> => Posted("paste") /\ ~LeftFirst
  BY DEF Posted, LeftFirst
<1>5. keys = <<"left", "paste">> => Posted("paste") /\ LeftFirst
  <2> HAVE keys = <<"left", "paste">>
  <2>1. 2 \in 1 .. Len(keys) /\ keys[2] = "paste"
    OBVIOUS
  <2> QED BY <2>1 DEF Posted, LeftFirst
<1>6. keys = <<"paste", "left">> => Posted("paste") /\ ~LeftFirst
  BY DEF Posted, LeftFirst
<1>7. keys = <<"left", "paste", "left">> => Posted("paste") /\ LeftFirst
  <2> HAVE keys = <<"left", "paste", "left">>
  <2>1. 2 \in 1 .. Len(keys) /\ keys[2] = "paste"
    OBVIOUS
  <2> QED BY <2>1 DEF Posted, LeftFirst
<1> QED BY <1>1, <1>2, <1>3, <1>4, <1>5, <1>6, <1>7 DEF KeysLaw

\* Sequences of at most three, with one more behind and without the first.
LEMMA ShortSequences ==
  ASSUME NEW a, NEW b, NEW c
  PROVE  /\ Append(<<>>, a) = <<a>> /\ Append(<<a>>, b) = <<a, b>> /\ Append(<<a, b>>, c) = <<a, b, c>>
         /\ Tail(<<a>>) = <<>> /\ Tail(<<a, b>>) = <<b>> /\ Tail(<<a, b, c>>) = <<b, c>>
<1> DEFINE S == {a, b, c}
<1>1. /\ <<>> \in Seq(S) /\ <<a>> \in Seq(S) /\ <<b>> \in Seq(S) /\ <<a, b>> \in Seq(S) /\ <<b, c>> \in Seq(S)
      /\ <<a, b, c>> \in Seq(S)
  OBVIOUS
<1>2. Append(<<>>, a) = <<a>> /\ Tail(<<a>>) = <<>>
  OBVIOUS
<1>3. Append(<<a>>, b) = <<a, b>>
  <2>1. Append(<<a>>, b) \in Seq(S) /\ Len(Append(<<a>>, b)) = 2 /\ Len(<<a, b>>) = 2
    BY <1>1
  <2>2. \A i \in 1 .. 2 : Append(<<a>>, b)[i] = <<a, b>>[i]
    OBVIOUS
  <2> QED BY <1>1, <2>1, <2>2, SeqEqual
<1>4. Append(<<a, b>>, c) = <<a, b, c>>
  <2>1. Append(<<a, b>>, c) \in Seq(S) /\ Len(Append(<<a, b>>, c)) = 3 /\ Len(<<a, b, c>>) = 3
    BY <1>1
  <2>2. \A i \in 1 .. 3 : Append(<<a, b>>, c)[i] = <<a, b, c>>[i]
    OBVIOUS
  <2> QED BY <1>1, <2>1, <2>2, SeqEqual
<1>5. Tail(<<a, b>>) = <<b>>
  <2>1. Tail(<<a, b>>) \in Seq(S) /\ Len(Tail(<<a, b>>)) = 1 /\ Len(<<b>>) = 1
    BY <1>1
  <2>2. \A i \in 1 .. 1 : Tail(<<a, b>>)[i] = <<b>>[i]
    OBVIOUS
  <2> QED BY <1>1, <2>1, <2>2, SeqEqual
<1>6. Tail(<<a, b, c>>) = <<b, c>>
  <2>1. Tail(<<a, b, c>>) \in Seq(S) /\ Len(Tail(<<a, b, c>>)) = 2 /\ Len(<<b, c>>) = 2
    BY <1>1
  <2>2. \A i \in 1 .. 2 : Tail(<<a, b, c>>)[i] = <<b, c>>[i]
    OBVIOUS
  <2> QED BY <1>1, <2>1, <2>2, SeqEqual
<1> QED BY <1>2, <1>3, <1>4, <1>5, <1>6

\* The keys that the programs post and the application takes.
LEMMA KeysAppended ==
  /\ Append(<<>>, "left") = <<"left">> /\ Append(<<>>, "paste") = <<"paste">>
  /\ Append(<<"left">>, "paste") = <<"left", "paste">>
  /\ Append(<<"paste">>, "left") = <<"paste", "left">>
  /\ Append(<<"left", "paste">>, "left") = <<"left", "paste", "left">>
  /\ Tail(<<"left">>) = <<>> /\ Tail(<<"paste">>) = <<>> /\ Tail(<<"copy">>) = <<>>
  /\ Tail(<<"left", "paste">>) = <<"paste">> /\ Tail(<<"paste", "left">>) = <<"left">>
  /\ Tail(<<"left", "paste", "left">>) = <<"paste", "left">>
<1> DEFINE F(a, b, c) ==
      /\ Append(<<>>, a) = <<a>> /\ Append(<<a>>, b) = <<a, b>> /\ Append(<<a, b>>, c) = <<a, b, c>>
      /\ Tail(<<a>>) = <<>> /\ Tail(<<a, b>>) = <<b>> /\ Tail(<<a, b, c>>) = <<b, c>>
<1>1. \A a, b, c : F(a, b, c)
  BY ShortSequences, Zenon
<1> HIDE DEF F
<1>2. F("left", "paste", "left") /\ F("paste", "left", "left") /\ F("copy", "left", "left")
  BY <1>1
<1> QED BY <1>2 DEF F

\* Whether something is to be pasted, by the thread's place and the keys.
PendingLaw ==
  /\ qc.pc \in Reading \cup {"restore", "putback"} => ~Pending
  /\ qc.pc \in Pasting => Pending
  /\ qc.pc = "reselect" => (Pending <=> keys # <<>>)
  /\ qc.pc = "idle" => (Pending <=> keys \notin {<<>>, <<"left">>})

\* So it is, by the turns they take.
LEMMA PendingIs == QTypes /\ Turns => PendingLaw
<1> SUFFICES ASSUME QTypes, Turns PROVE PendingLaw
  OBVIOUS
<1> USE DEF KeysLaw
<1>1. qc.pc = "reselect" => (Pending <=> keys # <<>>)
  <2> HAVE qc.pc = "reselect"
  <2>1. keys \in {<<>>, <<"paste">>, <<"left", "paste">>}
    BY DEF Turns
  <2>2. <<"paste">> # <<>> /\ <<"left", "paste">> # <<>>
    OBVIOUS
  <2> QED BY <2>1, <2>2, KeysAre DEF Pending, Pasting
<1>2. qc.pc = "idle" => (Pending <=> keys \notin {<<>>, <<"left">>})
  <2> HAVE qc.pc = "idle"
  <2>1. keys \in {<<>>, <<"left">>, <<"paste">>, <<"paste", "left">>, <<"left", "paste", "left">>}
    BY DEF Turns
  <2>2. /\ <<"paste">> \notin {<<>>, <<"left">>} /\ <<"paste", "left">> \notin {<<>>, <<"left">>}
        /\ <<"left", "paste", "left">> \notin {<<>>, <<"left">>}
    OBVIOUS
  <2> QED BY <2>1, <2>2, KeysAre DEF Pending, Pasting
<1>3. qc.pc \in Reading \cup {"restore", "putback"} => ~Pending
  BY KeysAre DEF Turns, Reading, Pasting, Pending
<1> QED BY <1>1, <1>2, <1>3 DEF Pending, PendingLaw

\* And after a step.
LEMMA KeysNext == KeysLaw' /\ (QTypes /\ Turns => PendingLaw)'
BY KeysAre, PendingIs, PTL

\* It holds at the start.
LEMMA ConversionStart == QInit => QInv
<1> SUFFICES ASSUME QInit PROVE QInv
  OBVIOUS
<1> USE DEF QInit
<1>1. Len(Words) \in Nat /\ \A i \in 1 .. Len(Words) : Words[i] \in AnyWord
  BY WordsAssumption DEF AnyWord
<1>2. doc \in Seq(Written) /\ Len(doc) = Len(Words) /\ \A i \in 1 .. Len(doc) : doc[i].w = Words[i]
  BY <1>1, TextsAreWritten
<1>3. Page /\ Board /\ Thread
  BY <1>2, TextsAreWritten
  DEF Page, Board, Thread, Idle, NoInj, NoCycle, NoAnchor, Threads, Cycles, Injectors, Anchors, ConvertPlaces, Reading, Pasting,
      Texts
<1>4. User /\ Service
  BY TextsAreWritten, SetupsAssumption DEF User, Service, NoRound, Texts
<1>5. Turns /\ Clips /\ Copies
  BY DEF Turns, Clips, Copies, Idle, NoInj, Reading, Pasting
<1>6. Meets
  BY <1>1, <1>2 DEF Meets, Idle, NoCycle, Pending, Pasting, Posted
<1>7. Rounds
  BY <1>1, <1>2 DEF Rounds, NoCycle, NoRound
<1> QED BY <1>3, <1>4, <1>5, <1>6, <1>7 DEF QInv, QTypes

\* The user's clipboard is saved while it is on the clipboard.
LEMMA SaveKeeps == QInv /\ Save => QInv'
<1> SUFFICES ASSUME QInv, Save PROVE QInv'
  OBVIOUS
<1> USE DEF Save, Works, Missed, UseUp, Flaw
<1>1. QTypes'
  <2>1. qc' \in Threads /\ qc'.pc = "seq" /\ qc'.seq = qc.seq
    BY DEF QInv, QTypes, Thread, Board, Threads, ConvertPlaces, Reading
  <2>2. rest' \in [Acts -> Nat]
    BY DEF QInv, QTypes, User, Acts
  <2> QED BY <2>1, <2>2 DEF QInv, QTypes, Page, Board, Thread, User, Service, Pasting, Idle
<1>2. Clean' => Clean /\ qc' = [qc EXCEPT !.pc = "seq", !.saved = cb.text]
  BY DEF Clean, Excused
<1>3. Clean' => (Turns /\ Clips /\ Copies)'
  BY <1>2 DEF QInv, QTypes, Thread, Threads, Turns, Clips, Copies, Reading, Pasting, Caret
<1>4. Fine' => Fine /\ Clean'
  BY DEF Fine, Clean, Excused
<1>5. Fine' => Meets'
  BY <1>4, <1>2 DEF QInv, QTypes, Thread, Threads, Meets, Pending, Coming, LeftFirst, Pasting, Caret, Posted
<1>6. slips' = {} /\ Cyclic' => slips = {} /\ Cyclic /\ Clean'
  BY DEF Cyclic, Clean
<1>7. slips' = {} /\ Cyclic' => Rounds'
  BY <1>6, <1>2 DEF QInv, QTypes, Thread, Threads, Rounds, Pending, Coming, LeftFirst, Pasting, Caret, Posted, Output
<1> QED BY <1>1, <1>3, <1>5, <1>7 DEF QInv

\* The number that is taken belongs to what was saved, or nothing has been well.
LEMMA TakeSeqKeeps == QInv /\ TakeSeq => QInv'
<1> SUFFICES ASSUME QInv, TakeSeq PROVE QInv'
  OBVIOUS
<1> USE DEF TakeSeq
<1>1. QTypes'
  <2>1. qc' \in Threads /\ qc'.pc \in {"copy", "decide"} /\ qc'.seq = cb.seq
    BY DEF QInv, QTypes, Thread, Board, Threads, ConvertPlaces, Reading
  <2> QED BY <2>1 DEF QInv, QTypes, Page, Board, Thread, User, Service, Pasting, Idle
<1>2. Clean' => (Turns /\ Clips /\ Copies)'
  BY DEF QInv, Clean, QTypes, Thread, Threads, Turns, Clips, Copies, Reading, Pasting, Caret
<1>3. Fine' => Meets'
  BY DEF QInv, Fine, QTypes, Thread, Threads, Meets, Pending, Coming, LeftFirst, Pasting, Caret, Posted
<1>4. slips' = {} /\ Cyclic' => Rounds'
  BY DEF QInv, Cyclic, QTypes, Thread, Threads, Rounds, Pending, Coming, LeftFirst, Pasting, Caret, Posted, Output
<1> QED BY <1>1, <1>2, <1>3, <1>4 DEF QInv

\* The clipboard is emptied and the copy posted, with the user's clipboard saved.
LEMMA SimulateCopyKeeps == QInv /\ SimulateCopy => QInv'
<1> SUFFICES ASSUME QInv, SimulateCopy PROVE QInv'
  OBVIOUS
<1> USE DEF SimulateCopy, Works, Missed, UseUp, Flaw, Put
<1>1. QTypes'
  <2>1. cb' \in [text : Texts, seq : Nat] /\ cb.seq <= cb'.seq
    BY TextsAreWritten DEF QInv, QTypes, Board
  <2>3. qc' \in Threads /\ qc'.pc = "wait" /\ qc'.seq <= cb'.seq
    <3>1. qc \in Threads /\ cb'.seq \in Nat /\ qc.seq <= cb'.seq
      BY <2>1 DEF QInv, QTypes, Thread, Board, Threads
    <3>2. \/ qc' = [qc EXCEPT !.pc = "wait", !.tries = qc.tries + 1, !.seq = cb'.seq]
          \/ qc' = [qc EXCEPT !.pc = "wait", !.tries = qc.tries + 1]
      BY DEF QInv
    <3>3. "wait" \in ConvertPlaces /\ qc.tries + 1 \in Nat
      BY <3>1 DEF ConvertPlaces, Reading, Threads
    <3>4. \A n, q \in Nat : [qc EXCEPT !.pc = "wait", !.tries = n, !.seq = q] \in Threads
      BY <3>1, <3>3 DEF Threads
    <3>6. \A n \in Nat : [qc EXCEPT !.pc = "wait", !.tries = n] \in Threads
      BY <3>1, <3>3 DEF Threads
    <3>7. qc' \in Threads
      BY <3>1, <3>2, <3>3, <3>4, <3>6
    <3>8. qc'.pc = "wait" /\ qc'.seq \in {cb'.seq, qc.seq}
      BY <3>1, <3>2 DEF Threads
    <3>5. cb'.seq <= cb'.seq
      BY <3>1
    <3> QED BY <3>1, <3>7, <3>8, <3>5
  <2>2. rest' \in [Acts -> Nat] /\ keys' \in Seq({"copy", "left", "paste"})
    BY DEF QInv, QTypes, User, Board, Acts
  <2> QED BY <2>1, <2>2, <2>3 DEF QInv, QTypes, Page, Board, Thread, User, Service, Pasting, Idle, Injectors
<1>2. Clean' => /\ Clean /\ cb' = [text |-> NoText, seq |-> cb.seq + 1]
                /\ qc' = [qc EXCEPT !.pc = "wait", !.tries = @ + 1, !.seq = cb'.seq]
  BY DEF Clean, Excused
<1>3. Clean' => keys = <<>> /\ keys' = <<"copy">>
  BY <1>2 DEF QInv, Turns, Reading
<1>4. Clean' => (Turns /\ Clips /\ Copies)'
  <2> HAVE Clean'
  <2>1. qc'.pc = "wait" /\ qc'.saved = qc.saved /\ qc'.text = qc.text /\ qc'.anchor = qc.anchor /\ qc'.seq = cb'.seq
    BY <1>2 DEF QInv, QTypes, Thread, Threads
  <2>2. Turns'
    BY <1>2, <1>3, <2>1 DEF QInv, Turns, Reading, Pasting
  <2>3. Clips'
    BY <1>2, <1>3, <2>1 DEF QInv, Clips, Turns
  <2>4. keys' # <<>>
    BY <1>3
  <2>5. Copies'
    BY <1>2, <2>4, <2>1 DEF QInv, Copies, Reading, Caret
  <2> QED BY <2>2, <2>3, <2>5
<1>5. Fine' => Fine /\ Clean'
  BY DEF Fine, Clean, Excused
<1>6. Clean' => ~Pending /\ ~Pending'
  BY <1>1, <1>2, <1>4, PendingIs, KeysNext DEF QInv, PendingLaw, QTypes, Thread, Threads, Reading
<1>7. Fine' => Meets'
  BY <1>5, <1>2, <1>6 DEF QInv, QTypes, Thread, Threads, Meets, Caret
<1>8. slips' = {} /\ Cyclic' => slips = {} /\ Cyclic /\ Clean'
  BY DEF Cyclic, Clean
<1>9. slips' = {} /\ Cyclic' => Rounds'
  BY <1>8, <1>2, <1>6 DEF QInv, QTypes, Thread, Threads, Rounds, Caret, Output
<1> QED BY <1>1, <1>4, <1>7, <1>9 DEF QInv

\* A text that comes is the copy of the selected word.
LEMMA WaitKeeps == QInv /\ WaitForClipboardUnicode => QInv'
<1> SUFFICES ASSUME QInv, WaitForClipboardUnicode PROVE QInv'
  OBVIOUS
<1> USE DEF WaitForClipboardUnicode, Works, Missed, UseUp, Flaw
<1>1. QTypes'
  <2>1. qc' \in Threads /\ qc'.pc \in {"read", "copy", "decide"} /\ qc'.seq = qc.seq
    BY DEF QInv, QTypes, Thread, Board, Threads, ConvertPlaces, Reading
  <2>2. rest' \in [Acts -> Nat]
    BY DEF QInv, QTypes, User, Acts
  <2> QED BY <2>1, <2>2 DEF QInv, QTypes, Page, Board, Thread, User, Service, Pasting, Idle
<1>2. Clean' => /\ Clean
                /\ \/ cb.text # NoText /\ qc' = [qc EXCEPT !.pc = "read", !.text = cb.text]
                   \/ /\ cb.text = NoText /\ ~Posted("copy")
                      /\ qc' = [qc EXCEPT !.pc = IF qc.tries < 2 THEN "copy" ELSE "decide"]
  BY DEF Clean, Excused
<1>3. Clean' => keys = <<>>
  BY <1>2 DEF QInv, Turns, Copies, Posted
<1>4. Clean' => (Turns /\ Clips /\ Copies)'
  BY <1>2, <1>3 DEF QInv, QTypes, Thread, Threads, Turns, Clips, Copies, Reading, Pasting, Caret
<1>5. Fine' => Fine /\ Clean'
  BY DEF Fine, Clean, Excused
<1>6. Clean' => ~Pending /\ ~Pending'
  BY <1>1, <1>2, <1>4, PendingIs, KeysNext DEF QInv, PendingLaw, QTypes, Thread, Threads, Reading
<1>7. Fine' => Meets'
  BY <1>5, <1>2, <1>6 DEF QInv, QTypes, Thread, Threads, Meets, Caret
<1>8. slips' = {} /\ Cyclic' => slips = {} /\ Cyclic /\ Clean'
  BY DEF Cyclic, Clean
<1>9. slips' = {} /\ Cyclic' => Rounds'
  BY <1>8, <1>2, <1>6 DEF QInv, QTypes, Thread, Threads, Rounds, Caret, Output
<1> QED BY <1>1, <1>4, <1>7, <1>9 DEF QInv

\* The number of the copy, by which the user's own copying is noticed later.
LEMMA ReadSeqKeeps == QInv /\ ReadSeq => QInv'
<1> SUFFICES ASSUME QInv, ReadSeq PROVE QInv'
  OBVIOUS
<1> USE DEF ReadSeq
<1>1. QTypes'
  <2>1. qc' \in Threads /\ qc'.pc = "decide" /\ qc'.seq = cb.seq
    BY DEF QInv, QTypes, Thread, Board, Threads, ConvertPlaces, Reading
  <2> QED BY <2>1 DEF QInv, QTypes, Page, Board, Thread, User, Service, Pasting, Idle
<1>2. Clean' => (Turns /\ Clips /\ Copies)'
  BY DEF QInv, Clean, QTypes, Thread, Threads, Turns, Clips, Copies, Reading, Pasting, Caret
<1>3. Fine' => Meets'
  BY DEF QInv, Fine, QTypes, Thread, Threads, Meets, Pending, Coming, LeftFirst, Pasting, Caret, Posted
<1>4. slips' = {} /\ Cyclic' => Rounds'
  BY DEF QInv, Cyclic, QTypes, Thread, Threads, Rounds, Pending, Coming, LeftFirst, Pasting, Caret, Posted, Output
<1> QED BY <1>1, <1>2, <1>3, <1>4 DEF QInv

\* Nobody has copied since: what was saved is the user's.
LEMMA RestoreKeeps == QInv /\ RestoreSavedClipboardIfSafe => QInv'
<1> SUFFICES ASSUME QInv, RestoreSavedClipboardIfSafe PROVE QInv'
  OBVIOUS
<1> USE DEF RestoreSavedClipboardIfSafe
<1>1. QTypes'
  <2>1. qc' \in Threads /\ qc'.pc \in {"idle", "putback"} /\ qc'.seq <= cb.seq
    BY TextsAreWritten DEF QInv, QTypes, Thread, Board, Threads, ConvertPlaces, Reading, Idle, NoAnchor, Anchors
  <2> QED BY <2>1 DEF QInv, QTypes, Page, Board, Thread, User, Service, Pasting, Idle
<1>2. Clean' => /\ qc.saved = NoText \/ cb.seq # qc.seq => cb.text = mine
                /\ ~(qc.saved = NoText \/ cb.seq # qc.seq) => qc.saved = mine
  BY TextsAreWritten DEF QInv, Clean, QTypes, User, Clips
<1>3. Clean' => (Turns /\ Clips /\ Copies)'
  BY <1>2 DEF QInv, Clean, QTypes, Thread, Threads, Turns, Clips, Copies, Reading, Pasting, Caret, Idle
<1>4. Pending' <=> Pending
  BY DEF QInv, QTypes, Thread, Threads, Pending, Pasting, Posted, Idle
<1>5. Coming' = Coming /\ (LeftFirst' <=> LeftFirst)
  BY DEF QInv, QTypes, Thread, Threads, Coming, LeftFirst, Pasting, Idle
<1>6. Fine' => Meets'
  BY <1>4, <1>5 DEF QInv, Fine, QTypes, Thread, Threads, Meets, Caret, Idle
<1>7. slips' = {} /\ Cyclic' => Rounds'
  BY <1>4, <1>5 DEF QInv, Cyclic, QTypes, Thread, Threads, Rounds, Caret, Output
<1> QED BY <1>1, <1>3, <1>6, <1>7 DEF QInv

\* Then the clipboard is the user's again.
LEMMA PutBackKeeps == QInv /\ PutBack => QInv'
<1> SUFFICES ASSUME QInv, PutBack PROVE QInv'
  OBVIOUS
<1> USE DEF PutBack, Works, Missed, UseUp, Flaw, Put
<1>1. QTypes'
  <2>1. qc' = Idle /\ qc' \in Threads /\ cb' \in [text : Texts, seq : Nat] /\ cb.seq <= cb'.seq
    BY TextsAreWritten DEF QInv, QTypes, Thread, Board, Threads, ConvertPlaces, Reading, Idle, NoAnchor, Anchors
  <2>2. rest' \in [Acts -> Nat]
    BY DEF QInv, QTypes, User, Acts
  <2> QED BY <2>1, <2>2 DEF QInv, QTypes, Page, Board, Thread, User, Service, Pasting, Idle, Injectors
<1>2. Clean' => Clean /\ cb' = [text |-> qc.saved, seq |-> cb.seq + 1]
  BY DEF Clean, Excused
<1>3. Clean' => (Turns /\ Clips /\ Copies)'
  BY <1>2 DEF QInv, QTypes, Thread, Threads, Turns, Clips, Copies, Reading, Pasting, Caret, Idle
<1>4. Fine' => Fine /\ Clean'
  BY DEF Fine, Clean, Excused
<1>5. Clean' => ~Pending /\ ~Pending'
  BY <1>2 DEF QInv, QTypes, Thread, Threads, Pending, Posted, Pasting, Turns, Idle
<1>6. Fine' => Meets'
  BY <1>4, <1>5 DEF QInv, QTypes, Thread, Threads, Meets, Caret, Idle
<1>7. slips' = {} /\ Cyclic' => slips = {} /\ Cyclic /\ Clean'
  BY DEF Cyclic, Clean
<1>8. slips' = {} /\ Cyclic' => Rounds'
  BY <1>7, <1>5 DEF QInv, QTypes, Thread, Threads, Rounds, Caret, Output
<1> QED BY <1>1, <1>3, <1>6, <1>8 DEF QInv

\* A conversion begins with no key posted and no injector at work.
LEMMA ExecuteKeeps == QInv /\ Execute => QInv'
<1> SUFFICES ASSUME QInv, Execute PROVE QInv'
  OBVIOUS
<1> USE DEF Execute, UseUp, Flaw
<1>1. QTypes'
  <2>1. GetSelectionAnchor \in Anchors
    BY DEF QInv, QTypes, Page, GetSelectionAnchor, NoAnchor, Anchors
  <2>2. [Idle EXCEPT !.pc = "save", !.anchor = GetSelectionAnchor] \in Threads
    BY <2>1, TextsAreWritten DEF Idle, NoAnchor, Threads, ConvertPlaces, Reading, Anchors
  <2>3. qc' \in Threads /\ (qc' = qc \/ (qc'.pc = "save" /\ qc'.seq = 0))
    BY <2>2 DEF QInv, QTypes, Thread, Idle
  <2>4. rest' \in [Acts -> Nat]
    BY DEF QInv, QTypes, User, Acts
  <2> QED BY <2>3, <2>4 DEF QInv, QTypes, Page, Board, Thread, User, Service, Pasting, Idle
<1>2. CASE qc.pc # "idle"
  <2>1. qc' = qc /\ slips' = slips
    BY <1>2
  <2>2. (Turns' <=> Turns) /\ (Clips' <=> Clips) /\ (Copies' <=> Copies) /\ (Meets' <=> Meets)
    BY <2>1 DEF Turns, Clips, Copies, Meets, Pending, Coming, LeftFirst, Caret, Posted
  <2>3. (Rounds' <=> Rounds) /\ (Cyclic' <=> Cyclic)
    BY <2>1 DEF Rounds, Pending, Coming, LeftFirst, Caret, Posted, Output, Cyclic
  <2> QED BY <2>1, <2>2, <2>3, <1>1 DEF QInv, Clean, Fine
<1>3. CASE qc.pc = "idle"
  <2>1. Clean' => Clean /\ ~inj.has /\ keys = <<>>
    BY <1>3 DEF Clean, Excused
  <2>2. qc' = [Idle EXCEPT !.pc = "save", !.anchor = GetSelectionAnchor]
    BY <1>3
  <2>3. /\ qc'.pc = "save" /\ qc'.text = NoText /\ qc'.anchor = GetSelectionAnchor
    BY <2>2 DEF Idle
  <2>4. Clean' => Turns' /\ Clips'
    BY <1>3, <2>1, <2>3 DEF QInv, Turns, Clips, Reading, Pasting, Caret
  <2>5. Copies'
    BY <2>3 DEF Copies, Reading, GetSelectionAnchor, NoAnchor, Caret
  <2>6. Fine' => Fine /\ Clean'
    BY DEF Fine, Clean, Excused
  <2>7. Clean' => ~Pending /\ ~Pending'
    BY <1>1, <2>1, <2>3, <2>4, <1>3, PendingIs, KeysNext DEF PendingLaw, QInv, Reading
  <2>8. Fine' => Meets'
    BY <2>6, <2>7, <2>1, <2>3 DEF QInv, Meets
  <2>9. slips' = {} /\ Cyclic' => slips = {} /\ Cyclic /\ Clean'
    BY DEF Cyclic, Clean
  <2>10. slips' = {} /\ Cyclic' => Rounds'
    BY <2>9, <2>7, <2>1 DEF QInv, Rounds, Output
  <2> QED BY <1>1, <2>4, <2>5, <2>8, <2>10 DEF QInv
<1> QED BY <1>2, <1>3

\* The result on the clipboard is what the user expects there.
LEMMA WriteResultKeeps == QInv /\ WriteResult => QInv'
<1> SUFFICES ASSUME QInv, WriteResult PROVE QInv'
  OBVIOUS
<1> USE DEF WriteResult, Works, Missed, UseUp, Flaw, Put
<1>1. QTypes'
  <2>1. cb' \in [text : Texts, seq : Nat] /\ cb.seq <= cb'.seq /\ mine' \in Written
    BY TextsAreWritten DEF QInv, QTypes, Board, Thread, Threads, User, Pasting
  <2>2. qc' \in Threads /\ qc'.pc \in {"paste", "idle"} /\ qc'.seq <= qc.seq /\ (qc'.pc = "paste" => qc'.result = qc.result)
    BY TextsAreWritten DEF QInv, QTypes, Thread, Board, Threads, ConvertPlaces, Reading, Pasting, Idle, NoAnchor, Anchors
  <2>3. rest' \in [Acts -> Nat]
    BY DEF QInv, QTypes, User, Acts
  <2>4. qc.result \in Written
    BY DEF QInv, QTypes, Thread, Pasting
  <2>5. qc.seq \in Nat /\ inj.seq \in Nat /\ qc'.seq \in Nat /\ qc.seq <= cb.seq /\ inj.seq <= cb.seq /\ cb.seq \in Nat /\ cb'.seq \in Nat
    BY <2>1, <2>2 DEF QInv, QTypes, Thread, Board, Threads, Injectors
  <2> QED BY <2>1, <2>2, <2>3, <2>4, <2>5 DEF QInv, QTypes, Page, Board, Thread, User, Service, Pasting, Idle
<1>2. Clean' => Clean /\ cb' = [text |-> qc.result, seq |-> cb.seq + 1] /\ mine' = qc.result
  BY DEF Clean, Excused
<1>3. /\ qc'.pc = IF setup.autoPaste THEN "paste" ELSE "idle"
      /\ setup.autoPaste => qc'.result = qc.result
  BY DEF QInv, QTypes, Thread, Threads, Idle
<1>4. Clean' => (Turns /\ Clips /\ Copies)'
  BY <1>2, <1>3 DEF QInv, Turns, Clips, Copies, Reading, Pasting, Caret
<1>5. Fine' => Fine /\ Clean'
  BY DEF Fine, Clean, Excused
<1>6. Pending /\ (Clean' => (Pending' <=> setup.autoPaste)) /\ (LeftFirst' <=> LeftFirst)
  <2>1. Pending /\ (LeftFirst' <=> LeftFirst) /\ keys' = keys
    BY DEF Pending, Pasting, LeftFirst
  <2>2. Clean' => keys' \in {<<>>, <<"left">>}
    BY <1>2, <2>1 DEF QInv, Turns, Pasting
  <2>3. Clean' => (setup.autoPaste => Pending')
    BY <1>3 DEF Pending, Pasting
  <2>4. Clean' => (~setup.autoPaste => ~Pending')
    BY <1>1, <1>3, <1>4, <2>2, KeysNext DEF PendingLaw
  <2> QED BY <2>1, <2>3, <2>4
<1>7. setup.autoPaste => Coming' = Coming
  BY <1>3 DEF Coming, Pasting
<1>8. Fine' => Meets'
  BY <1>5, <1>2, <1>3, <1>6, <1>7 DEF QInv, Meets, Caret
<1>9. slips' = {} /\ Cyclic' => slips = {} /\ Cyclic /\ Clean' /\ setup.autoPaste
  BY DEF Cyclic, Clean
<1>10. slips' = {} /\ Cyclic' => Rounds'
  BY <1>9, <1>6, <1>7 DEF QInv, Rounds, Output, Caret
<1> QED BY <1>1, <1>4, <1>8, <1>10 DEF QInv

\* It is still on the clipboard when the paste is posted.
LEMMA SimulatePasteKeeps == QInv /\ SimulatePaste => QInv'
<1> SUFFICES ASSUME QInv, SimulatePaste PROVE QInv'
  OBVIOUS
<1> USE DEF SimulatePaste
<1>1. QTypes'
  <2>1. qc' \in Threads /\ qc'.pc = "reselect" /\ qc'.seq = qc.seq
    BY DEF QInv, QTypes, Thread, Threads, ConvertPlaces
  <2>2. keys' \in Seq({"copy", "left", "paste"})
    BY DEF QInv, QTypes, Board
  <2> QED BY <2>1, <2>2 DEF QInv, QTypes, Page, Board, Thread, User, Service, Pasting, Idle
<1>2. qc'.pc = "reselect"
  BY DEF QInv, QTypes, Thread, Threads
<1>3. Clean => keys \in {<<>>, <<"left">>} /\ keys' = IF keys = <<>> THEN <<"paste">> ELSE <<"left", "paste">>
  <2>1. Clean => keys \in {<<>>, <<"left">>}
    BY DEF QInv, Turns, Pasting
  <2>2. keys = <<>> => keys' = <<"paste">>
    OBVIOUS
  <2>3. keys = <<"left">> => keys' = <<"left", "paste">> /\ keys # <<>>
    BY KeysAppended
  <2> QED BY <2>1, <2>2, <2>3
<1>4. Clean' => (Turns /\ Clips /\ Copies)'
  BY <1>2, <1>3 DEF QInv, Clean, Turns, Clips, Copies, Reading, Pasting, Caret
<1>5. Clean => Pending /\ Pending' /\ (LeftFirst' <=> LeftFirst)
  BY <1>1, <1>2, <1>3, <1>4, KeysNext, KeysAre DEF KeysLaw, Pending, Pasting, Clean
<1>6. Fine => Clean
  BY DEF Fine, Clean, Excused
<1>7. Fine => Coming' = Coming
  BY <1>2 DEF QInv, Meets, Coming, Pasting
<1>8. Fine' => Meets'
  BY <1>2, <1>5, <1>6, <1>7 DEF QInv, Fine, Meets, Caret
<1>9. slips' = {} /\ Cyclic' => slips = {} /\ Cyclic /\ Fine
  BY DEF Cyclic, Fine
<1>10. slips' = {} /\ Cyclic' => Rounds'
  BY <1>9, <1>5, <1>6, <1>7 DEF QInv, Rounds, Output, Caret
<1> QED BY <1>1, <1>4, <1>8, <1>10 DEF QInv

\* The word that is selected again is the one that was pasted.
LEMMA TryReselectKeeps == QInv /\ TryReselect => QInv'
<1> SUFFICES ASSUME QInv, TryReselect PROVE QInv'
  OBVIOUS
<1> USE DEF TryReselect, Flaw
<1> DEFINE anchor == IF qc.recovery THEN cycle.anchor ELSE qc.anchor
<1>1. anchor \in Anchors /\ anchor.start \in Nat
  BY DEF QInv, QTypes, Thread, Threads, Cycles, Anchors
<1>2. setup.kind # "tsf"
  BY DEF QInv, QTypes, Service, Idle
<1> DEFINE Steps == /\ ~anchor.valid /\ keys' = Append(keys, "left") /\ UNCHANGED <<sel, slips>>
           Sets  == /\ anchor.valid /\ Caret /\ keys' = keys
                    /\ sel' = [from |-> Clipped(anchor.start),
                               to   |-> IF sel.to >= anchor.start THEN sel.to ELSE Clipped(anchor.start + 1)]
                    /\ slips' = slips \cup (IF keys # <<>> THEN {"late"} ELSE {})
                                      \cup (IF sel.to # anchor.start + 1 THEN {"astray"} ELSE {})
           Gives == anchor.valid /\ ~Caret /\ UNCHANGED <<sel, keys>> /\ Flaw(TRUE, "late")
<1>3. Steps \/ Sets \/ Gives
  OBVIOUS
<1> HIDE DEF anchor
<1>4. qc' = Idle /\ cycle' \in Cycles /\ UNCHANGED <<setup, doc, cb, inj, mine, round, rest>>
      /\ cycle'.on = cycle.on /\ cycle'.origin = cycle.origin /\ cycle'.index = cycle.index /\ cycle'.last = cycle.last
      /\ cycle'.anchor = cycle.anchor
  BY DEF QInv, QTypes, Thread, Cycles
<1>5. Page' /\ keys' \in Seq({"copy", "left", "paste"})
  <2>1. CASE Steps \/ Gives
    <3>1. keys \in Seq({"copy", "left", "paste"}) /\ sel' = sel
      BY <2>1 DEF QInv, QTypes, Board
    <3>2. Append(keys, "left") \in Seq({"copy", "left", "paste"})
      BY <3>1
    <3> QED BY <2>1, <3>1, <3>2, <1>4 DEF QInv, QTypes, Page
  <2>2. CASE Sets
    <3>1. doc \in Seq(Written) /\ Len(doc) \in Nat /\ sel.to \in Nat /\ sel.to <= Len(doc)
      BY DEF QInv, QTypes, Page
    <3>2. Clipped(anchor.start) \in Nat /\ Clipped(anchor.start + 1) \in Nat /\ Clipped(anchor.start) <= Clipped(anchor.start + 1)
          /\ Clipped(anchor.start + 1) <= Len(doc) /\ Clipped(anchor.start) <= anchor.start
      BY <1>1, <3>1 DEF Clipped
    <3>3. sel'.from = Clipped(anchor.start) /\ sel'.to \in {sel.to, Clipped(anchor.start + 1)} /\ sel' \in [from : Nat, to : Nat]
          /\ sel'.from <= sel'.to
      BY <2>2, <3>1, <3>2, <1>1
    <3> QED BY <2>2, <1>4, <3>1, <3>2, <3>3 DEF QInv, QTypes, Page, Board
  <2> QED BY <1>3, <2>1, <2>2
<1>6. QTypes'
  <2>1. Idle \in Threads /\ Idle.pc = "idle" /\ Idle.seq = 0
    BY TextsAreWritten DEF Idle, NoAnchor, Threads, ConvertPlaces, Anchors
  <2>2. User'
    BY <1>4 DEF QInv, QTypes, User
  <2>3. Thread'
    BY <1>4, <2>1 DEF QInv, QTypes, Thread, Pasting
  <2>4. Board'
    BY <1>4, <1>5, <2>1 DEF QInv, QTypes, Board
  <2> QED BY <1>2, <1>4, <1>5, <2>2, <2>3, <2>4 DEF QTypes, Service
<1>7. Clean' => Clean /\ (Steps \/ (Sets /\ keys = <<>>))
  BY <1>3 DEF Clean, Excused
<1>8. Clean' => /\ keys = <<>> => keys' \in {<<>>, <<"left">>}
                /\ keys = <<"paste">> => Steps /\ keys' = <<"paste", "left">>
                /\ keys = <<"left", "paste">> => Steps /\ keys' = <<"left", "paste", "left">>
                /\ keys \in {<<>>, <<"paste">>, <<"left", "paste">>}
  <2> HAVE Clean'
  <2>1. keys \in {<<>>, <<"paste">>, <<"left", "paste">>}
    BY <1>7 DEF QInv, Turns
  <2>2. keys # <<>> => Steps
    BY <1>7
  <2>3. <<"paste">> # <<>> /\ <<"left", "paste">> # <<>>
    OBVIOUS
  <2>4. keys' \in {keys, Append(keys, "left")} /\ (Steps => keys' = Append(keys, "left"))
    BY <1>7
  <2> HIDE DEF Steps, Sets
  <2> QED BY <2>1, <2>2, <2>3, <2>4, KeysAppended
<1>9. Clean' => (Turns /\ Clips /\ Copies)'
  <2> HAVE Clean'
  <2>1. qc'.pc = "idle"
    BY <1>4 DEF Idle
  <2>2. inj.pc = "idle" /\ ~inj.timer /\ ~inj.has
    BY <1>7 DEF QInv, Turns, QTypes, Thread, Injectors
  <2> QED BY <1>4, <1>7, <1>8, <2>1, <2>2 DEF QInv, Turns, Clips, Copies, Reading, Pasting
<1>10. Clean' => /\ Pending' <=> Pending
                 /\ Pending => Steps /\ Coming' = Coming /\ (LeftFirst' <=> LeftFirst)
  <2> HAVE Clean'
  <2>1. qc'.pc = "idle" /\ qc.pc = "reselect"
    BY <1>4 DEF Idle
  <2>2. Coming' = Coming
    BY <1>4, <2>1 DEF Coming, Pasting
  <2>3. /\ <<"paste", "left">> \notin {<<>>, <<"left">>} /\ <<"left", "paste", "left">> \notin {<<>>, <<"left">>}
        /\ <<"paste">> # <<>> /\ <<"left", "paste">> # <<>>
    OBVIOUS
  <2>4. (Pending <=> keys # <<>>) /\ (Pending' <=> keys' \notin {<<>>, <<"left">>})
    BY <1>6, <1>9, <2>1, <1>7, PendingIs, KeysNext DEF PendingLaw, QInv
  <2> QED BY <1>8, <2>2, <2>3, <2>4, KeysAre, KeysNext DEF KeysLaw
<1>11. Fine' => Fine /\ Clean' /\ (Sets => sel.to = anchor.start + 1)
  BY <1>3 DEF Fine, Clean, Excused
<1>12. Fine' => sel'.to = sel.to /\ sel'.to <= sel'.from + 1
  <2> HAVE Fine'
  <2>1. CASE Steps
    BY <1>11, <2>1 DEF QInv, Meets
  <2>2. CASE Sets
    <3>1. doc \in Seq(Written) /\ Len(doc) \in Nat /\ sel.to \in Nat /\ sel.to <= Len(doc) /\ sel.to = anchor.start + 1
      BY <1>11, <2>2 DEF QInv, QTypes, Page
    <3>2. Clipped(anchor.start) = anchor.start
      BY <1>1, <3>1 DEF Clipped
    <3> QED BY <2>2, <3>1, <3>2, <1>1
  <2> QED BY <1>7, <1>11, <2>1, <2>2
<1>13. Fine' => Meets'
  BY <1>4, <1>10, <1>11, <1>12 DEF QInv, Meets, Caret, Idle
<1>14. slips' = {} /\ Cyclic' => slips = {} /\ Cyclic /\ Clean'
  BY <1>3, <1>4 DEF Cyclic, Clean
<1>15. slips' = {} /\ Cyclic' => Rounds'
  BY <1>14, <1>4, <1>10 DEF QInv, Rounds, Output, Caret
<1> QED BY <1>6, <1>9, <1>13, <1>15 DEF QInv

\* A new configuration ends the cycle.
LEMMA UpdateConfigKeeps == QInv /\ UpdateConfig => QInv'
<1> SUFFICES ASSUME QInv, UpdateConfig PROVE QInv'
  OBVIOUS
<1> USE DEF UpdateConfig, UseUp, Flaw
<1>1. QTypes'
  <2>1. cycle' \in Cycles /\ ~cycle'.on /\ round' \in [place : Nat, text : Texts, n : Nat]
    BY TextsAreWritten DEF NoCycle, Cycles, NoAnchor, Anchors, NoRound
  <2>2. rest' \in [Acts -> Nat]
    BY DEF QInv, QTypes, User, Acts
  <2> QED BY <2>1, <2>2 DEF QInv, QTypes, Page, Board, Thread, User, Service, Pasting
<1>2. (Clean' => Clean) /\ (Fine' => Fine)
  BY DEF Clean, Fine
<1>3. Clean' => (Turns /\ Clips /\ Copies)'
  BY <1>2 DEF QInv, Turns, Clips, Copies, Caret
<1>4. Fine' => Meets'
  BY <1>2 DEF QInv, Meets, Pending, Coming, LeftFirst, Posted, Caret, NoCycle
<1>5. Rounds'
  BY DEF QInv, QTypes, Page, Rounds, NoCycle, NoRound
<1> QED BY <1>1, <1>3, <1>4, <1>5 DEF QInv

\* So does the time.
LEMMA CycleExpiresKeeps == QInv /\ CycleExpires => QInv'
<1> SUFFICES ASSUME QInv, CycleExpires PROVE QInv'
  OBVIOUS
<1> USE DEF CycleExpires
<1>1. QTypes'
  <2>1. cycle' \in Cycles /\ ~cycle'.on /\ round' \in [place : Nat, text : Texts, n : Nat]
    BY TextsAreWritten DEF QInv, QTypes, Thread, Cycles, NoRound
  <2> QED BY <2>1 DEF QInv, QTypes, Page, Board, Thread, User, Service, Pasting
<1>2. ~cycle'.on
  BY DEF QInv, QTypes, Thread, Cycles
<1>3. Clean' => (Turns /\ Clips /\ Copies)'
  BY DEF QInv, Clean, Turns, Clips, Copies, Caret
<1>4. Fine' => Meets'
  BY <1>2 DEF QInv, Fine, Meets, Pending, Coming, LeftFirst, Posted, Caret
<1>5. Rounds'
  BY <1>2 DEF QInv, QTypes, Page, Rounds, NoRound
<1> QED BY <1>1, <1>3, <1>4, <1>5 DEF QInv

\* He goes to another word, or puts the caret elsewhere.
UserGoes == /\ ~InWork /\ UseUp("move") /\ sel' \in [from : Nat, to : Nat] /\ sel'.from <= sel'.to
            /\ sel'.to <= Len(doc) /\ sel'.to <= sel'.from + 1
            /\ UNCHANGED <<setup, doc, cb, keys, qc, cycle, inj, mine, round, slips>>

\* The user goes elsewhere only while nothing is under way.
LEMMA UserGoesKeeps == QInv /\ UserGoes => QInv'
<1> SUFFICES ASSUME QInv, UserGoes PROVE QInv'
  OBVIOUS
<1> USE DEF UserGoes, InWork, UseUp
<1>1. QTypes'
  <2>1. rest' \in [Acts -> Nat]
    BY DEF QInv, QTypes, User, Acts
  <2> QED BY <2>1 DEF QInv, QTypes, Page, Board, Thread, User, Service
<1>2. Clean' => (Turns /\ Clips /\ Copies)'
  BY DEF QInv, Clean, Turns, Clips, Copies, Reading, Pasting
<1>3. ~Pending /\ ~Pending'
  BY KeysAre, KeysNext DEF KeysLaw, Pending, Pasting
<1>4. Fine' => Meets'
  BY <1>3 DEF QInv, Fine, Meets
<1>5. slips' = {} /\ Cyclic' => Rounds'
  BY <1>3 DEF QInv, Cyclic, Rounds, Output
<1> QED BY <1>1, <1>2, <1>4, <1>5 DEF QInv

\* To a word.
LEMMA UserSelectsKeeps == ASSUME NEW i \in 1 .. Len(doc) PROVE QInv /\ UserSelects(i) => QInv'
<1> SUFFICES ASSUME QInv, UserSelects(i) PROVE UserGoes
  BY UserGoesKeeps
<1>1. doc \in Seq(Written) /\ i \in Nat /\ i - 1 \in Nat
  BY DEF QInv, QTypes, Page
<1> QED BY <1>1 DEF UserSelects, UserGoes

\* Or between two.
LEMMA UserMovesKeeps == ASSUME NEW i \in 0 .. Len(doc) PROVE QInv /\ UserMoves(i) => QInv'
<1> SUFFICES ASSUME QInv, UserMoves(i) PROVE UserGoes
  BY UserGoesKeeps
<1>1. doc \in Seq(Written) /\ i \in Nat
  BY DEF QInv, QTypes, Page
<1> QED BY <1>1 DEF UserMoves, UserGoes

\* He copies at any time; the number tells both programs, except in the situations
\* that are set apart.
LEMMA UserCopiesKeeps == QInv /\ UserCopies => QInv'
<1> SUFFICES ASSUME QInv, UserCopies PROVE QInv'
  OBVIOUS
<1> USE DEF UserCopies, UseUp, Put
<1>1. cb' = [text |-> Unconverted("v"), seq |-> cb.seq + 1] /\ mine' = Unconverted("v") /\ Unconverted("v") \in Written
  BY TextsAreWritten
<1>2. QTypes'
  <2>1. rest' \in [Acts -> Nat]
    BY DEF QInv, QTypes, User, Acts
  <2>2. cb' \in [text : Texts, seq : Nat] /\ cb.seq <= cb'.seq
    BY <1>1 DEF QInv, QTypes, Board, Texts
  <2> QED BY <1>1, <2>1, <2>2 DEF QInv, QTypes, Page, Board, Thread, User, Service, Threads, Injectors
<1>3. Clean' => /\ Clean /\ qc.pc \notin {"seq", "copy", "wait", "read", "putback"} /\ inj.pc = "idle"
  BY DEF Clean, Excused
<1>4. Clean' => (Turns /\ Clips /\ Copies)'
  <2> HAVE Clean'
  <2>1. qc' = qc /\ inj' = inj /\ keys' = keys /\ cb'.text = mine' /\ cb'.seq = cb.seq + 1
    BY <1>1
  <2>2. cb'.seq # qc'.seq /\ cb'.seq # inj'.seq
    BY <2>1 DEF QInv, QTypes, Board, Thread, Threads, Injectors
  <2>3. Turns'
    BY <1>3 DEF QInv, Turns, Caret
  <2>4. Clips'
    BY <1>3, <2>1, <2>2 DEF QInv, Clips
  <2>5. Copies'
    BY <1>3 DEF QInv, Copies, Caret
  <2> QED BY <2>3, <2>4, <2>5
<1>5. Fine' => Fine /\ Clean' /\ ~Posted("paste") /\ qc.pc \notin Pasting
  BY DEF Fine, Clean, Excused, Pasting
<1>6. Fine' => ~Pending /\ ~Pending'
  BY <1>5 DEF Pending, Posted
<1>7. Fine' => Meets'
  BY <1>5, <1>6 DEF QInv, Meets, Pasting
<1>8. slips' = {} /\ Cyclic' => slips = {} /\ Cyclic /\ Fine'
  BY DEF Cyclic, Fine
<1>9. slips' = {} /\ Cyclic' => Rounds'
  BY <1>6, <1>8 DEF QInv, Rounds, Output
<1> QED BY <1>2, <1>4, <1>7, <1>9 DEF QInv

\* A word that is typed by pasting captures the user's clipboard, or has it already.
LEMMA InjectKeeps == QInv /\ Inject => QInv'
<1> SUFFICES ASSUME QInv, Inject PROVE QInv'
  OBVIOUS
<1> USE DEF Inject, UseUp, Flaw
<1>1. QTypes'
  <2>1. rest' \in [Acts -> Nat]
    <3>1. rest \in [Acts -> Nat] /\ "miss" \in Acts /\ "inject" \in Acts
      BY DEF QInv, QTypes, User, Acts
    <3>2. rest.inject > 0 => rest.inject - 1 \in Nat
      BY <3>1
    <3>3. rest.miss > 0 => rest.miss - 1 \in Nat
      BY <3>1
    <3>4. \A m, n \in Nat : [rest EXCEPT !.miss = m, !.inject = n] \in [Acts -> Nat] /\ [rest EXCEPT !.inject = n] \in [Acts -> Nat]
      BY <3>1
    <3>5. \/ rest.inject > 0 /\ rest' = [rest EXCEPT !.inject = rest.inject - 1]
          \/ rest.miss > 0 /\ rest.inject > 0 /\ rest' = [rest EXCEPT !.miss = rest.miss - 1, !.inject = rest.inject - 1]
      OBVIOUS
    <3> QED BY <3>1, <3>2, <3>3, <3>4, <3>5
  <2>2. inj' \in Injectors /\ inj'.seq = inj.seq
    <3>1. inj \in Injectors /\ cb.text \in Texts /\ NoText \in Texts
      BY TextsAreWritten DEF QInv, QTypes, Thread, Board
    <3>2. \A t \in Texts : LET i == [inj EXCEPT !.pc = "write", !.timer = FALSE, !.has = TRUE, !.orig = t]
                           IN  i \in Injectors /\ i.seq = inj.seq
      BY <3>1 DEF Injectors
    <3>3. LET i == [inj EXCEPT !.pc = "write", !.timer = FALSE] IN i \in Injectors /\ i.seq = inj.seq
      BY <3>1 DEF Injectors
    <3>4. \/ \E t \in {cb.text, NoText} : inj' = [inj EXCEPT !.pc = "write", !.timer = FALSE, !.has = TRUE, !.orig = t]
          \/ inj' = [inj EXCEPT !.pc = "write", !.timer = FALSE]
      OBVIOUS
    <3> QED BY <3>1, <3>2, <3>3, <3>4
  <2> QED BY <2>1, <2>2 DEF QInv, QTypes, Page, Board, Thread, User, Service
<1>2. Clean' => /\ Clean /\ ~InWork
                /\ inj' = IF Capture THEN [inj EXCEPT !.pc = "write", !.timer = FALSE, !.has = TRUE, !.orig = cb.text]
                          ELSE [inj EXCEPT !.pc = "write", !.timer = FALSE]
  BY DEF Clean, Excused
<1>3. Clean' => (Turns /\ Clips /\ Copies)'
  <2> HAVE Clean'
  <2>1. /\ inj'.pc = "write" /\ inj'.has /\ ~inj'.timer
        /\ inj'.orig = IF Capture THEN cb.text ELSE inj.orig
    BY <1>2 DEF QInv, QTypes, Thread, Injectors, Capture
  <2>2. inj'.orig = mine
    BY <1>2, <2>1 DEF QInv, Clips, Capture, InWork
  <2> QED BY <1>2, <2>1, <2>2 DEF QInv, Turns, Clips, Copies, Caret, InWork, Reading, Pasting
<1>4. Fine' => Fine
  BY DEF Fine
<1>5. Fine' => Meets'
  BY <1>4 DEF QInv, Meets, Caret, Pending, Coming, LeftFirst, Posted
<1>6. slips' = {} => slips = {} /\ ~cycle.on
  OBVIOUS
<1>7. slips' = {} /\ Cyclic' => Rounds'
  BY <1>6 DEF QInv, Cyclic, Rounds
<1> QED BY <1>1, <1>3, <1>5, <1>7 DEF QInv

\* It is on the clipboard then, over a caret.
LEMMA InjectWriteKeeps == QInv /\ InjectWrite => QInv'
<1> SUFFICES ASSUME QInv, InjectWrite PROVE QInv'
  OBVIOUS
<1> USE DEF InjectWrite, Works, Missed, UseUp, Flaw, Put
<1>1. QTypes'
  <2>1. rest' \in [Acts -> Nat]
    BY DEF QInv, QTypes, User, Acts
  <2>2. inj' \in Injectors /\ inj'.seq = inj.seq
    BY DEF QInv, QTypes, Thread, Board, Injectors
  <2>3. cb' \in [text : Texts, seq : Nat] /\ cb.seq <= cb'.seq
    BY TextsAreWritten DEF QInv, QTypes, Board, Texts
  <2> QED BY <2>1, <2>2, <2>3 DEF QInv, QTypes, Page, Board, Thread, User, Service, Threads, Injectors, NoInj
<1>2. Clean' => Clean /\ inj' = [inj EXCEPT !.pc = "send"]
  BY DEF Clean, Excused
<1>3. Clean' => (Turns /\ Clips /\ Copies)'
  <2> HAVE Clean'
  <2>1. inj'.pc = "send" /\ inj'.has = inj.has /\ inj'.orig = inj.orig /\ inj'.timer = inj.timer
    BY <1>2 DEF QInv, QTypes, Thread, Injectors
  <2> QED BY <1>2, <2>1 DEF QInv, Turns, Clips, Copies, Caret, Reading, Pasting
<1>4. Fine' => Fine /\ Clean'
  BY DEF Fine, Clean, Excused
<1>5. Clean' => ~Pending /\ ~Pending' /\ inj.has /\ inj'.has = inj.has /\ qc.pc = "idle"
  BY <1>2, KeysAre, KeysNext DEF QInv, QTypes, Thread, Injectors, Turns, KeysLaw, Pending, Pasting
<1>6. Fine' => Meets'
  BY <1>4, <1>5 DEF QInv, Meets
<1>7. slips' = {} /\ Cyclic' => slips = {} /\ Cyclic /\ Clean'
  BY DEF Cyclic, Clean
<1>8. slips' = {} /\ Cyclic' => Rounds'
  BY <1>5, <1>7 DEF QInv, Rounds, Output
<1> QED BY <1>1, <1>3, <1>6, <1>8 DEF QInv

\* The number that is kept is that of the word's own write.
LEMMA InjectSendKeeps == QInv /\ InjectSend => QInv'
<1> SUFFICES ASSUME QInv, InjectSend PROVE QInv'
  OBVIOUS
<1> USE DEF InjectSend, Flaw
<1>1. QTypes'
  <2>1. inj' \in Injectors /\ inj'.seq <= cb.seq
    <3>1. inj \in Injectors /\ cb.seq \in Nat /\ inj.seq \in Nat /\ inj.seq <= cb.seq /\ cb.seq <= cb.seq
      BY DEF QInv, QTypes, Thread, Board, Injectors
    <3>2. \A n \in Nat : LET i == [inj EXCEPT !.pc = "idle", !.seq = n, !.timer = TRUE]
                         IN  i \in Injectors /\ i.seq = n
      BY <3>1 DEF Injectors
    <3>3. \E n \in {cb.seq, inj.seq} : inj' = [inj EXCEPT !.pc = "idle", !.seq = n, !.timer = TRUE]
      OBVIOUS
    <3> QED BY <3>1, <3>2, <3>3
  <2>2. keys' \in Seq({"copy", "left", "paste"})
    BY DEF QInv, QTypes, Board
  <2> QED BY <2>1, <2>2 DEF QInv, QTypes, Page, Board, Thread, User, Service, NoInj
<1>2. Clean' => Clean /\ cb.text = Typed
  BY DEF Clean, Excused
<1>3. Clean' => inj.pc = "send" /\ inj.has /\ keys = <<>> /\ Caret /\ qc.pc = "idle" /\ keys' = <<"paste">> /\ inj.orig = mine
  BY <1>2, KeysAppended DEF QInv, Turns, Clips
<1>4. Clean' => (Turns /\ Clips /\ Copies)'
  <2> HAVE Clean'
  <2>1. inj'.pc = "idle" /\ inj'.has /\ inj'.orig = mine /\ inj'.timer /\ inj'.seq = cb.seq
    BY <1>3 DEF QInv, QTypes, Thread, Injectors
  <2> QED BY <1>2, <1>3, <2>1 DEF QInv, Turns, Clips, Copies, Caret, Reading, Pasting
<1>5. Fine' => Fine /\ Clean'
  BY DEF Fine, Clean, Excused
<1>6. Clean' => ~Pending /\ ~LeftFirst'
  BY <1>2, <1>3, KeysAre, KeysNext DEF KeysLaw, Pending, Pasting
<1>7. Clean' => Coming' # NoText
  BY <1>2, <1>3, TextsAreWritten DEF Coming, Pasting
<1>8. Fine' => Meets'
  BY <1>3, <1>5, <1>6, <1>7 DEF QInv, Meets, Caret
<1>9. slips' = {} /\ Cyclic' => slips = {} /\ Cyclic /\ Clean'
  BY DEF Cyclic, Clean
<1>10. slips' = {} /\ Cyclic' => Rounds'
  BY <1>3, <1>9 DEF QInv, Rounds
<1> QED BY <1>1, <1>4, <1>8, <1>10 DEF QInv

\* The captured clipboard goes back unless the user has copied since.
LEMMA TimerKeeps == QInv /\ RestoreTimerProc => QInv'
<1> SUFFICES ASSUME QInv, RestoreTimerProc PROVE QInv'
  OBVIOUS
<1> USE DEF RestoreTimerProc, Works, Missed, UseUp, Flaw, Put
<1>1. QTypes'
  <2>1. rest' \in [Acts -> Nat]
    BY DEF QInv, QTypes, User, Acts
  <2>2. inj' \in Injectors /\ inj'.seq = inj.seq
    BY TextsAreWritten DEF QInv, QTypes, Thread, Board, Injectors, NoInj
  <2>3. cb' \in [text : Texts, seq : Nat] /\ cb.seq <= cb'.seq
    BY DEF QInv, QTypes, Board, Thread, Injectors
  <2> QED BY <2>1, <2>2, <2>3 DEF QInv, QTypes, Page, Board, Thread, User, Service, Threads, Injectors, NoInj
<1>2. Clean' => /\ Clean /\ ~Posted("paste")
                /\ cb' = IF cb.seq = inj.seq THEN [text |-> inj.orig, seq |-> cb.seq + 1] ELSE cb
  BY DEF Clean, Excused
<1>3. ~inj'.has /\ inj'.pc = "idle" /\ ~inj'.timer
  BY DEF NoInj
<1>4. Clean' => (Turns /\ Clips /\ Copies)'
  <2> HAVE Clean'
  <2>1. qc.pc = "idle" /\ inj.has
    BY <1>2 DEF QInv, Turns
  <2>2. cb'.text = mine
    BY <1>2, <2>1 DEF QInv, Clips
  <2> QED BY <1>2, <1>3, <2>1, <2>2 DEF QInv, Turns, Clips, Copies, Caret, Reading, Pasting
<1>5. Fine' => Fine /\ Clean'
  BY DEF Fine, Clean, Excused
<1>6. Clean' => ~Pending /\ ~Pending' /\ qc.pc = "idle" /\ inj.has
  BY <1>2 DEF QInv, Turns, Pending, Pasting, Posted
<1>7. Fine' => Meets'
  BY <1>5, <1>6 DEF QInv, Meets
<1>8. slips' = {} /\ Cyclic' => slips = {} /\ Cyclic /\ Clean'
  BY DEF Cyclic, Clean
<1>9. slips' = {} /\ Cyclic' => Rounds'
  BY <1>6, <1>8 DEF QInv, Rounds
<1> QED BY <1>1, <1>4, <1>7, <1>9 DEF QInv

\* The application takes the first key: what is left of the keys.
LEMMA FirstKeyIs ==
  ASSUME QInv, Clean, keys # <<>>
  PROVE  /\ Head(keys) = "copy"  => qc.pc = "wait" /\ keys = <<"copy">> /\ Tail(keys) = <<>>
         /\ Head(keys) = "paste" => \/ qc.pc \in {"reselect", "idle"} /\ keys = <<"paste">> /\ Tail(keys) = <<>>
                                    \/ qc.pc = "idle" /\ keys = <<"paste", "left">> /\ Tail(keys) = <<"left">>
         /\ Head(keys) = "left"  => \/ qc.pc \in Pasting \cup {"restore", "putback", "idle"} /\ keys = <<"left">> /\ Tail(keys) = <<>>
                                    \/ qc.pc \in {"reselect", "idle"} /\ keys = <<"left", "paste">> /\ Tail(keys) = <<"paste">>
                                    \/ qc.pc = "idle" /\ keys = <<"left", "paste", "left">> /\ Tail(keys) = <<"paste", "left">>
         /\ Head(keys) \in {"copy", "paste", "left"}
<1>1. /\ Head(<<"copy">>) = "copy" /\ Head(<<"left">>) = "left" /\ Head(<<"paste">>) = "paste"
      /\ Head(<<"left", "paste">>) = "left" /\ Head(<<"paste", "left">>) = "paste"
      /\ Head(<<"left", "paste", "left">>) = "left"
  OBVIOUS
<1>2. qc.pc \in ConvertPlaces
  BY DEF QInv, QTypes, Thread, Threads
<1>3. Turns
  BY DEF QInv
<1> HIDE DEF QInv
<1>4. CASE qc.pc = "wait"
  BY <1>1, <1>3, <1>4, KeysAppended DEF Turns
<1>5. CASE qc.pc \in Pasting \cup {"restore", "putback"}
  BY <1>1, <1>3, <1>5, KeysAppended DEF Turns, Pasting
<1>6. CASE qc.pc = "reselect"
  BY <1>1, <1>3, <1>6, KeysAppended DEF Turns, Pasting
<1>7. CASE qc.pc = "idle"
  BY <1>1, <1>3, <1>7, KeysAppended DEF Turns, Pasting
<1>8. CASE qc.pc \in Reading \ {"wait"}
  BY <1>3, <1>8 DEF Turns
<1> QED BY <1>2, <1>4, <1>5, <1>6, <1>7, <1>8 DEF ConvertPlaces

\* What an application does to the page keeps its type.
LEMMA AppKeepsTypes == QInv /\ AppHandles => QTypes'
<1> SUFFICES ASSUME QInv, AppHandles PROVE QTypes'
  OBVIOUS
<1> USE DEF AppHandles, Put
<1>1. keys \in Seq({"copy", "left", "paste"}) /\ Tail(keys) \in Seq({"copy", "left", "paste"})
  BY HeadTailProperties DEF QInv, QTypes, Board
<1>2. setup.kind # "tsf"
  BY DEF QInv, QTypes, Service
<1>3. doc \in Seq(Written) /\ Len(doc) \in Nat /\ sel.from \in Nat /\ sel.to \in Nat /\ sel.from <= sel.to /\ sel.to <= Len(doc)
  BY DEF QInv, QTypes, Page
<1>4. CASE Head(keys) = "copy"
  <2>1. ~Caret => doc[sel.to] \in Written
    BY <1>3, ElementOfSeq DEF Caret
  <2>2. cb' \in [text : Texts, seq : Nat] /\ cb.seq <= cb'.seq
    <3>1. cb \in [text : Texts, seq : Nat] /\ cb.seq + 1 \in Nat /\ cb.seq <= cb.seq + 1
      BY DEF QInv, QTypes, Board
    <3>2. CASE Caret
      BY <1>4, <3>1, <3>2
    <3>3. CASE ~Caret
      <4>1. cb' = [text |-> doc[sel.to], seq |-> cb.seq + 1]
        BY <1>4, <3>3
      <4> QED BY <2>1, <3>1, <3>3, <4>1 DEF Texts
    <3> QED BY <3>2, <3>3
  <2>3. UNCHANGED <<setup, doc, sel, qc, cycle, inj, mine, round, rest>> /\ keys' = Tail(keys)
    BY <1>4
  <2>4. Page' /\ Thread' /\ User' /\ Service'
    BY <1>2, <2>3 DEF QInv, QTypes, Page, Thread, User, Service
  <2>5. Board'
    <3>1. qc.seq \in Nat /\ inj.seq \in Nat /\ cb.seq \in Nat /\ qc.seq <= cb.seq /\ inj.seq <= cb.seq
      BY DEF QInv, QTypes, Board, Thread, Threads, Injectors
    <3> QED BY <1>1, <2>2, <2>3, <3>1 DEF Board
  <2> QED BY <2>4, <2>5 DEF QTypes
<1>5. CASE Head(keys) = "paste"
  <2>1. CASE cb.text = NoText
    BY <1>1, <1>2, <1>5, <2>1 DEF QInv, QTypes, Page, Board, Thread, User, Service
  <2>2. CASE cb.text # NoText
    <3>1. cb.text \in Written
      BY <2>2, TextsAreWritten DEF QInv, QTypes, Board
    <3>2. Pasted(cb.text) \in Seq(Written) /\ Len(Pasted(cb.text)) = sel.from + 1 + (Len(doc) - sel.to)
      <4>1. ReplacedLaw(doc, sel.from, sel.to, cb.text)
        BY <1>3, <3>1, ReplacedIs
      <4> QED BY <4>1, PastedIs DEF ReplacedLaw
    <3>3. doc' = Pasted(cb.text) /\ sel' = [from |-> sel.from + 1, to |-> sel.from + 1] /\ cb' = cb
      BY <1>5, <2>2
    <3>4. Page'
      BY <1>3, <3>2, <3>3 DEF Page
    <3> QED BY <1>1, <1>2, <3>3, <3>4 DEF QInv, QTypes, Board, Thread, User, Service
  <2> QED BY <2>1, <2>2
<1>6. CASE Head(keys) \notin {"copy", "paste"}
  <2>1. sel' \in [from : Nat, to : Nat] /\ sel'.from <= sel'.to /\ sel'.to = sel.to
    BY <1>3, <1>6 DEF QInv, QTypes, Page, Caret
  <2> QED BY <1>1, <1>2, <1>3, <1>6, <2>1 DEF QInv, QTypes, Page, Board, Thread, User, Service
<1> QED BY <1>4, <1>5, <1>6

\* Every word of the document is still in d.
WordsIn(d) == \A i \in 1 .. Len(Words) : \E j \in 1 .. Len(d) : d[j].w = Words[i]

\* A paste over a caret or over a word with its own letters keeps every word.
LEMMA WordsStay ==
  ASSUME NEW d \in Seq(Written), NEW t \in Written, NEW a \in Nat, NEW b \in Nat, a <= b, b <= a + 1, b <= Len(d),
         a # b => d[b].w = t.w,
         WordsIn(d)
  PROVE  WordsIn(Replaced(d, a, b, t))
<1> DEFINE p == Replaced(d, a, b, t)
<1>1. /\ p \in Seq(Written) /\ Len(p) = a + 1 + (Len(d) - b)
      /\ \A i \in 1 .. a : p[i] = d[i]
      /\ p[a + 1] = t
      /\ \A i \in b + 1 .. Len(d) : p[a + 1 + (i - b)] = d[i]
  <2>1. ReplacedLaw(d, a, b, t)
    BY ReplacedIs
  <2> QED BY <2>1 DEF ReplacedLaw
<1> HIDE DEF p
<1>2. ASSUME NEW i \in 1 .. Len(Words) PROVE \E j \in 1 .. Len(p) : p[j].w = Words[i]
  <2>1. PICK k \in 1 .. Len(d) : d[k].w = Words[i]
    BY DEF WordsIn
  <2>2. Len(d) \in Nat /\ k \in Nat
    OBVIOUS
  <2>3. CASE k <= a
    <3>1. k \in 1 .. Len(p) /\ p[k] = d[k]
      BY <1>1, <2>2, <2>3
    <3> QED BY <2>1, <3>1
  <2>4. CASE k > b
    <3>2. k \in b + 1 .. Len(d)
      BY <2>2, <2>4
    <3>1. a + 1 + (k - b) \in 1 .. Len(p) /\ p[a + 1 + (k - b)] = d[k]
      BY <1>1, <2>2, <3>2
    <3> QED BY <2>1, <3>1
  <2>5. CASE k > a /\ k <= b
    <3>1. k = b /\ a # b
      BY <2>2, <2>5
    <3>2. a + 1 \in 1 .. Len(p) /\ p[a + 1].w = Words[i]
      BY <1>1, <2>1, <2>2, <3>1
    <3> QED BY <3>2
  <2> QED BY <2>2, <2>3, <2>4, <2>5
<1> QED BY <1>2 DEF p, WordsIn

\* A copy answers the thread, a paste replaces the same word or nothing, and the key
\* to the left selects what was pasted.
LEMMA AppHandlesKeeps == QInv /\ AppHandles => QInv'
<1> SUFFICES ASSUME QInv, AppHandles PROVE QInv'
  OBVIOUS
<1>1. QTypes'
  BY AppKeepsTypes
<1>2. /\ keys # <<>> /\ keys' = Tail(keys) /\ UNCHANGED <<setup, qc, cycle, inj, mine, round, rest, slips>>
  BY DEF AppHandles
<1>3. doc \in Seq(Written) /\ Len(doc) \in Nat /\ sel.from \in Nat /\ sel.to \in Nat /\ sel.from <= sel.to /\ sel.to <= Len(doc)
  BY DEF QInv, QTypes, Page
<1>4. (Clean' <=> Clean) /\ (Fine' <=> Fine) /\ (Cyclic' <=> Cyclic) /\ (Fine => Clean) /\ (slips = {} => Fine)
  BY <1>2 DEF Clean, Fine, Cyclic, Excused
<1>5. CASE ~Clean
  BY <1>1, <1>2, <1>4, <1>5 DEF QInv
<1>6. CASE Clean /\ Head(keys) = "copy"
  <2>1. qc.pc = "wait" /\ keys = <<"copy">> /\ keys' = <<>>
    BY <1>2, <1>6, FirstKeyIs
  <2>2. (Caret => cb' = cb) /\ (~Caret => cb' = [text |-> doc[sel.to], seq |-> cb.seq + 1]) /\ UNCHANGED <<doc, sel>>
    BY <1>6 DEF AppHandles, Put
  <2>3. ~Caret => doc[sel.to] \in Written /\ doc[sel.to] # NoText
    BY <1>3, ElementOfSeq, TextsAreWritten DEF Caret
  <2>4. Turns' /\ Clips' /\ Copies'
    <3>1. keys # <<>>
      BY <1>2
    <3> QED BY <1>2, <1>6, <2>1, <2>2, <2>3, <3>1 DEF QInv, Turns, Clips, Copies, Caret, Reading, Pasting
  <2>5. ~Pending /\ ~Pending'
    BY <1>1, <1>2, <1>6, <2>1, <2>4, PendingIs, KeysNext DEF PendingLaw, QInv, Reading
  <2>6. Fine => Meets'
    BY <1>2, <2>1, <2>2, <2>5 DEF QInv, Meets
  <2>7. slips = {} /\ Cyclic => Rounds'
    BY <1>2, <2>2, <2>5 DEF QInv, Rounds, Output
  <2> QED BY <1>1, <1>4, <1>2, <2>4, <2>6, <2>7 DEF QInv
<1>7. CASE Clean /\ Head(keys) = "paste"
  <2>1. \/ qc.pc \in {"reselect", "idle"} /\ keys = <<"paste">> /\ keys' = <<>>
        \/ qc.pc = "idle" /\ keys = <<"paste", "left">> /\ keys' = <<"left">>
    BY <1>2, <1>7, FirstKeyIs
  <2>2. /\ cb' = cb
        /\ cb.text = NoText => UNCHANGED <<doc, sel>>
        /\ cb.text # NoText => doc' = Pasted(cb.text) /\ sel' = [from |-> sel.from + 1, to |-> sel.from + 1]
    BY <1>7 DEF AppHandles
  <2>3. inj.pc = "idle"
    BY <1>2, <1>7 DEF QInv, Turns
  <2>4. Turns' /\ Clips' /\ Copies'
    BY <1>2, <1>7, <2>1, <2>2, <2>3 DEF QInv, Turns, Clips, Copies, Reading, Pasting
  <2>5. ~Pending' /\ Pending /\ ~LeftFirst /\ Coming = cb.text
    BY <1>1, <1>2, <1>7, <2>1, <2>4, KeysAre, KeysNext DEF PendingLaw, KeysLaw, QInv, Reading, Pending, Pasting, Coming
  <2>6. Fine => Meets' /\ cb.text # NoText
    <3> HAVE Fine
    <3>1. cb.text # NoText /\ (sel.from # sel.to => doc[sel.to].w = cb.text.w) /\ sel.to <= sel.from + 1
      BY <2>5 DEF QInv, Meets, Caret
    <3>2. cb.text \in Written
      BY <3>1, TextsAreWritten DEF QInv, QTypes, Board
    <3>3. WordsIn(doc)
      BY DEF QInv, Meets, WordsIn
    <3>8. WordsIn(Replaced(doc, sel.from, sel.to, cb.text))
      BY <1>3, <3>1, <3>2, <3>3, WordsStay
    <3>4. WordsIn(doc')
      BY <2>2, <3>1, <3>8, PastedIs
    <3>5. sel'.to <= sel'.from + 1
      BY <1>3, <2>2, <3>1
    <3>6. qc.pc # "paste" /\ (cycle.on => cycle.last.w = cycle.origin.w)
      BY <2>1 DEF QInv, Meets
    <3>7. Meets'
      BY <1>2, <2>5, <3>4, <3>5, <3>6 DEF Meets, WordsIn
    <3> QED BY <3>1, <3>7
  <2>7. slips = {} /\ Cyclic => Rounds'
    <3> HAVE slips = {} /\ Cyclic
    <3>1. Rounds /\ cb.text # NoText
      BY <1>4, <2>6 DEF QInv
    <3>2. CASE ~cycle.on
      <4>1. round.place = 0
        BY <3>1, <3>2 DEF Rounds, QInv, QTypes, User
      <4> QED BY <1>1, <1>2, <3>2, <4>1 DEF Rounds, QTypes, Page
    <3>3. CASE cycle.on
      <4>1. cb.text = cycle.last /\ sel.to = round.place /\ ~Caret /\ round.place <= Len(doc)
        BY <2>5, <3>1, <3>3 DEF Rounds
      <4>2. sel.to = sel.from + 1
        BY <1>3, <1>4, <4>1 DEF QInv, Meets, Caret
      <4>3. cb.text \in Written
        BY <3>1, TextsAreWritten DEF QInv, QTypes, Board
      <4>4. Len(Pasted(cb.text)) = sel.from + 1 + (Len(doc) - sel.to) /\ Pasted(cb.text)[sel.from + 1] = cb.text
        <5>1. ReplacedLaw(doc, sel.from, sel.to, cb.text)
          BY <1>3, <4>3, ReplacedIs
        <5> QED BY <5>1, PastedIs DEF ReplacedLaw
      <4>5. Len(doc') = Len(doc) /\ doc'[round.place] = cycle.last
        BY <1>3, <2>2, <3>1, <4>1, <4>2, <4>4
      <4> QED BY <1>2, <2>2, <2>5, <3>1, <3>3, <4>1, <4>5 DEF Rounds, Output
    <3> QED BY <3>2, <3>3
  <2> QED BY <1>1, <1>4, <1>2, <2>4, <2>6, <2>7 DEF QInv
<1>8. CASE Clean /\ Head(keys) = "left"
  <2>1. \/ qc.pc \in Pasting \cup {"restore", "putback", "idle"} /\ keys = <<"left">> /\ keys' = <<>>
        \/ qc.pc \in {"reselect", "idle"} /\ keys = <<"left", "paste">> /\ keys' = <<"paste">>
        \/ qc.pc = "idle" /\ keys = <<"left", "paste", "left">> /\ keys' = <<"paste", "left">>
    BY <1>2, <1>8, FirstKeyIs
  <2>2. UNCHANGED <<doc, cb>> /\ sel' = IF Caret /\ sel.to > 0 THEN [sel EXCEPT !.from = @ - 1] ELSE sel
    BY <1>8 DEF AppHandles
  <2>3. inj.pc = "idle"
    BY <1>2, <1>8 DEF QInv, Turns
  <2>4. Turns' /\ Clips' /\ Copies'
    BY <1>2, <1>8, <2>1, <2>2, <2>3 DEF QInv, Turns, Clips, Copies, Reading, Pasting
  <2>5. LeftFirst /\ ~LeftFirst' /\ (Pending' <=> Pending) /\ Coming' = Coming
    <3>1. LeftFirst /\ ~LeftFirst' /\ (Posted("paste")' <=> Posted("paste"))
      BY <2>1, KeysAre, KeysNext DEF KeysLaw
    <3> QED BY <1>2, <2>2, <3>1 DEF Pending, Coming
  <2>6. sel'.to = sel.to /\ sel'.from = IF Caret /\ sel.to > 0 THEN sel.from - 1 ELSE sel.from
    BY <2>2 DEF QInv, QTypes, Page
  <2>7. Fine => Meets'
    BY <1>2, <1>3, <2>2, <2>5, <2>6 DEF QInv, Meets, Caret
  <2>8. slips = {} /\ Cyclic => Rounds'
    BY <1>2, <1>3, <1>4, <2>2, <2>5, <2>6 DEF QInv, Meets, Rounds, Output, Caret
  <2> QED BY <1>1, <1>4, <1>2, <2>4, <2>7, <2>8 DEF QInv
<1> QED BY <1>2, <1>5, <1>6, <1>7, <1>8, FirstKeyIs

\* The recovery and the cycle go on only with the text that the user sees; a text
\* that is not the cycle's begins a new one.  (IsNewSelection, IsStillInCycle)
LEMMA DecideKeeps == QInv /\ Decide => QInv'
<1> SUFFICES ASSUME QInv, Decide PROVE QInv'
  OBVIOUS
<1> DEFINE recovery == qc.text = NoText /\ Cyclic /\ IsStillInCycle
           text   == IF qc.text # NoText \/ recovery THEN qc.text ELSE qc.saved
           new    == ~recovery /\ IsNewSelection(text)
           index  == IF new THEN 1 ELSE NextIndex(cycle.index)
           from   == IF new THEN text ELSE cycle.origin
           result == IF Cyclic THEN Output(from, index) ELSE ApplyQuickConvertOption(text, 1)
           place  == IF Caret /\ ~recovery THEN sel.to + 1 ELSE sel.to
           stops  == (text = NoText /\ ~recovery) \/ setup.options = 0
           moved  == recovery /\ cycle.on /\ (sel.to = 0 \/ doc[sel.to] # cycle.last)
           fallback == qc.text = NoText /\ ~recovery
           twin   == ~new /\ Cyclic /\ place # round.place
\* what the action does
<1>1. /\ qc.pc = "decide" /\ UNCHANGED <<setup, doc, sel, cb, inj, mine, rest>>
      /\ keys' = IF recovery THEN Append(keys, "left") ELSE keys
      /\ slips' = slips \cup (IF moved THEN {"moved"} ELSE {}) \cup (IF fallback THEN {"fallback"} ELSE {})
                        \cup (IF twin THEN {"twin"} ELSE {})
      /\ stops => qc' = [qc EXCEPT !.pc = "restore"] /\ UNCHANGED <<cycle, round>>
      /\ ~stops => /\ qc' = [qc EXCEPT !.pc = IF result = text THEN "restore" ELSE "write",
                                       !.result = result, !.recovery = recovery]
                   /\ round' = Counted(text, place)
                   /\ cycle' = IF ~Cyclic THEN cycle
                               ELSE [cycle EXCEPT !.on = TRUE, !.origin = from, !.index = index, !.last = result,
                                                  !.anchor = IF new THEN qc.anchor ELSE @]
  BY DEF Decide
\* the values it computes
<1>2. doc \in Seq(Written) /\ Len(doc) \in Nat /\ sel.from \in Nat /\ sel.to \in Nat /\ sel.from <= sel.to /\ sel.to <= Len(doc)
  BY DEF QInv, QTypes, Page
<1>3. qc \in Threads /\ cycle \in Cycles /\ setup.options \in Nat /\ cycle.index \in Nat /\ qc.anchor \in Anchors
  BY SetupsAssumption DEF QInv, QTypes, Thread, User, Threads, Cycles
<1>4. (recovery => cycle.on /\ Cyclic /\ qc.text = NoText) /\ (~new => cycle.on)
      /\ (~new /\ ~recovery => text \in {cycle.origin, cycle.last})
  BY DEF IsStillInCycle, IsNewSelection
<1>5. text \in Texts /\ (~stops /\ ~recovery => text \in Written)
  BY <1>3, TextsAreWritten DEF Threads
<1>6. index \in Nat
  <2>1. NextLaw(cycle.index + 1, setup.options)
    BY <1>3, NextModulo
  <2> QED BY <2>1 DEF NextLaw, NextIndex
<1>7. recovery \in BOOLEAN /\ new \in BOOLEAN /\ (new => ~recovery)
  OBVIOUS
<1>8. ~stops => from \in Written
  BY <1>4, <1>5, <1>7 DEF QInv, QTypes, Thread
<1>9. ~stops => result \in Written /\ (Cyclic => result.w = from.w) /\ (~Cyclic => result.w = text.w)
  <2> HAVE ~stops
  <2>1. Output(from, index) \in Written /\ Output(from, index).w = from.w
    BY <1>6, <1>8, ConversionKeepsWord
  <2>2. CASE Cyclic
    BY <2>1, <2>2
  <2>3. CASE ~Cyclic
    <3>1. text \in Written
      BY <1>4, <1>5, <2>3
    <3>2. ApplyQuickConvertOption(text, 1) \in Written /\ ApplyQuickConvertOption(text, 1).w = text.w
      BY <3>1, ConversionKeepsWord
    <3> QED BY <2>3, <3>2
  <2> QED BY <2>2, <2>3
<1>10. Cyclic => result = Output(from, index)
  OBVIOUS
<1>11. (new => index = 1 /\ from = text) /\ (~new => index = NextIndex(cycle.index) /\ from = cycle.origin)
  OBVIOUS
<1>12. /\ recovery => text = NoText /\ place = sel.to
       /\ ~recovery /\ qc.text # NoText => text = qc.text
       /\ ~Caret => place = sel.to
       /\ (recovery <=> qc.text = NoText /\ Cyclic /\ IsStillInCycle)
       /\ (new => ~cycle.on \/ text \notin {cycle.origin, cycle.last}
                  \/ (qc.anchor.valid /\ cycle.anchor.valid /\ qc.anchor.start # cycle.anchor.start))
       /\ place \in Nat
  BY <1>2 DEF IsNewSelection
<1>13. (moved <=> recovery /\ cycle.on /\ (sel.to = 0 \/ doc[sel.to] # cycle.last)) /\ (fallback <=> qc.text = NoText /\ ~recovery)
       /\ (twin <=> ~new /\ Cyclic /\ place # round.place) /\ (stops <=> (text = NoText /\ ~recovery) \/ setup.options = 0)
  OBVIOUS
<1> HIDE DEF recovery, text, new, index, from, result, place, stops, moved, fallback, twin
<1>14. /\ qc' \in Threads /\ qc'.seq = qc.seq /\ qc'.saved = qc.saved
       /\ qc'.pc = IF stops \/ result = text THEN "restore" ELSE "write"
       /\ ~stops => qc'.result = result
  <2>1. CASE stops
    BY <1>1, <1>3, <2>1 DEF Threads, ConvertPlaces
  <2>2. CASE ~stops
    <3>1. result \in Texts /\ recovery \in BOOLEAN
      BY <1>7, <1>9, <2>2 DEF Texts
    <3>2. qc' \in [pc : ConvertPlaces, tries : Nat, anchor : Anchors, saved : Texts, seq : Nat, text : Texts,
                   recovery : BOOLEAN, result : Texts]
      BY <1>1, <1>3, <2>2, <3>1 DEF Threads, ConvertPlaces, Pasting
    <3>3. qc'.seq = qc.seq /\ qc'.saved = qc.saved /\ qc'.pc = (IF result = text THEN "restore" ELSE "write")
      BY <1>1, <1>3, <2>2 DEF Threads
    <3>4. qc'.result = result
      BY <1>1, <1>3, <2>2 DEF Threads
    <3> QED BY <2>2, <3>2, <3>3, <3>4 DEF Threads
  <2> QED BY <2>1, <2>2
<1>15. /\ cycle' \in Cycles
       /\ stops \/ ~Cyclic => cycle' = cycle
       /\ ~stops /\ Cyclic => /\ cycle'.on /\ cycle'.origin = from /\ cycle'.index = index /\ cycle'.last = result
                              /\ cycle'.anchor = IF new THEN qc.anchor ELSE cycle.anchor
  <2>1. CASE stops \/ ~Cyclic
    BY <1>1, <1>3, <2>1
  <2>2. CASE ~stops /\ Cyclic
    <3>1. from \in Texts /\ result \in Texts /\ TRUE \in BOOLEAN
      BY <1>8, <1>9, <2>2 DEF Texts
    <3>2. PICK a \in Anchors : a = IF new THEN qc.anchor ELSE cycle.anchor
      BY <1>3 DEF Cycles
    <3>3. cycle' = [cycle EXCEPT !.on = TRUE, !.origin = from, !.index = index, !.last = result, !.anchor = a]
      BY <1>1, <2>2, <3>2
    <3>4. cycle' \in Cycles
      BY <1>3, <1>6, <3>1, <3>3 DEF Cycles
    <3>5. cycle'.on /\ cycle'.origin = from /\ cycle'.index = index
      BY <1>3, <3>3 DEF Cycles
    <3>6. cycle'.last = result /\ cycle'.anchor = a
      BY <1>3, <3>3 DEF Cycles
    <3> QED BY <2>2, <3>2, <3>4, <3>5, <3>6
  <2> QED BY <2>1, <2>2
<1>16. QTypes'
  <2>1. Page'
    BY <1>1 DEF QInv, QTypes, Page
  <2>2. keys' \in Seq({"copy", "left", "paste"})
    BY <1>1 DEF QInv, QTypes, Board
  <2>3. Board'
    BY <1>1, <1>14, <2>2 DEF QInv, QTypes, Board
  <2>4. qc'.pc \in Pasting => qc'.result \in Written
    BY <1>9, <1>14 DEF Pasting
  <2>5. cycle'.on => cycle'.origin \in Written /\ cycle'.last \in Written
    <3>1. CASE stops \/ ~Cyclic
      BY <1>15, <3>1 DEF QInv, QTypes, Thread
    <3>2. CASE ~stops /\ Cyclic
      BY <1>8, <1>9, <1>15, <3>2
    <3> QED BY <3>1, <3>2
  <2>6. Thread'
    BY <1>1, <1>14, <1>15, <2>4, <2>5 DEF QInv, QTypes, Thread
  <2>7. round' \in [place : Nat, text : Texts, n : Nat]
    <3>1. round \in [place : Nat, text : Texts, n : Nat]
      BY DEF QInv, QTypes, User
    <3>2. Counted(text, place) \in [place : Nat, text : Texts, n : Nat]
      BY <1>5, <1>12, <3>1 DEF Counted
    <3> QED BY <1>1, <3>1, <3>2
  <2>8. User'
    BY <1>1, <2>7 DEF QInv, QTypes, User
  <2>9. setup'.kind # "tsf"
    BY <1>1 DEF QInv, QTypes, Service, Idle
  <2> QED BY <2>1, <2>3, <2>6, <2>8, <2>9 DEF QTypes, Service
<1>17. /\ Clean' => Clean
       /\ Fine' => Fine /\ Clean /\ Clean' /\ ~moved
       /\ slips' = {} => slips = {} /\ Fine' /\ ~moved /\ ~fallback /\ ~twin
  BY <1>1 DEF Clean, Fine, Excused
<1>18. Clean => /\ keys = <<>> /\ keys' = (IF recovery THEN <<"left">> ELSE <<>>) /\ ~inj.has /\ inj.pc = "idle" /\ ~inj.timer
                /\ (LeftFirst' <=> recovery)
                /\ (qc.text # NoText => ~Caret /\ qc.text = doc[sel.to]) /\ (qc.text = NoText => Caret)
  <2> HAVE Clean
  <2>1. keys = <<>> /\ ~inj.has
    BY <1>1 DEF QInv, Turns, Reading
  <2>2. inj.pc = "idle" /\ ~inj.timer
    BY <2>1 DEF QInv, Turns, QTypes, Thread, Injectors
  <2>3. keys' = IF recovery THEN <<"left">> ELSE <<>>
    BY <1>1, <2>1, KeysAppended
  <2>4. LeftFirst' <=> recovery
    BY <2>3, KeysNext DEF KeysLaw
  <2>5. (qc.text # NoText => ~Caret /\ qc.text = doc[sel.to]) /\ (qc.text = NoText => Caret)
    BY <1>1 DEF QInv, Copies
  <2> QED BY <2>1, <2>2, <2>3, <2>4, <2>5
<1>19. Clean' => Turns' /\ Clips' /\ Copies'
  <2> HAVE Clean'
  <2>1. Turns'
    BY <1>1, <1>14, <1>17, <1>18 DEF Turns, Reading, Pasting
  <2>2. Clips'
    BY <1>1, <1>14, <1>17, <1>18 DEF QInv, Clips
  <2>3. Copies'
    BY <1>14 DEF Copies, Reading
  <2> QED BY <2>1, <2>2, <2>3
<1>20. Clean' => /\ Pending' <=> qc'.pc = "write"
                 /\ qc'.pc = "write" => Coming' = result /\ ~stops /\ result # text
  BY <1>14, <1>16, <1>17, <1>19, KeysNext DEF PendingLaw, Pending, Pasting, Reading, Coming
<1>21. Fine' /\ ~stops => (Cyclic /\ ~new /\ ~recovery => from.w = text.w)
  BY <1>4, <1>11, <1>17 DEF QInv, Meets
<1>22. Fine' => Meets'
  <2> HAVE Fine'
  <2>1. Fine /\ Clean /\ Clean' /\ ~moved /\ Meets
    BY <1>17 DEF QInv
  <2>2. qc'.pc # "paste" /\ sel'.to <= sel'.from + 1
    BY <1>1, <1>14, <2>1 DEF Meets
  <2>3. cycle'.on => cycle'.last.w = cycle'.origin.w
    <3>1. CASE stops \/ ~Cyclic
      BY <1>15, <2>1, <3>1 DEF Meets
    <3>2. CASE ~stops /\ Cyclic
      BY <1>9, <1>15, <3>2
    <3> QED BY <3>1, <3>2
  <2>4. ASSUME Pending'
        PROVE  /\ Coming' # NoText
               /\ LeftFirst' => Caret' /\ sel'.to > 0 /\ doc'[sel'.to].w = Coming'.w
               /\ ~LeftFirst' /\ ~Caret' => doc'[sel'.to].w = Coming'.w
    <3>1. Coming' = result /\ ~stops /\ result \in Written
      BY <1>9, <1>20, <2>1, <2>4
    <3>2. result # NoText
      BY <3>1, TextsAreWritten
    <3>3. (Caret' <=> Caret) /\ sel' = sel /\ doc' = doc
      BY <1>1 DEF Caret
    <3>4. recovery => Caret /\ sel.to > 0 /\ doc[sel.to].w = result.w
      <4> HAVE recovery
      <4>1. Caret /\ cycle.on /\ Cyclic /\ ~new /\ sel.to # 0 /\ doc[sel.to] = cycle.last
        BY <1>4, <1>7, <1>13, <1>18, <2>1
      <4>2. cycle.last.w = cycle.origin.w /\ from = cycle.origin /\ result.w = from.w
        BY <1>9, <1>11, <2>1, <3>1, <4>1 DEF Meets
      <4> QED BY <1>2, <4>1, <4>2
    <3>5. ~recovery /\ ~Caret => doc[sel.to].w = result.w
      <4> HAVE ~recovery /\ ~Caret
      <4>1. text = doc[sel.to]
        BY <1>12, <1>18, <2>1
      <4>2. result.w = text.w
        BY <1>9, <1>11, <1>21, <3>1
      <4> QED BY <4>1, <4>2
    <3> QED BY <1>18, <2>1, <3>1, <3>2, <3>3, <3>4, <3>5
  <2>5. \A i \in 1 .. Len(Words) : \E j \in 1 .. Len(doc') : doc'[j].w = Words[i]
    BY <1>1, <2>1 DEF Meets
  <2> QED BY <2>2, <2>3, <2>4, <2>5 DEF Meets
<1>23. slips' = {} /\ Cyclic' => Rounds'
  <2> HAVE slips' = {} /\ Cyclic'
  <2>1. slips = {} /\ Fine /\ Clean /\ Clean' /\ ~moved /\ ~fallback /\ ~twin /\ Cyclic
    BY <1>1, <1>17 DEF Cyclic
  <2>2. Rounds /\ Meets
    BY <2>1 DEF QInv
  <2>3. ~Pending
    BY <1>1, <2>1, PendingIs DEF QInv, PendingLaw, Reading
  <2>4. round \in [place : Nat, text : Texts, n : Nat]
    BY DEF QInv, QTypes, User
  <2>5. CASE stops
    <3>1. ~cycle.on
      <4>1. setup.options = 0
        BY <1>12, <1>13, <2>1, <2>5
      <4> QED BY <4>1, <2>2 DEF Rounds
    <3> QED BY <1>1, <2>2, <2>5, <3>1 DEF Rounds
  <2>6. CASE ~stops
    <3>1. /\ cycle'.on /\ cycle'.origin = from /\ cycle'.index = index /\ cycle'.last = result
          /\ cycle'.anchor = IF new THEN qc.anchor ELSE cycle.anchor
      BY <1>15, <2>1, <2>6
    <3>2. setup.options > 0 /\ setup' = setup
      BY <1>1, <1>3, <1>13, <2>6
    <3>3. place = sel.to /\ (Caret => recovery)
      BY <1>12, <1>13, <1>18, <2>1
    <3>4. sel.to > 0
      <4>1. CASE recovery
        BY <1>2, <1>4, <1>13, <2>1, <4>1
      <4>2. CASE ~recovery
        BY <1>2, <3>3, <4>2 DEF Caret
      <4> QED BY <4>1, <4>2
    <3>5. ~Caret => text = doc[sel.to] /\ sel.to = sel.from + 1
      <4> HAVE ~Caret
      <4>1. qc.text # NoText /\ text = doc[sel.to]
        BY <1>4, <1>12, <1>18, <2>1
      <4> QED BY <1>2, <2>2, <4>1 DEF Meets, Caret
    <3>6. new => place # round.place
      <4> SUFFICES ASSUME new, place = round.place PROVE FALSE
        OBVIOUS
      <4>1. cycle.on /\ ~Caret
        BY <1>7, <2>2, <3>3, <3>4 DEF Rounds
      <4>2. text = cycle.last
        BY <2>2, <2>3, <3>3, <3>5, <4>1 DEF Rounds
      <4>3. qc.anchor.valid /\ cycle.anchor.valid /\ qc.anchor.start # cycle.anchor.start
        BY <1>12, <4>1, <4>2
      <4>4. qc.anchor.start = sel.from
        BY <1>1, <2>1, <4>3 DEF QInv, Copies, Reading
      <4>5. cycle.anchor.start + 1 = sel.to /\ cycle.anchor.start \in Nat
        BY <1>3, <2>2, <3>3, <4>1, <4>3 DEF Rounds, Cycles, Anchors
      <4> QED BY <1>2, <3>5, <4>1, <4>3, <4>4, <4>5
    <3>7. ~new => place = round.place /\ cycle.on
      BY <1>4, <1>13, <2>1
    <3>8. round' = Counted(text, place)
      BY <1>1, <2>6
    <3>9. /\ round'.place = place
          /\ new => round'.text = text /\ round'.n = 1
          /\ ~new => round'.text = round.text /\ round'.n = round.n + 1
      BY <2>4, <3>6, <3>7, <3>8 DEF Counted
    <3>10. cycle'.origin = round'.text /\ cycle'.index = round'.n % (setup.options + 1)
      <4>1. CASE new
        <5>1. NextLaw(round.n, setup.options)
          BY <1>3, <2>4, NextModulo
        <5> QED BY <1>11, <3>1, <3>2, <3>9, <4>1, <5>1 DEF NextLaw
      <4>2. CASE ~new
        <5>1. cycle.index = round.n % (setup.options + 1) /\ cycle.origin = round.text
          BY <2>2, <3>7, <4>2 DEF Rounds
        <5>2. NextIndex(cycle.index) = (round.n + 1) % (setup.options + 1)
          <6>1. NextLaw(round.n, setup.options)
            BY <1>3, <2>4, NextModulo
          <6> QED BY <5>1, <6>1 DEF NextLaw, NextIndex
        <5> QED BY <1>11, <3>1, <3>9, <4>2, <5>1, <5>2
      <4> QED BY <4>1, <4>2
    <3>11. cycle'.last = Output(cycle'.origin, cycle'.index)
      BY <1>10, <2>1, <3>1
    <3>12. cycle'.anchor.valid => cycle'.anchor.start + 1 = round'.place
      <4>1. CASE new
        <5>1. ~Caret
          BY <1>7, <3>3, <4>1
        <5>2. qc.anchor.valid => qc.anchor.start = sel.from
          BY <1>1, <2>1 DEF QInv, Copies, Reading
        <5> QED BY <3>1, <3>3, <3>5, <3>9, <4>1, <5>1, <5>2
      <4>2. CASE ~new
        BY <2>2, <3>1, <3>7, <3>9, <4>2 DEF Rounds
      <4> QED BY <4>1, <4>2
    <3>13. Pending' => Coming' = cycle'.last /\ sel'.to = round'.place /\ (~LeftFirst' => ~Caret')
      <4>1. Caret' <=> Caret
        BY <1>1 DEF Caret
      <4> QED BY <1>1, <1>18, <1>20, <2>1, <3>1, <3>3, <3>9, <4>1
    <3>14. ~Pending' => doc'[round'.place] = cycle'.last
      <4> HAVE ~Pending'
      <4>1. result = text
        BY <1>14, <1>20, <2>1, <2>6
      <4>2. ~recovery
        BY <1>9, <1>12, <2>6, <4>1, TextsAreWritten
      <4> QED BY <1>1, <3>1, <3>3, <3>5, <3>9, <4>1, <4>2
    <3>15. setup.kind # "tsf" /\ ~inj'.has /\ round'.place <= Len(doc') /\ round'.place > 0
      BY <1>1, <1>2, <1>18, <2>1, <3>3, <3>4, <3>9 DEF QInv, QTypes, Service, Idle
    <3> QED BY <3>1, <3>2, <3>10, <3>11, <3>12, <3>13, <3>14, <3>15 DEF Rounds, Output, ApplyQuickConvertOption
  <2> QED BY <2>5, <2>6
<1> QED BY <1>16, <1>19, <1>22, <1>23 DEF QInv

\* TSF goes on with the cycle where the text stands, and replaces what is selected.
\* (QuickConvertEditSession)
LEMMA DoEditSessionKeeps == QInv /\ DoEditSession => QInv'
<1> SUFFICES ASSUME QInv, DoEditSession PROVE QInv'
  OBVIOUS
<1>1. /\ setup.kind = "tsf" /\ UNCHANGED <<setup, sel, keys, qc, inj>>
      /\ qc = Idle /\ keys = <<>> /\ inj = NoInj /\ sel.to <= sel.from + 1
  BY DEF DoEditSession, QInv, QTypes, Service
<1>2. doc \in Seq(Written) /\ Len(doc) \in Nat /\ sel \in [from : Nat, to : Nat] /\ sel.from <= sel.to /\ sel.to <= Len(doc)
  BY DEF QInv, QTypes, Page
<1>3. /\ qc.pc = "idle" /\ ~inj.has /\ inj.pc = "idle" /\ ~inj.timer
      /\ ~Pending /\ ~Pending'
  <2>1. ~Posted("paste") /\ ~Posted("paste")'
    BY <1>1, KeysAre, KeysNext DEF KeysLaw
  <2>2. qc.pc = "idle" /\ ~inj.has /\ inj.pc = "idle" /\ ~inj.timer
    BY <1>1 DEF Idle, NoInj
  <2> QED BY <1>1, <2>1, <2>2 DEF Pending, Pasting
<1>4. cycle \in Cycles /\ setup.options \in Nat /\ cycle.index \in Nat /\ rest \in [Acts -> Nat]
      /\ round \in [place : Nat, text : Texts, n : Nat]
  BY SetupsAssumption DEF QInv, QTypes, Thread, User, Cycles
<1>5. /\ \A n \in Nat : [rest EXCEPT !.press = n] \in [Acts -> Nat]
      /\ \A m, n \in Nat : [rest EXCEPT !.miss = m, !.press = n] \in [Acts -> Nat]
  BY <1>4 DEF Acts
<1>6. (rest.press > 0 => rest.press - 1 \in Nat) /\ (rest.miss > 0 => rest.miss - 1 \in Nat)
  <2>1. rest.press \in Nat /\ rest.miss \in Nat
    BY <1>4 DEF Acts
  <2> QED BY <2>1
\* what holds after it whichever way it goes
<1>7. ASSUME Clean', Clean => cb'.text = mine' PROVE (Turns /\ Clips /\ Copies)'
  <2>1. Turns' /\ Copies'
    BY <1>1, <1>3 DEF Turns, Copies, Reading, Pasting
  <2>2. Clean
    BY <1>7 DEF DoEditSession, UseUp, Flaw, Clean
  <2> QED BY <1>1, <1>3, <1>7, <2>1, <2>2 DEF Clips
<1>8. Clean => cb.text = mine
  BY <1>3 DEF QInv, Clips
\* a caret, or nothing to convert into
<1>9. CASE Caret \/ setup.options = 0
  <2>1. cycle' = NoCycle /\ round' = NoRound /\ UseUp("press") /\ UNCHANGED <<doc, cb, mine, slips>>
    BY <1>9 DEF DoEditSession
  <2>2. rest' \in [Acts -> Nat]
    BY <1>5, <1>6, <2>1 DEF UseUp
  <2>3. cycle' \in Cycles /\ ~cycle'.on /\ round' \in [place : Nat, text : Texts, n : Nat] /\ round'.place = 0
    BY <2>1, TextsAreWritten DEF NoCycle, Cycles, NoAnchor, Anchors, NoRound
  <2>4. QTypes'
    BY <1>1, <1>3, <2>1, <2>2, <2>3 DEF QInv, QTypes, Page, Board, Thread, User, Service, Pasting
  <2>5. Clean' => (Turns /\ Clips /\ Copies)'
    BY <1>7, <1>8, <2>1
  <2>6. Fine' => Meets'
    BY <1>1, <1>3, <2>1, <2>3 DEF QInv, Fine, Meets
  <2>7. Rounds'
    BY <1>2, <2>1, <2>3 DEF Rounds
  <2> QED BY <2>4, <2>5, <2>6, <2>7 DEF QInv
\* a word
<1>10. CASE ~Caret /\ setup.options # 0
  <2> DEFINE text   == doc[sel.to]
             on     == cycle.on /\ cycle.anchor.start = sel.from /\ cycle.last = text
             index  == IF on THEN NextIndex(cycle.index) ELSE 1
             from   == IF on THEN cycle.origin ELSE text
             result == IF Cyclic THEN Output(from, index) ELSE ApplyQuickConvertOption(text, 1)
             place  == [NoAnchor EXCEPT !.start = sel.from]
             takes  == /\ UseUp("press") /\ slips' = slips
                       /\ doc' = IF setup.autoPaste THEN Pasted(result) ELSE doc
                       /\ cycle' = IF Cyclic
                                   THEN [[cycle EXCEPT !.last = result] EXCEPT !.on = TRUE, !.origin = from, !.index = index,
                                                                               !.anchor = place]
                                   ELSE NoCycle
                       /\ IF setup.autoPaste \/ result = text THEN UNCHANGED <<cb, mine>>
                          ELSE Put(result) /\ mine' = result
             refused == /\ Cyclic /\ rest.miss > 0 /\ rest.press > 0
                        /\ rest' = [rest EXCEPT !.miss = rest.miss - 1, !.press = rest.press - 1]
                        /\ cycle' = [cycle EXCEPT !.origin = from, !.index = index]
                        /\ slips' = slips \cup {"refused"} /\ UNCHANGED <<doc, cb, mine>>
  <2>1. round' = Counted(text, sel.to) /\ (takes \/ refused)
    BY <1>10 DEF DoEditSession, Marker, Flaw
  <2>2. sel.to \in Nat /\ sel.from \in Nat /\ sel.to = sel.from + 1 /\ sel.to \in 1 .. Len(doc)
    BY <1>1, <1>2, <1>10 DEF Caret
  <2>3. text \in Written
    BY <1>2, <2>2, ElementOfSeq
  <2>4. index \in Nat
    <3>1. NextLaw(cycle.index + 1, setup.options)
      BY <1>4, NextModulo
    <3> QED BY <3>1 DEF NextLaw, NextIndex
  <2>5. from \in Written /\ (on => cycle.on)
    BY <2>3 DEF QInv, QTypes, Thread
  <2>6. result \in Written /\ (Cyclic => result = Output(from, index) /\ result.w = from.w) /\ (~Cyclic => result.w = text.w)
    <3>1. Output(from, index) \in Written /\ Output(from, index).w = from.w
      BY <2>4, <2>5, ConversionKeepsWord
    <3>2. ApplyQuickConvertOption(text, 1) \in Written /\ ApplyQuickConvertOption(text, 1).w = text.w
      BY <2>3, ConversionKeepsWord
    <3> QED BY <3>1, <3>2
  <2>7. place \in Anchors /\ place.start = sel.from
    BY <2>2 DEF NoAnchor, Anchors
  <2>8. /\ on => cycle.last = text /\ cycle.anchor.start = sel.from /\ from = cycle.origin /\ index = NextIndex(cycle.index)
        /\ ~on => from = text /\ index = 1
        /\ cycle.on /\ cycle.anchor.start = sel.from /\ cycle.last = text => on
        /\ text = doc[sel.to]
    OBVIOUS
  <2>9. round' \in [place : Nat, text : Texts, n : Nat]
    <3>1. \A t \in Texts, p \in Nat : Counted(t, p) \in [place : Nat, text : Texts, n : Nat]
      BY <1>4 DEF Counted
    <3>2. text \in Texts
      BY <2>3 DEF Texts
    <3> HIDE DEF text, takes, refused
    <3> QED BY <2>1, <2>2, <3>1, <3>2
  <2>10. CASE takes
    <3>1. /\ rest.press > 0 /\ rest' = [rest EXCEPT !.press = rest.press - 1] /\ slips' = slips
          /\ doc' = IF setup.autoPaste THEN Pasted(result) ELSE doc
          /\ Cyclic => cycle' = [[cycle EXCEPT !.last = result] EXCEPT !.on = TRUE, !.origin = from, !.index = index,
                                                                       !.anchor = place]
          /\ ~Cyclic => cycle' = NoCycle
          /\ IF setup.autoPaste \/ result = text THEN UNCHANGED <<cb, mine>>
             ELSE cb' = [text |-> result, seq |-> cb.seq + 1] /\ mine' = result
      BY <2>10 DEF UseUp, Put
    <3> HIDE DEF text, on, index, from, result, place, takes, refused
    <3>2. rest' \in [Acts -> Nat]
      BY <1>5, <1>6, <3>1
    <3>3. /\ cycle' \in Cycles /\ (cycle'.on <=> Cyclic)
          /\ Cyclic => /\ cycle'.origin = from /\ cycle'.index = index /\ cycle'.last = result
                       /\ cycle'.anchor = place
      <4>1. CASE Cyclic
        <5>1. from \in Texts /\ result \in Texts /\ TRUE \in BOOLEAN
          BY <2>5, <2>6 DEF Texts
        <5> DEFINE c == [cycle EXCEPT !.last = result]
        <5>2. c \in Cycles /\ c.last = result
          BY <1>4, <5>1 DEF Cycles
        <5>3. cycle' = [c EXCEPT !.on = TRUE, !.origin = from, !.index = index, !.anchor = place]
          BY <3>1, <4>1
        <5> HIDE DEF c
        <5>4. cycle' \in Cycles
          BY <2>4, <2>7, <5>1, <5>2, <5>3 DEF Cycles
        <5>5. cycle'.on /\ cycle'.origin = from /\ cycle'.index = index
          BY <5>2, <5>3 DEF Cycles
        <5>6. cycle'.last = result /\ cycle'.anchor = place
          BY <5>2, <5>3 DEF Cycles
        <5> QED BY <4>1, <5>4, <5>5, <5>6
      <4>2. CASE ~Cyclic
        <5>1. NoCycle \in Cycles /\ ~NoCycle.on
          BY TextsAreWritten DEF NoCycle, Cycles, NoAnchor, Anchors
        <5> QED BY <3>1, <4>2, <5>1
      <4> QED BY <4>1, <4>2
    <3>4. ReplacedLaw(doc, sel.from, sel.to, result) /\ Pasted(result) = Replaced(doc, sel.from, sel.to, result)
      BY <1>2, <2>2, <2>6, ReplacedIs, PastedIs
    <3>5. doc' \in Seq(Written) /\ Len(doc') = Len(doc) /\ (setup.autoPaste => doc'[sel.to] = result)
      BY <1>2, <2>2, <3>1, <3>4 DEF ReplacedLaw
    <3>6. cb' \in [text : Texts, seq : Nat] /\ mine' \in Written /\ cb'.seq >= cb.seq
          /\ (cb.text = mine => cb'.text = mine')
      <4>1. cb \in [text : Texts, seq : Nat] /\ mine \in Written /\ result \in Texts
        BY <2>6 DEF QInv, QTypes, Board, User, Texts
      <4> QED BY <2>6, <3>1, <4>1
    <3>7. QTypes'
      <4>1. Page'
        BY <1>1, <1>2, <3>5 DEF Page
      <4>2. Board'
        BY <1>1, <3>6 DEF QInv, QTypes, Board, Thread, Threads, Injectors
      <4>3. Thread'
        BY <1>1, <2>5, <2>6, <3>3 DEF QInv, QTypes, Thread
      <4>4. User'
        BY <1>1, <2>9, <3>2, <3>6 DEF QInv, QTypes, User
      <4> QED BY <1>1, <4>1, <4>2, <4>3, <4>4 DEF QTypes, Service
    <3>8. Clean' => (Turns /\ Clips /\ Copies)'
      BY <1>7, <1>8, <3>6
    <3>9. Fine' => Meets'
      <4> HAVE Fine'
      <4>1. Fine /\ Meets
        BY <3>1 DEF QInv, Fine
      <4>2. result.w = text.w
        BY <2>5, <2>6, <2>8, <4>1 DEF Meets
      <4>3. WordsIn(doc) /\ WordsIn(Replaced(doc, sel.from, sel.to, result))
        <5>1. WordsIn(doc)
          BY <4>1 DEF Meets, WordsIn
        <5> QED BY <1>2, <2>2, <2>6, <2>8, <4>2, <5>1, WordsStay
      <4>4. WordsIn(doc')
        BY <3>1, <3>4, <4>3
      <4>5. cycle'.on => cycle'.last.w = cycle'.origin.w
        BY <2>6, <3>3
      <4> QED BY <1>1, <1>3, <4>4, <4>5 DEF Meets, WordsIn
    <3>10. slips' = {} /\ Cyclic' => Rounds'
      <4> HAVE slips' = {} /\ Cyclic'
      <4>1. Cyclic /\ setup.autoPaste /\ slips = {}
        BY <1>1, <3>1 DEF Cyclic
      <4>2. Rounds
        BY <4>1 DEF QInv
      <4>3. on => sel.to = round.place
        BY <1>1, <2>2, <2>5, <2>8, <4>2 DEF Rounds
      <4>4. ~on => sel.to # round.place
        <5> SUFFICES ASSUME ~on, sel.to = round.place PROVE FALSE
          OBVIOUS
        <5>1. cycle.on
          BY <2>2, <4>2 DEF Rounds
        <5>2. cycle.anchor.start + 1 = sel.to /\ cycle.last = doc[sel.to] /\ cycle.anchor.start \in Nat
          BY <1>1, <1>3, <1>4, <4>2, <5>1 DEF Rounds, Cycles, Anchors
        <5> QED BY <2>2, <2>8, <5>1, <5>2
      <4>5. /\ round'.place = sel.to
            /\ ~on => round'.text = text /\ round'.n = 1
            /\ on => round'.text = round.text /\ round'.n = round.n + 1
        BY <1>4, <2>1, <4>3, <4>4 DEF Counted
      <4>6. cycle'.origin = round'.text /\ cycle'.index = round'.n % (setup.options + 1)
        <5>1. NextLaw(round.n, setup.options) /\ setup.options > 0
          BY <1>4, <1>10, NextModulo
        <5>2. CASE ~on
          BY <2>8, <3>3, <4>1, <4>5, <5>1, <5>2 DEF NextLaw
        <5>3. CASE on
          <6>1. cycle.index = round.n % (setup.options + 1) /\ cycle.origin = round.text
            BY <2>5, <4>2, <5>3 DEF Rounds
          <6>2. NextIndex(cycle.index) = (round.n + 1) % (setup.options + 1)
            BY <5>1, <6>1 DEF NextLaw, NextIndex
          <6> QED BY <2>8, <3>3, <4>1, <4>5, <5>3, <6>1, <6>2
        <5> QED BY <5>2, <5>3
      <4>7. cycle'.last = Output(cycle'.origin, cycle'.index)
        BY <2>6, <3>3, <4>1
      <4>8. cycle'.anchor.start + 1 = round'.place /\ doc'[round'.place] = cycle'.last
        BY <2>2, <2>7, <3>3, <3>5, <4>1, <4>5
      <4>9. cycle'.on /\ round'.place > 0 /\ round'.place <= Len(doc') /\ ~inj'.has /\ setup'.options > 0
        BY <1>1, <1>3, <1>4, <1>10, <2>2, <3>3, <3>5, <4>1, <4>5
      <4> QED BY <1>1, <1>3, <4>6, <4>7, <4>8, <4>9 DEF Rounds, Output, ApplyQuickConvertOption
    <3> QED BY <3>7, <3>8, <3>9, <3>10 DEF QInv
  <2>11. CASE refused
    <3>1. /\ rest' = [rest EXCEPT !.miss = rest.miss - 1, !.press = rest.press - 1] /\ rest.miss > 0 /\ rest.press > 0
          /\ cycle' = [cycle EXCEPT !.origin = from, !.index = index]
          /\ slips' = slips \cup {"refused"} /\ UNCHANGED <<doc, cb, mine>>
      BY <2>11
    <3> HIDE DEF text, on, index, from, result, place, takes, refused
    <3>2. rest' \in [Acts -> Nat]
      BY <1>5, <1>6, <3>1
    <3>3. cycle' \in Cycles /\ cycle'.origin = from /\ cycle'.last = cycle.last /\ (cycle'.on <=> cycle.on)
      <4>1. from \in Texts
        BY <2>5 DEF Texts
      <4> QED BY <1>4, <2>4, <3>1, <4>1 DEF Cycles
    <3>4. QTypes'
      BY <1>1, <2>5, <2>9, <3>1, <3>2, <3>3 DEF QInv, QTypes, Page, Board, Thread, User, Service
    <3>5. Clean' => (Turns /\ Clips /\ Copies)'
      BY <1>7, <1>8, <3>1
    <3>6. ~Fine' /\ slips' # {}
      BY <3>1 DEF Fine
    <3> QED BY <3>4, <3>5, <3>6 DEF QInv
  <2> QED BY <2>1, <2>10, <2>11
<1> QED BY <1>9, <1>10

\* Nothing happens.
LEMMA IdleKeeps == QInv /\ UNCHANGED qvars => QInv'
<1> SUFFICES ASSUME QInv, UNCHANGED qvars PROVE QInv'
  OBVIOUS
<1> USE DEF qvars
<1>1. QTypes'
  BY DEF QInv, QTypes, Page, Board, Thread, User, Service
<1>2. (Clean' <=> Clean) /\ (Fine' <=> Fine) /\ (Cyclic' <=> Cyclic) /\ (Caret' <=> Caret)
      /\ (Pending' <=> Pending) /\ (LeftFirst' <=> LeftFirst) /\ Coming' = Coming
  BY DEF Clean, Fine, Cyclic, Caret, Pending, LeftFirst, Coming, Posted
<1>3. Clean' => (Turns /\ Clips /\ Copies)'
  BY <1>2 DEF QInv, Turns, Clips, Copies
<1>4. Fine' => Meets'
  BY <1>2 DEF QInv, Meets
<1>5. slips' = {} /\ Cyclic' => Rounds'
  BY <1>2 DEF QInv, Rounds, Output, ApplyQuickConvertOption
<1> QED BY <1>1, <1>3, <1>4, <1>5 DEF QInv

\* One step of whoever takes it.
LEMMA ConversionStepKeeps == QInv /\ [QNext]_qvars => QInv'
<1> SUFFICES ASSUME QInv, [QNext]_qvars PROVE QInv'
  OBVIOUS
<1>1. CASE ThreadRuns
  BY <1>1, SaveKeeps, TakeSeqKeeps, SimulateCopyKeeps, WaitKeeps, ReadSeqKeeps, DecideKeeps, RestoreKeeps,
     PutBackKeeps, WriteResultKeeps, SimulatePasteKeeps, TryReselectKeeps, Zenon DEF ThreadRuns
<1>2. CASE Inject \/ InjectWrite \/ InjectSend \/ RestoreTimerProc
  BY <1>2, InjectKeeps, InjectWriteKeeps, InjectSendKeeps, TimerKeeps, Zenon
<1>3. CASE Execute \/ UpdateConfig \/ DoEditSession
  BY <1>3, ExecuteKeeps, UpdateConfigKeeps, DoEditSessionKeeps, Zenon
<1>4. CASE AppHandles \/ UserCopies \/ CycleExpires
  BY <1>4, AppHandlesKeeps, UserCopiesKeeps, CycleExpiresKeeps, Zenon
<1>5. CASE \E i \in 1..Len(doc) : UserSelects(i)
  BY <1>5, UserSelectsKeeps, Zenon
<1>6. CASE \E i \in 0..Len(doc) : UserMoves(i)
  BY <1>6, UserMovesKeeps, Zenon
<1>7. CASE UNCHANGED qvars
  BY <1>7, IdleKeeps
<1> QED BY <1>1, <1>2, <1>3, <1>4, <1>5, <1>6, <1>7, Zenon DEF QNext

\* When nothing is under way, the invariant says what the user sees.
LEMMA HarmlessFromInv == QInv => ConversionHarmless
<1> SUFFICES ASSUME QInv PROVE ConversionHarmless
  OBVIOUS
<1>1. RoundTrip
  <2> SUFFICES ASSUME Quiet, Cyclic, round.place > 0, slips = {}
               PROVE  doc[round.place] = Output(round.text, round.n % (setup.options + 1))
    BY DEF RoundTrip
  <2>1. Rounds /\ cycle.on
    BY DEF QInv, Rounds
  <2>2. ~Pending
    <3>1. keys = <<>> /\ qc.pc = "idle"
      BY DEF Quiet, InWork
    <3> QED BY <3>1, KeysAre DEF KeysLaw, Pending, Pasting
  <2> QED BY <2>1, <2>2 DEF Rounds
<1>2. WordsKept
  BY DEF QInv, WordsKept, Fine, Meets
<1>3. ClipboardKept
  BY DEF QInv, ClipboardKept, Clean, Clips, Quiet, InWork
<1> QED BY <1>1, <1>2, <1>3 DEF ConversionHarmless

\* A conversion harms nothing, for any document, any configuration and any number of
\* conversions, copies and typed words: the presses lead through the options and
\* back, no other word is replaced, and the clipboard is the user's when all is
\* quiet, except after the situations that the properties name.
\* (QuickConvert::Execute, QuickConvertEditSession, ClipboardInjector::Replace)
THEOREM ConversionsAreHarmless == QSpec => []ConversionHarmless
<1>1. QSpec => []QInv
  BY ConversionStart, ConversionStepKeeps, PTL DEF QSpec
<1> QED BY <1>1, HarmlessFromInv, PTL

-----------------------------------------------------------------------------
(***************************************************************************)
(* HotkeyGestures.                                                         *)
(***************************************************************************)
Managers == [mods : SUBSET Modifiers, other : BOOLEAN, latch : [Slots -> Letters \cup {NoKey}],
             passed : SUBSET Slots]
Engines  == [mods : SUBSET Modifiers, other : BOOLEAN, combo : BOOLEAN, tap : [Modifiers -> {0, 1, 2}]]
Marks    == {"hotkey", "lock", "excluded", "joined", "combo", "rerouted", "missed", "noise"}
UserGestures == [mods : SUBSET Modifiers, dirty : BOOLEAN, marks : SUBSET Marks]
Presses  == [fires : Nat, eaten : BOOLEAN]

\* The types: the keys, the two matchers, what the user does.
KeyTypes   == /\ held \subseteq GKeys /\ seen \subseteq GKeys /\ lost \subseteq GKeys
              /\ last \in GKeys \cup {NoKey} /\ press \in [GKeys -> Presses]
MatchTypes == mgr \in Managers /\ eng \in Engines /\ live \in [Slots -> Bindings] /\ route \in Routes
UserTypes  == gest \in UserGestures /\ taps \in [Modifiers -> {0, 1, 2}] /\ todo.setup \in Gestures
GTypes == KeyTypes /\ MatchTypes /\ UserTypes

\* A key holds one slot; one that has fired holds it until it comes up.
OneEach == \A s, t \in Slots : mgr.latch[s] = mgr.latch[t] /\ mgr.latch[s] # NoKey => s = t
Fired   == \A k \in GKeys : press[k].fires <= 1 /\ (k \in held /\ press[k].fires > 0 => Latched(k) # {})

\* A key that holds a slot is down and was taken from the application, or is excused.
Taken == \A s \in Slots : mgr.latch[s] # NoKey =>
           /\ mgr.latch[s] \notin held => mgr.latch[s] \in lost
           /\ mgr.latch[s] \in seen /\ s \notin mgr.passed => mgr.latch[s] \in lost

\* The manager's idea of the modifiers and of the gesture is the user's.
ManagerKnows == gest.marks \cap {"missed", "noise"} = {} =>
                  mgr.mods = HeldMods /\ (HeldMods # {} => (mgr.other <=> gest.dirty))

\* So is the engine's, where it has seen all of it.
Undisturbed == gest.marks \cap {"hotkey", "lock", "excluded", "joined", "rerouted", "missed"} = {} /\ route # "tsf"
Alone       == \E m \in Modifiers : gest.mods = {m}
EngineKnows == Undisturbed =>
  /\ eng.mods = HeldMods
  /\ HeldMods # {} => (eng.other <=> gest.dirty) /\ HeldMods \subseteq gest.mods
  /\ HeldMods # {} /\ ~gest.dirty => (eng.combo <=> ~Alone)
  /\ HeldMods = {} => ~eng.combo
  /\ "combo" \notin gest.marks => eng.tap = taps
  /\ last \in Letters => eng.tap = NoTaps /\ taps = NoTaps /\ (HeldMods # {} => gest.dirty)

GInv == GTypes /\ OneEach /\ Fired /\ Taken /\ KeysArrive /\ ManagerKnows /\ EngineKnows
        /\ HotkeyAsMeant /\ ToggleAsMeant
-----------------------------------------------------------------------------
\* The least of a set of slots is one of them.  (the order in which Match looks them over)
LEMMA Least == ASSUME NEW S \in SUBSET Nat, S # {} PROVE First(S) \in S
<1>1. PICK x \in S : \A y \in S : ~ (<<y, x>> \in OpToRel(<, Nat))
  <2> DEFINE R == OpToRel(<, Nat)
  <2>1. IsWellFoundedOn(R, Nat)
    BY NatLessThanWellFounded
  <2> HIDE DEF R
  <2>2. \E x \in S : \A y \in S : ~ (<<y, x>> \in R)
    BY <2>1, WFMin
  <2> QED BY <2>2 DEF R
<1>2. \A y \in S : ~ (y < x)
  BY <1>1 DEF OpToRel
<1>3. \A y \in S : x <= y
  BY <1>2
<1> QED BY <1>3 DEF First

\* Modifiers, letters and "no key" are apart; the slots a key has latched.
LEMMA KeysApart ==
  /\ Modifiers \subseteq GKeys /\ Letters \subseteq GKeys /\ NoKey \notin GKeys
  /\ \A k \in GKeys : (k \in Modifiers <=> k \notin Letters) /\ k # NoKey
  /\ \A k : Latched(k) \subseteq Slots /\ \A s : s \in Latched(k) <=> s \in Slots /\ mgr.latch[s] = k
BY KeysAssumption DEF GKeys, Latched

\* The hook starts with no key down and both matchers at rest.
LEMMA GestureStart == GInit => GInv
<1> SUFFICES ASSUME GInit PROVE GInv
  OBVIOUS
<1> USE DEF GInit, NoPress, NoGesture
<1>1. PICK g \in Gestures : live = g.live /\ todo = [setup |-> g, n |-> g.events]
  OBVIOUS
<1>2. live \in [Slots -> Bindings] /\ todo.setup \in Gestures
  BY <1>1, GesturesAssumption
<1>3. GTypes
  <2>1. KeyTypes
    BY DEF KeyTypes, Presses
  <2>2. mgr \in Managers /\ eng \in Engines /\ route \in Routes
    BY DEF Managers, Engines, Routes
  <2>3. gest \in UserGestures /\ taps \in [Modifiers -> {0, 1, 2}]
    BY DEF UserGestures
  <2> QED BY <1>2, <2>1, <2>2, <2>3 DEF GTypes, MatchTypes, UserTypes
<1>4. OneEach /\ Fired /\ Taken /\ KeysArrive /\ HotkeyAsMeant /\ ToggleAsMeant
  BY DEF OneEach, Fired, Taken, KeysArrive, HotkeyAsMeant, ToggleAsMeant
<1>5. ManagerKnows /\ EngineKnows
  BY DEF ManagerKnows, EngineKnows, HeldMods, NoTaps
<1> QED BY <1>3, <1>4, <1>5 DEF GInv

\* A step that leaves the keys, both matchers and the user's gesture alone.
LEMMA BesideKeeps ==
  ASSUME GInv, UNCHANGED <<held, last, seen, mgr, eng, press, taps, lost, odd>>,
         live' \in [Slots -> Bindings], route' \in Routes, todo'.setup = todo.setup,
         \/ gest' = gest /\ route' = route
         \/ gest' = [gest EXCEPT !.marks = gest.marks \cup {"rerouted"}]
  PROVE  GInv'
<1>1. gest' \in UserGestures /\ gest'.mods = gest.mods /\ gest'.dirty = gest.dirty /\ gest.marks \subseteq gest'.marks
      /\ (route' # route => "rerouted" \in gest'.marks)
  <2>1. gest \in UserGestures /\ "rerouted" \in Marks
    BY DEF GInv, GTypes, UserTypes, Marks
  <2>2. CASE gest' = gest /\ route' = route
    BY <2>1, <2>2
  <2>3. CASE gest' = [gest EXCEPT !.marks = gest.marks \cup {"rerouted"}]
    BY <2>1, <2>3 DEF UserGestures
  <2> QED BY <2>2, <2>3
<1>2. GTypes'
  BY <1>1 DEF GInv, GTypes, KeyTypes, MatchTypes, UserTypes
<1>3. (OneEach /\ Fired /\ Taken /\ KeysArrive /\ HotkeyAsMeant /\ ToggleAsMeant)'
  BY DEF GInv, OneEach, Fired, Taken, KeysArrive, HotkeyAsMeant, ToggleAsMeant, Latched
<1>4. ManagerKnows'
  BY <1>1 DEF GInv, ManagerKnows, HeldMods
<1>5. EngineKnows'
  BY <1>1 DEF GInv, EngineKnows, Undisturbed, HeldMods, Alone, NoTaps
<1> QED BY <1>2, <1>3, <1>4, <1>5 DEF GInv

\* New bindings change nothing that is under way: a latched slot stays latched.  (UpdateHotkey)
LEMMA UpdateHotkeyKeeps == ASSUME NEW s \in Slots PROVE GInv /\ UpdateHotkey(s) => GInv'
<1> SUFFICES ASSUME GInv, UpdateHotkey(s) PROVE GInv'
  OBVIOUS
<1>1. PICK c \in todo.setup.binds : live' = [live EXCEPT ![s] = c]
  BY DEF UpdateHotkey
<1>2. c \in Bindings /\ live \in [Slots -> Bindings] /\ route \in Routes
  BY GesturesAssumption DEF GInv, GTypes, UserTypes, MatchTypes
<1>3. live' \in [Slots -> Bindings]
  BY <1>1, <1>2
<1>4. todo'.setup = todo.setup
  BY DEF UpdateHotkey, Uses
<1> QED BY <1>2, <1>3, <1>4, BesideKeeps DEF UpdateHotkey

\* A browser tab that changes its route marks the gesture.  (RefreshBrowserRoute)
LEMMA RefreshRouteKeeps == ASSUME NEW to \in todo.setup.routes PROVE GInv /\ RefreshBrowserRoute(to) => GInv'
<1> SUFFICES ASSUME GInv, RefreshBrowserRoute(to) PROVE GInv'
  OBVIOUS
<1>1. to \in Routes /\ live \in [Slots -> Bindings]
  BY GesturesAssumption DEF GInv, GTypes, UserTypes, MatchTypes
<1>2. todo'.setup = todo.setup
  BY DEF RefreshBrowserRoute, Uses
<1> QED BY <1>1, <1>2, BesideKeeps DEF RefreshBrowserRoute

\* Falling deaf and hearing again change none of the keys.
LEMMA DeafnessKeeps == GInv /\ (GoDeaf \/ HearAgain \/ UNCHANGED hvars) => GInv'
<1> SUFFICES ASSUME GInv, GoDeaf \/ HearAgain \/ UNCHANGED hvars PROVE GInv'
  OBVIOUS
<1>1. live \in [Slots -> Bindings] /\ route \in Routes
  BY DEF GInv, GTypes, MatchTypes
<1>2. todo'.setup = todo.setup
  <2>1. CASE GoDeaf
    <3>1. todo' = [todo EXCEPT !.n["deaf"] = @ - 1]
      BY <2>1 DEF GoDeaf, Uses
    <3> QED BY <3>1
  <2>2. CASE HearAgain \/ UNCHANGED hvars
    <3>1. todo' = todo
      BY <2>2 DEF HearAgain, hvars
    <3> QED BY <3>1
  <2> QED BY <2>1, <2>2
<1>3. UNCHANGED <<held, last, seen, mgr, eng, press, taps, lost, odd, live, route, gest>>
  BY DEF GoDeaf, HearAgain, hvars
<1> QED BY <1>1, <1>2, <1>3, BesideKeeps

\* What is known when the modifiers have been looked up.
LEMMA Reconciled ==
  ASSUME GInv
  PROVE  /\ ReconcileModifiers \in Managers /\ ReconcileModifiers.mods = HeldMods
         /\ ReconcileModifiers.other = (HeldMods # {})
         /\ ReconcileModifiers.latch = mgr.latch /\ ReconcileModifiers.passed = mgr.passed
         /\ ReconcileEngine(TRUE) \in Engines
         /\ ReconcileEngine(TRUE) = [mods |-> HeldMods, other |-> HeldMods # {}, combo |-> HeldMods # {}, tap |-> NoTaps]
         /\ ReconcileEngine(FALSE) = [eng EXCEPT !.mods = HeldMods] /\ ReconcileEngine(FALSE) \in Engines
<1>1. mgr \in Managers /\ eng \in Engines /\ HeldMods \in SUBSET Modifiers /\ (HeldMods # {}) \in BOOLEAN
  BY DEF GInv, GTypes, MatchTypes, HeldMods
<1>2. /\ ReconcileModifiers \in Managers /\ ReconcileModifiers.mods = HeldMods
      /\ ReconcileModifiers.other = (HeldMods # {})
      /\ ReconcileModifiers.latch = mgr.latch /\ ReconcileModifiers.passed = mgr.passed
  BY <1>1 DEF ReconcileModifiers, Managers
<1>3. ReconcileEngine(TRUE) = [mods |-> HeldMods, other |-> HeldMods # {}, combo |-> HeldMods # {}, tap |-> NoTaps]
  BY DEF ReconcileEngine
<1>4. NoTaps \in [Modifiers -> {0, 1, 2}]
  BY DEF NoTaps
<1>5. ReconcileEngine(TRUE) \in Engines
  <2>1. \A b \in BOOLEAN, t \in [Modifiers -> {0, 1, 2}] :
          [mods |-> HeldMods, other |-> b, combo |-> b, tap |-> t] \in Engines
    BY <1>1 DEF Engines
  <2> QED BY <1>1, <1>3, <1>4, <2>1
<1>6. ReconcileEngine(FALSE) = [eng EXCEPT !.mods = HeldMods]
  BY DEF ReconcileEngine
<1>7. ReconcileEngine(FALSE) \in Engines
  BY <1>1, <1>6 DEF Engines
<1> QED BY <1>2, <1>3, <1>5, <1>6, <1>7

\* A new gesture, with both matchers reconciled.
LEMMA BoundaryKnows ==
  ASSUME GInv, UNCHANGED held, NewGesture, eng' = ReconcileEngine(TRUE), mgr'.mods = HeldMods,
         mgr'.other = (HeldMods # {}), last' = last
  PROVE  ManagerKnows' /\ EngineKnows' /\ gest' \in UserGestures /\ taps' \in [Modifiers -> {0, 1, 2}] /\ eng' \in Engines
<1>1. /\ gest' = [mods |-> HeldMods, dirty |-> HeldMods # {}, marks |-> {}] /\ taps' = NoTaps
      /\ HeldMods' = HeldMods
  BY DEF NewGesture, HeldMods
<1>2. eng' = [mods |-> HeldMods, other |-> HeldMods # {}, combo |-> HeldMods # {}, tap |-> NoTaps] /\ eng' \in Engines
  BY Reconciled
<1>3. ManagerKnows'
  BY <1>1 DEF ManagerKnows
<1>4. EngineKnows'
  <2>1. /\ eng'.mods = HeldMods /\ eng'.other = (HeldMods # {}) /\ eng'.combo = (HeldMods # {}) /\ eng'.tap = NoTaps
        /\ gest'.mods = HeldMods /\ gest'.dirty = (HeldMods # {}) /\ taps' = NoTaps /\ NoTaps' = NoTaps
    <3>1. eng'.mods = HeldMods /\ eng'.other = (HeldMods # {}) /\ eng'.combo = (HeldMods # {}) /\ eng'.tap = NoTaps
      <4>1. \A M, b, t, e : e = [mods |-> M, other |-> b, combo |-> b, tap |-> t]
                 => e.mods = M /\ e.other = b /\ e.combo = b /\ e.tap = t
        OBVIOUS
      <4> DEFINE e == eng'
                 b == HeldMods # {}
                 M == HeldMods
                 t == NoTaps
      <4>2. e = [mods |-> M, other |-> b, combo |-> b, tap |-> t]
        BY <1>2
      <4> HIDE DEF e, b, M, t
      <4>3. e.mods = M /\ e.other = b /\ e.combo = b /\ e.tap = t
        BY <4>1, <4>2
      <4> QED BY <4>3 DEF e, b, M, t
    <3>2. gest'.mods = HeldMods /\ gest'.dirty = (HeldMods # {})
      BY <1>1
    <3>3. NoTaps' = NoTaps
      BY DEF NoTaps
    <3> QED BY <1>1, <3>1, <3>2, <3>3
  <2>2. CASE HeldMods = {}
    BY <1>1, <2>1, <2>2 DEF EngineKnows
  <2>3. CASE HeldMods # {}
    BY <1>1, <2>1, <2>3 DEF EngineKnows
  <2> QED BY <2>2, <2>3
<1>5. gest' \in UserGestures /\ taps' \in [Modifiers -> {0, 1, 2}]
  BY <1>1 DEF UserGestures, HeldMods, NoTaps
<1> QED BY <1>2, <1>3, <1>4, <1>5

\* Another target of the focus ends the gesture in both matchers.  (ApplyFocusOnHookThread)
LEMMA OtherFocusKeeps == ASSUME NEW to \in todo.setup.routes PROVE GInv /\ ApplyOtherFocus(to) => GInv'
<1> SUFFICES ASSUME GInv, ApplyOtherFocus(to) PROVE GInv'
  OBVIOUS
<1> USE DEF ApplyOtherFocus
<1>1. to \in Routes /\ todo'.setup = todo.setup
  BY GesturesAssumption DEF GInv, GTypes, UserTypes, Uses
<1>2. mgr' \in Managers /\ mgr'.latch = mgr.latch /\ mgr'.passed = mgr.passed /\ mgr'.mods = HeldMods
      /\ mgr'.other = (HeldMods # {})
  BY Reconciled
<1>3. ManagerKnows' /\ EngineKnows' /\ gest' \in UserGestures /\ taps' \in [Modifiers -> {0, 1, 2}] /\ eng' \in Engines
  BY <1>2, BoundaryKnows
<1>4. GTypes'
  BY <1>1, <1>2, <1>3 DEF GInv, GTypes, KeyTypes, MatchTypes, UserTypes
<1>5. (OneEach /\ Fired /\ Taken /\ KeysArrive /\ HotkeyAsMeant /\ ToggleAsMeant)'
  BY <1>2 DEF GInv, OneEach, Fired, Taken, KeysArrive, HotkeyAsMeant, ToggleAsMeant, Latched
<1> QED BY <1>3, <1>4, <1>5 DEF GInv

\* The same target again keeps the gesture, and both matchers look the modifiers up.
LEMMA SameFocusKeeps == GInv /\ ApplySameFocus => GInv'
<1> SUFFICES ASSUME GInv, ApplySameFocus PROVE GInv'
  OBVIOUS
<1> USE DEF ApplySameFocus
<1>1. mgr' \in Managers /\ mgr'.latch = mgr.latch /\ mgr'.passed = mgr.passed /\ mgr'.mods = HeldMods
      /\ mgr'.other = (HeldMods # {})
  BY Reconciled
<1>2. eng' = [eng EXCEPT !.mods = HeldMods] /\ eng' \in Engines /\ eng \in Engines
  BY Reconciled DEF GInv, GTypes, MatchTypes
<1>3. gest' \in UserGestures /\ gest'.mods = gest.mods /\ gest'.dirty = gest.dirty /\ gest.marks \subseteq gest'.marks
      /\ (HeldMods # {} => "noise" \in gest'.marks) /\ gest'.marks \subseteq gest.marks \cup {"noise"}
  <2>1. gest \in UserGestures /\ Mark(HeldMods # {}, "noise") \in SUBSET Marks
    BY DEF GInv, GTypes, UserTypes, Marks, Mark
  <2>2. \A m \in SUBSET Marks : LET g == [gest EXCEPT !.marks = gest.marks \cup m]
                                IN  g \in UserGestures /\ g.mods = gest.mods /\ g.dirty = gest.dirty /\ g.marks = gest.marks \cup m
    BY <2>1 DEF UserGestures
  <2> QED BY <2>1, <2>2 DEF Mark
<1>4. HeldMods' = HeldMods /\ todo'.setup = todo.setup
  BY DEF HeldMods, Uses
<1>5. GTypes'
  BY <1>1, <1>2, <1>3, <1>4 DEF GInv, GTypes, KeyTypes, MatchTypes, UserTypes
<1>6. (OneEach /\ Fired /\ Taken /\ KeysArrive /\ HotkeyAsMeant /\ ToggleAsMeant)'
  BY <1>1 DEF GInv, OneEach, Fired, Taken, KeysArrive, HotkeyAsMeant, ToggleAsMeant, Latched
<1>7. ManagerKnows'
  BY <1>1, <1>3, <1>4 DEF ManagerKnows
<1>8. EngineKnows'
  <2>1. eng'.mods = HeldMods /\ eng'.other = eng.other /\ eng'.combo = eng.combo /\ eng'.tap = eng.tap
    BY <1>2 DEF Engines
  <2>2. (Undisturbed' <=> Undisturbed) /\ ("combo" \in gest'.marks <=> "combo" \in gest.marks) /\ (Alone' <=> Alone)
    BY <1>3 DEF Undisturbed, Alone
  <2> QED BY <1>3, <1>4, <2>1, <2>2 DEF GInv, EngineKnows, NoTaps
<1> QED BY <1>5, <1>6, <1>7, <1>8 DEF GInv

\* A tap grows old for the engine and for the user at once.  (kDoubleTapTimeoutMs)
LEMMA TapsAgeKeeps == GInv /\ TapsAge => GInv'
<1> SUFFICES ASSUME GInv, TapsAge PROVE GInv'
  OBVIOUS
<1> USE DEF TapsAge
<1>1. eng \in Engines /\ taps \in [Modifiers -> {0, 1, 2}]
  BY DEF GInv, GTypes, MatchTypes, UserTypes
<1>2. eng' \in Engines /\ eng'.mods = eng.mods /\ eng'.other = eng.other /\ eng'.combo = eng.combo
      /\ eng'.tap = [m \in Modifiers |-> IF eng.tap[m] = 1 THEN 2 ELSE eng.tap[m]]
  <2>1. [m \in Modifiers |-> IF eng.tap[m] = 1 THEN 2 ELSE eng.tap[m]] \in [Modifiers -> {0, 1, 2}]
    BY <1>1 DEF Engines
  <2>2. \A t \in [Modifiers -> {0, 1, 2}] : LET e == [eng EXCEPT !.tap = t]
                                            IN  e \in Engines /\ e.mods = eng.mods /\ e.other = eng.other /\ e.combo = eng.combo /\ e.tap = t
    BY <1>1 DEF Engines
  <2> QED BY <2>1, <2>2
<1>3. taps' \in [Modifiers -> {0, 1, 2}]
  BY <1>1
<1>4. (eng.tap = taps => eng'.tap = taps') /\ (eng.tap = NoTaps => eng'.tap = NoTaps) /\ (taps = NoTaps => taps' = NoTaps)
  BY <1>1, <1>2 DEF NoTaps
<1>5. GTypes'
  BY <1>2, <1>3 DEF GInv, GTypes, KeyTypes, MatchTypes, UserTypes
<1>6. (OneEach /\ Fired /\ Taken /\ KeysArrive /\ HotkeyAsMeant /\ ToggleAsMeant /\ ManagerKnows)'
  BY DEF GInv, OneEach, Fired, Taken, KeysArrive, HotkeyAsMeant, ToggleAsMeant, ManagerKnows, Latched, HeldMods
<1>7. EngineKnows'
  <2>1. (Undisturbed' <=> Undisturbed) /\ (Alone' <=> Alone) /\ HeldMods' = HeldMods /\ NoTaps' = NoTaps
    BY DEF Undisturbed, Alone, HeldMods, NoTaps
  <2> QED BY <1>2, <1>4, <2>1 DEF GInv, EngineKnows
<1> QED BY <1>5, <1>6, <1>7 DEF GInv

\* A new hook forgets the latched keys that are up by now.  (ReconcileLatchedKeysAfterHookReplacement)
LEMMA HookReplacedKeeps == GInv /\ HookReplaced => GInv'
<1> SUFFICES ASSUME GInv, HookReplaced PROVE GInv'
  OBVIOUS
<1> DEFINE m == ReconcileModifiers
<1>1. m \in Managers /\ m.latch = mgr.latch /\ m.passed = mgr.passed /\ m.mods = HeldMods /\ m.other = (HeldMods # {})
  BY Reconciled
<1>2. mgr' = ReconcileLatchedKeys(m) /\ UNCHANGED <<held, last, seen, live, route, press, odd>> /\ todo'.setup = todo.setup
      /\ eng' = ReconcileEngine(TRUE) /\ NewGesture /\ lost' = lost \cap (held \cup seen)
  BY DEF HookReplaced, Uses
<1> HIDE DEF m
<1> DEFINE gone == {s \in Slots : m.latch[s] # NoKey /\ m.latch[s] \notin held}
           freed == [s \in Slots |-> IF s \in gone THEN NoKey ELSE m.latch[s]]
<1>3. mgr' = [m EXCEPT !.latch = freed, !.passed = m.passed \ gone]
  BY <1>2 DEF ReconcileLatchedKeys
<1>4. /\ freed \in [Slots -> Letters \cup {NoKey}] /\ m.passed \ gone \in SUBSET Slots
      /\ \A s \in Slots : freed[s] = IF mgr.latch[s] \notin held THEN NoKey ELSE mgr.latch[s]
      /\ \A t \in Slots : t \in mgr.passed \ gone <=> t \in mgr.passed /\ (mgr.latch[t] = NoKey \/ mgr.latch[t] \in held)
  BY <1>1 DEF Managers
<1> HIDE DEF gone, freed
<1>5. mgr' \in Managers /\ mgr'.mods = HeldMods /\ mgr'.other = (HeldMods # {}) /\ mgr'.latch = freed
      /\ mgr'.passed = mgr.passed \ gone
  BY <1>1, <1>3, <1>4 DEF Managers
<1>6. ManagerKnows' /\ EngineKnows' /\ gest' \in UserGestures /\ taps' \in [Modifiers -> {0, 1, 2}] /\ eng' \in Engines
  BY <1>2, <1>5, BoundaryKnows
<1>7. GTypes'
  BY <1>2, <1>5, <1>6 DEF GInv, GTypes, KeyTypes, MatchTypes, UserTypes
<1>8. OneEach'
  BY <1>4, <1>5 DEF GInv, OneEach
<1>9. Fired'
  <2> SUFFICES ASSUME NEW k \in GKeys PROVE press[k].fires <= 1 /\ (k \in held /\ press[k].fires > 0 => Latched(k)' # {})
    BY <1>2 DEF Fired
  <2>1. k \in held => Latched(k) \subseteq Latched(k)'
    BY <1>4, <1>5, KeysApart DEF Latched
  <2> QED BY <2>1 DEF GInv, Fired
<1>10. Taken'
  BY <1>2, <1>4, <1>5 DEF GInv, Taken
<1>11. (KeysArrive /\ HotkeyAsMeant /\ ToggleAsMeant)'
  BY <1>2 DEF GInv, KeysArrive, HotkeyAsMeant, ToggleAsMeant
<1> QED BY <1>6, <1>7, <1>8, <1>9, <1>10, <1>11 DEF GInv
\* What a key that goes down makes of the gesture.
FirstDown(k) == k \in Modifiers /\ k \notin held /\ HeldMods = {}
GestureLaw(k, marks, g) ==
  /\ g \in UserGestures /\ marks \subseteq g.marks
  /\ FirstDown(k) => g.mods = {k} /\ g.dirty = FALSE
  /\ ~FirstDown(k) => g.mods = gest.mods \cup ({k} \cap Modifiers) /\ (g.dirty <=> gest.dirty \/ k \in Letters)
  /\ ~FirstDown(k) \/ ~NothingDown => gest.marks \subseteq g.marks
  /\ ~FirstDown(k) /\ k \notin held /\ k \in Modifiers /\ gest.dirty => "joined" \in g.marks

\* GestureDown does what the law says.
LEMMA GestureGrows ==
  ASSUME GInv, NEW k \in GKeys, NEW marks \in SUBSET Marks PROVE GestureLaw(k, marks, GestureDown(k, marks))
<1> DEFINE old == IF FirstDown(k) /\ NothingDown THEN {} ELSE gest.marks
           joined == Mark(k \notin held /\ ~FirstDown(k) /\ k \in Modifiers /\ gest.dirty, "joined")
           mods == IF FirstDown(k) THEN {k} ELSE gest.mods \cup ({k} \cap Modifiers)
           dirty == IF FirstDown(k) THEN FALSE ELSE gest.dirty \/ k \in Letters
           all == old \cup marks \cup joined
<1>1. GestureDown(k, marks) = [mods |-> mods, dirty |-> dirty, marks |-> all]
  BY DEF GestureDown, FirstDown
<1>2. gest.mods \in SUBSET Modifiers /\ gest.dirty \in BOOLEAN /\ gest.marks \in SUBSET Marks
  BY DEF GInv, GTypes, UserTypes, UserGestures
<1>3. mods \in SUBSET Modifiers /\ dirty \in BOOLEAN
  BY <1>2 DEF FirstDown
<1>4. joined \in SUBSET Marks
  BY DEF Mark, Marks
<1>5. all \in SUBSET Marks
  BY <1>2, <1>4
<1>6. ~FirstDown(k) \/ ~NothingDown => gest.marks \subseteq all
  OBVIOUS
<1>7. ~FirstDown(k) /\ k \notin held /\ k \in Modifiers /\ gest.dirty => "joined" \in all
  BY DEF Mark
<1>8. marks \subseteq all
  OBVIOUS
<1>9. FirstDown(k) => mods = {k} /\ dirty = FALSE
  OBVIOUS
<1>10. ~FirstDown(k) => mods = gest.mods \cup ({k} \cap Modifiers) /\ (dirty <=> gest.dirty \/ k \in Letters)
  OBVIOUS
<1> HIDE DEF mods, dirty, all, joined, old
<1>11. \A g : g = [mods |-> mods, dirty |-> dirty, marks |-> all]
           => g \in UserGestures /\ g.mods = mods /\ (g.dirty <=> dirty) /\ g.dirty = dirty /\ g.marks = all
  BY <1>3, <1>5 DEF UserGestures
<1> QED BY <1>1, <1>6, <1>7, <1>8, <1>9, <1>10, <1>11 DEF GestureLaw

\* The count of taps stays in its range.
LEMMA TapsTyped ==
  ASSUME GInv, NEW k \in GKeys
  PROVE  TapsDown(k) \in [Modifiers -> {0, 1, 2}] /\ TapsUp(k) \in [Modifiers -> {0, 1, 2}]
BY KeysApart DEF GInv, GTypes, UserTypes, TapsDown, TapsUp, NoTaps

\* A key that goes down unheard marks the gesture as missed.
LEMMA DeafDownKeeps == ASSUME NEW k \in GKeys PROVE GInv /\ DeafDown(k) => GInv'
<1> SUFFICES ASSUME GInv, DeafDown(k) PROVE GInv'
  OBVIOUS
<1>1. /\ k \notin held /\ held' = held \cup {k} /\ last' = k /\ seen' = seen \cup {k} /\ taps' = TapsDown(k)
      /\ press' = [press EXCEPT ![k] = NoPress] /\ gest' = GestureDown(k, {"missed"})
      /\ UNCHANGED <<mgr, eng, live, route, lost, odd>> /\ todo'.setup = todo.setup
  BY DEF DeafDown, Uses
<1>2. GestureLaw(k, {"missed"}, gest')
  <2>1. {"missed"} \in SUBSET Marks
    BY DEF Marks
  <2> QED BY <1>1, <2>1, GestureGrows
<1>3. gest' \in UserGestures /\ "missed" \in gest'.marks
  BY <1>2 DEF GestureLaw
<1>4. press' \in [GKeys -> Presses] /\ press'[k].fires = 0 /\ \A j \in GKeys : j # k => press'[j] = press[j]
  BY <1>1 DEF GInv, GTypes, KeyTypes, Presses, NoPress
<1>5. GTypes'
  <2>1. KeyTypes'
    BY <1>1, <1>4 DEF GInv, GTypes, KeyTypes
  <2>2. MatchTypes' /\ UserTypes'
    BY <1>1, <1>3, TapsTyped DEF GInv, GTypes, MatchTypes, UserTypes
  <2> QED BY <2>1, <2>2 DEF GTypes
<1>6. ManagerKnows' /\ EngineKnows'
  BY <1>3 DEF ManagerKnows, EngineKnows, Undisturbed
<1>7. Fired'
  BY <1>1, <1>4 DEF GInv, Fired, Latched
<1>8. (OneEach /\ Taken /\ HotkeyAsMeant /\ ToggleAsMeant)'
  BY <1>1 DEF GInv, OneEach, Taken, HotkeyAsMeant, ToggleAsMeant
<1>9. KeysArrive'
  BY <1>1, <1>4, KeysApart DEF GInv, KeysArrive
<1> QED BY <1>5, <1>6, <1>7, <1>8, <1>9 DEF GInv

\* The Up of a latched key that is missed excuses that key.
LEMMA DeafUpKeeps == ASSUME NEW k \in GKeys PROVE GInv /\ DeafUp(k) => GInv'
<1> SUFFICES ASSUME GInv, DeafUp(k) PROVE GInv'
  OBVIOUS
<1>1. /\ k \in held /\ held' = held \ {k} /\ last' = (IF last = k THEN NoKey ELSE last) /\ seen' = seen \ {k}
      /\ lost' = (IF Latched(k) # {} THEN lost \cup {k} ELSE lost) /\ taps' = TapsUp(k)
      /\ gest' = [gest EXCEPT !.marks = gest.marks \cup {"missed"}]
      /\ UNCHANGED <<mgr, eng, live, route, press, odd, todo>>
  BY DEF DeafUp
<1>2. gest' \in UserGestures /\ "missed" \in gest'.marks
  BY <1>1 DEF GInv, GTypes, UserTypes, UserGestures, Marks
<1>3. GTypes'
  <2>1. KeyTypes'
    BY <1>1 DEF GInv, GTypes, KeyTypes
  <2>2. MatchTypes' /\ UserTypes'
    BY <1>1, <1>2, TapsTyped DEF GInv, GTypes, MatchTypes, UserTypes
  <2> QED BY <2>1, <2>2 DEF GTypes
<1>4. ManagerKnows' /\ EngineKnows'
  BY <1>2 DEF ManagerKnows, EngineKnows, Undisturbed
<1>5. (OneEach /\ Fired /\ HotkeyAsMeant /\ ToggleAsMeant)'
  BY <1>1 DEF GInv, OneEach, Fired, Latched, HotkeyAsMeant, ToggleAsMeant
<1>6. Taken'
  BY <1>1, KeysApart DEF GInv, Taken
<1>7. KeysArrive'
  BY <1>1 DEF GInv, KeysArrive
<1> QED BY <1>3, <1>4, <1>5, <1>6, <1>7 DEF GInv
\* What the manager does with a letter's Up: a latched slot becomes free.
UpOutcome(k, r) ==
  /\ r.m \in Managers /\ r.m.mods = mgr.mods /\ r.m.other = mgr.other /\ r.fires = {}
  /\ \/ Latched(k) = {} /\ r.m = mgr /\ r.consume = FALSE
     \/ \E s \in Latched(k) : /\ r.m.latch = [mgr.latch EXCEPT ![s] = NoKey] /\ r.m.passed = mgr.passed \ {s}
                              /\ r.consume = (s \notin mgr.passed)

\* The value of Match for the Up of a letter.  (HotkeyManager::Match)
LEMMA LetterReleased == ASSUME GInv, NEW k \in Letters PROVE UpOutcome(k, Match(k, FALSE))
<1>1. Match(k, FALSE) = MatchUp(k) /\ mgr \in Managers
  BY KeysAssumption DEF Match, GInv, GTypes, MatchTypes
<1>2. CASE Latched(k) = {}
  <2> DEFINE r == Match(k, FALSE)
  <2>1. r = [m |-> mgr, consume |-> FALSE, fires |-> {}]
    BY <1>1, <1>2 DEF MatchUp
  <2> HIDE DEF r
  <2>2. r.m = mgr /\ r.consume = FALSE /\ r.fires = {}
    BY <2>1
  <2>3. UpOutcome(k, r)
    BY <1>1, <1>2, <2>2 DEF UpOutcome
  <2> QED BY <2>3 DEF r
<1>3. CASE Latched(k) # {}
  <2> DEFINE s == First(Latched(k))
             m == [mgr EXCEPT !.latch[s] = NoKey, !.passed = @ \ {s}]
  <2>1. s \in Latched(k) /\ s \in Slots
    <3>1. Latched(k) \in SUBSET Nat
      BY SlotsAssumption, KeysApart
    <3> QED BY <1>3, <3>1, Least, KeysApart
  <2>2. Match(k, FALSE) = [m |-> m, consume |-> s \notin mgr.passed, fires |-> {}]
    BY <1>1, <1>3 DEF MatchUp
  <2> HIDE DEF s
  <2>3. m.latch = [mgr.latch EXCEPT ![s] = NoKey] /\ m.passed = mgr.passed \ {s} /\ m.mods = mgr.mods
        /\ m.other = mgr.other /\ m \in Managers
    BY <1>1, <2>1 DEF Managers
  <2> HIDE DEF m
  <2>4. \A r : r = [m |-> m, consume |-> s \notin mgr.passed, fires |-> {}]
           => r.m = m /\ r.consume = (s \notin mgr.passed) /\ r.fires = {}
    <3> DEFINE c == s \notin mgr.passed
    <3> HIDE DEF c
    <3>1. \A r : r = [m |-> m, consume |-> c, fires |-> {}] => r.m = m /\ r.consume = c /\ r.fires = {}
      OBVIOUS
    <3> QED BY <3>1 DEF c
  <2> DEFINE r == Match(k, FALSE)
  <2>5. r.m = m /\ r.consume = (s \notin mgr.passed) /\ r.fires = {}
    BY <2>2, <2>4
  <2> HIDE DEF r
  <2>6. UpOutcome(k, r)
    BY <2>1, <2>3, <2>5 DEF UpOutcome
  <2> QED BY <2>6 DEF r
<1> QED BY <1>2, <1>3

\* The Up of a letter frees its slot; the application gets it unless the Down was kept from it.
LEMMA LetterUpKeeps == ASSUME NEW k \in Letters PROVE GInv /\ HotkeyUp(k) => GInv'
<1> SUFFICES ASSUME GInv, HotkeyUp(k) PROVE GInv'
  OBVIOUS
<1> DEFINE r == Match(k, FALSE)
<1>1. UpOutcome(k, r)
  BY LetterReleased
<1>2. k \in GKeys /\ k \notin Modifiers /\ k # NoKey /\ NoKey \notin Letters
  BY KeysApart
<1>3. /\ k \in held /\ mgr' = r.m /\ held' = held \ {k} /\ last' = (IF last = k THEN NoKey ELSE last)
      /\ seen' = (IF r.consume THEN seen ELSE seen \ {k}) /\ lost' = (IF k \in seen' THEN lost ELSE lost \ {k})
      /\ press' = [press EXCEPT ![k] = NoPress] /\ UNCHANGED <<live, route, deaf, todo>>
  BY DEF HotkeyUp
<1>4. eng' = eng /\ taps' = taps
  BY <1>2 DEF HotkeyUp, ProcessKeyUp, TapsUp
<1>5. gest' = gest
  <2>1. gest' = [gest EXCEPT !.marks = gest.marks \cup Mark(k \in Modifiers /\ HeldMods # {k}, "combo")]
    BY DEF HotkeyUp
  <2>2. Mark(k \in Modifiers /\ HeldMods # {k}, "combo") = {}
    BY <1>2 DEF Mark
  <2>3. gest' = [gest EXCEPT !.marks = gest.marks]
    BY <2>1, <2>2
  <2> QED BY <2>3 DEF GInv, GTypes, UserTypes, UserGestures
<1>6. odd' = {}
  <2>1. ~TogglesUp(k) /\ ~MeansToggle(k)
    BY <1>2 DEF TogglesUp, MeansToggle
  <2>2. (TogglesUp(k) # MeansToggle(k)) = FALSE
    BY <2>1 DEF TogglesUp, MeansToggle
  <2>3. (k \in Modifiers /\ r.fires # MeansHotkeys(k)) = FALSE
    BY <1>2
  <2> QED BY <2>2, <2>3 DEF HotkeyUp, Odd
<1>7. /\ r.m \in Managers /\ mgr'.mods = mgr.mods /\ mgr'.other = mgr.other
      /\ \A j \in Letters : j # k => Latched(j)' = Latched(j)
      /\ \A s \in Slots : mgr'.latch[s] # NoKey => mgr'.latch[s] = mgr.latch[s] /\ mgr.latch[s] # k
      /\ \A s \in Slots : mgr'.latch[s] # NoKey => (s \in mgr'.passed <=> s \in mgr.passed)
  <2>1. r.m \in Managers /\ mgr'.mods = mgr.mods /\ mgr'.other = mgr.other
    BY <1>1, <1>3 DEF UpOutcome
  <2>2. CASE Latched(k) = {} /\ r.m = mgr
    <3>1. mgr' = mgr
      BY <1>3, <2>2
    <3> QED BY <2>1, <2>2, <3>1, KeysApart DEF Latched
  <2>3. CASE \E s \in Latched(k) : r.m.latch = [mgr.latch EXCEPT ![s] = NoKey] /\ r.m.passed = mgr.passed \ {s}
    <3>1. PICK s \in Latched(k) : r.m.latch = [mgr.latch EXCEPT ![s] = NoKey] /\ r.m.passed = mgr.passed \ {s}
      BY <2>3
    <3>2. s \in Slots /\ mgr.latch[s] = k /\ mgr.latch \in [Slots -> Letters \cup {NoKey}]
      BY KeysApart DEF GInv, GTypes, MatchTypes, Managers
    <3>3. mgr'.latch = [mgr.latch EXCEPT ![s] = NoKey] /\ mgr'.passed = mgr.passed \ {s}
      BY <1>3, <3>1
    <3>4. \A t \in Slots : t # s => mgr.latch[t] # k
      BY <1>2, <3>2 DEF GInv, OneEach
    <3>5. \A t \in Slots : t # s => mgr'.latch[t] = mgr.latch[t]
      BY <3>2, <3>3
    <3>6. mgr'.latch[s] = NoKey
      BY <3>2, <3>3
    <3>7. ASSUME NEW j \in Letters, j # k PROVE Latched(j)' = Latched(j)
      <4>1. j # NoKey
        BY <1>2
      <4> QED BY <3>2, <3>5, <3>6, <3>7, <4>1 DEF Latched
    <3> QED BY <2>1, <3>3, <3>4, <3>5, <3>6, <3>7
  <2> QED BY <1>1, <2>1, <2>2, <2>3 DEF UpOutcome
<1>8. r.consume /\ k \in seen => k \in lost
  <2> HIDE DEF r
  <2>1. (Latched(k) = {} /\ r.consume = FALSE) \/ \E s \in Latched(k) : r.consume = (s \notin mgr.passed)
    BY <1>1 DEF UpOutcome
  <2>2. ASSUME NEW s \in Latched(k), r.consume = (s \notin mgr.passed), r.consume, k \in seen PROVE k \in lost
    <3>1. s \in Slots /\ mgr.latch[s] = k /\ s \notin mgr.passed
      BY <2>2, KeysApart
    <3> QED BY <1>2, <2>2, <3>1 DEF GInv, Taken
  <2> QED BY <2>1, <2>2
<1> HIDE DEF r
<1>9. press' \in [GKeys -> Presses] /\ press'[k].fires = 0 /\ \A j \in GKeys : j # k => press'[j] = press[j]
  BY <1>2, <1>3 DEF GInv, GTypes, KeyTypes, Presses, NoPress
<1>10. GTypes'
  <2>1. KeyTypes'
    BY <1>3, <1>9 DEF GInv, GTypes, KeyTypes
  <2>2. MatchTypes' /\ UserTypes'
    BY <1>3, <1>4, <1>5, <1>7 DEF GInv, GTypes, MatchTypes, UserTypes
  <2> QED BY <2>1, <2>2 DEF GTypes
<1>11. OneEach'
  BY <1>7 DEF GInv, OneEach
<1>12. Fired'
  <2> SUFFICES ASSUME NEW j \in GKeys PROVE press'[j].fires <= 1 /\ (j \in held' /\ press'[j].fires > 0 => Latched(j)' # {})
    BY DEF Fired
  <2>1. CASE j = k
    BY <1>9, <2>1
  <2>2. CASE j # k /\ j \in Letters
    BY <1>3, <1>7, <1>9, <2>2 DEF GInv, Fired
  <2>3. CASE j \in Modifiers
    <3>1. ~(j \in held /\ press[j].fires > 0)
      BY <2>3, KeysApart DEF GInv, Fired, GTypes, MatchTypes, Managers
    <3> QED BY <1>3, <1>9, <2>3, <3>1, KeysApart DEF GInv, Fired
  <2> QED BY <2>1, <2>2, <2>3 DEF GKeys
<1>13. Taken'
  <2> SUFFICES ASSUME NEW s \in Slots, mgr'.latch[s] # NoKey
               PROVE  /\ mgr'.latch[s] \notin held' => mgr'.latch[s] \in lost'
                      /\ mgr'.latch[s] \in seen' /\ s \notin mgr'.passed => mgr'.latch[s] \in lost'
    BY DEF Taken
  <2>1. mgr'.latch[s] = mgr.latch[s] /\ mgr.latch[s] # k /\ (s \in mgr'.passed <=> s \in mgr.passed)
    BY <1>7
  <2> QED BY <1>3, <2>1 DEF GInv, Taken
<1>14. KeysArrive'
  <2>1. \A j \in seen' \ held' : j \in lost'
    BY <1>3, <1>8 DEF GInv, KeysArrive
  <2>2. \A j \in held' \cap Letters : j # k /\ j \in held /\ (j \in seen <=> j \in seen') /\ (j \in lost <=> j \in lost')
    BY <1>3
  <2>3. \A j \in held' \cap Letters : j \in seen' \/ press'[j].fires > 0 \/ press'[j].eaten \/ j \in lost'
    BY <1>9, <2>2, KeysApart DEF GInv, KeysArrive
  <2> QED BY <2>1, <2>3 DEF KeysArrive
<1>15. (HotkeyAsMeant /\ ToggleAsMeant)'
  BY <1>6 DEF HotkeyAsMeant, ToggleAsMeant
<1>16. HeldMods' = HeldMods
  BY <1>2, <1>3 DEF HeldMods
<1>17. ManagerKnows'
  BY <1>5, <1>7, <1>16 DEF GInv, ManagerKnows
<1>18. EngineKnows'
  <2>1. (Undisturbed' <=> Undisturbed) /\ (Alone' <=> Alone) /\ NoTaps' = NoTaps /\ (last' \in Letters => last \in Letters)
    BY <1>2, <1>3, <1>5 DEF Undisturbed, Alone, NoTaps
  <2> QED BY <1>4, <1>5, <1>16, <2>1 DEF GInv, EngineKnows
<1> QED BY <1>10, <1>11, <1>12, <1>13, <1>14, <1>15, <1>17, <1>18 DEF GInv
\* The engine toggles as meant where nothing excuses it.
LEMMA ToggleMeant ==
  ASSUME GInv, NEW k \in Modifiers, k \in held, ~Miscounted(k), gest.mods = HeldMods \/ HeldMods = {k},
         gest.marks \cap {"hotkey", "lock", "excluded", "joined", "rerouted", "missed"} = {}
  PROVE  TogglesUp(k) <=> MeansToggle(k)
<1>1. CASE route = "tsf"
  BY <1>1 DEF TogglesUp, MeansToggle
<1>2. CASE route # "tsf"
  <2>1. Undisturbed /\ EngineKnows
    BY <1>2 DEF Undisturbed, GInv
  <2>2. k \in HeldMods /\ HeldMods # {}
    BY DEF HeldMods
  <2>3. eng.mods = HeldMods /\ (eng.other <=> gest.dirty) /\ HeldMods \subseteq gest.mods
        /\ (~gest.dirty => (eng.combo <=> ~Alone)) /\ ("combo" \notin gest.marks => eng.tap = taps)
    BY <2>1, <2>2 DEF EngineKnows
  <2>4. Alone <=> gest.mods = {k}
    BY <2>2, <2>3 DEF Alone
  <2>5. CleanRelease(k) <=> MeantAlone(HeldMods)
    <3>1. CASE HeldMods = {k}
      <4>1. eng.mods \ {k} = {}
        BY <2>3, <3>1
      <4> QED BY <2>3, <2>4, <3>1, <4>1 DEF CleanRelease, MeantAlone
    <3>2. CASE HeldMods # {k}
      <4>1. eng.mods \ {k} # {}
        BY <2>2, <2>3, <3>2
      <4> QED BY <2>3, <3>2, <4>1 DEF CleanRelease, MeantAlone
    <3> QED BY <3>1, <3>2
  <2>6. MeantAlone(HeldMods) => DoubleTap(k) = MeantTwice(k)
    <3>1. CASE "combo" \in gest.marks \/ HeldMods # {k}
      BY <3>1 DEF Miscounted
    <3>2. CASE "combo" \notin gest.marks /\ HeldMods = {k}
      BY <2>3, <3>2 DEF DoubleTap, MeantTwice
    <3> QED BY <3>1, <3>2
  <2> QED BY <1>2, <2>3, <2>5, <2>6 DEF TogglesUp, MeansToggle
<1> QED BY <1>1, <1>2

\* The hotkeys of modifiers alone fire as meant where nothing excuses it.
LEMMA HotkeyMeant ==
  ASSUME GInv, NEW k \in Modifiers, k \in held, gest.mods = HeldMods, gest.marks \cap {"noise", "missed"} = {},
         ~ \E s \in Slots : mgr.latch[s] \in lost \ held
  PROVE  Match(k, FALSE).fires = MeansHotkeys(k)
<1>1. mgr.mods = HeldMods /\ HeldMods # {} /\ (mgr.other <=> gest.dirty)
  BY DEF GInv, ManagerKnows, HeldMods
<1>2. \A s \in Slots : mgr.latch[s] = NoKey <=> mgr.latch[s] \notin held
  BY KeysApart DEF GInv, Taken, GTypes, KeyTypes
<1>3. Match(k, FALSE).fires = {s \in BoundAlone(mgr.mods) : mgr.latch[s] = NoKey /\ ~mgr.other /\ ~AllowsEvent(s)}
  BY DEF Match, MatchModifierUp
<1>4. MeansHotkeys(k) = {s \in BoundAlone(HeldMods) : ~gest.dirty /\ mgr.latch[s] \notin held /\ ~AllowsEvent(s)}
  BY DEF MeansHotkeys, MeantAlone
<1>5. BoundAlone(HeldMods) \subseteq Slots
  BY DEF BoundAlone
<1>6. \A s \in BoundAlone(HeldMods) : (mgr.latch[s] = NoKey /\ ~mgr.other /\ ~AllowsEvent(s))
                                   <=> (~gest.dirty /\ mgr.latch[s] \notin held /\ ~AllowsEvent(s))
  BY <1>1, <1>2, <1>5
<1> QED BY <1>1, <1>3, <1>4, <1>6

\* The Up of a modifier, where hotkeys of modifiers alone fire.  (Match, ProcessKeyUp)
LEMMA ModifierUpKeeps == ASSUME NEW k \in Modifiers PROVE GInv /\ HotkeyUp(k) => GInv'
<1> SUFFICES ASSUME GInv, HotkeyUp(k) PROVE GInv'
  OBVIOUS
<1> DEFINE marks == gest.marks \cup Mark(gest.mods # HeldMods, "tail")
                               \cup Mark(\E s \in Slots : mgr.latch[s] \in lost \ held, "missed")
           marksOfEngine == (gest.marks \ {"combo"}) \cup Mark(Miscounted(k), "combo")
                               \cup Mark(gest.mods # HeldMods /\ HeldMods # {k}, "tail")
           r == Match(k, FALSE)
<1>1. k \in GKeys /\ k \notin Letters /\ k # NoKey
  BY KeysApart
<1>2. r.m = UpdateModifierState(k, FALSE) /\ ~r.consume
  BY DEF Match, MatchModifierUp
<1>3. /\ k \in held /\ mgr' = r.m /\ eng' = ProcessKeyUp(k) /\ held' = held \ {k}
      /\ last' = (IF last = k THEN NoKey ELSE last) /\ seen' = seen \ {k} /\ taps' = TapsUp(k)
      /\ press' = [press EXCEPT ![k] = NoPress] /\ UNCHANGED <<live, route, deaf, todo>>
  BY <1>2 DEF HotkeyUp
<1>4. lost' = lost \ {k}
  BY <1>3 DEF HotkeyUp
<1>5. odd' = Odd("manager", k \in Modifiers /\ r.fires # MeansHotkeys(k), marks)
               \cup Odd("engine", TogglesUp(k) # MeansToggle(k), marksOfEngine)
  BY DEF HotkeyUp
<1>6. gest' = [gest EXCEPT !.marks = gest.marks \cup Mark(k \in Modifiers /\ HeldMods # {k}, "combo")]
  BY DEF HotkeyUp
<1>7. mgr' \in Managers /\ mgr'.mods = mgr.mods \ {k} /\ (mgr'.other <=> mgr.other) /\ mgr'.latch = mgr.latch
      /\ mgr'.passed = mgr.passed
  <2>1. mgr' = [mgr EXCEPT !.mods = mgr.mods \ {k}, !.other = mgr.other /\ ~(FALSE /\ mgr.mods = {})]
    BY <1>2, <1>3 DEF UpdateModifierState
  <2>2. mgr \in Managers
    BY DEF GInv, GTypes, MatchTypes
  <2> QED BY <2>1, <2>2 DEF Managers
<1> HIDE DEF r
<1>8. gest' \in UserGestures /\ gest'.mods = gest.mods /\ gest'.dirty = gest.dirty /\ gest.marks \subseteq gest'.marks
      /\ gest'.marks \subseteq gest.marks \cup {"combo"} /\ (HeldMods # {k} => "combo" \in gest'.marks)
  <2>1. gest \in UserGestures /\ Mark(k \in Modifiers /\ HeldMods # {k}, "combo") \in SUBSET Marks
    BY DEF GInv, GTypes, UserTypes, Marks, Mark
  <2>2. \A m \in SUBSET Marks : LET g == [gest EXCEPT !.marks = gest.marks \cup m]
                                IN  g \in UserGestures /\ g.mods = gest.mods /\ g.dirty = gest.dirty /\ g.marks = gest.marks \cup m
    BY <2>1 DEF UserGestures
  <2>3. gest' \in UserGestures /\ gest'.mods = gest.mods /\ gest'.dirty = gest.dirty
        /\ gest'.marks = gest.marks \cup Mark(k \in Modifiers /\ HeldMods # {k}, "combo")
    BY <1>6, <2>1, <2>2
  <2> QED BY <2>3 DEF Mark
<1>9. HeldMods' = HeldMods \ {k} /\ k \in HeldMods
  BY <1>3 DEF HeldMods
<1>10. eng' \in Engines /\ (route = "tsf" => eng' = eng)
       /\ (route # "tsf" => /\ eng'.mods = eng.mods \ {k} /\ (eng'.other <=> eng.other)
                            /\ (eng'.combo <=> eng.combo /\ eng.mods \ {k} # {})
                            /\ eng'.tap = [eng.tap EXCEPT ![k] = IF CleanRelease(k) /\ ~DoubleTap(k) THEN 1 ELSE 0])
  <2>1. eng \in Engines
    BY DEF GInv, GTypes, MatchTypes
  <2>2. CASE route = "tsf"
    BY <1>3, <2>1, <2>2 DEF ProcessKeyUp
  <2>3. CASE route # "tsf"
    <3> DEFINE e == TrackModifier(k, FALSE)
               c == eng.combo /\ eng.mods \ {k} # {}
               n == IF CleanRelease(k) /\ ~DoubleTap(k) THEN 1 ELSE 0
    <3>1. e = [eng EXCEPT !.mods = eng.mods \ {k}, !.other = eng.other /\ ~(FALSE /\ k \notin eng.mods),
                          !.combo = (eng.combo \/ ((FALSE /\ k \notin eng.mods) /\ eng.mods # {})) /\ (FALSE \/ eng.mods \ {k} # {})]
      BY DEF TrackModifier
    <3>2. e \in Engines /\ e.mods = eng.mods \ {k} /\ (e.other <=> eng.other) /\ (e.combo <=> c) /\ e.tap = eng.tap
      BY <2>1, <3>1 DEF Engines
    <3>3. eng' = [e EXCEPT !.tap = [e.tap EXCEPT ![k] = n]]
      BY <1>1, <1>3, <2>3 DEF ProcessKeyUp
    <3>4. n \in {0, 1, 2}
      OBVIOUS
    <3> HIDE DEF e, c, n
    <3>5. [e.tap EXCEPT ![k] = n] \in [Modifiers -> {0, 1, 2}]
      BY <3>2, <3>4 DEF Engines
    <3>6. eng' \in Engines /\ eng'.mods = e.mods /\ eng'.other = e.other /\ eng'.combo = e.combo
          /\ eng'.tap = [e.tap EXCEPT ![k] = n]
      BY <3>2, <3>3, <3>5 DEF Engines
    <3>7. (eng'.combo <=> c) /\ eng'.tap = [eng.tap EXCEPT ![k] = n]
      BY <3>2, <3>6
    <3> QED BY <2>3, <3>2, <3>6, <3>7 DEF c, n
  <2> QED BY <2>2, <2>3
<1>11. press' \in [GKeys -> Presses] /\ press'[k].fires = 0 /\ \A j \in GKeys : j # k => press'[j] = press[j]
  BY <1>1, <1>3 DEF GInv, GTypes, KeyTypes, Presses, NoPress
<1>12. GTypes'
  <2>1. KeyTypes'
    BY <1>3, <1>4, <1>11 DEF GInv, GTypes, KeyTypes
  <2>2. MatchTypes' /\ UserTypes'
    BY <1>1, <1>3, <1>7, <1>8, <1>10, TapsTyped DEF GInv, GTypes, MatchTypes, UserTypes
  <2> QED BY <2>1, <2>2 DEF GTypes
<1>13. OneEach'
  BY <1>7 DEF GInv, OneEach
<1>14. Fired'
  BY <1>3, <1>7, <1>11 DEF GInv, Fired, Latched
<1>15. \A s \in Slots : mgr.latch[s] # k
  BY <1>1 DEF GInv, GTypes, MatchTypes, Managers
<1>16. Taken'
  BY <1>3, <1>4, <1>7, <1>15 DEF GInv, Taken
<1>17. KeysArrive'
  BY <1>1, <1>3, <1>4, <1>11, KeysApart DEF GInv, KeysArrive
<1>18. ManagerKnows'
  BY <1>7, <1>8, <1>9 DEF GInv, ManagerKnows
<1>19. EngineKnows'
  <2> SUFFICES ASSUME Undisturbed' PROVE EngineKnows'
    BY DEF EngineKnows
  <2>1. Undisturbed /\ route # "tsf" /\ Alone' = Alone
    BY <1>3, <1>8 DEF Undisturbed, Alone
  <2>2. /\ eng.mods = HeldMods /\ (eng.other <=> gest.dirty) /\ HeldMods \subseteq gest.mods
        /\ (~gest.dirty => (eng.combo <=> ~Alone)) /\ ("combo" \notin gest.marks => eng.tap = taps)
        /\ (last \in Letters => eng.tap = NoTaps /\ taps = NoTaps /\ gest.dirty)
    BY <1>9, <2>1 DEF GInv, EngineKnows
  <2>3. taps' = [taps EXCEPT ![k] = IF MeantAlone({k}) /\ taps[k] # 1 THEN 1 ELSE 0]
    BY <1>1, <1>3 DEF TapsUp
  <2>4. eng'.mods = HeldMods' /\ (eng'.other <=> eng.other) /\ (eng'.combo <=> eng.combo /\ HeldMods' # {})
        /\ eng'.tap = [eng.tap EXCEPT ![k] = IF CleanRelease(k) /\ ~DoubleTap(k) THEN 1 ELSE 0]
    BY <1>9, <1>10, <2>1, <2>2
  <2>5. "combo" \notin gest'.marks => eng'.tap = taps'
    <3> SUFFICES ASSUME "combo" \notin gest'.marks PROVE eng'.tap = taps'
      OBVIOUS
    <3>1. HeldMods = {k} /\ eng.tap = taps
      BY <1>8, <2>2
    <3>2. Alone <=> gest.mods = {k}
      BY <1>9, <2>2 DEF Alone
    <3>3. CleanRelease(k) <=> MeantAlone({k})
      BY <2>2, <3>1, <3>2 DEF CleanRelease, MeantAlone
    <3>4. DoubleTap(k) <=> taps[k] = 1
      BY <3>1 DEF DoubleTap
    <3> QED BY <2>3, <2>4, <3>1, <3>3, <3>4
  <2>6. last' \in Letters => eng'.tap = NoTaps /\ taps' = NoTaps /\ gest'.dirty
    <3> SUFFICES ASSUME last' \in Letters PROVE eng'.tap = NoTaps /\ taps' = NoTaps /\ gest'.dirty
      OBVIOUS
    <3>1. eng.tap = NoTaps /\ taps = NoTaps /\ gest.dirty
      BY <1>3, <2>2, KeysAssumption DEF GKeys
    <3>2. ~CleanRelease(k) /\ ~MeantAlone({k})
      BY <2>2, <3>1 DEF CleanRelease, MeantAlone
    <3>3. [NoTaps EXCEPT ![k] = 0] = NoTaps
      BY DEF NoTaps
    <3> QED BY <1>8, <2>3, <2>4, <3>1, <3>2, <3>3
  <2>7. NoTaps' = NoTaps
    BY DEF NoTaps
  <2> QED BY <1>8, <1>9, <2>1, <2>2, <2>4, <2>5, <2>6, <2>7 DEF EngineKnows
<1>20. HotkeyAsMeant'
  <2> SUFFICES ASSUME NEW o \in odd', o.who = "manager", o.marks \cap {"tail", "noise", "missed"} = {} PROVE FALSE
    BY DEF HotkeyAsMeant
  <2>1. o.marks = marks /\ r.fires # MeansHotkeys(k)
    <3> HIDE DEF marks, marksOfEngine
    <3>1. CASE o \in Odd("manager", k \in Modifiers /\ r.fires # MeansHotkeys(k), marks)
      BY <3>1 DEF Odd
    <3>2. CASE o \in Odd("engine", TogglesUp(k) # MeansToggle(k), marksOfEngine)
      BY <3>2 DEF Odd
    <3> QED BY <1>5, <3>1, <3>2
  <2>2. gest.mods = HeldMods /\ gest.marks \cap {"noise", "missed"} = {} /\ ~ \E s \in Slots : mgr.latch[s] \in lost \ held
    BY <2>1 DEF Mark
  <2> QED BY <1>3, <2>1, <2>2, HotkeyMeant DEF r
<1>21. ToggleAsMeant'
  <2> SUFFICES ASSUME NEW o \in odd', o.who = "engine",
                      o.marks \cap {"hotkey", "lock", "excluded", "joined", "combo", "rerouted", "missed", "held", "tail"} = {}
               PROVE FALSE
    BY DEF ToggleAsMeant
  <2>1. o.marks = marksOfEngine /\ TogglesUp(k) # MeansToggle(k)
    <3> HIDE DEF marks, marksOfEngine
    <3>1. CASE o \in Odd("manager", k \in Modifiers /\ r.fires # MeansHotkeys(k), marks)
      BY <3>1 DEF Odd
    <3>2. CASE o \in Odd("engine", TogglesUp(k) # MeansToggle(k), marksOfEngine)
      BY <3>2 DEF Odd
    <3> QED BY <1>5, <3>1, <3>2
  <2>2. ~Miscounted(k) /\ (gest.mods = HeldMods \/ HeldMods = {k})
    BY <2>1 DEF Mark
  <2>3. gest.marks \cap {"hotkey", "lock", "excluded", "joined", "rerouted", "missed"} = {}
    BY <2>1
  <2>4. TogglesUp(k) <=> MeansToggle(k)
    BY <1>3, <2>2, <2>3, ToggleMeant
  <2> QED BY <2>1, <2>4 DEF TogglesUp, MeansToggle
<1> QED BY <1>12, <1>13, <1>14, <1>16, <1>17, <1>18, <1>19, <1>20, <1>21 DEF GInv
\* A press leaves the setup as it is.
LEMMA PressSetupKept == ASSUME NEW k, Pressed(k) PROVE todo'.setup = todo.setup
<1>1. CASE k \in held
  BY <1>1 DEF Pressed
<1>2. CASE k \notin held
  <2>1. todo' = [todo EXCEPT !.n["keys"] = @ - 1]
    BY <1>2 DEF Pressed, Uses
  <2> QED BY <2>1
<1> QED BY <1>1, <1>2

\* The Down of a modifier begins a gesture or adds to one.  (TrackModifier, UpdateModifierState)
LEMMA ModifierDownKeeps == ASSUME NEW k \in Modifiers PROVE GInv /\ HotkeyDown(k) => GInv'
<1> SUFFICES ASSUME GInv, HotkeyDown(k) PROVE GInv'
  OBVIOUS
<1> DEFINE r == Match(k, TRUE)
           ms == Mark(FALSE, "hotkey") \cup Mark(k = Lock, "lock") \cup Mark(route = "excluded" /\ k \in Letters, "excluded")
<1>1. k \in GKeys /\ k \notin Letters /\ k # NoKey /\ k # Lock
  BY KeysApart, KeysAssumption
<1>2. r = [m |-> UpdateModifierState(k, TRUE), consume |-> FALSE, fires |-> {}] /\ ~ToggleDown(k)
  BY <1>1 DEF Match, ToggleDown
<1>3. r.m = UpdateModifierState(k, TRUE) /\ r.consume = FALSE /\ r.fires = {}
  <2> DEFINE m == UpdateModifierState(k, TRUE)
  <2> HIDE DEF r, m
  <2>1. r = [m |-> m, consume |-> FALSE, fires |-> {}]
    BY <1>2 DEF m
  <2>2. r.m = m /\ r.consume = FALSE /\ r.fires = {}
    BY <2>1
  <2> QED BY <2>2 DEF m
<1>4. /\ mgr' = r.m /\ eng' = EngineDown(k) /\ seen' = seen \cup {k} /\ lost' = lost /\ held' = held \cup {k}
      /\ last' = k /\ taps' = TapsDown(k) /\ UNCHANGED <<live, route, deaf>> /\ todo'.setup = todo.setup
  BY <1>2, <1>3, PressSetupKept DEF HotkeyDown
<1>5. press' = [press EXCEPT ![k] = [fires |-> PressOf(k).fires + 0, eaten |-> PressOf(k).eaten \/ FALSE]]
  BY <1>2, <1>3 DEF HotkeyDown
<1>6. gest' = GestureDown(k, ms)
  BY <1>2, <1>3 DEF HotkeyDown
<1>7. odd' = {}
  BY <1>2, <1>3 DEF HotkeyDown, Odd
<1>8. mgr' \in Managers /\ mgr'.mods = mgr.mods \cup {k} /\ (mgr'.other <=> mgr.other /\ mgr.mods # {})
      /\ mgr'.latch = mgr.latch /\ mgr'.passed = mgr.passed
  <2>1. mgr' = [mgr EXCEPT !.mods = mgr.mods \cup {k}, !.other = mgr.other /\ ~(TRUE /\ mgr.mods = {})]
    BY <1>3, <1>4 DEF UpdateModifierState
  <2>2. mgr \in Managers
    BY DEF GInv, GTypes, MatchTypes
  <2> QED BY <2>1, <2>2 DEF Managers
<1> HIDE DEF r
<1>9. GestureLaw(k, ms, gest')
  <2>1. ms \in SUBSET Marks
    BY DEF Mark, Marks
  <2> HIDE DEF ms
  <2> QED BY <1>1, <1>6, <2>1, GestureGrows
<1> HIDE DEF ms
<1>10. gest' \in UserGestures
  BY <1>9 DEF GestureLaw
<1>11. HeldMods' = HeldMods \cup {k} /\ taps' = taps
  BY <1>1, <1>4 DEF HeldMods, TapsDown
<1>12. eng' \in Engines /\ (route # "tsf" =>
         /\ eng'.mods = eng.mods \cup {k} /\ (eng'.other <=> eng.other /\ k \in eng.mods) /\ eng'.tap = eng.tap
         /\ (eng'.combo <=> eng.combo \/ (k \notin eng.mods /\ eng.mods # {})))
  <2>1. eng \in Engines
    BY DEF GInv, GTypes, MatchTypes
  <2>2. CASE route = "tsf"
    BY <1>4, <2>1, <2>2 DEF EngineDown
  <2>3. CASE route # "tsf"
    <3>1. eng' = TrackModifier(k, TRUE)
      BY <1>1, <1>4, <2>3 DEF EngineDown
    <3>2. eng' = [eng EXCEPT !.mods = eng.mods \cup {k}, !.other = eng.other /\ ~(TRUE /\ k \notin eng.mods),
                     !.combo = (eng.combo \/ ((TRUE /\ k \notin eng.mods) /\ eng.mods # {})) /\ (TRUE \/ eng.mods \cup {k} # {})]
      BY <3>1 DEF TrackModifier
    <3> QED BY <2>1, <2>3, <3>2 DEF Engines
  <2> QED BY <2>2, <2>3
<1>13. /\ press' \in [GKeys -> Presses] /\ \A j \in GKeys : j # k => press'[j] = press[j]
       /\ press'[k].fires = IF k \in held THEN press[k].fires ELSE 0
  <2>1. PressOf(k) \in Presses /\ PressOf(k).fires = (IF k \in held THEN press[k].fires ELSE 0)
    BY <1>1 DEF GInv, GTypes, KeyTypes, PressOf, NoPress, Presses
  <2>2. [fires |-> PressOf(k).fires + 0, eaten |-> PressOf(k).eaten \/ FALSE] \in Presses /\ PressOf(k).fires + 0 = PressOf(k).fires
    BY <2>1 DEF Presses
  <2> QED BY <1>1, <1>5, <2>1, <2>2 DEF GInv, GTypes, KeyTypes
<1>14. GTypes'
  <2>1. KeyTypes'
    BY <1>1, <1>4, <1>13 DEF GInv, GTypes, KeyTypes
  <2>2. MatchTypes' /\ UserTypes'
    BY <1>1, <1>4, <1>8, <1>10, <1>12, TapsTyped DEF GInv, GTypes, MatchTypes, UserTypes
  <2> QED BY <2>1, <2>2 DEF GTypes
<1>15. OneEach'
  BY <1>8 DEF GInv, OneEach
<1>16. Fired'
  <2> SUFFICES ASSUME NEW j \in GKeys PROVE press'[j].fires <= 1 /\ (j \in held' /\ press'[j].fires > 0 => Latched(j)' # {})
    BY DEF Fired
  <2>1. Latched(j)' = Latched(j)
    BY <1>8 DEF Latched
  <2> QED BY <1>4, <1>13, <2>1 DEF GInv, Fired
<1>17. Taken'
  <2>1. \A s \in Slots : mgr.latch[s] # k
    BY <1>1 DEF GInv, GTypes, MatchTypes, Managers
  <2> QED BY <1>4, <1>8, <2>1 DEF GInv, Taken
<1>18. KeysArrive'
  BY <1>1, <1>4, <1>13, KeysApart DEF GInv, KeysArrive
<1>19. (HotkeyAsMeant /\ ToggleAsMeant)'
  BY <1>7 DEF HotkeyAsMeant, ToggleAsMeant
<1>20. (FirstDown(k) => HeldMods = {} /\ k \notin held) /\ (~FirstDown(k) => HeldMods # {}) /\ (k \in held <=> k \in HeldMods)
  BY DEF FirstDown, HeldMods
<1>21. ManagerKnows'
  <2> SUFFICES ASSUME gest'.marks \cap {"missed", "noise"} = {} PROVE ManagerKnows'
    BY DEF ManagerKnows
  <2>1. CASE FirstDown(k) /\ NothingDown
    <3>1. mgr.mods = {} /\ gest'.dirty = FALSE
      BY <1>9, <2>1 DEF GestureLaw, NothingDown
    <3> QED BY <1>8, <1>11, <1>20, <2>1, <3>1 DEF ManagerKnows
  <2>2. CASE ~FirstDown(k) \/ ~NothingDown
    <3>1. mgr.mods = HeldMods /\ (HeldMods # {} => (mgr.other <=> gest.dirty))
      BY <1>9, <2>2 DEF GestureLaw, GInv, ManagerKnows
    <3>2. IF FirstDown(k) THEN gest'.dirty = FALSE ELSE gest'.dirty <=> gest.dirty
      BY <1>1, <1>9 DEF GestureLaw
    <3> QED BY <1>8, <1>11, <1>20, <3>1, <3>2 DEF ManagerKnows
  <2> QED BY <2>1, <2>2
<1>22. EngineKnows'
  <2> SUFFICES ASSUME Undisturbed' PROVE EngineKnows'
    BY DEF EngineKnows
  <2>1. route # "tsf" /\ "joined" \notin gest'.marks /\ k \in HeldMods' /\ last' \notin Letters
    BY <1>1, <1>4, <1>11 DEF Undisturbed
  <2>2. CASE FirstDown(k) /\ NothingDown
    <3>1. gest'.mods = {k} /\ gest'.dirty = FALSE /\ eng.tap = taps /\ eng.mods = {} /\ ~eng.combo
      BY <1>9, <2>2 DEF GestureLaw, NothingDown
    <3>2. Alone' /\ HeldMods' = {k}
      BY <1>11, <1>20, <2>2, <3>1 DEF Alone
    <3> QED BY <1>11, <1>12, <2>1, <3>1, <3>2 DEF EngineKnows
  <2>3. CASE ~FirstDown(k) \/ ~NothingDown
    <3>1. gest.marks \subseteq gest'.marks
      BY <1>9, <2>3 DEF GestureLaw
    <3>2. Undisturbed
      BY <1>4, <3>1 DEF Undisturbed
    <3>3. CASE FirstDown(k)
      <4>1. gest'.mods = {k} /\ gest'.dirty = FALSE
        BY <1>9, <3>3 DEF GestureLaw
      <4>2. Alone' /\ HeldMods' = {k} /\ HeldMods = {}
        BY <1>11, <1>20, <3>3, <4>1 DEF Alone
      <4>3. eng.mods = {} /\ ~eng.combo /\ ("combo" \notin gest.marks => eng.tap = taps)
        BY <3>2, <4>2 DEF GInv, EngineKnows
      <4> QED BY <1>11, <1>12, <2>1, <3>1, <4>1, <4>2, <4>3 DEF EngineKnows
    <3>4. CASE ~FirstDown(k)
      <4>1. gest'.mods = gest.mods \cup {k} /\ (gest'.dirty <=> gest.dirty) /\ (k \notin held => ~gest.dirty)
        BY <1>1, <1>9, <2>1, <3>4 DEF GestureLaw
      <4>2. HeldMods # {} /\ HeldMods' # {}
        BY <1>11, <1>20, <3>4
      <4>3. eng.mods = HeldMods /\ (eng.other <=> gest.dirty) /\ HeldMods \subseteq gest.mods
            /\ (~gest.dirty => (eng.combo <=> ~Alone)) /\ ("combo" \notin gest.marks => eng.tap = taps)
        BY <3>2, <4>2 DEF GInv, EngineKnows
      <4>4. CASE k \in HeldMods
        <5>1. Alone' <=> Alone
          BY <4>1, <4>3, <4>4 DEF Alone
        <5> QED BY <1>11, <1>12, <2>1, <3>1, <4>1, <4>2, <4>3, <4>4, <5>1 DEF EngineKnows
      <4>5. CASE k \notin HeldMods
        <5>1. ~Alone'
          BY <4>1, <4>2, <4>3, <4>5 DEF Alone
        <5>2. ~gest.dirty
          BY <1>20, <4>1, <4>5
        <5> QED BY <1>11, <1>12, <2>1, <3>1, <4>1, <4>2, <4>3, <4>5, <5>1, <5>2 DEF EngineKnows
      <4> QED BY <4>4, <4>5
    <3> QED BY <3>3, <3>4
  <2> QED BY <2>2, <2>3
<1> QED BY <1>14, <1>15, <1>16, <1>17, <1>18, <1>19, <1>21, <1>22 DEF GInv
\* What the manager does with a letter's Down: nothing, a repeat, or one slot is latched.
DownOutcome(k, r) ==
  /\ r.m \in Managers /\ r.m.mods = mgr.mods /\ r.m.other = TRUE
  /\ \/ r.m.latch = mgr.latch /\ r.m.passed = mgr.passed /\ r.fires = {} /\ r.consume = Repeats(k)
     \/ \E s \in Slots :
          /\ ~Repeats(k) /\ mgr.latch[s] = NoKey /\ r.m.latch = [mgr.latch EXCEPT ![s] = k]
          /\ \/ AllowsEvent(s) /\ r.m.passed = mgr.passed \cup {s} /\ r.consume = FALSE /\ r.fires = {}
             \/ r.m.passed = mgr.passed \ {s} /\ r.consume = TRUE /\ r.fires = {s}

\* The value of Match for the Down of a letter.  (HotkeyManager::Match)
LEMMA LetterPressed == ASSUME GInv, NEW k \in Letters PROVE DownOutcome(k, Match(k, TRUE))
<1> DEFINE r == Match(k, TRUE)
           m == [mgr EXCEPT !.other = TRUE]
           fits == {s \in Slots : live[s].vk = k /\ mgr.latch[s] = NoKey /\ live[s].mods = mgr.mods}
           s == First(fits)
<1>1. r = MatchDown(k) /\ mgr \in Managers
  BY KeysAssumption DEF Match, GInv, GTypes, MatchTypes
<1>2. m \in Managers /\ m.mods = mgr.mods /\ m.other = TRUE /\ m.latch = mgr.latch /\ m.passed = mgr.passed
  BY <1>1 DEF Managers
<1>3. CASE Repeats(k)
  <2>1. r = [m |-> m, consume |-> TRUE, fires |-> {}]
    BY <1>1, <1>3 DEF MatchDown
  <2> HIDE DEF r, m
  <2>2. r.m = m /\ r.consume = TRUE /\ r.fires = {}
    BY <2>1
  <2>3. DownOutcome(k, r)
    BY <1>2, <1>3, <2>2 DEF DownOutcome, Repeats
  <2> QED BY <2>3 DEF r
<1>4. CASE ~Repeats(k) /\ fits = {}
  <2>1. r = [m |-> m, consume |-> FALSE, fires |-> {}]
    BY <1>1, <1>4 DEF MatchDown
  <2> HIDE DEF r, m, fits
  <2>2. r.m = m /\ r.consume = FALSE /\ r.fires = {}
    BY <2>1
  <2>3. DownOutcome(k, r)
    BY <1>2, <1>4, <2>2 DEF DownOutcome, Repeats
  <2> QED BY <2>3 DEF r
<1>5. CASE ~Repeats(k) /\ fits # {}
  <2>1. s \in fits
    <3>1. fits \in SUBSET Nat
      BY SlotsAssumption
    <3> HIDE DEF fits
    <3> QED BY <1>5, <3>1, Least
  <2>2. s \in Slots /\ mgr.latch[s] = NoKey
    BY <2>1
  <2> DEFINE p == [m EXCEPT !.latch[s] = k, !.passed = @ \cup {s}]
             c == [m EXCEPT !.latch[s] = k, !.passed = @ \ {s}]
  <2>3. r = IF AllowsEvent(s) THEN [m |-> p, consume |-> FALSE, fires |-> {}] ELSE [m |-> c, consume |-> TRUE, fires |-> {s}]
    BY <1>1, <1>5 DEF MatchDown
  <2> HIDE DEF r, fits, s, m
  <2>4. p \in Managers /\ p.mods = mgr.mods /\ p.other = TRUE /\ p.latch = [mgr.latch EXCEPT ![s] = k] /\ p.passed = mgr.passed \cup {s}
    BY <1>2, <2>2 DEF Managers
  <2>5. c \in Managers /\ c.mods = mgr.mods /\ c.other = TRUE /\ c.latch = [mgr.latch EXCEPT ![s] = k] /\ c.passed = mgr.passed \ {s}
    BY <1>2, <2>2 DEF Managers
  <2> HIDE DEF p, c
  <2>6. CASE AllowsEvent(s)
    <3>1. r = [m |-> p, consume |-> FALSE, fires |-> {}]
      BY <2>3, <2>6
    <3>2. r.m = p /\ r.consume = FALSE /\ r.fires = {}
      BY <3>1
    <3>3. DownOutcome(k, r)
      BY <1>5, <2>2, <2>4, <2>6, <3>2 DEF DownOutcome
    <3> QED BY <3>3 DEF r
  <2>7. CASE ~AllowsEvent(s)
    <3>1. r = [m |-> c, consume |-> TRUE, fires |-> {s}]
      BY <2>3, <2>7
    <3>2. r.m = c /\ r.consume = TRUE /\ r.fires = {s}
      BY <3>1
    <3>3. DownOutcome(k, r)
      BY <1>5, <2>2, <2>5, <3>2 DEF DownOutcome
    <3> QED BY <3>3 DEF r
  <2> QED BY <2>6, <2>7
<1> QED BY <1>3, <1>4, <1>5

\* The Down of a letter, or its repeat: fires one slot at most, and none twice.  (Match)
LEMMA LetterDownKeeps == ASSUME NEW k \in Letters PROVE GInv /\ HotkeyDown(k) => GInv'
<1> SUFFICES ASSUME GInv, HotkeyDown(k) PROVE GInv'
  OBVIOUS
<1> DEFINE r == Match(k, TRUE)
           toggle == ~r.consume /\ ToggleDown(k)
           again == k \in held
           ms == Mark(r.consume /\ ~again, "hotkey") \cup Mark(k = Lock, "lock") \cup Mark(route = "excluded" /\ k \in Letters, "excluded")
           n == IF r.fires = {} THEN 0 ELSE 1
           old == PressOf(k)
<1>1. k \in GKeys /\ k \notin Modifiers /\ k # NoKey /\ NoKey \notin Letters
  BY KeysApart
<1>2. DownOutcome(k, r)
  BY LetterPressed
<1>3. /\ mgr' = r.m /\ eng' = (IF r.consume THEN eng ELSE EngineDown(k)) /\ Repeatable(k)
      /\ seen' = (IF r.consume \/ toggle THEN seen ELSE seen \cup {k})
      /\ lost' = (IF again /\ r.fires # {} THEN lost \cup {k} ELSE lost) /\ held' = held \cup {k} /\ last' = k
      /\ taps' = TapsDown(k) /\ UNCHANGED <<live, route, deaf>> /\ todo'.setup = todo.setup
      /\ gest' = GestureDown(k, ms) /\ odd' = Odd("engine", toggle /\ again, {"held"})
      /\ press' = [press EXCEPT ![k] = [fires |-> old.fires + n, eaten |-> old.eaten \/ toggle]]
  BY PressSetupKept DEF HotkeyDown
<1> HIDE DEF r
<1>4. ms \in SUBSET Marks
  BY DEF Mark, Marks
<1>5. (r.consume /\ ~again => "hotkey" \in ms) /\ (k = Lock => "lock" \in ms) /\ (route = "excluded" => "excluded" \in ms)
  BY DEF Mark
<1> HIDE DEF ms
<1>6. GestureLaw(k, ms, gest') /\ ~FirstDown(k)
  BY <1>1, <1>3, <1>4, GestureGrows DEF FirstDown
<1>7. gest' \in UserGestures /\ gest'.mods = gest.mods /\ gest'.dirty /\ gest.marks \subseteq gest'.marks /\ ms \subseteq gest'.marks
  BY <1>1, <1>6 DEF GestureLaw
<1>8. r.m \in Managers /\ mgr'.mods = mgr.mods /\ mgr'.other = TRUE
  BY <1>2, <1>3 DEF DownOutcome
<1>9. HeldMods' = HeldMods /\ taps' = NoTaps /\ NoTaps' = NoTaps
  BY <1>1, <1>3 DEF HeldMods, TapsDown, NoTaps
<1>10. eng \in Engines /\ eng' \in Engines
  <2>1. eng \in Engines /\ NoTaps \in [Modifiers -> {0, 1, 2}]
    BY DEF GInv, GTypes, MatchTypes, NoTaps
  <2>2. EngineDown(k) \in {eng, [eng EXCEPT !.other = TRUE], [eng EXCEPT !.other = TRUE, !.tap = NoTaps]}
    BY <1>1 DEF EngineDown
  <2>3. [eng EXCEPT !.other = TRUE] \in Engines /\ [eng EXCEPT !.other = TRUE, !.tap = NoTaps] \in Engines
    BY <2>1 DEF Engines
  <2> QED BY <1>3, <2>1, <2>2, <2>3
<1>11. n \in {0, 1} /\ (n = 0 <=> r.fires = {})
  OBVIOUS
<1>12. old \in Presses /\ old.fires = (IF k \in held THEN press[k].fires ELSE 0) /\ (k \in held => old = press[k])
  BY <1>1 DEF GInv, GTypes, KeyTypes, PressOf, NoPress, Presses
<1> HIDE DEF old, n, toggle
<1>13. /\ press' \in [GKeys -> Presses] /\ \A j \in GKeys : j # k => press'[j] = press[j]
       /\ press'[k].fires = old.fires + n /\ (press'[k].eaten <=> old.eaten \/ toggle)
  <2> DEFINE t == old.eaten \/ toggle
             q == [fires |-> old.fires + n, eaten |-> t]
  <2>1. t \in BOOLEAN /\ old.fires + n \in Nat
    BY <1>11, <1>12 DEF Presses, toggle
  <2>2. press' = [press EXCEPT ![k] = q] /\ press \in [GKeys -> Presses]
    BY <1>3 DEF GInv, GTypes, KeyTypes
  <2> HIDE DEF t
  <2>3. q \in Presses /\ q.fires = old.fires + n /\ q.eaten = t
    BY <2>1 DEF Presses
  <2> HIDE DEF q
  <2>4. press' \in [GKeys -> Presses] /\ press'[k] = q /\ \A j \in GKeys : j # k => press'[j] = press[j]
    BY <1>1, <2>2, <2>3
  <2> QED BY <2>3, <2>4 DEF t
<1>14. GTypes'
  <2>1. KeyTypes'
    BY <1>1, <1>3, <1>13 DEF GInv, GTypes, KeyTypes
  <2>2. MatchTypes' /\ UserTypes'
    BY <1>1, <1>3, <1>7, <1>8, <1>10, TapsTyped DEF GInv, GTypes, MatchTypes, UserTypes
  <2> QED BY <2>1, <2>2 DEF GTypes
\* The three ways a letter's Down goes.
<1>15. \/ mgr'.latch = mgr.latch /\ mgr'.passed = mgr.passed /\ r.fires = {} /\ (r.consume <=> Repeats(k))
       \/ \E s \in Slots :
            /\ ~Repeats(k) /\ mgr.latch[s] = NoKey /\ mgr'.latch = [mgr.latch EXCEPT ![s] = k]
            /\ \/ AllowsEvent(s) /\ mgr'.passed = mgr.passed \cup {s} /\ ~r.consume /\ r.fires = {}
               \/ mgr'.passed = mgr.passed \ {s} /\ r.consume /\ r.fires = {s}
  BY <1>2, <1>3 DEF DownOutcome, Repeats
<1>16. mgr.latch \in [Slots -> Letters \cup {NoKey}] /\ held \subseteq GKeys
  BY DEF GInv, GTypes, MatchTypes, Managers, KeyTypes
<1>17. ~Repeats(k) => (\A s \in Slots : mgr.latch[s] # k) /\ old.fires = 0
  BY <1>1, <1>12, KeysApart DEF Repeats, GInv, Fired, GTypes, KeyTypes, Presses
<1>18. old.fires <= 1
  BY <1>1, <1>12 DEF GInv, Fired
<1>19. (OneEach /\ Fired /\ Taken /\ KeysArrive)'
  <2>1. CASE mgr'.latch = mgr.latch /\ mgr'.passed = mgr.passed /\ r.fires = {} /\ (r.consume <=> Repeats(k))
    <3>1. OneEach'
      BY <2>1 DEF GInv, OneEach
    <3>2. \A j : Latched(j)' = Latched(j)
      BY <2>1 DEF Latched
    <3>3. press'[k].fires = old.fires /\ lost' = lost
      BY <1>3, <1>11, <1>12, <1>13, <2>1 DEF Presses
    <3>4. Fired'
      <4> SUFFICES ASSUME NEW j \in GKeys PROVE press'[j].fires <= 1 /\ (j \in held' /\ press'[j].fires > 0 => Latched(j)' # {})
        BY DEF Fired
      <4>1. CASE j = k
        BY <1>12, <1>17, <1>18, <3>2, <3>3, <4>1 DEF Repeats
      <4>2. CASE j # k
        BY <1>3, <1>13, <3>2, <4>2 DEF GInv, Fired
      <4> QED BY <4>1, <4>2
    <3>5. Taken'
      <4> SUFFICES ASSUME NEW s \in Slots, mgr.latch[s] # NoKey
                   PROVE  /\ mgr.latch[s] \notin held' => mgr.latch[s] \in lost
                          /\ mgr.latch[s] \in seen' /\ s \notin mgr.passed => mgr.latch[s] \in lost
        BY <2>1, <3>3 DEF Taken
      <4>1. mgr.latch[s] = k => seen' = seen
        BY <1>3, <1>17, <2>1
      <4> QED BY <1>3, <4>1 DEF GInv, Taken
    <3>6. KeysArrive'
      <4>1. \A j \in seen' \ held' : j \in lost'
        BY <1>3, <3>3 DEF GInv, KeysArrive
      <4>2. ASSUME NEW j \in held' \cap Letters, j # k PROVE j \in seen' \/ press'[j].fires > 0 \/ press'[j].eaten \/ j \in lost'
        BY <1>3, <1>13, <3>3, <4>2, KeysApart DEF GInv, KeysArrive
      <4>3. k \in seen' \/ press'[k].fires > 0 \/ press'[k].eaten \/ k \in lost'
        <5>1. CASE ~Repeats(k)
          BY <1>3, <1>13, <2>1, <5>1
        <5>2. CASE Repeats(k) /\ k \notin held
          BY <1>1, <3>3, <5>2, KeysApart DEF Repeats, GInv, Taken
        <5>3. CASE Repeats(k) /\ k \in held
          BY <1>3, <1>12, <1>13, <2>1, <3>3, <5>3 DEF GInv, KeysArrive
        <5> QED BY <5>1, <5>2, <5>3
      <4> QED BY <4>1, <4>2, <4>3 DEF KeysArrive
    <3> QED BY <3>1, <3>4, <3>5, <3>6
  <2>2. ASSUME NEW s \in Slots, ~Repeats(k), mgr.latch[s] = NoKey, mgr'.latch = [mgr.latch EXCEPT ![s] = k],
               \/ AllowsEvent(s) /\ mgr'.passed = mgr.passed \cup {s} /\ ~r.consume /\ r.fires = {}
               \/ mgr'.passed = mgr.passed \ {s} /\ r.consume /\ r.fires = {s}
        PROVE  (OneEach /\ Fired /\ Taken /\ KeysArrive)'
    <3>1. mgr'.latch[s] = k /\ \A t \in Slots : t # s => mgr'.latch[t] = mgr.latch[t] /\ mgr.latch[t] # k
                                                    /\ (t \in mgr'.passed <=> t \in mgr.passed)
      BY <1>16, <1>17, <2>2
    <3>2. OneEach'
      BY <3>1 DEF GInv, OneEach
    <3>3. s \in Latched(k)' /\ \A j \in GKeys : j # k => Latched(j) \subseteq Latched(j)'
      <4>1. \A j \in GKeys : j # NoKey
        BY KeysApart
      <4> QED BY <2>2, <3>1, <4>1 DEF Latched
    <3>4. press'[k].fires = n /\ n <= 1
      BY <1>11, <1>13, <1>17, <2>2
    <3>5. Fired'
      <4> SUFFICES ASSUME NEW j \in GKeys PROVE press'[j].fires <= 1 /\ (j \in held' /\ press'[j].fires > 0 => Latched(j)' # {})
        BY DEF Fired
      <4>1. CASE j = k
        BY <3>3, <3>4, <4>1
      <4>2. CASE j # k
        BY <1>3, <1>13, <3>3, <4>2 DEF GInv, Fired
      <4> QED BY <4>1, <4>2
    <3>6. CASE AllowsEvent(s) /\ mgr'.passed = mgr.passed \cup {s} /\ ~r.consume /\ r.fires = {}
      <4>1. ~toggle
        BY <3>6 DEF toggle, ToggleDown, AllowsEvent
      <4>2. seen' = seen \cup {k} /\ lost' = lost /\ s \in mgr'.passed
        BY <1>3, <3>6, <4>1
      <4>3. Taken'
        <5> SUFFICES ASSUME NEW t \in Slots, mgr'.latch[t] # NoKey
                     PROVE  /\ mgr'.latch[t] \notin held' => mgr'.latch[t] \in lost
                            /\ mgr'.latch[t] \in seen' /\ t \notin mgr'.passed => mgr'.latch[t] \in lost
          BY <4>2 DEF Taken
        <5>1. CASE t = s
          BY <1>3, <3>1, <4>2, <5>1
        <5>2. CASE t # s
          BY <1>3, <3>1, <4>2, <5>2 DEF GInv, Taken
        <5> QED BY <5>1, <5>2
      <4>4. KeysArrive'
        BY <1>3, <1>13, <4>2, KeysApart DEF GInv, KeysArrive
      <4> QED BY <3>2, <3>5, <4>3, <4>4
    <3>7. CASE mgr'.passed = mgr.passed \ {s} /\ r.consume /\ r.fires = {s}
      <4>1. seen' = seen /\ lost' = (IF k \in held THEN lost \cup {k} ELSE lost) /\ press'[k].fires > 0
        BY <1>3, <1>11, <3>4, <3>7
      <4>2. Taken'
        <5> SUFFICES ASSUME NEW t \in Slots, mgr'.latch[t] # NoKey
                     PROVE  /\ mgr'.latch[t] \notin held' => mgr'.latch[t] \in lost'
                            /\ mgr'.latch[t] \in seen' /\ t \notin mgr'.passed => mgr'.latch[t] \in lost'
          BY DEF Taken
        <5>1. CASE t = s
          BY <1>3, <3>1, <4>1, <5>1 DEF GInv, KeysArrive
        <5>2. CASE t # s
          BY <1>3, <3>1, <4>1, <5>2 DEF GInv, Taken
        <5> QED BY <5>1, <5>2
      <4>3. KeysArrive'
        BY <1>3, <1>13, <4>1, KeysApart DEF GInv, KeysArrive
      <4> QED BY <3>2, <3>5, <4>2, <4>3
    <3> QED BY <2>2, <3>6, <3>7
  <2> QED BY <1>15, <2>1, <2>2
<1>20. (HotkeyAsMeant /\ ToggleAsMeant)'
  <2>1. \A o \in odd' : o = [who |-> "engine", marks |-> {"held"}]
    BY <1>3 DEF Odd
  <2>2. \A o \in odd' : o.who = "engine" /\ o.marks = {"held"}
    BY <2>1
  <2> QED BY <2>2 DEF HotkeyAsMeant, ToggleAsMeant
<1>21. ManagerKnows'
  BY <1>7, <1>8, <1>9 DEF GInv, ManagerKnows
<1>22. EngineKnows'
  <2> SUFFICES ASSUME Undisturbed' PROVE EngineKnows'
    BY DEF EngineKnows
  <2>1. Undisturbed /\ k # Lock /\ route \notin {"tsf", "excluded"} /\ (r.consume => k \in held)
    BY <1>3, <1>5, <1>7 DEF Undisturbed
  <2>2. Alone' <=> Alone
    BY <1>7 DEF Alone
  <2>3. /\ eng.mods = HeldMods /\ (HeldMods # {} => (eng.other <=> gest.dirty) /\ HeldMods \subseteq gest.mods)
        /\ (HeldMods = {} => ~eng.combo)
        /\ (last \in Letters => eng.tap = NoTaps /\ (HeldMods # {} => gest.dirty))
    BY <2>1 DEF GInv, EngineKnows
  <2>4. CASE r.consume
    <3>1. eng' = eng /\ last = k
      BY <1>3, <2>1, <2>4 DEF Repeatable
    <3> QED BY <1>3, <1>7, <1>9, <2>3, <3>1 DEF EngineKnows
  <2>5. CASE ~r.consume
    <3>1. eng' = [eng EXCEPT !.other = TRUE, !.tap = NoTaps]
      BY <1>1, <1>3, <2>1, <2>5 DEF EngineDown
    <3>2. eng'.mods = eng.mods /\ eng'.other = TRUE /\ eng'.combo = eng.combo /\ eng'.tap = NoTaps
      BY <1>10, <3>1 DEF Engines
    <3> QED BY <1>3, <1>7, <1>9, <2>3, <3>2 DEF EngineKnows
  <2> QED BY <2>4, <2>5
<1> QED BY <1>14, <1>19, <1>20, <1>21, <1>22 DEF GInv
\* Every step keeps the invariant.
LEMMA GestureStep == GInv /\ [GNext]_hvars => GInv'
<1> SUFFICES ASSUME GInv, [GNext]_hvars PROVE GInv'
  OBVIOUS
<1>1. todo.setup.keys \subseteq GKeys
  BY GesturesAssumption DEF GInv, GTypes, UserTypes
<1>2. CASE \E k \in todo.setup.keys : HotkeyDown(k) \/ HotkeyUp(k) \/ DeafDown(k) \/ DeafUp(k)
  <2>1. PICK k \in todo.setup.keys : HotkeyDown(k) \/ HotkeyUp(k) \/ DeafDown(k) \/ DeafUp(k)
    BY <1>2
  <2>2. k \in GKeys
    BY <1>1
  <2>3. CASE k \in Modifiers
    BY <2>1, <2>2, <2>3, ModifierDownKeeps, ModifierUpKeeps, DeafDownKeeps, DeafUpKeeps
  <2>4. CASE k \in Letters
    BY <2>1, <2>2, <2>4, LetterDownKeeps, LetterUpKeeps, DeafDownKeeps, DeafUpKeeps
  <2> QED BY <2>2, <2>3, <2>4 DEF GKeys
<1>3. CASE \E s \in Slots : UpdateHotkey(s)
  BY <1>3, UpdateHotkeyKeeps
<1>4. CASE \E to \in todo.setup.routes : ApplyOtherFocus(to)
  BY <1>4, OtherFocusKeeps
<1>5. CASE \E to \in todo.setup.routes \ {"excluded"} : RefreshBrowserRoute(to)
  BY <1>5, RefreshRouteKeeps
<1>6. CASE ApplySameFocus
  BY <1>6, SameFocusKeeps
<1>7. CASE TapsAge
  BY <1>7, TapsAgeKeeps
<1>8. CASE GoDeaf \/ HearAgain \/ UNCHANGED hvars
  BY <1>8, DeafnessKeeps
<1>9. CASE HookReplaced
  BY <1>9, HookReplacedKeeps
<1> QED BY <1>2, <1>3, <1>4, <1>5, <1>6, <1>7, <1>8, <1>9, Zenon DEF GNext

\* A press fires one hotkey at most, the application gets the keys that were not taken
\* for one, and modifiers alone, or a modifier twice, fire when they were pressed so and
\* not otherwise, for any number of keys, modifiers and hotkeys and any bindings.
\* (HotkeyManager::Match, HookEngine::ProcessKeyUp)
THEOREM HotkeysDoAsMeant == GSpec => []HotkeysAsMeant
<1>1. GInv => HotkeysAsMeant
  BY DEF GInv, HotkeysAsMeant, OnePressOneHotkey, Fired
<1> QED BY <1>1, GestureStart, GestureStep, PTL DEF GSpec
=============================================================================
