--------------------------- MODULE HotkeyGestures ---------------------------
(***************************************************************************)
(* The two matchers that see every key of the keyboard hook.               *)
(*                                                                         *)
(* HotkeyManager knows the application's hotkeys (V/E, Quick Convert): a   *)
(* combination is taken away from the application when its key goes down   *)
(* and stays latched until that key comes up; a binding of modifiers alone *)
(* fires when one of them comes up.  Bindings are replaced by another      *)
(* thread at any time.                                                     *)
(*                                                                         *)
(* What HotkeyManager leaves goes to HookEngine, whose HotkeyRegistry has  *)
(* modifiers alone and taps of a modifier twice (ToggleEnabled).  Both     *)
(* keep their own idea of the modifiers that are down.  A fire is posted   *)
(* to the hook thread's queue and dispatched from there; here it counts    *)
(* when it is posted.                                                      *)
(***************************************************************************)
EXTENDS Naturals

CONSTANTS
  Modifiers,   \* Ctrl, Shift, ...; one physical key each
  Letters,     \* the other keys
  Lock,        \* one of them is Caps Lock
  Slots,       \* the manager's hotkeys, a range 1..n
  ConvertSlot, \* the one that is left to TSF where TSF has it
  NoKey,       \* vk 0
  Gestures     \* [live, triggers, keys, binds, routes, events]: bindings, registry, the keys,
               \* new bindings, routes, and how often each thing happens (bounds)

GKeys    == Modifiers \cup Letters
Bindings == [mods : SUBSET Modifiers, vk : Letters \cup {NoKey}]
Routes   == {"hook", "tsf", "english", "excluded"}

ASSUME KeysAssumption  == Modifiers \cap Letters = {} /\ Lock \in Letters /\ NoKey \notin GKeys
ASSUME SlotsAssumption == Slots \subseteq Nat
ASSUME GesturesAssumption ==
  \A g \in Gestures : /\ g.live \in [Slots -> Bindings] /\ g.binds \subseteq Bindings
                      /\ g.keys \subseteq GKeys /\ g.routes \subseteq Routes

VARIABLES
  held,   \* the keys that are physically down
  last,   \* the one that repeats, or NoKey
  seen,   \* those whose Down the application has had and not yet their Up
  mgr,    \* HotkeyManager: [mods, other, latch, passed]
  live,   \* liveConfigs_: slot -> [mods, vk]
  eng,    \* HookEngine: [mods, other, combo, tap]
  route,  \* who has the keys: "hook", "tsf", "english", "excluded"
  deaf,   \* the hook gets nothing: another desktop, or Windows has dropped it
  press,  \* key -> what its present press has led to: [fires, eaten]
  gest,   \* the present gesture as the user makes it: [mods, dirty, marks]
  taps,   \* modifier -> the user's count of taps: 0, 1, 2 (one, too long ago)
  lost,   \* keys excused: the Up of a latched one was missed, or a repeat has matched
  odd,    \* where a matcher did not do what the gesture means: [who, marks]
  todo    \* what is left of the bounds, with the setup

hvars == <<held, last, seen, mgr, live, eng, route, deaf, press, gest, taps, lost, odd, todo>>

NoPress == [fires |-> 0, eaten |-> FALSE]
NoGesture == [mods |-> {}, dirty |-> FALSE, marks |-> {}]

GInit ==
  /\ \E g \in Gestures : live = g.live /\ todo = [setup |-> g, n |-> g.events]
  /\ held = {} /\ last = NoKey /\ seen = {}
  /\ mgr = [mods |-> {}, other |-> FALSE, latch |-> [s \in Slots |-> NoKey], passed |-> {}]
  /\ eng = [mods |-> {}, other |-> FALSE, combo |-> FALSE, tap |-> [m \in Modifiers |-> 0]]
  /\ route = "hook" /\ deaf = FALSE
  /\ press = [k \in GKeys |-> NoPress] /\ gest = NoGesture /\ taps = [m \in Modifiers |-> 0]
  /\ lost = {} /\ odd = {}

Uses(what) == todo.n[what] > 0 /\ odd = {} /\ todo' = [todo EXCEPT !.n[what] = @ - 1]
HeldMods == held \cap Modifiers

(***************************************************************************)
(* HotkeyManager::Match.  The value: the manager after the event, whether  *)
(* the event is taken away and the slots that fire.                        *)
(***************************************************************************)
AllowsEvent(s) == s = ConvertSlot /\ route = "tsf"
Latched(k) == {s \in Slots : mgr.latch[s] = k}
First(S) == CHOOSE s \in S : \A t \in S : s <= t

UpdateModifierState(k, down) ==
  [mgr EXCEPT !.mods  = IF down THEN @ \cup {k} ELSE @ \ {k}, !.other = @ /\ ~(down /\ mgr.mods = {})]

Repeats(k) == Latched(k) # {}

MatchDown(k) ==
  LET m == [mgr EXCEPT !.other = TRUE]
      fits == {s \in Slots : live[s].vk = k /\ mgr.latch[s] = NoKey /\ live[s].mods = mgr.mods}
      s == First(fits)
  IN IF Repeats(k) THEN [m |-> m, consume |-> TRUE, fires |-> {}]
     ELSE IF fits = {} THEN [m |-> m, consume |-> FALSE, fires |-> {}]
     ELSE IF AllowsEvent(s)
     THEN [m |-> [m EXCEPT !.latch[s] = k, !.passed = @ \cup {s}], consume |-> FALSE, fires |-> {}]
     ELSE [m |-> [m EXCEPT !.latch[s] = k, !.passed = @ \ {s}], consume |-> TRUE, fires |-> {s}]

MatchUp(k) ==
  IF Latched(k) = {} THEN [m |-> mgr, consume |-> FALSE, fires |-> {}]
  ELSE LET s == First(Latched(k))
       IN [m |-> [mgr EXCEPT !.latch[s] = NoKey, !.passed = @ \ {s}],
           consume |-> s \notin mgr.passed, fires |-> {}]

(* The slots that are bound to the modifiers that are down. *)
BoundAlone(mods) == {s \in Slots : live[s].vk = NoKey /\ live[s].mods = mods /\ live[s].mods # {}}

MatchModifierUp(k) ==
  [m |-> UpdateModifierState(k, FALSE), consume |-> FALSE,
   fires |-> {s \in BoundAlone(mgr.mods) : mgr.latch[s] = NoKey /\ ~mgr.other /\ ~AllowsEvent(s)}]

Match(k, down) ==
  CASE k \in Modifiers /\ down -> [m |-> UpdateModifierState(k, TRUE), consume |-> FALSE, fires |-> {}]
    [] k \in Modifiers /\ ~down -> MatchModifierUp(k)
    [] k \notin Modifiers /\ down -> MatchDown(k)
    [] OTHER -> MatchUp(k)

(***************************************************************************)
(* HookEngine: RunTopGuards, TrackModifier, ProcessKeyUp.                  *)
(***************************************************************************)
NoTaps == [m \in Modifiers |-> 0]

TrackModifier(k, down) ==
  LET fresh == down /\ k \notin eng.mods
      mods == IF down THEN eng.mods \cup {k} ELSE eng.mods \ {k}
  IN [eng EXCEPT !.mods = mods, !.other = @ /\ ~fresh,
                 !.combo = (@ \/ (fresh /\ eng.mods # {})) /\ (down \/ mods # {})]

(* HotkeyRegistry::Matches for ToggleEnabled *)
Matches(k, mods, double, up) ==
  \E t \in todo.setup.triggers :
    /\ t.vk = k /\ t.mods = mods
    /\ IF t.double THEN double ELSE ~double /\ (up <=> k \in Modifiers)

(* ToggleEnabled bound to a key with modifiers: the key is eaten. *)
ToggleDown(k) == k \in Letters \ {Lock} /\ route = "hook" /\ Matches(k, HeldMods \ {k}, FALSE, FALSE)

(* RunTopGuards and what ProcessKeyDown does with the flags after it. *)
EngineDown(k) ==
  CASE route = "tsf" -> eng
    [] route # "tsf" /\ k \in Modifiers -> TrackModifier(k, TRUE)
    [] route # "tsf" /\ k = Lock -> eng
    [] route = "excluded" /\ k \in Letters \ {Lock} -> [eng EXCEPT !.other = TRUE]
    [] OTHER -> [eng EXCEPT !.other = TRUE, !.tap = NoTaps]

(* Mutant: the trailing release of a combination counts as one. *)
CleanReleaseTail(k) == ~eng.other

CleanRelease(k) == ~eng.other /\ ~(eng.combo /\ eng.mods \ {k} = {})

DoubleTap(k) == eng.tap[k] = 1

(* Does ProcessKeyUp toggle? *)
TogglesUp(k) ==
  k \in Modifiers /\ route # "tsf" /\ CleanRelease(k) /\ Matches(k, eng.mods \ {k}, DoubleTap(k), TRUE)

ProcessKeyUp(k) ==
  IF route = "tsf" \/ k \notin Modifiers THEN eng
  ELSE [TrackModifier(k, FALSE) EXCEPT
          !.tap[k] = IF CleanRelease(k) /\ ~DoubleTap(k) THEN 1 ELSE 0]

(***************************************************************************)
(* What the user means.  A gesture begins when a modifier goes down and    *)
(* none is held; it is dirty once another key goes down or the focus       *)
(* changes in it.  A mark names something that the code is known to judge  *)
(* otherwise, since both matchers were last at rest.                       *)
(***************************************************************************)
MeantAlone(mods) == ~gest.dirty /\ gest.mods = mods
MeantTwice(k) == MeantAlone({k}) /\ taps[k] = 1
MeansToggle(k) ==
  /\ k \in Modifiers /\ route # "tsf" /\ MeantAlone(HeldMods)
  /\ Matches(k, HeldMods \ {k}, MeantTwice(k), TRUE)
(* A slot whose key is still down belongs to that combination. *)
MeansHotkeys(k) ==
  {s \in BoundAlone(HeldMods) :
     k \in Modifiers /\ MeantAlone(HeldMods) /\ mgr.latch[s] \notin held /\ ~AllowsEvent(s)}

NothingDown == eng.tap = NoTaps /\ taps = NoTaps /\ eng.mods = {} /\ mgr.mods = {} /\ ~eng.combo
Mark(cond, m) == IF cond THEN {m} ELSE {}
Odd(who, cond, marks) == IF cond THEN {[who |-> who, marks |-> marks]} ELSE {}

GestureDown(k, marks) ==
  LET fresh == k \notin held
      first == k \in Modifiers /\ fresh /\ HeldMods = {}
      old == IF first /\ NothingDown THEN {} ELSE gest.marks
  IN [mods  |-> IF first THEN {k} ELSE gest.mods \cup ({k} \cap Modifiers),
      dirty |-> IF first THEN FALSE ELSE gest.dirty \/ k \in Letters,
      marks |-> old \cup marks \cup Mark(fresh /\ ~first /\ k \in Modifiers /\ gest.dirty, "joined")]
TapsDown(k) == IF k \in Letters THEN NoTaps ELSE taps
TapsUp(k) ==
  IF k \in Letters THEN taps
  ELSE [taps EXCEPT ![k] = IF MeantAlone({k}) /\ @ # 1 THEN 1 ELSE 0]
PressOf(k) == IF k \in held THEN press[k] ELSE NoPress

(***************************************************************************)
(* LowLevelKeyboardProc.                                                   *)
(***************************************************************************)
Repeatable(k) == k \notin held \/ k = last
Pressed(k) == IF k \in held THEN todo' = todo ELSE Uses("keys")

(* A key goes down, or repeats. *)
HotkeyDown(k) ==
  /\ ~deaf /\ odd = {} /\ Repeatable(k) /\ Pressed(k)
  /\ LET r == Match(k, TRUE)
         toggle == ~r.consume /\ ToggleDown(k)
         again == k \in held
     IN /\ mgr' = r.m /\ eng' = IF r.consume THEN eng ELSE EngineDown(k)
        /\ press' = [press EXCEPT ![k] = [fires |-> PressOf(k).fires + (IF r.fires = {} THEN 0 ELSE 1),
                                          eaten |-> PressOf(k).eaten \/ toggle]]
        /\ gest' = GestureDown(k, Mark(r.consume /\ ~again, "hotkey") \cup Mark(k = Lock, "lock")
                                  \cup Mark(route = "excluded" /\ k \in Letters, "excluded"))
        /\ seen' = IF r.consume \/ toggle THEN seen ELSE seen \cup {k}
        /\ lost' = IF again /\ r.fires # {} THEN lost \cup {k} ELSE lost
        /\ odd' = Odd("engine", toggle /\ again, {"held"})
  /\ held' = held \cup {k} /\ last' = k /\ taps' = TapsDown(k)
  /\ UNCHANGED <<live, route, deaf>>

(* A release in a combination counts as a tap. *)
Miscounted(k) ==
  k \in Modifiers /\ DoubleTap(k) # MeantTwice(k) /\ ("combo" \in gest.marks \/ HeldMods # {k})

HotkeyUp(k) ==
  /\ ~deaf /\ odd = {} /\ k \in held
  /\ LET r == Match(k, FALSE)
         marks == gest.marks \cup Mark(gest.mods # HeldMods, "tail")
                             \cup Mark(\E s \in Slots : mgr.latch[s] \in lost \ held, "missed")
     IN /\ mgr' = r.m /\ eng' = IF r.consume THEN eng ELSE ProcessKeyUp(k)
        /\ seen' = IF r.consume THEN seen ELSE seen \ {k}
        /\ lost' = IF k \in seen' THEN lost ELSE lost \ {k}
        /\ odd' = Odd("manager", k \in Modifiers /\ r.fires # MeansHotkeys(k), marks)
                  \cup Odd("engine", TogglesUp(k) # MeansToggle(k),
                           (gest.marks \ {"combo"}) \cup Mark(Miscounted(k), "combo")
                             \cup Mark(gest.mods # HeldMods /\ HeldMods # {k}, "tail"))
        /\ gest' = [gest EXCEPT !.marks = @ \cup Mark(k \in Modifiers /\ HeldMods # {k}, "combo")]
  /\ held' = held \ {k} /\ taps' = TapsUp(k)
  /\ last' = IF last = k THEN NoKey ELSE last
  /\ press' = [press EXCEPT ![k] = NoPress]
  /\ UNCHANGED <<live, route, deaf, todo>>

(* Keys the hook is not told of go straight to whoever has them. *)
DeafDown(k) ==
  /\ deaf /\ k \notin held /\ Uses("keys")
  /\ held' = held \cup {k} /\ last' = k /\ seen' = seen \cup {k}
  /\ press' = [press EXCEPT ![k] = NoPress] /\ gest' = GestureDown(k, {"missed"}) /\ taps' = TapsDown(k)
  /\ UNCHANGED <<mgr, eng, live, route, deaf, lost, odd>>

DeafUp(k) ==
  /\ deaf /\ k \in held
  /\ held' = held \ {k} /\ last' = (IF last = k THEN NoKey ELSE last) /\ seen' = seen \ {k}
  /\ lost' = IF Latched(k) # {} THEN lost \cup {k} ELSE lost
  /\ gest' = [gest EXCEPT !.marks = @ \cup {"missed"}] /\ taps' = TapsUp(k)
  /\ UNCHANGED <<mgr, eng, live, route, deaf, press, odd, todo>>

(* kDoubleTapTimeoutMs *)
TapsAge ==
  /\ odd = {} /\ (eng.tap # NoTaps \/ taps # NoTaps)
  /\ eng' = [eng EXCEPT !.tap = [m \in Modifiers |-> IF @[m] = 1 THEN 2 ELSE @[m]]]
  /\ taps' = [m \in Modifiers |-> IF taps[m] = 1 THEN 2 ELSE taps[m]]
  /\ UNCHANGED <<held, last, seen, mgr, live, route, deaf, press, gest, lost, odd, todo>>

(***************************************************************************)
(* Other threads, the focus and the hook itself.                           *)
(***************************************************************************)
(* HotkeyManager::UpdateHotkey, from the thread that follows the settings. *)
UpdateHotkey(s) ==
  /\ Uses("binds") /\ \E c \in todo.setup.binds : live' = [live EXCEPT ![s] = c]
  /\ UNCHANGED <<held, last, seen, mgr, eng, route, deaf, press, gest, taps, lost, odd>>

(* HotkeyManager::ReconcileModifiers *)
ReconcileModifiers == [mgr EXCEPT !.mods = HeldMods, !.other = HeldMods # {}]

ReconcileEngine(boundary) ==
  IF ~boundary THEN [eng EXCEPT !.mods = HeldMods]
  ELSE [mods |-> HeldMods, other |-> HeldMods # {}, combo |-> HeldMods # {}, tap |-> NoTaps]

(* ReconcileModifierStateOnHookThread(TRUE): whatever the gesture was, it is over. *)
NewGesture == gest' = [mods |-> HeldMods, dirty |-> HeldMods # {}, marks |-> {}] /\ taps' = NoTaps

(* ApplyFocusOnHookThread with another target. *)
ApplyOtherFocus(to) ==
  /\ Uses("focus") /\ route' = to /\ mgr' = ReconcileModifiers /\ eng' = ReconcileEngine(TRUE) /\ NewGesture
  /\ UNCHANGED <<held, last, seen, live, deaf, press, lost, odd>>

(* With the same one: back from another desktop, or only noise. *)
ApplySameFocus ==
  /\ Uses("focus") /\ mgr' = ReconcileModifiers /\ eng' = ReconcileEngine(FALSE)
  /\ gest' = [gest EXCEPT !.marks = @ \cup Mark(HeldMods # {}, "noise")]
  /\ UNCHANGED <<held, last, seen, live, route, deaf, press, taps, lost, odd>>

(* The browser extension's answer moves a tab to TSF or to English. *)
RefreshBrowserRoute(to) ==
  /\ Uses("route") /\ route # "excluded" /\ route' = to
  /\ gest' = [gest EXCEPT !.marks = @ \cup {"rerouted"}]
  /\ UNCHANGED <<held, last, seen, mgr, live, eng, deaf, press, taps, lost, odd>>

GoDeaf ==
  /\ Uses("deaf") /\ ~deaf /\ deaf' = TRUE
  /\ UNCHANGED <<held, last, seen, mgr, live, eng, route, press, gest, taps, lost, odd>>

HearAgain ==
  /\ deaf /\ deaf' = FALSE
  /\ UNCHANGED <<held, last, seen, mgr, live, eng, route, press, gest, taps, lost, odd, todo>>

(* HotkeyManager::ReconcileLatchedKeysAfterHookReplacement *)
ReconcileLatchedKeys(m) ==
  LET gone == {s \in Slots : m.latch[s] # NoKey /\ m.latch[s] \notin held}
  IN [m EXCEPT !.latch = [s \in Slots |-> IF s \in gone THEN NoKey ELSE @[s]], !.passed = @ \ gone]

HookReplaced ==
  /\ Uses("focus") /\ deaf' = FALSE
  /\ mgr' = ReconcileLatchedKeys(ReconcileModifiers) /\ eng' = ReconcileEngine(TRUE) /\ NewGesture
  /\ lost' = lost \cap (held \cup seen)
  /\ UNCHANGED <<held, last, seen, live, route, press, odd>>

GNext ==
  \/ \E k \in todo.setup.keys : HotkeyDown(k) \/ HotkeyUp(k) \/ DeafDown(k) \/ DeafUp(k)
  \/ \E s \in Slots : UpdateHotkey(s)
  \/ \E to \in todo.setup.routes : ApplyOtherFocus(to)
  \/ \E to \in todo.setup.routes \ {"excluded"} : RefreshBrowserRoute(to)
  \/ ApplySameFocus \/ TapsAge \/ GoDeaf \/ HearAgain \/ HookReplaced

GSpec == GInit /\ [][GNext]_hvars

(***************************************************************************)
(* Properties.                                                             *)
(***************************************************************************)
(* One press of a key is one hotkey at most, whatever is released, repeated or
   bound anew before it comes up.  (HotkeyManager::Match, latchedVk) *)
OnePressOneHotkey == \A k \in GKeys : press[k].fires <= 1

(* The application gets the Up of every key whose Down it has had, and no Down is
   kept from it but for a hotkey.  Excused: a latched key whose Up was missed, and
   a key that already was down when its repeat matched.
   (Match, ReconcileLatchedKeysAfterHookReplacement) *)
KeysArrive ==
  /\ \A k \in seen \ held : k \in lost
  /\ \A k \in held \cap Letters : k \in seen \/ press[k].fires > 0 \/ press[k].eaten \/ k \in lost

(* A hotkey of modifiers alone fires when exactly these were pressed and nothing
   else, and does not otherwise.  (otherKeyPressed_, ReconcileModifiers) *)
HotkeyAsMeant == \A o \in odd : o.who = "manager" => o.marks \cap {"tail", "noise", "missed"} # {}

(* The same for ToggleEnabled: modifiers alone, and a modifier twice.  After three
   modifiers the two that are left count as pressed alone: "tail".
   (TrackModifier, ProcessKeyUp, modComboSeen_, modTapCount_) *)
ToggleAsMeant ==
  \A o \in odd : o.who = "engine" =>
    o.marks \cap {"hotkey", "lock", "excluded", "joined", "combo", "rerouted", "missed", "held", "tail"} # {}

(* A key that was pressed with the modifier means that the modifier was not alone,
   also if it was taken away from the application.  (ProcessKeyUp) *)
TakenKeyCounts == \A o \in odd : o.who = "engine" => o.marks # {"hotkey"}

(* Hotkeys do what was pressed: a press fires at most one, the application gets the
   keys that were not taken for one, and modifiers alone, or a modifier twice, fire
   when they were pressed so and not otherwise.  (Match, ProcessKeyUp,
   ReconcileModifiers) *)
HotkeysAsMeant == OnePressOneHotkey /\ KeysArrive /\ HotkeyAsMeant /\ ToggleAsMeant
=============================================================================
