----------------------------- MODULE HookKeysMC -----------------------------
(* What a key does at the hook, for TLC.  One behaviour looks at one part of *)
(* it: "words", the pipeline of HookKeys, in each host and configuration with *)
(* the keys that matter to it; "hotkeys", the gestures of HotkeyGestures; or *)
(* "convert", what one of the hotkeys starts, the conversion of a selection  *)
(* of QuickConversion.                                                       *)
EXTENDS HookKeys, HotkeyGestures, QuickConversion, TLC

CONSTANT Parts

VARIABLE part

Plain == [keys |-> {}, depth |-> 0, fast |-> 0, table |-> "unicode", channel |-> "async",
          method |-> "telex", vn |-> TRUE, macros |-> <<>>, escRaw |-> FALSE, glue |-> FALSE,
          bait |-> FALSE, lockstep |-> FALSE, game |-> FALSE, waits |-> FALSE, stuck |-> FALSE]

With(ks, depth) == [Plain EXCEPT !.keys = ks, !.depth = depth]

M(key, text) == [key |-> key, text |-> text]

(* Words recalled at leisure, and given up after four seconds. *)
Recall   == [With({"a", "s", "n", "space", "back"}, 7) EXCEPT !.waits = TRUE]
(* The same while events are on their way, in an Electron host. *)
Burst    == [With({"a", "s", "space", "back", "n"}, 6) EXCEPT !.fast = 3, !.lockstep = TRUE]
(* Words made of digits and tone digits. *)
Digits   == [With({"a", "1", "space", "back", ".", "enter"}, 6) EXCEPT !.method = "vni", !.fast = 1]
(* A code table that sends two units for one character. *)
TwoUnits == [With({"a", "s", "n", "space", "back"}, 6) EXCEPT !.table = "two"]
(* The message channel of the new Notepad. *)
Notepad  == [With({"a", "s", "n", "space", "back", ".", "esc"}, 6) EXCEPT !.channel = "sync", !.escRaw = TRUE]
(* Keys that end, leave or chord away from a word. *)
Leaving  == [With({"a", "s", "enter", "left", "copy", "toggle", "space", "back", "click", "xback"}, 5)
              EXCEPT !.bait = TRUE]
(* Esc brings the raw keys back; a word that is no syllable is restored. *)
Escapes  == [With({"a", "s", "esc", "space", "back", ":"}, 6) EXCEPT !.escRaw = TRUE, !.glue = TRUE]
(* A game that is given its key. *)
Game     == [With({"a", "s", "n", "space", "back", "esc"}, 6) EXCEPT !.game = TRUE]
(* Macros, one of them two words long, one ended by its own last key. *)
Macros   == [With({"a", "n", "space", ".", "back"}, 7) EXCEPT
              !.macros = <<M(<<"n">>, <<"n", "s">>), M(<<"n", " ", "a">>, <<"s">>), M(<<"a", ".">>, <<"n", "n">>)>>,
              !.waits = TRUE]
EnglishMacros == [Macros EXCEPT !.vn = FALSE, !.depth = 6]
(* Pasting through the clipboard, and a counter given up. *)
Pasting  == [With({"a", "s", "n", "space", "back"}, 6) EXCEPT !.channel = "paste", !.fast = 1]
Stuck    == [With({"a", "s", "space", "back"}, 5) EXCEPT !.fast = 2, !.stuck = TRUE]

AllKeyboards == {Recall, Burst, Digits, TwoUnits, Notepad, Leaving, Escapes, Game, Macros,
                 EnglishMacros, Pasting, Stuck}
-----------------------------------------------------------------------------
(* Hotkeys: the bindings, the later bindings, the triggers of the toggle, the *)
(* keys that are pressed, the routes and the number of events of each kind.   *)
Bind(m, v) == [mods |-> m, vk |-> v]
Trigger(v, m, d) == [vk |-> v, mods |-> m, double |-> d]
Events(k, b, f, r, d) == [keys |-> k, binds |-> b, focus |-> f, route |-> r, deaf |-> d]
Gesture(first, later, triggers, ks, routes, ev) ==
  [live |-> first, binds |-> later, triggers |-> triggers, keys |-> ks, routes |-> routes,
   events |-> ev]
MCGestures ==
  { Gesture(<<Bind({"ctrl"}, "a"), Bind({"ctrl", "shift"}, "a")>>, {Bind({"ctrl"}, "b")},
            {Trigger("shift", {"ctrl"}, FALSE)},
            {"ctrl", "shift", "a"}, {}, Events(5, 1, 0, 0, 0)),
    Gesture(<<Bind({"ctrl", "shift"}, NoKey), Bind({}, "a")>>, {},
            {Trigger("shift", {}, TRUE), Trigger("b", {}, FALSE)},
            {"ctrl", "shift", "b"}, {"hook"}, Events(5, 0, 1, 0, 0)),
    Gesture(<<Bind({"ctrl"}, NoKey), Bind({"ctrl"}, "a")>>, {},
            {Trigger("ctrl", {}, FALSE), Trigger("ctrl", {}, TRUE)},
            {"ctrl", "a", "caps"}, {"hook", "tsf", "english", "excluded"}, Events(4, 0, 1, 1, 0)),
    Gesture(<<Bind({"ctrl"}, "a"), Bind({"shift"}, NoKey)>>, {}, {Trigger("ctrl", {}, FALSE)},
            {"ctrl", "shift", "a"}, {"hook"}, Events(4, 0, 2, 0, 1)),
    Gesture(<<Bind({"ctrl"}, "a"), Bind({"ctrl", "shift"}, NoKey)>>, {Bind({"ctrl"}, NoKey)},
            {Trigger("shift", {"ctrl"}, FALSE)},
            {"ctrl", "shift", "alt", "a"}, {}, Events(4, 1, 0, 0, 0)) }
-----------------------------------------------------------------------------
(* Quick conversion: how often each thing happens, and the setups. *)
Often(p, c, i, mv, ms, cf) ==
  [press |-> p, copy |-> c, inject |-> i, move |-> mv, miss |-> ms, config |-> cf]
Setup(k, s, p, o, b) == [kind |-> k, sequential |-> s, autoPaste |-> p, options |-> o, bounds |-> b]
MCWords   == <<"a", "b">>
MCNatural == [x \in {"b"} |-> 1]
MCSetups  ==
  {Setup(k, TRUE, TRUE, 2, Often(4, 0, 0, 1, 0, 0)) : k \in {"edit", "other"}} \cup
  { Setup("other", TRUE, TRUE, 2, Often(3, 0, 0, 2, 0, 0)),
    Setup("other", TRUE, TRUE, 2, Often(2, 1, 0, 1, 0, 0)),
    Setup("edit", TRUE, TRUE, 2, Often(1, 1, 0, 1, 1, 0)),
    Setup("edit", FALSE, TRUE, 2, Often(1, 1, 0, 1, 1, 0)),
    Setup("tsf", TRUE, TRUE, 2, Often(4, 0, 0, 2, 1, 0)),
    Setup("tsf", FALSE, FALSE, 1, Often(2, 1, 0, 1, 0, 0)),
    Setup("edit", FALSE, FALSE, 2, Often(0, 1, 2, 1, 1, 0)),
    Setup("other", TRUE, TRUE, 2, Often(1, 0, 1, 1, 0, 1)),
    Setup("other", TRUE, TRUE, 0, Often(1, 1, 0, 1, 1, 0)) }
-----------------------------------------------------------------------------
(* Where a part is not looked at, one of its initial states stands for it; no *)
(* step that fairness is about is enabled in it.                              *)
MCInit ==
  /\ part \in Parts
  /\ Init  /\ (part # "words"   => kb = CHOOSE x \in Keyboards : TRUE)
  /\ GInit /\ (part # "hotkeys" => todo.setup = CHOOSE x \in Gestures : TRUE)
  /\ QInit /\ (part # "convert" => setup = CHOOSE x \in Setups : TRUE)
MCNext ==
  \/ part = "words"   /\ Next  /\ UNCHANGED <<part, hvars, qvars>>
  \/ part = "hotkeys" /\ GNext /\ UNCHANGED <<part, vars, qvars>>
  \/ part = "convert" /\ QNext /\ UNCHANGED <<part, vars, hvars>>
MCSpec == MCInit /\ [][MCNext]_<<part, vars, hvars, qvars>> /\ QFairness
=============================================================================
