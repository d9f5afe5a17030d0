-------------------------- MODULE TsfCompositionMC --------------------------
(* Scenarios for TsfComposition.tla.  Each is run on three kinds of host:    *)
(* "classic" calls OnKeyDown only for a key that OnTestKeyDown has claimed,   *)
(* "both" calls both for every key, "single" only OnKeyDown.                 *)
EXTENDS TsfComposition

Vietnamese == [en |-> TRUE, tsf |-> TRUE, vn |-> TRUE]
English    == [Vietnamese EXCEPT !.vn = FALSE]

(* scintilla: the application has its own completion (DetectScintilla); keep,
   esc, undo, english: the settings keepSelection, escRestore, macroUndo and
   macroInEnglish; odd: how many of the outside events in events may come. *)
Plain == [host |-> "classic", scintilla |-> FALSE, keep |-> TRUE, esc |-> TRUE,
          undo |-> TRUE, english |-> FALSE, macros |-> {}, triggers |-> {" ", "ret"},
          flags |-> Vietnamese, text |-> <<>>, keys |-> {"a", "s", " ", "bk"},
          presses |-> 4, events |-> {}, odd |-> 0]

Typing   == [Plain EXCEPT !.keys = @ \cup {".", "esc", "left", "ctrl"}, !.presses = 5]
Refusing == [Plain EXCEPT !.keys = @ \cup {"esc"},
               !.events = {"refused", "nostart", "terminate"}, !.odd = 2]
Flagging == [Plain EXCEPT !.text = <<"a", "a">>,
               !.events = {"en", "tsf", "vn", "bar"}, !.odd = 2]
Clicking == [Plain EXCEPT !.keys = @ \cup {"esc"},
               !.events = {"click", "focus", "convert", "wait"}, !.odd = 2]
Fields   == [Plain EXCEPT !.keys = {"a", "s", " "}, !.macros = {<<"s">>},
               !.events = {"field", "refused"}, !.odd = 2]
Entering == [Plain EXCEPT !.keys = {"a", "ret", "s"},
               !.events = {"terminate", "tsf"}, !.odd = 1]
Spacing  == [Plain EXCEPT !.keys = {"a", "s", " "}, !.macros = {<<"s">>},
               !.events = {"repeat", "redispatch", "vn"}, !.odd = 2]
Macros   == [Plain EXCEPT !.keys = @ \cup {"."}, !.presses = 5,
               !.macros = {<<"s">>, <<"a", ".">>, <<"a", " ", "s">>},
               !.events = {"wait", "click"}, !.odd = 1]
EnglishMacros == [Macros EXCEPT !.flags = English, !.english = TRUE, !.events = @ \cup {"vn"}]
Switching == [EnglishMacros EXCEPT !.flags = Vietnamese, !.keys = {"a", "s", "bk"},
                !.presses = 4, !.events = {"vn"}]
Notepad  == [Plain EXCEPT !.scintilla = TRUE, !.keys = @ \cup {"left", "."},
               !.macros = {<<"s">>}, !.text = <<"a">>, !.keep = FALSE, !.esc = FALSE,
               !.events = {"click"}, !.odd = 1]

MCDesks ==
  {[d EXCEPT !.host = h] :
     d \in {Typing, Refusing, Flagging, Clicking, Fields, Entering, Spacing, Macros,
            EnglishMacros, Switching, Notepad},
     h \in {"classic", "both", "single"}}
=============================================================================
