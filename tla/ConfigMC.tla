------------------------------ MODULE ConfigMC ------------------------------
(* ConfigSync and ListDialogs for TLC.  They are looked at one at a time:    *)
(* what becomes of a choice after its save and signal is ConfigSync, what is *)
(* saved by the dialogs of the lists is ListDialogs.                         *)
EXTENDS ConfigSync, ListDialogs

VARIABLE part

(* Which user interface, who acts, how many edits and restarts. *)
S(ui, acts, e, r) == [ui |-> ui, acts |-> acts, edits |-> e, restarts |-> r]
MCScenarios ==
  { S("sciter",  {"opt", "table", "sys", "own", "sub"}, 2, 0),
    S("sciter",  {"opt", "menu option", "menu table"}, 2, 0),
    S("sciter",  {"opt", "tsf", "adv", "restart"}, 2, 1),
    S("sciter",  {"sys", "menu system"}, 2, 0),
    S("classic", {"opt", "own", "sub", "reload"}, 2, 0),
    S("classic", {"opt", "own", "sub"}, 2, 0),
    S("classic", {"tsf", "sys", "menu system"}, 2, 0),
    S("classic", {"adv", "menu option", "table"}, 2, 0) }
MCKinds == {"macros", "tagged", "tsf", "overrides", "exclusions", "keymap", "hotkeys"}

MCInit ==
  /\ part \in {"config", "lists"}
  /\ ConfigInit /\ (part = "lists" => sc = CHOOSE x \in MCScenarios : TRUE)
  /\ ListsInit /\ (part = "config" => kind = "tsf" /\ classic /\ meant = Empty)
MCNext ==
  \/ part = "config" /\ ConfigNext /\ UNCHANGED <<part, lvars>>
  \/ part = "lists" /\ ListsNext /\ UNCHANGED <<part, cvars>>
MCSpec == MCInit /\ [][MCNext]_<<cvars, lvars, part>> /\ Fairness
=============================================================================
