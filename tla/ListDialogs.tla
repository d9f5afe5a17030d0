---------------------------- MODULE ListDialogs -----------------------------
(***************************************************************************)
(* The dialogs that edit a list of config.toml: macros, excluded           *)
(* applications (with the ones forced to Vietnamese), applications of the  *)
(* text service, settings of single applications, exclusions of the spell  *)
(* check, the key map of the user-defined input method and the hotkeys.    *)
(* Each loads the list when it opens, changes its copy with every edit and *)
(* saves the whole copy at once, then calls SignalConfigChange (ConfigSync *)
(* shows what becomes of the signal; here the hook takes the lists then).  *)
(*                                                                         *)
(* A list gives every name a value, 0 for a name that is not in it.  The   *)
(* file holds the names by value, as the excluded applications are two     *)
(* arrays that are saved one after the other.  The process of a dialog may *)
(* be ended between two of these calls (Exit, Restart, or Settings closing)*)
(* and the main process's worker edits the list of single applications.    *)
(***************************************************************************)
EXTENDS Naturals, Sequences, FiniteSets

CONSTANTS
  Names,    \* shortcuts, applications, words, keys
  Kinds,    \* the dialogs looked at
  MaxEdits, \* how many edits the user makes (a bound)
  MaxWords  \* kMaxSpellExclusions (8), kMaxUserDictEntries (1024)

VARIABLES
  kind,      \* which list (fixed)
  classic,   \* the dialog of VKeyLite / VKeyClassic, or of VKey (fixed)
  stored,    \* the arrays of config.toml, by value
  held,      \* macros_, appList_, entries_, keyMap_, registry_
  base,      \* the list the dialog's copy was loaded as or last saved as
  lopen,     \* the dialog is open
  todo,      \* calls left of the dialog's handler
  game,      \* the worker's copy between its load and its save, or <<>>
  told,      \* the arrays the hook took with the last signal
  meant,     \* the list as the user has asked for it
  hurt,      \* names a mishap has touched
  unsaid,    \* a dialog was ended, or a worker failed, before its signal
  edits      \* edits made

lvars == <<kind, classic, stored, held, base, lopen, todo, game, told, meant, hurt, unsaid, edits>>

Values == 1..3
Empty  == [n \in Names |-> 0]

(* The arrays for list l, and the list for arrays a: a name in two of them *)
(* has the first (LoadTaggedAppList skips a forced application that is     *)
(* excluded).                                                              *)
Arrays(l) == [v \in Values |-> {n \in Names : l[n] = v}]
LoadTaggedAppList(a) ==
  [n \in Names |-> IF n \in a[1] THEN 1 ELSE IF n \in a[2] THEN 2 ELSE IF n \in a[3] THEN 3 ELSE 0]

Starts == {[n \in Names |-> 0], [n \in Names |-> IF n = CHOOSE x \in Names : TRUE THEN 1 ELSE 0]}
ListsInit ==
  /\ kind \in Kinds /\ classic \in BOOLEAN
  /\ \E l \in Starts : meant = l /\ held = Empty /\ stored = Arrays(l) /\ told = Arrays(l) /\ base = l
  /\ lopen = FALSE /\ todo = <<>> /\ game = <<>> /\ hurt = {} /\ unsaid = FALSE /\ edits = 0

Differ(l, m) == {n \in Names : l[n] # m[n]}
Count(l) == Cardinality({n \in Names : l[n] # 0})

-----------------------------------------------------------------------------
(* What an edit makes of a list: entry n with value v. *)

Set(l, n, v) == [l EXCEPT ![n] = v]

(* MacroTableDialog::addMacro replaces the content of a shortcut. *)
AddMacro(l, n, v) == Set(l, n, v)
(* ExcludedAppsDialog::addApp changes the mode of an application it has. *)
AddTaggedApp(l, n, v) == Set(l, n, v)
(* TsfAppsDialog::addApp leaves one it has alone. *)
AddTsfApp(l, n, v) == IF l[n] # 0 THEN l ELSE Set(l, n, 1)
(* AppOverridesDialog::addEntry *)
AddOverride(l, n, v) == Set(l, n, v)
(* SpellExclusionsDialog::addEntry refuses a word it has and one too many; *)
(* the classic dialog has no limit.                                        *)
AddExclusion(l, n, v) == IF l[n] # 0 \/ (~classic /\ Count(l) >= MaxWords) THEN l ELSE Set(l, n, 1)
(* UserDefinedDialog::applyAction: an action has one key. *)
ApplyAction(l, n, v) == Set([m \in Names |-> IF l[m] = v THEN 0 ELSE l[m]], n, v)
(* HotkeysDialog: a trigger is added to an intent once. *)
AddTrigger(l, n, v) == IF l[n] # 0 THEN l ELSE Set(l, n, v)

Put(l, n, v) ==
  CASE kind = "macros"     -> AddMacro(l, n, v)
    [] kind = "tagged"     -> AddTaggedApp(l, n, v)
    [] kind = "tsf"        -> AddTsfApp(l, n, v)
    [] kind = "overrides"  -> AddOverride(l, n, v)
    [] kind = "exclusions" -> AddExclusion(l, n, v)
    [] kind = "keymap"     -> ApplyAction(l, n, v)
    [] kind = "hotkeys"    -> AddTrigger(l, n, v)

(* HotkeysDialog resets the registry to its defaults, UserDefinedDialog    *)
(* loads a template.                                                       *)
Defaults == [n \in Names |-> IF n = CHOOSE x \in Names : TRUE THEN 2 ELSE 0]

(* An import of list f: over the list (append) or in its place. *)
Import(l, f, append) ==
  [n \in Names |-> IF f[n] # 0 THEN f[n] ELSE IF append THEN l[n] ELSE 0]
MergeTaggedAppLine(l, f) == Import(l, f, TRUE)

-----------------------------------------------------------------------------
(* A handler of the dialog *)

(* SaveTaggedAppList saves two arrays; the others one, or all in one       *)
(* transaction.                                                            *)
SaveTaggedAppList == <<"excluded", "forced", "signal">>
PersistList == <<"save", "signal">>
Persist == IF kind = "tagged" THEN SaveTaggedAppList ELSE PersistList

LIdle == lopen /\ todo = <<>>
LEdit == LIdle /\ edits < MaxEdits /\ edits' = edits + 1

OpenDialog ==
  /\ ~lopen
  /\ lopen' = TRUE
  /\ held' = LoadTaggedAppList(stored) /\ base' = LoadTaggedAppList(stored)
  /\ UNCHANGED <<kind, classic, stored, todo, game, told, meant, hurt, unsaid, edits>>

(* The copy becomes l and is saved; the user means what it changes. *)
Change(l) ==
  /\ held' = l
  /\ meant' = [n \in Names |-> IF l[n] # held[n] THEN l[n] ELSE meant[n]]
  /\ todo' = Persist
  /\ hurt' = IF game = <<>> THEN hurt ELSE hurt \cup Differ(l, held)   \* both at once
  /\ UNCHANGED <<kind, classic, stored, base, lopen, game, told, unsaid>>

AddEntry ==
  \E n \in Names, v \in Values :
    /\ LEdit /\ (v = 3 => kind = "overrides")
    /\ Put(held, n, v) # held \/ kind \in {"macros", "overrides"}
    /\ Change(Put(held, n, v))

(* Another name for an entry: macros and words. *)
EditEntry ==
  \E n, m \in Names :
    /\ LEdit /\ held[n] # 0 /\ n # m
    /\ Change(Set(Set(held, n, 0), m, held[n]))

RemoveEntry ==
  \E n \in Names :
    /\ LEdit /\ held[n] # 0
    /\ Change(Set(held, n, 0))

ResetToDefaults ==
  /\ LEdit
  /\ Change(Defaults)

ImportFile ==
  \E f \in [Names -> 0..2], append \in BOOLEAN :
    /\ LEdit
    /\ kind \in {"tsf", "exclusions"} => \A n \in Names : f[n] < 2
    /\ kind = "exclusions" /\ ~classic => Count(Import(held, f, append)) <= MaxWords
    /\ kind = "keymap" => ~append
    /\ Change(IF kind = "tagged" /\ append THEN MergeTaggedAppLine(held, f) ELSE Import(held, f, append))

(* A file that cannot be opened changes nothing - but MacroTableDialog has *)
(* cleared its copy by then, and the list it shows still stands.           *)
ImportUnreadable ==
  /\ LEdit
  /\ IF kind = "macros" /\ ~classic
     THEN held' = Empty /\ hurt' = Names
     ELSE UNCHANGED <<held, hurt>>
  /\ UNCHANGED <<kind, classic, stored, base, lopen, todo, game, told, meant, unsaid>>

(* SpellExclusionsDialog::reloadData *)
ReloadData ==
  /\ LIdle /\ held # LoadTaggedAppList(stored)
  /\ held' = LoadTaggedAppList(stored) /\ base' = LoadTaggedAppList(stored)
  /\ UNCHANGED <<kind, classic, stored, lopen, todo, game, told, meant, hurt, unsaid, edits>>

-----------------------------------------------------------------------------
(* Saving: the copy replaces what the file has; names another writer has   *)
(* changed since are set back.                                             *)
Overwritten == Differ(base, LoadTaggedAppList(stored))
Unsaved     == Differ(held, LoadTaggedAppList(stored)) \cup Differ(held, base)

SaveWhole ==
  /\ todo # <<>> /\ Head(todo) = "save"
  /\ stored' = Arrays(held) /\ base' = held
  /\ hurt' = hurt \cup Overwritten
  /\ todo' = Tail(todo)
  /\ UNCHANGED <<kind, classic, held, lopen, game, told, meant, unsaid, edits>>

(* The file cannot be written: the result is ignored and the signal given; *)
(* the transaction of SpellExclusionsDialog reports it and gives none.     *)
Transaction == kind = "exclusions" /\ ~classic
SaveFails ==
  /\ todo # <<>> /\ Head(todo) \in {"save", "excluded", "forced"}
  /\ hurt' = hurt \cup Unsaved
  /\ todo' = IF Transaction THEN <<>> ELSE Tail(todo)
  /\ unsaid' = (unsaid \/ Transaction)
  /\ UNCHANGED <<kind, classic, stored, held, base, lopen, game, told, meant, edits>>

SaveExcludedApps ==
  /\ todo # <<>> /\ Head(todo) = "excluded"
  /\ stored' = [stored EXCEPT ![1] = Arrays(held)[1]]
  /\ todo' = Tail(todo)
  /\ UNCHANGED <<kind, classic, held, base, lopen, game, told, meant, hurt, unsaid, edits>>

(* Mutant: it adds to the array of the file, where the entry still is. *)
SaveForcedVnAppsAdds ==
  /\ todo # <<>> /\ Head(todo) = "forced"
  /\ stored' = [stored EXCEPT ![2] = @ \cup Arrays(held)[2]]
  /\ base' = held
  /\ todo' = Tail(todo)
  /\ UNCHANGED <<kind, classic, held, lopen, game, told, meant, hurt, unsaid, edits>>

SaveForcedVnApps ==
  /\ todo # <<>> /\ Head(todo) = "forced"
  /\ stored' = [stored EXCEPT ![2] = Arrays(held)[2]]
  /\ base' = held
  /\ todo' = Tail(todo)
  /\ UNCHANGED <<kind, classic, held, lopen, game, told, meant, hurt, unsaid, edits>>

Signal ==
  /\ todo # <<>> /\ Head(todo) = "signal"
  /\ told' = stored /\ unsaid' = FALSE
  /\ todo' = Tail(todo)
  /\ UNCHANGED <<kind, classic, stored, held, base, lopen, game, meant, hurt, edits>>

CloseDialog ==
  /\ LIdle
  /\ lopen' = FALSE /\ held' = Empty
  /\ UNCHANGED <<kind, classic, stored, base, todo, game, told, meant, hurt, unsaid, edits>>

(* TerminateProcess: the copy is gone, and with it the calls left.  Names  *)
(* that the file now has otherwise than the user meant are hurt.           *)
EndProcess ==
  /\ lopen
  /\ lopen' = FALSE /\ held' = Empty
  /\ todo' = <<>>
  /\ hurt' = IF todo = <<>> THEN hurt ELSE hurt \cup Unsaved
  /\ unsaid' = (unsaid \/ todo # <<>>)
  /\ UNCHANGED <<kind, classic, stored, base, game, told, meant, edits>>

-----------------------------------------------------------------------------
(* DrainGameModeToggleOnWorker: the application in front becomes a game or *)
(* stops being one (value 1: a setting, 2: a game, 3: both).               *)
Toggled(l, n) == [l EXCEPT ![n] = CASE @ = 0 -> 2 [] @ = 1 -> 3 [] @ = 2 -> 0 [] @ = 3 -> 1]

LoadForGameToggle ==
  \E n \in Names :
    /\ kind = "overrides" /\ game = <<>> /\ edits < MaxEdits
    /\ edits' = edits + 1
    /\ game' = <<Toggled(LoadTaggedAppList(stored), n), LoadTaggedAppList(stored)>>
    /\ meant' = [meant EXCEPT ![n] = Toggled(LoadTaggedAppList(stored), n)[n]]
    /\ hurt' = IF todo = <<>> THEN hurt ELSE hurt \cup {n}              \* both at once
    /\ UNCHANGED <<kind, classic, stored, held, base, lopen, todo, told, unsaid>>

DrainGameModeToggle ==
  \E ok \in BOOLEAN :
    /\ game # <<>>
    /\ game' = <<>>
    /\ IF ok
       THEN /\ stored' = Arrays(game[1]) /\ told' = Arrays(game[1])
            /\ unsaid' = FALSE
            /\ hurt' = hurt \cup Differ(game[2], LoadTaggedAppList(stored))
       ELSE /\ hurt' = hurt \cup Differ(game[1], LoadTaggedAppList(stored))
            /\ UNCHANGED <<stored, told, unsaid>>
    /\ UNCHANGED <<kind, classic, held, base, lopen, todo, meant, edits>>

-----------------------------------------------------------------------------
(* The handlers of each dialog. *)
D(k, c) == kind = k /\ classic = c
Imported == ImportFile \/ ImportUnreadable

MacroTableDialog         == D("macros", FALSE) /\ (AddEntry \/ EditEntry \/ RemoveEntry \/ Imported)
ClassicMacroTableDialog  == D("macros", TRUE) /\ (AddEntry \/ RemoveEntry \/ Imported)
ExcludedAppsDialog       == D("tagged", FALSE) /\ (AddEntry \/ RemoveEntry \/ Imported)
ClassicExcludedAppsDialog == D("tagged", TRUE) /\ (AddEntry \/ RemoveEntry \/ Imported)
TsfAppsDialog            == D("tsf", FALSE) /\ (AddEntry \/ RemoveEntry \/ Imported)
ClassicTsfAppsDialog     == D("tsf", TRUE) /\ (AddEntry \/ RemoveEntry \/ Imported)
AppOverridesDialog       == D("overrides", FALSE) /\ (AddEntry \/ RemoveEntry)
ClassicAppOverridesDialog == D("overrides", TRUE) /\ (AddEntry \/ RemoveEntry)
SpellExclusionsDialog    == D("exclusions", FALSE) /\ (AddEntry \/ EditEntry \/ RemoveEntry \/ Imported \/ ReloadData)
ClassicSpellExclusionsDialog == D("exclusions", TRUE) /\ (AddEntry \/ RemoveEntry \/ Imported)
UserDefinedDialog        == D("keymap", FALSE) /\ (AddEntry \/ RemoveEntry \/ ResetToDefaults \/ Imported)
ClassicUserDefinedDialog == D("keymap", TRUE) /\ (AddEntry \/ RemoveEntry \/ ResetToDefaults \/ Imported)
HotkeysDialog            == D("hotkeys", FALSE) /\ (AddEntry \/ RemoveEntry \/ ResetToDefaults)
ClassicHotkeysDialog     == D("hotkeys", TRUE) /\ (AddEntry \/ RemoveEntry \/ ResetToDefaults)

ListsNext ==
  \/ MacroTableDialog \/ ExcludedAppsDialog \/ TsfAppsDialog \/ AppOverridesDialog
  \/ SpellExclusionsDialog \/ UserDefinedDialog \/ HotkeysDialog
  \/ ClassicMacroTableDialog \/ ClassicExcludedAppsDialog \/ ClassicTsfAppsDialog
  \/ ClassicAppOverridesDialog \/ ClassicSpellExclusionsDialog
  \/ ClassicUserDefinedDialog \/ ClassicHotkeysDialog
  \/ OpenDialog \/ SaveWhole \/ SaveFails \/ SaveExcludedApps \/ SaveForcedVnApps \/ Signal
  \/ CloseDialog \/ EndProcess \/ LoadForGameToggle \/ DrainGameModeToggle

LSpec == ListsInit /\ [][ListsNext]_lvars

-----------------------------------------------------------------------------
Idle == todo = <<>> /\ game = <<>>

(* An entry is in the file as the user last asked for it, in one array only, unless  *)
(* a mishap touched that very entry: a save of one dialog that failed, was cut short *)
(* or was based on an older list never harms another entry.  An edit based on a copy *)
(* a mishap has left behind counts as that mishap's.                                 *)
EntriesKept ==
  Idle => \A n \in Names \ hurt, v \in Values : n \in stored[v] <=> meant[n] = v

(* The hook has the lists of the file once the dialog's handler is done, unless it   *)
(* was ended or failed before it could signal.                                       *)
HookToldOfLists == Idle /\ ~unsaid => told = stored

(* Lists are kept: an entry that no mishap touched is in the file as the user meant  *)
(* it, and the hook has been told (SaveTaggedAppList, SaveMacros, SignalConfigChange). *)
ListsKept == EntriesKept /\ HookToldOfLists
=============================================================================
