--------------------------- MODULE SettingsProofs ---------------------------
(***************************************************************************)
(* Proofs about what the user set, and of what the program remembers of    *)
(* it: the lists that the dialogs edit (ListDialogs), the mode of each     *)
(* application (HookMode) and the way of a choice to the hook (ConfigSync),*)
(* for any names, applications, scenarios, generations and numbers of      *)
(* edits, toggles and reloads.                                             *)
(*                                                                         *)
(* ListInv says where the last word on a name is at each point between an  *)
(* edit and its save: in the worker's copy, in the dialog's copy, in one   *)
(* of two arrays of which one is saved, or in the file.  The modes need    *)
(* only the types (ModeTypes): what a focus change makes of them is        *)
(* followed through its handler, one lemma for each function called.       *)
(*                                                                         *)
(* ConfigInv says the same of a choice: which handler still has to save it *)
(* or to write it, by the steps it has left (Jobs, Shapes), and what the   *)
(* worker has still to load after the generation it has noted.             *)
(***************************************************************************)
EXTENDS ListDialogs, HookMode, ConfigSync, FiniteSetTheorems, SequenceTheorems, TLAPS

-----------------------------------------------------------------------------
(* Lists: the invariant.                                                    *)

Lists == [Names -> 0..3]

\* The calls a handler can have left.
Handlers == {<<>>, <<"signal">>, <<"save", "signal">>, <<"forced", "signal">>,
             <<"excluded", "forced", "signal">>}

ListTypes ==
  /\ stored \in [Values -> SUBSET Names]
  /\ held \in Lists /\ base \in Lists /\ meant \in Lists
  /\ lopen \in BOOLEAN /\ unsaid \in BOOLEAN
  /\ todo \in Handlers
  /\ game = <<>> \/ game \in Lists \X Lists
  /\ hurt \in SUBSET Names

\* A save of the copy is still to come; of the two arrays the first is saved.
Saving  == todo \in {<<"save", "signal">>, <<"excluded", "forced", "signal">>}
Halfway == todo = <<"forced", "signal">>

\* Name n is in the array of value x and in no other.
Filed(n, x) == \A v \in Values : n \in stored[v] <=> x = v

\* The dialog has an edit of n that is not saved; the worker has one.
Pending(n)  == Saving /\ held[n] # base[n]
Toggling(n) == game # <<>> /\ game[1][n] # game[2][n]

Asked(n) ==
  /\ Toggling(n) => meant[n] = game[1][n] /\ ~Pending(n)
  /\ Pending(n) => meant[n] = held[n]
  /\ ~Toggling(n) /\ ~Pending(n) /\ ~Halfway => Filed(n, meant[n])
  /\ lopen /\ ~Saving /\ ~Halfway => held[n] = base[n]

\* Two arrays saved one after the other.
Tagged(n) ==
  /\ lopen /\ ~Halfway => Filed(n, base[n])
  /\ Halfway => /\ n \in stored[1] <=> held[n] = 1
                /\ n \in stored[2] <=> base[n] = 2
                /\ meant[n] = held[n]

Forms ==
  /\ todo # <<>> => lopen
  /\ kind = "tagged" => todo # <<"save", "signal">>
  /\ kind # "tagged" => /\ ~Halfway /\ todo # <<"excluded", "forced", "signal">>
                        /\ \A n \in Names : Filed(n, LoadTaggedAppList(stored)[n])
  /\ kind # "overrides" => /\ game = <<>> /\ stored[3] = {}
                           /\ \A n \in Names : held[n] # 3

ToldInv == todo = <<>> /\ ~unsaid => told = stored

ListInv ==
  /\ ListTypes /\ Forms /\ ToldInv
  /\ \A n \in Names \ hurt : Asked(n) /\ (kind = "tagged" => Tagged(n))
-----------------------------------------------------------------------------
\* The handlers differ, and each call is the first of one of them.
LEMMA Calls ==
  /\ todo \in Handlers /\ todo # <<>> =>
       /\ Head(todo) = "save" => todo = <<"save", "signal">> /\ Tail(todo) = <<"signal">>
       /\ Head(todo) = "excluded" =>
            todo = <<"excluded", "forced", "signal">> /\ Tail(todo) = <<"forced", "signal">>
       /\ Head(todo) = "forced" => todo = <<"forced", "signal">> /\ Tail(todo) = <<"signal">>
       /\ Head(todo) = "signal" => todo = <<"signal">> /\ Tail(todo) = <<>>
  /\ <<"save", "signal">> # <<>> /\ <<"signal">> # <<>> /\ <<"forced", "signal">> # <<>>
  /\ <<"excluded", "forced", "signal">> # <<>>
  /\ <<"save", "signal">> # <<"signal">> /\ <<"forced", "signal">> # <<"signal">>
  /\ <<"save", "signal">> # <<"forced", "signal">>
  /\ <<"excluded", "forced", "signal">> # <<"signal">>
  /\ <<"excluded", "forced", "signal">> # <<"forced", "signal">>
  /\ <<"excluded", "forced", "signal">> # <<"save", "signal">>
<1>1. /\ <<"save", "signal">> # <<>> /\ <<"signal">> # <<>> /\ <<"forced", "signal">> # <<>>
      /\ <<"excluded", "forced", "signal">> # <<>>
  OBVIOUS
<1>2. /\ <<"save", "signal">> # <<"signal">> /\ <<"forced", "signal">> # <<"signal">>
      /\ <<"excluded", "forced", "signal">> # <<"signal">>
  OBVIOUS
<1>3. <<"save", "signal">> # <<"forced", "signal">>
  OBVIOUS
<1>4. /\ <<"excluded", "forced", "signal">> # <<"forced", "signal">>
      /\ <<"excluded", "forced", "signal">> # <<"save", "signal">>
  OBVIOUS
<1>5. ASSUME todo \in Handlers, todo # <<>>
      PROVE  /\ Head(todo) = "save" => todo = <<"save", "signal">> /\ Tail(todo) = <<"signal">>
             /\ Head(todo) = "excluded" =>
                  todo = <<"excluded", "forced", "signal">> /\ Tail(todo) = <<"forced", "signal">>
             /\ Head(todo) = "forced" => todo = <<"forced", "signal">> /\ Tail(todo) = <<"signal">>
             /\ Head(todo) = "signal" => todo = <<"signal">> /\ Tail(todo) = <<>>
  <2>1. CASE todo = <<"signal">>
    BY <2>1
  <2>2. CASE todo = <<"save", "signal">>
    BY <2>2
  <2>3. CASE todo = <<"forced", "signal">>
    BY <2>3
  <2>4. CASE todo = <<"excluded", "forced", "signal">>
    BY <2>4
  <2> QED BY <1>5, <2>1, <2>2, <2>3, <2>4 DEF Handlers
<1> QED BY <1>1, <1>2, <1>3, <1>4, <1>5

\* What a load reads of arrays a, and the arrays a save makes of list l.
LEMMA Loads ==
  ASSUME NEW a \in [Values -> SUBSET Names]
  PROVE  /\ LoadTaggedAppList(a) \in Lists
         /\ \A n \in Names, x \in 0..3 :
              (\A v \in Values : n \in a[v] <=> x = v) => LoadTaggedAppList(a)[n] = x
         /\ \A n \in Names : a[3] = {} => LoadTaggedAppList(a)[n] # 3
BY DEF LoadTaggedAppList, Lists, Values

\* The arrays that a save writes are read back as the list that was saved.
LEMMA Saves ==
  ASSUME NEW l \in Lists
  PROVE  /\ Arrays(l) \in [Values -> SUBSET Names]
         /\ \A n \in Names, v \in Values : n \in Arrays(l)[v] <=> l[n] = v
         /\ \A n \in Names : LoadTaggedAppList(Arrays(l))[n] = l[n]
         /\ (\A n \in Names : l[n] # 3) => Arrays(l)[3] = {}
<1>1. Arrays(l) \in [Values -> SUBSET Names]
  BY DEF Arrays, Lists, Values
<1>2. \A n \in Names, v \in Values : n \in Arrays(l)[v] <=> l[n] = v
  BY DEF Arrays, Lists, Values
<1>3. \A n \in Names : LoadTaggedAppList(Arrays(l))[n] = l[n]
  BY <1>1, <1>2, Loads DEF Lists
<1>4. (\A n \in Names : l[n] # 3) => Arrays(l)[3] = {}
  BY <1>1, <1>2 DEF Values
<1> QED BY <1>1, <1>2, <1>3, <1>4

\* What edits make of a list: a list again, with value 3 only where it is asked for.
Fits(l) == l \in Lists /\ (kind # "overrides" => \A n \in Names : l[n] # 3)

\* Setting one name of a list keeps it a list its dialog can hold.
LEMMA Edited ==
  ASSUME NEW l \in Lists, NEW n \in Names, NEW v \in 0..3, Fits(l), v = 3 => kind = "overrides"
  PROVE  Fits(Set(l, n, v))
BY DEF Fits, Set, Lists

\* So does an edit by any of the dialogs.  (AddMacro, AddTaggedApp, ...)
LEMMA PutFits ==
  ASSUME ListTypes, Fits(held), NEW n \in Names, NEW v \in Values, v = 3 => kind = "overrides",
         kind \in {"macros", "tagged", "tsf", "overrides", "exclusions", "keymap", "hotkeys"}
  PROVE  Fits(Put(held, n, v))
<1>1. Fits(Set(held, n, v)) /\ Fits(Set(held, n, 1))
  BY Edited DEF ListTypes, Values
<1>2. ApplyAction(held, n, v) \in Lists /\ Fits(ApplyAction(held, n, v))
  <2> DEFINE cleared == [m \in Names |-> IF held[m] = v THEN 0 ELSE held[m]]
  <2>1. cleared \in Lists /\ Fits(cleared)
    BY DEF Fits, Lists, ListTypes
  <2>2. ApplyAction(held, n, v) = Set(cleared, n, v)
    BY DEF ApplyAction
  <2> HIDE DEF cleared
  <2>3. Fits(Set(cleared, n, v))
    BY <2>1, Edited DEF Values
  <2> QED BY <2>2, <2>3 DEF Fits
<1>3. Put(held, n, v) \in {held, Set(held, n, v), Set(held, n, 1), ApplyAction(held, n, v)}
  BY DEF Put, AddMacro, AddTaggedApp, AddTsfApp, AddOverride, AddExclusion, AddTrigger
<1> QED BY <1>1, <1>2, <1>3

\* So does an import.  (the Import buttons)
LEMMA ImportFits ==
  ASSUME ListTypes, Fits(held), NEW f \in [Names -> 0..2], NEW append \in BOOLEAN
  PROVE  Fits(Import(held, f, append))
BY DEF Fits, Import, Lists, ListTypes

\* An edit of the dialog: the copy is another list and is to be saved.
LEMMA ChangeKeeps ==
  ASSUME ListInv, LIdle, NEW l, Fits(l), Change(l)
  PROVE  ListInv'
<1>a. ListTypes /\ Forms /\ \A n \in Names \ hurt : Asked(n) /\ (kind = "tagged" => Tagged(n))
  BY DEF ListInv
<1>b. todo = <<>> /\ lopen /\ ~Saving /\ ~Halfway
  BY Calls DEF LIdle, Saving, Halfway
<1>c. /\ held' = l /\ l \in Lists
      /\ meant' = [n \in Names |-> IF l[n] # held[n] THEN l[n] ELSE meant[n]]
      /\ UNCHANGED <<kind, classic, stored, base, lopen, game, told, unsaid>>
      /\ hurt' = IF game = <<>> THEN hurt ELSE hurt \cup Differ(l, held)
  BY DEF Change, Fits
<1>d. /\ todo' = IF kind = "tagged" THEN <<"excluded", "forced", "signal">> ELSE <<"save", "signal">>
      /\ todo' \in Handlers /\ Saving' /\ ~Halfway' /\ todo' # <<>>
  BY Calls DEF Change, Persist, SaveTaggedAppList, PersistList, Saving, Halfway, Handlers
<1>1. ListTypes'
  <2>1. meant' \in Lists
    BY <1>a, <1>c DEF ListTypes, Lists
  <2>2. hurt' \in SUBSET Names
    BY <1>a, <1>c DEF ListTypes, Differ
  <2> QED BY <1>a, <1>c, <1>d, <2>1, <2>2 DEF ListTypes
<1>2. Forms'
  <2>1. kind # "tagged" => \A n \in Names : Filed(n, LoadTaggedAppList(stored)[n])'
    BY <1>a, <1>c DEF Forms, Filed
  <2>2. kind # "overrides" => game' = <<>> /\ stored'[3] = {} /\ \A n \in Names : held'[n] # 3
    BY <1>a, <1>c DEF Forms, Fits
  <2> QED BY <1>b, <1>c, <1>d, <2>1, <2>2, Calls DEF Forms
<1>3. ToldInv'
  BY <1>d DEF ToldInv
<1>4. ASSUME NEW n \in Names \ hurt' PROVE Asked(n)'
  <2>1. n \notin hurt /\ Asked(n) /\ (game # <<>> => l[n] = held[n])
    BY <1>a, <1>c, <1>4 DEF Differ
  <2>2. held[n] = base[n] /\ ~Pending(n) /\ (Toggling(n)' <=> Toggling(n))
    BY <1>b, <1>c, <2>1 DEF Asked, Pending, Toggling
  <2>3. Pending(n)' <=> l[n] # held[n]
    BY <1>c, <1>d, <2>2 DEF Pending
  <2>4. meant'[n] = IF l[n] # held[n] THEN l[n] ELSE meant[n]
    BY <1>c
  <2>5. Toggling(n) => l[n] = held[n]
    BY <2>1 DEF Toggling
  <2>6. \A x : Filed(n, x)' <=> Filed(n, x)
    BY <1>c DEF Filed
  <2>7. Filed(n, meant[n]) => Filed(n, meant[n])'  \/ l[n] # held[n]
    BY <1>c, <2>4 DEF Filed
  <2> QED BY <1>b, <1>c, <1>d, <2>1, <2>2, <2>3, <2>4, <2>5, <2>7 DEF Asked, Toggling
<1>5. ASSUME NEW n \in Names \ hurt', kind' = "tagged" PROVE Tagged(n)'
  <2>1. n \notin hurt /\ Tagged(n)
    BY <1>a, <1>c, <1>5 DEF Differ
  <2> QED BY <1>b, <1>c, <1>d, <2>1 DEF Tagged, Filed
<1> QED BY <1>1, <1>2, <1>3, <1>4, <1>5 DEF ListInv

-----------------------------------------------------------------------------
\* Names that are not hurt, for a step that changes neither the toggle nor what the
\* user meant of them.
LEMMA OpenKeeps ==
  ASSUME ListInv, OpenDialog \/ (ReloadData /\ kind = "exclusions")
  PROVE  ListInv'
<1>a. ListTypes /\ Forms /\ \A n \in Names \ hurt : Asked(n) /\ (kind = "tagged" => Tagged(n))
  BY DEF ListInv
<1>b. todo = <<>> /\ ~Saving /\ ~Halfway
  BY <1>a, Calls DEF OpenDialog, ReloadData, LIdle, Saving, Halfway, Forms
<1>c. /\ lopen' = TRUE
      /\ held' = LoadTaggedAppList(stored) /\ base' = LoadTaggedAppList(stored)
      /\ UNCHANGED <<kind, stored, todo, game, told, meant, hurt, unsaid>>
  BY DEF OpenDialog, ReloadData, LIdle
<1>d. LoadTaggedAppList(stored) \in Lists
  BY <1>a, Loads DEF ListTypes
<1>1. ListTypes'
  BY <1>a, <1>c, <1>d DEF ListTypes
<1>2. Forms'
  <2>1. kind # "tagged" => \A n \in Names : Filed(n, LoadTaggedAppList(stored)[n])'
    BY <1>a, <1>c DEF Forms, Filed
  <2>2. kind # "overrides" => game' = <<>> /\ stored'[3] = {} /\ \A n \in Names : held'[n] # 3
    BY <1>a, <1>c, Loads DEF Forms, ListTypes
  <2> QED BY <1>a, <1>b, <1>c, <2>1, <2>2 DEF Forms, Halfway
<1>3. ToldInv'
  BY <1>c DEF ToldInv, ListInv
<1>4. ~Saving' /\ ~Halfway'
  BY <1>b, <1>c DEF Saving, Halfway
<1>5. ASSUME NEW n \in Names \ hurt' PROVE Asked(n)'
  BY <1>a, <1>b, <1>c, <1>4 DEF Asked, Filed, Pending, Toggling
<1>6. ASSUME NEW n \in Names \ hurt', kind' = "tagged" PROVE Tagged(n)'
  <2>1. Asked(n) /\ ~Toggling(n)
    BY <1>a, <1>c, <1>6 DEF Forms, Toggling
  <2>2. Filed(n, meant[n]) /\ meant[n] \in 0..3
    BY <1>a, <1>b, <1>6, <2>1 DEF Asked, Pending, ListTypes, Lists
  <2>3. LoadTaggedAppList(stored)[n] = meant[n]
    BY <1>a, <2>2, Loads DEF Filed, ListTypes
  <2> QED BY <1>4, <1>c, <2>2, <2>3 DEF Tagged, Filed
<1> QED BY <1>1, <1>2, <1>3, <1>5, <1>6 DEF ListInv

\* The copy replaces the arrays of the file.
LEMMA SaveKeeps ==
  ASSUME ListInv, SaveWhole
  PROVE  ListInv'
<1>a. ListTypes /\ Forms /\ \A n \in Names \ hurt : Asked(n)
  BY DEF ListInv
<1>b. todo = <<"save", "signal">> /\ kind # "tagged" /\ lopen /\ Saving /\ ~Halfway
  BY <1>a, Calls DEF SaveWhole, ListTypes, Saving, Halfway, Forms
<1>c. todo' = <<"signal">> /\ todo' # <<>> /\ ~Saving' /\ ~Halfway' /\ todo' \in Handlers
  BY <1>a, <1>b, Calls DEF SaveWhole, ListTypes, Saving, Halfway, Handlers
<1>d. /\ stored' = Arrays(held) /\ base' = held /\ hurt' = hurt \cup Overwritten
      /\ UNCHANGED <<kind, held, lopen, game, told, meant, unsaid>>
  BY DEF SaveWhole
<1>e. /\ held \in Lists /\ stored' \in [Values -> SUBSET Names]
      /\ \A n \in Names, v \in Values : n \in stored'[v] <=> held[n] = v
      /\ \A n \in Names : LoadTaggedAppList(stored')[n] = held[n]
      /\ (\A n \in Names : held[n] # 3) => stored'[3] = {}
  BY <1>a, <1>d, Saves DEF ListTypes
<1>1. ListTypes'
  BY <1>a, <1>c, <1>d, <1>e DEF ListTypes, Overwritten, Differ
<1>2. Forms'
  <2>1. kind # "tagged" => \A n \in Names : Filed(n, LoadTaggedAppList(stored)[n])'
    BY <1>e DEF Filed
  <2>2. kind # "overrides" => game' = <<>> /\ stored'[3] = {} /\ \A n \in Names : held'[n] # 3
    BY <1>a, <1>d, <1>e DEF Forms
  <2> QED BY <1>b, <1>c, <1>d, <2>1, <2>2, Calls DEF Forms
<1>3. ToldInv'
  BY <1>c DEF ToldInv
<1>4. ASSUME NEW n \in Names \ hurt' PROVE Asked(n)'
  <2>1. Asked(n) /\ n \notin hurt /\ base[n] = LoadTaggedAppList(stored)[n]
    BY <1>a, <1>d, <1>4 DEF Overwritten, Differ
  <2>2. ~Pending(n)' /\ (Toggling(n)' <=> Toggling(n)) /\ held'[n] = base'[n] /\ Filed(n, held[n])'
    BY <1>c, <1>d, <1>e DEF Pending, Toggling, Filed
  <2>3. CASE Pending(n)
    BY <1>c, <1>d, <2>1, <2>2, <2>3 DEF Asked, Toggling, Filed
  <2>4. CASE ~Pending(n) /\ ~Toggling(n)
    <3>1. Filed(n, meant[n]) /\ meant[n] \in 0..3 /\ held[n] = base[n]
      BY <1>a, <1>b, <2>1, <2>4 DEF Asked, Pending, ListTypes, Lists
    <3>2. meant[n] = held[n]
      BY <1>a, <2>1, <3>1, Loads DEF Filed, ListTypes
    <3> QED BY <1>c, <1>d, <2>2, <2>4, <3>2 DEF Asked, Toggling, Filed
  <2>5. CASE ~Pending(n) /\ Toggling(n)
    BY <1>c, <1>d, <2>1, <2>2, <2>5 DEF Asked, Toggling
  <2> QED BY <2>3, <2>4, <2>5
<1> QED BY <1>b, <1>d, <1>1, <1>2, <1>3, <1>4 DEF ListInv

\* A name that Unsaved leaves out: the copy, what it was loaded as and the file agree.
LEMMA Agree ==
  ASSUME ListInv, lopen, NEW n \in Names \ (hurt \cup Unsaved)
  PROVE  /\ held[n] = base[n] /\ ~Pending(n) /\ Asked(n)
         /\ ~Toggling(n) => Filed(n, meant[n])
         /\ kind = "tagged" => Filed(n, base[n]) /\ meant[n] = held[n]
<1>a. /\ ListTypes /\ Forms /\ Asked(n) /\ (kind = "tagged" => Tagged(n))
      /\ held[n] = base[n] /\ held[n] = LoadTaggedAppList(stored)[n]
  BY DEF ListInv, Unsaved, Differ
<1>b. stored \in [Values -> SUBSET Names] /\ held[n] \in 0..3 /\ meant[n] \in 0..3
  BY <1>a DEF ListTypes, Lists
<1>1. ~Pending(n)
  BY <1>a DEF Pending
<1>2. kind = "tagged" => ~Toggling(n) /\ stored[3] = {} /\ held[n] # 3
  BY <1>a DEF Forms, Toggling
<1>3. kind = "tagged" => Filed(n, base[n]) /\ meant[n] = held[n]
  <2>1. CASE Halfway
    <3>1. ASSUME kind = "tagged" PROVE Filed(n, base[n])
      <4>1. /\ n \in stored[1] <=> base[n] = 1
            /\ n \in stored[2] <=> base[n] = 2
            /\ n \in stored[3] <=> base[n] = 3
        BY <1>a, <1>2, <2>1, <3>1 DEF Tagged
      <4> QED BY <4>1 DEF Filed, Values
    <3> QED BY <1>a, <2>1, <3>1 DEF Tagged
  <2>2. CASE ~Halfway
    <3>1. ASSUME kind = "tagged" PROVE Filed(n, base[n]) /\ Filed(n, meant[n])
      BY <1>a, <1>1, <1>2, <2>2, <3>1 DEF Tagged, Asked
    <3>2. ASSUME kind = "tagged" PROVE meant[n] = base[n]
      BY <1>a, <1>b, <3>1, <3>2, Loads DEF Filed
    <3> QED BY <1>a, <3>1, <3>2
  <2> QED BY <2>1, <2>2
<1>4. ~Toggling(n) => Filed(n, meant[n])
  <2>1. CASE Halfway
    BY <1>a, <1>3, <2>1 DEF Forms
  <2> QED BY <1>a, <1>1, <2>1 DEF Asked
<1> QED BY <1>a, <1>1, <1>3, <1>4

\* A save that fails changes nothing but what the names left out agree on.
LEMMA FailKeeps ==
  ASSUME ListInv, SaveFails
  PROVE  ListInv'
<1>a. ListTypes /\ Forms
  BY DEF ListInv
<1>b. todo # <<>> /\ lopen /\ Head(todo) \in {"save", "excluded", "forced"}
  BY <1>a DEF SaveFails, Forms
<1>c. /\ hurt' = hurt \cup Unsaved /\ unsaid' = (unsaid \/ Transaction)
      /\ todo' = (IF Transaction THEN <<>> ELSE Tail(todo))
      /\ UNCHANGED <<kind, classic, stored, held, base, lopen, game, told, meant>>
  BY DEF SaveFails
<1>d. /\ todo' \in {<<>>, <<"signal">>, <<"forced", "signal">>}
      /\ todo' = <<>> => unsaid' = TRUE
      /\ kind # "tagged" => todo' # <<"forced", "signal">>
  BY <1>a, <1>b, <1>c, Calls DEF ListTypes, Forms, Halfway, Transaction
<1>e. todo' \in Handlers /\ ~Saving' /\ (Halfway' => kind = "tagged")
  BY <1>d, Calls DEF Handlers, Saving, Halfway
<1>1. ListTypes'
  BY <1>a, <1>c, <1>e DEF ListTypes, Unsaved, Differ, Transaction
<1>2. Forms'
  <2>1. kind # "tagged" => \A n \in Names : Filed(n, LoadTaggedAppList(stored)[n])'
    BY <1>a, <1>c DEF Forms, Filed
  <2>2. kind # "overrides" => game' = <<>> /\ stored'[3] = {} /\ \A n \in Names : held'[n] # 3
    BY <1>a, <1>c DEF Forms
  <2> QED BY <1>b, <1>c, <1>d, <1>e, <2>1, <2>2, Calls DEF Forms
<1>3. ToldInv'
  BY <1>d DEF ToldInv
<1>4. ASSUME NEW n \in Names \ hurt' PROVE Asked(n)' /\ (kind' = "tagged" => Tagged(n)')
  <2>1. /\ held[n] = base[n] /\ Asked(n) /\ (~Toggling(n) => Filed(n, meant[n]))
        /\ kind = "tagged" => Filed(n, base[n]) /\ meant[n] = held[n]
    BY <1>b, <1>c, <1>4, Agree
  <2>2. ~Pending(n)' /\ (Toggling(n)' <=> Toggling(n))
    BY <1>c, <1>e DEF Pending, Toggling
  <2>3. Asked(n)'
    BY <1>c, <1>e, <2>1, <2>2 DEF Asked, Filed, Toggling
  <2>4. kind' = "tagged" => Tagged(n)'
    BY <1>c, <2>1 DEF Tagged, Filed, Values
  <2> QED BY <2>3, <2>4
<1> QED BY <1>1, <1>2, <1>3, <1>4 DEF ListInv

\* The dialog closes, or its process is ended in the middle of a handler.
LEMMA EndKeeps ==
  ASSUME ListInv, CloseDialog \/ EndProcess
  PROVE  ListInv'
<1>a. ListTypes /\ Forms /\ ToldInv /\ \A n \in Names \ hurt : Asked(n)
  BY DEF ListInv
<1>b. /\ lopen /\ lopen' = FALSE /\ held' = Empty /\ todo' = <<>>
      /\ UNCHANGED <<kind, stored, base, game, told, meant>>
      /\ todo = <<>> => hurt' = hurt /\ unsaid' = unsaid
      /\ todo # <<>> => hurt' = hurt \cup Unsaved /\ unsaid' = TRUE
      /\ unsaid' \in BOOLEAN
  BY <1>a DEF CloseDialog, EndProcess, LIdle, ListTypes
<1>c. ~Saving' /\ ~Halfway' /\ todo' \in Handlers
  BY <1>b, Calls DEF Saving, Halfway, Handlers
<1>1. ListTypes'
  <2>1. held' \in Lists
    BY <1>b DEF Empty, Lists
  <2>2. hurt' \in SUBSET Names
    BY <1>a, <1>b DEF ListTypes, Unsaved, Differ
  <2> QED BY <1>a, <1>b, <1>c, <2>1, <2>2 DEF ListTypes
<1>2. Forms'
  <2>1. kind # "tagged" => \A n \in Names : Filed(n, LoadTaggedAppList(stored)[n])'
    BY <1>a, <1>b DEF Forms, Filed
  <2>2. kind # "overrides" => game' = <<>> /\ stored'[3] = {} /\ \A n \in Names : held'[n] # 3
    BY <1>a, <1>b DEF Forms, Empty
  <2> QED BY <1>b, <1>c, <2>1, <2>2, Calls DEF Forms
<1>3. ToldInv'
  BY <1>a, <1>b DEF ToldInv
<1>4. ASSUME NEW n \in Names \ hurt' PROVE Asked(n)' /\ (kind' = "tagged" => Tagged(n)')
  <2>1. Asked(n) /\ (~Toggling(n) => Filed(n, meant[n]))
    <3>1. CASE todo = <<>>
      <4>1. ~Saving /\ ~Halfway
        BY <3>1, Calls DEF Saving, Halfway
      <4> QED BY <1>a, <1>b, <1>4, <3>1, <4>1 DEF Asked, Pending
    <3>2. CASE todo # <<>>
      BY <1>b, <1>4, <3>2, Agree
    <3> QED BY <3>1, <3>2
  <2>2. ~Pending(n)' /\ (Toggling(n)' <=> Toggling(n))
    BY <1>b, <1>c DEF Pending, Toggling
  <2>3. Asked(n)'
    BY <1>b, <1>c, <2>1, <2>2 DEF Asked, Filed, Toggling
  <2> QED BY <1>b, <1>c, <2>3 DEF Tagged
<1> QED BY <1>1, <1>2, <1>3, <1>4 DEF ListInv

\* The two arrays of the tagged applications, one after the other.
LEMMA TaggedKeeps ==
  ASSUME ListInv, SaveExcludedApps \/ SaveForcedVnApps
  PROVE  ListInv'
<1>a. ListTypes /\ Forms /\ \A n \in Names \ hurt : Asked(n) /\ (kind = "tagged" => Tagged(n))
  BY DEF ListInv
<1>b. kind = "tagged" /\ lopen /\ game = <<>> /\ stored[3] = {} /\ \A n \in Names : held[n] # 3
  <2>1. kind = "tagged" /\ todo # <<>>
    BY <1>a, Calls DEF SaveExcludedApps, SaveForcedVnApps, ListTypes, Forms, Halfway
  <2> QED BY <1>a, <2>1 DEF Forms
<1>c. /\ Arrays(held) \in [Values -> SUBSET Names]
      /\ \A n \in Names, v \in Values : n \in Arrays(held)[v] <=> held[n] = v
  BY <1>a, Saves DEF ListTypes
<1>1. CASE SaveExcludedApps
  <2>1. /\ todo = <<"excluded", "forced", "signal">> /\ todo' = <<"forced", "signal">>
        /\ Saving /\ ~Halfway /\ Halfway' /\ ~Saving' /\ todo' \in Handlers
    BY <1>a, <1>1, Calls DEF SaveExcludedApps, ListTypes, Saving, Halfway, Handlers
  <2>2. /\ stored' = [stored EXCEPT ![1] = Arrays(held)[1]]
        /\ UNCHANGED <<kind, held, base, lopen, game, told, meant, hurt, unsaid>>
    BY <1>1 DEF SaveExcludedApps
  <2>3. /\ stored' \in [Values -> SUBSET Names]
        /\ stored'[1] = Arrays(held)[1] /\ stored'[2] = stored[2] /\ stored'[3] = {}
    BY <1>a, <1>b, <1>c, <2>2 DEF ListTypes, Values
  <2>4. ListTypes'
    BY <1>a, <2>1, <2>2, <2>3 DEF ListTypes
  <2>5. Forms'
    BY <1>b, <2>1, <2>2, <2>3, Calls DEF Forms
  <2>6. ToldInv'
    BY <2>1, Calls DEF ToldInv
  <2>7. ASSUME NEW n \in Names \ hurt' PROVE Asked(n)' /\ Tagged(n)'
    <3>1. Asked(n) /\ Tagged(n) /\ ~Toggling(n)
      BY <1>a, <1>b, <2>2, <2>7 DEF Toggling
    <3>2. Filed(n, base[n]) /\ base[n] \in 0..3 /\ meant[n] \in 0..3
      BY <1>a, <1>b, <2>1, <2>7, <3>1 DEF Tagged, ListTypes, Lists
    <3>3. meant[n] = held[n]
      <4>1. CASE Pending(n)
        BY <3>1, <4>1 DEF Asked
      <4>2. CASE ~Pending(n)
        <5>1. Filed(n, meant[n]) /\ held[n] = base[n]
          BY <2>1, <3>1, <4>2 DEF Asked, Pending
        <5> QED BY <1>a, <3>2, <5>1, Loads DEF Filed, ListTypes
      <4> QED BY <4>1, <4>2
    <3>4. (n \in stored'[1] <=> held[n] = 1) /\ (n \in stored'[2] <=> base[n] = 2)
      BY <1>c, <2>3, <3>2 DEF Filed, Values
    <3>5. ~Toggling(n)' /\ ~Pending(n)'
      BY <2>1, <2>2, <1>b DEF Toggling, Pending
    <3> QED BY <2>1, <2>2, <3>3, <3>4, <3>5 DEF Asked, Tagged
  <2> QED BY <2>4, <2>5, <2>6, <2>7 DEF ListInv
<1>2. CASE SaveForcedVnApps
  <2>1. /\ todo = <<"forced", "signal">> /\ todo' = <<"signal">>
        /\ Halfway /\ ~Halfway' /\ ~Saving' /\ todo' \in Handlers
    BY <1>a, <1>2, Calls DEF SaveForcedVnApps, ListTypes, Saving, Halfway, Handlers
  <2>2. /\ stored' = [stored EXCEPT ![2] = Arrays(held)[2]] /\ base' = held
        /\ UNCHANGED <<kind, held, lopen, game, told, meant, hurt, unsaid>>
    BY <1>2 DEF SaveForcedVnApps
  <2>3. /\ stored' \in [Values -> SUBSET Names]
        /\ stored'[2] = Arrays(held)[2] /\ stored'[1] = stored[1] /\ stored'[3] = {}
    BY <1>a, <1>b, <1>c, <2>2 DEF ListTypes, Values
  <2>4. ListTypes'
    BY <1>a, <2>1, <2>2, <2>3 DEF ListTypes
  <2>5. Forms'
    BY <1>b, <2>1, <2>2, <2>3, Calls DEF Forms
  <2>6. ToldInv'
    BY <2>1, Calls DEF ToldInv
  <2>7. ASSUME NEW n \in Names \ hurt' PROVE Asked(n)' /\ Tagged(n)'
    <3>1. Tagged(n)
      BY <1>a, <1>b, <2>2, <2>7
    <3>2. /\ n \in stored'[1] <=> held[n] = 1
          /\ n \in stored'[2] <=> held[n] = 2
          /\ n \in stored'[3] <=> held[n] = 3
      BY <1>b, <1>c, <2>1, <2>3, <2>7, <3>1 DEF Tagged, Values
    <3>3. Filed(n, held[n])' /\ meant[n] = held[n]
      BY <2>1, <2>2, <3>1, <3>2 DEF Filed, Values, Tagged
    <3>4. ~Toggling(n)' /\ ~Pending(n)'
      BY <2>1, <2>2, <1>b DEF Toggling, Pending
    <3> QED BY <2>1, <2>2, <3>3, <3>4 DEF Asked, Tagged, Filed
  <2> QED BY <2>4, <2>5, <2>6, <2>7 DEF ListInv
<1> QED BY <1>1, <1>2

\* The worker loads the list of single applications and has one entry changed in it.
LEMMA ToggleKeeps ==
  ASSUME ListInv, LoadForGameToggle
  PROVE  ListInv'
<1>a. ListTypes /\ Forms /\ ToldInv /\ \A n \in Names \ hurt : Asked(n)
  BY DEF ListInv
<1> DEFINE disk == LoadTaggedAppList(stored)
<1>0. disk \in Lists
  BY <1>a, Loads DEF ListTypes
<1>b. PICK m \in Names :
        /\ kind = "overrides" /\ game = <<>>
        /\ game' = <<Toggled(disk, m), disk>>
        /\ meant' = [meant EXCEPT ![m] = Toggled(disk, m)[m]]
        /\ hurt' = IF todo = <<>> THEN hurt ELSE hurt \cup {m}
        /\ UNCHANGED <<kind, classic, stored, held, base, lopen, todo, told, unsaid>>
  BY DEF LoadForGameToggle
<1>c. /\ Toggled(disk, m) \in Lists /\ Toggled(disk, m)[m] # disk[m]
      /\ \A n \in Names : n # m => Toggled(disk, m)[n] = disk[n]
  BY <1>0 DEF Toggled, Lists
<1> HIDE DEF disk
<1>d. /\ game' \in Lists \X Lists /\ game' # <<>>
      /\ game'[1] = Toggled(disk, m) /\ game'[2] = disk
  BY <1>0, <1>b, <1>c
<1>e. meant' \in Lists /\ meant'[m] = game'[1][m] /\ \A n \in Names : n # m => meant'[n] = meant[n]
  BY <1>a, <1>b, <1>c, <1>d DEF ListTypes, Lists
<1>1. ListTypes'
  BY <1>a, <1>b, <1>d, <1>e DEF ListTypes
<1>2. Forms'
  <2>1. \A n \in Names : Filed(n, LoadTaggedAppList(stored)[n])'
    BY <1>a, <1>b DEF Forms, Filed
  <2> QED BY <1>a, <1>b, <2>1 DEF Forms, Halfway
<1>3. ToldInv'
  BY <1>a, <1>b DEF ToldInv
<1>4. ASSUME NEW n \in Names \ hurt' PROVE Asked(n)'
  <2>1. /\ Asked(n) /\ ~Toggling(n) /\ (n = m => todo = <<>>)
    BY <1>a, <1>b, <1>4 DEF Toggling
  <2>2. (Pending(n)' <=> Pending(n)) /\ (Halfway' <=> Halfway) /\ (Saving' <=> Saving)
    BY <1>b DEF Pending, Halfway, Saving
  <2>3. CASE n = m
    <3>1. ~Pending(n)' /\ Toggling(n)'
      BY <1>c, <1>d, <2>1, <2>2, <2>3, Calls DEF Pending, Saving, Toggling
    <3> QED BY <1>b, <1>e, <2>1, <2>2, <2>3, <3>1 DEF Asked
  <2>4. CASE n # m
    <3>1. ~Toggling(n)' /\ meant'[n] = meant[n]
      BY <1>c, <1>d, <1>e, <1>4, <2>4 DEF Toggling
    <3> QED BY <1>b, <2>1, <2>2, <3>1 DEF Asked, Filed
  <2> QED BY <2>3, <2>4
<1> QED BY <1>b, <1>1, <1>2, <1>3, <1>4 DEF ListInv

\* It saves the list it loaded with that entry changed, or cannot.
LEMMA DrainKeeps ==
  ASSUME ListInv, DrainGameModeToggle
  PROVE  ListInv'
<1>a. ListTypes /\ Forms /\ ToldInv /\ \A n \in Names \ hurt : Asked(n)
  BY DEF ListInv
<1>b. /\ game # <<>> /\ game' = <<>> /\ kind = "overrides" /\ game[1] \in Lists /\ game[2] \in Lists
      /\ UNCHANGED <<kind, held, base, lopen, todo, meant>>
      /\ ~Halfway
  BY <1>a DEF DrainGameModeToggle, ListTypes, Forms
<1>c. (Saving' <=> Saving) /\ (Halfway' <=> Halfway)
  BY <1>b DEF Saving, Halfway
<1>1. CASE /\ stored' = Arrays(game[1]) /\ told' = Arrays(game[1]) /\ unsaid' = FALSE
           /\ hurt' = hurt \cup Differ(game[2], LoadTaggedAppList(stored))
  <2>1. /\ stored' \in [Values -> SUBSET Names]
        /\ \A n \in Names, v \in Values : n \in stored'[v] <=> game[1][n] = v
        /\ \A n \in Names : LoadTaggedAppList(stored')[n] = game[1][n]
    BY <1>b, <1>1, Saves
  <2>2. ListTypes'
    BY <1>a, <1>b, <1>1, <2>1 DEF ListTypes, Differ
  <2>3. Forms'
    <3>1. \A n \in Names : Filed(n, LoadTaggedAppList(stored)[n])'
      BY <2>1 DEF Filed
    <3> QED BY <1>a, <1>b, <1>c, <3>1 DEF Forms
  <2>4. ToldInv'
    BY <1>1 DEF ToldInv
  <2>5. ASSUME NEW n \in Names \ hurt' PROVE Asked(n)'
    <3>1. Asked(n) /\ game[2][n] = LoadTaggedAppList(stored)[n]
      BY <1>a, <1>1, <2>5 DEF Differ
    <3>2. ~Toggling(n)' /\ (Pending(n)' <=> Pending(n))
      BY <1>b, <1>c DEF Toggling, Pending
    <3>3. CASE Toggling(n)
      BY <1>b, <1>c, <2>1, <3>1, <3>2, <3>3 DEF Asked, Filed
    <3>4. CASE ~Toggling(n) /\ Pending(n)
      BY <1>b, <1>c, <3>1, <3>2, <3>4 DEF Asked
    <3>5. CASE ~Toggling(n) /\ ~Pending(n)
      <4>1. Filed(n, meant[n]) /\ meant[n] \in 0..3 /\ game[1][n] = game[2][n]
        BY <1>a, <1>b, <2>5, <3>1, <3>5 DEF Asked, Toggling, ListTypes, Lists
      <4>2. meant[n] = game[1][n]
        BY <1>a, <3>1, <4>1, Loads DEF Filed, ListTypes
      <4> QED BY <1>b, <1>c, <2>1, <3>1, <3>2, <4>2 DEF Asked, Filed
    <3> QED BY <3>3, <3>4, <3>5
  <2> QED BY <1>b, <2>2, <2>3, <2>4, <2>5 DEF ListInv
<1>2. CASE /\ UNCHANGED <<stored, told, unsaid>>
           /\ hurt' = hurt \cup Differ(game[1], LoadTaggedAppList(stored))
  <2>2. ListTypes'
    BY <1>a, <1>b, <1>2 DEF ListTypes, Differ
  <2>3. Forms'
    <3>1. \A n \in Names : Filed(n, LoadTaggedAppList(stored)[n])'
      BY <1>a, <1>b, <1>2 DEF Forms, Filed
    <3> QED BY <1>a, <1>b, <1>c, <3>1 DEF Forms
  <2>4. ToldInv'
    BY <1>a, <1>b, <1>2 DEF ToldInv
  <2>5. ASSUME NEW n \in Names \ hurt' PROVE Asked(n)'
    <3>1. Asked(n) /\ game[1][n] = LoadTaggedAppList(stored)[n] /\ Filed(n, game[1][n])
      BY <1>a, <1>b, <1>2, <2>5 DEF Differ, Forms
    <3>2. ~Toggling(n)' /\ (Pending(n)' <=> Pending(n))
      BY <1>b, <1>c DEF Toggling, Pending
    <3>3. CASE Toggling(n)
      BY <1>b, <1>c, <1>2, <3>1, <3>2, <3>3 DEF Asked, Filed
    <3>4. CASE ~Toggling(n)
      BY <1>b, <1>c, <1>2, <3>1, <3>2, <3>4 DEF Asked, Filed
    <3> QED BY <3>3, <3>4
  <2> QED BY <1>b, <2>2, <2>3, <2>4, <2>5 DEF ListInv
<1> QED BY <1>1, <1>2 DEF DrainGameModeToggle

\* The signal: the hook has what the file has.
LEMMA SignalKeeps ==
  ASSUME ListInv, Signal
  PROVE  ListInv'
<1>a. ListTypes /\ Forms /\ \A n \in Names \ hurt : Asked(n) /\ (kind = "tagged" => Tagged(n))
  BY DEF ListInv
<1>b. /\ todo = <<"signal">> /\ todo' = <<>> /\ ~Saving /\ ~Halfway /\ ~Saving' /\ ~Halfway'
      /\ todo' \in Handlers /\ lopen
  BY <1>a, Calls DEF Signal, ListTypes, Saving, Halfway, Handlers, Forms
<1>c. /\ told' = stored /\ unsaid' = FALSE
      /\ UNCHANGED <<kind, stored, held, base, lopen, game, meant, hurt>>
  BY DEF Signal
<1>1. ListTypes'
  BY <1>a, <1>b, <1>c DEF ListTypes
<1>2. Forms'
  <2>1. kind # "tagged" => \A n \in Names : Filed(n, LoadTaggedAppList(stored)[n])'
    BY <1>a, <1>c DEF Forms, Filed
  <2> QED BY <1>a, <1>b, <1>c, <2>1, Calls DEF Forms
<1>3. ToldInv'
  BY <1>c DEF ToldInv
<1>4. ASSUME NEW n \in Names \ hurt' PROVE Asked(n)' /\ (kind' = "tagged" => Tagged(n)')
  BY <1>a, <1>b, <1>c, <1>4 DEF Asked, Tagged, Filed, Pending, Toggling
<1> QED BY <1>1, <1>2, <1>3, <1>4 DEF ListInv

\* A file that cannot be read: nothing, or a copy that is lost with all its names.
LEMMA UnreadableKeeps ==
  ASSUME ListInv, ImportUnreadable
  PROVE  ListInv'
<1>a. ListTypes /\ Forms /\ ToldInv /\ \A n \in Names \ hurt : Asked(n) /\ (kind = "tagged" => Tagged(n))
  BY DEF ListInv
<1>b. /\ UNCHANGED <<kind, stored, base, lopen, todo, game, told, meant, unsaid>>
      /\ (held' = Empty /\ hurt' = Names) \/ (held' = held /\ hurt' = hurt)
  BY DEF ImportUnreadable
<1>c. Empty \in Lists /\ \A n \in Names : Empty[n] # 3
  BY DEF Empty, Lists
<1>d. (Saving' <=> Saving) /\ (Halfway' <=> Halfway)
  BY <1>b DEF Saving, Halfway
<1>1. ListTypes'
  BY <1>a, <1>b, <1>c DEF ListTypes
<1>2. Forms'
  <2>1. kind # "tagged" => \A n \in Names : Filed(n, LoadTaggedAppList(stored)[n])'
    BY <1>a, <1>b DEF Forms, Filed
  <2>2. kind # "overrides" => game' = <<>> /\ stored'[3] = {} /\ \A n \in Names : held'[n] # 3
    BY <1>a, <1>b, <1>c DEF Forms
  <2> QED BY <1>a, <1>b, <1>d, <2>1, <2>2 DEF Forms
<1>3. ToldInv'
  BY <1>a, <1>b DEF ToldInv
<1>4. ASSUME NEW n \in Names \ hurt' PROVE Asked(n)' /\ (kind' = "tagged" => Tagged(n)')
  BY <1>a, <1>b, <1>d, <1>4 DEF Asked, Tagged, Filed, Pending, Toggling
<1> QED BY <1>1, <1>2, <1>3, <1>4 DEF ListInv

\* An edit of one of the dialogs.
LEMMA EditKeeps ==
  ASSUME ListInv,
         kind \in {"macros", "tagged", "tsf", "overrides", "exclusions", "keymap", "hotkeys"},
         AddEntry \/ EditEntry \/ RemoveEntry \/ ResetToDefaults \/ ImportFile
  PROVE  ListInv'
<1>a. ListTypes /\ Fits(held)
  BY DEF ListInv, Forms, Fits, ListTypes
<1>1. CASE AddEntry
  <2>1. PICK n \in Names, v \in Values : LIdle /\ (v = 3 => kind = "overrides") /\ Change(Put(held, n, v))
    BY <1>1 DEF AddEntry, LEdit
  <2>2. Fits(Put(held, n, v))
    BY <1>a, <2>1, PutFits
  <2> QED BY <2>1, <2>2, ChangeKeeps
<1>2. CASE EditEntry
  <2>1. PICK n \in Names, m \in Names : LIdle /\ Change(Set(Set(held, n, 0), m, held[n]))
    BY <1>2 DEF EditEntry, LEdit
  <2>2. Fits(Set(held, n, 0)) /\ Set(held, n, 0) \in Lists /\ held[n] \in 0..3
        /\ (held[n] = 3 => kind = "overrides")
    BY <1>a, Edited DEF ListTypes, Lists, Fits
  <2>3. Fits(Set(Set(held, n, 0), m, held[n]))
    BY <2>2, Edited
  <2> QED BY <2>1, <2>3, ChangeKeeps
<1>3. CASE RemoveEntry
  <2>1. PICK n \in Names : LIdle /\ Change(Set(held, n, 0))
    BY <1>3 DEF RemoveEntry, LEdit
  <2>2. Fits(Set(held, n, 0))
    BY <1>a, Edited DEF ListTypes
  <2> QED BY <2>1, <2>2, ChangeKeeps
<1>4. CASE ResetToDefaults
  <2>1. LIdle /\ Change(Defaults)
    BY <1>4 DEF ResetToDefaults, LEdit
  <2>2. Fits(Defaults)
    BY DEF Fits, Defaults, Lists
  <2> QED BY <2>1, <2>2, ChangeKeeps
<1>5. CASE ImportFile
  <2>1. PICK f \in [Names -> 0..2], append \in BOOLEAN : LIdle /\ Change(Import(held, f, append))
    <3>1. PICK f \in [Names -> 0..2], append \in BOOLEAN :
            LIdle /\ Change(IF kind = "tagged" /\ append THEN MergeTaggedAppLine(held, f)
                            ELSE Import(held, f, append))
      BY <1>5 DEF ImportFile, LEdit
    <3>2. (IF kind = "tagged" /\ append THEN MergeTaggedAppLine(held, f) ELSE Import(held, f, append))
            = Import(held, f, append)
      BY DEF MergeTaggedAppLine
    <3> QED BY <3>1, <3>2
  <2>2. Fits(Import(held, f, append))
    BY <1>a, ImportFits
  <2> QED BY <2>1, <2>2, ChangeKeeps
<1> QED BY <1>1, <1>2, <1>3, <1>4, <1>5

\* The dialogs start with what is in the file.
LEMMA ListStart == ListsInit => ListInv
<1> SUFFICES ASSUME ListsInit PROVE ListInv
  OBVIOUS
<1>1. PICK l \in Starts : meant = l /\ held = Empty /\ stored = Arrays(l) /\ told = Arrays(l) /\ base = l
  BY DEF ListsInit
<1>2. /\ lopen = FALSE /\ todo = <<>> /\ game = <<>> /\ hurt = {} /\ unsaid = FALSE
  BY DEF ListsInit
<1>3. l \in Lists /\ \A n \in Names : l[n] # 3
  BY DEF Starts, Lists
<1>4. Empty \in Lists /\ \A n \in Names : Empty[n] # 3
  BY DEF Empty, Lists
<1>5. /\ stored \in [Values -> SUBSET Names] /\ stored[3] = {}
      /\ \A n \in Names : Filed(n, l[n]) /\ LoadTaggedAppList(stored)[n] = l[n]
  BY <1>1, <1>3, Saves DEF Filed
<1>6. ~Saving /\ ~Halfway /\ todo \in Handlers
  BY <1>2, Calls DEF Saving, Halfway, Handlers
<1>7. ListTypes
  BY <1>1, <1>2, <1>3, <1>4, <1>5, <1>6 DEF ListTypes
<1>8. Forms /\ ToldInv
  BY <1>1, <1>2, <1>4, <1>5, <1>6, Calls DEF Forms, ToldInv
<1>9. ASSUME NEW n \in Names PROVE Asked(n) /\ Tagged(n)
  BY <1>1, <1>2, <1>5, <1>6 DEF Asked, Tagged, Pending, Toggling
<1> QED BY <1>7, <1>8, <1>9 DEF ListInv

\* Every step of a dialog, a save or another process keeps the invariant.
LEMMA ListStep == ListInv /\ [ListsNext]_lvars => ListInv'
<1> SUFFICES ASSUME ListInv, [ListsNext]_lvars PROVE ListInv'
  OBVIOUS
<1>1. CASE /\ kind \in {"macros", "tagged", "tsf", "overrides", "exclusions", "keymap", "hotkeys"}
           /\ AddEntry \/ EditEntry \/ RemoveEntry \/ ResetToDefaults \/ ImportFile
  BY <1>1, EditKeeps
<1>2. CASE ImportUnreadable
  BY <1>2, UnreadableKeeps
<1>3. CASE OpenDialog \/ (ReloadData /\ kind = "exclusions")
  BY <1>3, OpenKeeps
<1>4. CASE SaveWhole
  BY <1>4, SaveKeeps
<1>5. CASE SaveFails
  BY <1>5, FailKeeps
<1>6. CASE SaveExcludedApps \/ SaveForcedVnApps
  BY <1>6, TaggedKeeps
<1>7. CASE Signal
  BY <1>7, SignalKeeps
<1>8. CASE CloseDialog \/ EndProcess
  BY <1>8, EndKeeps
<1>9. CASE LoadForGameToggle
  BY <1>9, ToggleKeeps
<1>10. CASE DrainGameModeToggle
  BY <1>10, DrainKeeps
<1>11. CASE UNCHANGED lvars
  BY <1>11 DEF lvars, ListInv, ListTypes, Forms, ToldInv, Asked, Tagged, Filed, Pending, Toggling,
               Saving, Halfway
<1> QED
  BY <1>1, <1>2, <1>3, <1>4, <1>5, <1>6, <1>7, <1>8, <1>9, <1>10, <1>11
  DEF ListsNext, D, Imported, MacroTableDialog, ExcludedAppsDialog, TsfAppsDialog, AppOverridesDialog,
      SpellExclusionsDialog, UserDefinedDialog, HotkeysDialog, ClassicMacroTableDialog,
      ClassicExcludedAppsDialog, ClassicTsfAppsDialog, ClassicAppOverridesDialog,
      ClassicSpellExclusionsDialog, ClassicUserDefinedDialog, ClassicHotkeysDialog

\* Lists are kept, for any names, dialogs and number of edits: an entry that no mishap
\* touched is in the file as the user last asked for it, in one array only, and the hook
\* has been told of what the file has (SaveTaggedAppList, SaveMacros, SignalConfigChange,
\* DrainGameModeToggleOnWorker).
THEOREM TheListsAreKept == LSpec => []ListsKept
<1>1. ListInv => ListsKept
  <2> SUFFICES ASSUME ListInv PROVE ListsKept
    OBVIOUS
  <2>1. ASSUME Idle, NEW n \in Names \ hurt, NEW v \in Values
        PROVE  n \in stored[v] <=> meant[n] = v
    <3>1. ~Saving /\ ~Halfway /\ ~Toggling(n) /\ Asked(n)
      BY <2>1, Calls DEF Idle, Saving, Halfway, Toggling, ListInv
    <3> QED BY <3>1 DEF Asked, Pending, Filed
  <2>2. HookToldOfLists
    BY DEF ListInv, ToldInv, HookToldOfLists, Idle
  <2> QED BY <2>1, <2>2 DEF ListsKept, EntriesKept
<1> QED BY <1>1, ListStart, ListStep, PTL DEF LSpec

-----------------------------------------------------------------------------
(* Modes: types, and what each part of a handler leaves alone.              *)

\* HookEngine's state, and the types of the threads.
Locks == Apps \cup {NoApp}
HookStates ==
  [vn : BOOLEAN, flag : BOOLEAN, excluded : BOOLEAN, forced : BOOLEAN, tsf : BOOLEAN,
   tsfActive : BOOLEAN, tsfReadonly : BOOLEAN, compat : BOOLEAN, suppressed : BOOLEAN,
   before : BOOLEAN, dirty : BOOLEAN, toggleBit : BOOLEAN, focusDue : BOOLEAN,
   pending : {"none", "v", "e"}, active : Locks, real : Locks, excludedPid : Locks,
   forcedPid : Locks, modes : [Apps -> Modes]]

WorkerStates ==
  [pc : {"idle", "compare", "notify", "store", "snapshot", "save", "excluded", "tsf", "callback"},
   flag : BOOLEAN, excluded : BOOLEAN, exe : Locks, modes : [Apps -> Modes]]

ModeTypes ==
  /\ s \in HookStates /\ worker \in WorkerStates
  /\ fg \in Apps /\ version \in {1, 2} /\ main \in {"idle", "v", "e"}
  /\ saved \in [Apps -> Modes]

\* The remembered modes of a state, and where it was: what most of a handler leaves alone.
Keeps(h, g) == g \in HookStates /\ g.modes = h.modes /\ g.real = h.real

\* The two modes are modes.
LEMMA ModeNames == /\ \A b \in BOOLEAN : ToMode(b) \in {"v", "e"} /\ ToMode(b) \in Modes
                   /\ NoModes \in [Apps -> Modes]
BY DEF ToMode, Modes, NoModes

\* Publishing a mode change leaves the language and the exclusion alone.  (NotifyModeChange)
LEMMA NotifyKeeps ==
  ASSUME NEW h \in HookStates
  PROVE  Keeps(h, NotifyModeChange(h)) /\ NotifyModeChange(h).vn = h.vn
                /\ NotifyModeChange(h).excluded = h.excluded /\ NotifyModeChange(h).forced = h.forced
<1>1. SharedMode(h) \in BOOLEAN
  BY DEF SharedMode, HookStates
<1> QED BY <1>1 DEF NotifyModeChange, Keeps, HookStates

\* The keyboard layout: no lock changes, and no mode without the CJK switch.
LEMMA LayoutKeeps ==
  ASSUME NEW h \in HookStates, NEW c \in BOOLEAN
  PROVE  /\ Keeps(h, OnLayoutChanged(h, c))
         /\ OnLayoutChanged(h, c).excluded = h.excluded /\ OnLayoutChanged(h, c).forced = h.forced
         /\ ~cfg.cjk => OnLayoutChanged(h, c) = h
<1> DEFINE in  == [h EXCEPT !.suppressed = TRUE, !.before = h.vn, !.vn = FALSE]
           out == [h EXCEPT !.suppressed = FALSE, !.vn = h.before]
<1>1. /\ in \in HookStates /\ in.modes = h.modes /\ in.real = h.real
      /\ in.excluded = h.excluded /\ in.forced = h.forced
  BY DEF HookStates
<1>2. /\ out \in HookStates /\ out.modes = h.modes /\ out.real = h.real
      /\ out.excluded = h.excluded /\ out.forced = h.forced
  BY DEF HookStates
<1>3. OnLayoutChanged(h, c) \in {h, in, NotifyModeChange(in), NotifyModeChange(out)}
  BY DEF OnLayoutChanged
<1>4. ~cfg.cjk => OnLayoutChanged(h, c) = h
  BY DEF OnLayoutChanged
<1> HIDE DEF in, out
<1>5. Keeps(h, in) /\ Keeps(h, NotifyModeChange(in)) /\ Keeps(h, NotifyModeChange(out)) /\ Keeps(h, h)
  BY <1>1, <1>2, NotifyKeeps DEF Keeps
<1> QED BY <1>1, <1>2, <1>3, <1>4, <1>5, NotifyKeeps

\* So does a look at the keyboard layout, where CJK switching is off.  (CheckLayoutChange)
LEMMA CheckKeeps ==
  ASSUME NEW h \in HookStates, NEW app
  PROVE  /\ Keeps(h, CheckLayoutChange(h, app))
         /\ CheckLayoutChange(h, app).excluded = h.excluded
         /\ CheckLayoutChange(h, app).forced = h.forced
         /\ ~cfg.cjk => CheckLayoutChange(h, app).vn = h.vn
<1> DEFINE c == app \notin CjkApps
           g == [h EXCEPT !.compat = c]
<1>1. /\ c \in BOOLEAN /\ g \in HookStates /\ g.modes = h.modes /\ g.real = h.real
      /\ g.excluded = h.excluded /\ g.forced = h.forced /\ g.vn = h.vn
  BY DEF HookStates
<1>2. CheckLayoutChange(h, app) = IF c = h.compat THEN h ELSE OnLayoutChanged(g, c)
  BY DEF CheckLayoutChange
<1> HIDE DEF c, g
<1> QED BY <1>1, <1>2, LayoutKeeps DEF Keeps

\* Remembering writes the one application only.  (SmartSwitch)
LEMMA RememberIs ==
  ASSUME NEW h \in HookStates, NEW app \in Apps, NEW b \in BOOLEAN
  PROVE  /\ Remember(h, app, b) \in HookStates
         /\ Remember(h, app, b).modes = [h.modes EXCEPT ![app] = ToMode(b)]
         /\ Remember(h, app, b).real = h.real
BY ModeNames DEF Remember, HookStates

\* How many applications have a mode, with one more or with none before.
LEMMA OneMore ==
  ASSUME NEW m \in [Apps -> Modes], NEW app \in Apps, NEW b \in BOOLEAN,
         Remembered(m) < MaxModes \/ m = NoModes
  PROVE  Remembered([m EXCEPT ![app] = ToMode(b)]) <= MaxModes
<1> DEFINE S == {a \in Apps : m[a] # "absent"}
           T == {a \in Apps : [m EXCEPT ![app] = ToMode(b)][a] # "absent"}
<1>1. T \subseteq S \cup {app} /\ S \subseteq Apps
  BY DEF Modes
<1>2. IsFiniteSet(S) /\ IsFiniteSet(S \cup {app}) /\ Cardinality(S \cup {app}) <= Cardinality(S) + 1
      /\ Cardinality(S) \in Nat
  <2>1. IsFiniteSet(S) /\ Cardinality(S) \in Nat
    BY <1>1, AppsAssumption, FS_Subset, FS_CardinalityType
  <2> HIDE DEF S
  <2>2. /\ IsFiniteSet(S \cup {app})
        /\ Cardinality(S \cup {app}) = IF app \in S THEN Cardinality(S) ELSE Cardinality(S) + 1
    BY <2>1, FS_AddElement
  <2>3. Cardinality(S \cup {app}) <= Cardinality(S) + 1
    BY <2>1, <2>2
  <2> QED BY <2>1, <2>2, <2>3
<1>3. IsFiniteSet(T) /\ Cardinality(T) <= Cardinality(S \cup {app}) /\ Cardinality(T) \in Nat
      /\ Cardinality(S \cup {app}) \in Nat
  BY <1>1, <1>2, FS_Subset, FS_CardinalityType
<1>4. m = NoModes => S = {}
  BY DEF NoModes
<1>5. Cardinality({}) = 0
  BY FS_EmptySet
<1>6. MaxModes \in Nat /\ MaxModes >= 1
  BY BoundsAssumption
<1>7. Remembered(m) = Cardinality(S) /\ Remembered([m EXCEPT ![app] = ToMode(b)]) = Cardinality(T)
  BY DEF Remembered
<1>8. Cardinality(S) < MaxModes
  BY <1>4, <1>5, <1>6, <1>7
<1> HIDE DEF S, T
<1> QED BY <1>2, <1>3, <1>6, <1>7, <1>8

\* The application that is left gets its mode; the map is cleared where it is full.
LEMMA SaveModeIs ==
  ASSUME NEW h \in HookStates, NEW was \in HookStates, NEW b \in BOOLEAN
  PROVE  /\ SaveModeOfLeftApp(h, was, b) \in HookStates
         /\ SaveModeOfLeftApp(h, was, b).real = h.real
         /\ \/ SaveModeOfLeftApp(h, was, b).modes = h.modes
            \/ /\ h.real \in Apps /\ ~was.excluded /\ ~was.forced
               /\ Remembered(SaveModeOfLeftApp(h, was, b).modes) <= MaxModes
               /\ \E m \in {h.modes, NoModes} :
                    SaveModeOfLeftApp(h, was, b).modes = [m EXCEPT ![h.real] = ToMode(b)]
<1>1. CASE ~cfg.smart \/ h.real = NoApp \/ was.excluded \/ was.forced
  BY <1>1 DEF SaveModeOfLeftApp
<1>2. CASE ~(~cfg.smart \/ h.real = NoApp \/ was.excluded \/ was.forced)
  <2> DEFINE c == ClearIfFull(h)
  <2>1. h.real \in Apps /\ h.modes \in [Apps -> Modes]
    BY <1>2 DEF HookStates, Locks
  <2>2. /\ c \in HookStates /\ c.real = h.real /\ c.modes \in {h.modes, NoModes}
        /\ c.modes = NoModes \/ ~(Remembered(c.modes) >= MaxModes)
    BY ModeNames DEF ClearIfFull, HookStates
  <2>3. c.modes \in [Apps -> Modes] /\ (Remembered(c.modes) < MaxModes \/ c.modes = NoModes)
    <3>1. IsFiniteSet({a \in Apps : c.modes[a] # "absent"})
      BY AppsAssumption, FS_Subset
    <3>2. Remembered(c.modes) \in Nat
      BY <3>1, FS_CardinalityType DEF Remembered
    <3> QED BY <2>1, <2>2, <3>2, ModeNames, BoundsAssumption
  <2>4. SaveModeOfLeftApp(h, was, b) = Remember(c, h.real, b)
    BY <1>2 DEF SaveModeOfLeftApp
  <2> HIDE DEF c
  <2>5. Remembered([c.modes EXCEPT ![h.real] = ToMode(b)]) <= MaxModes
    BY <2>1, <2>3, OneMore
  <2> QED BY <1>2, <2>1, <2>2, <2>3, <2>4, <2>5, RememberIs
<1> QED BY <1>1, <1>2

\* Taking up the mode of an application keeps what other applications have.  (EnterMode)
LEMMA EnterKeeps ==
  ASSUME NEW h \in HookStates, NEW app
  PROVE  Keeps(h, EnterMode(h, app))
<1> DEFINE v == [h EXCEPT !.vn = TRUE]
           t == [h EXCEPT !.vn = ~@]
<1>1. Keeps(h, v) /\ v \in HookStates /\ Keeps(h, t) /\ t \in HookStates /\ Keeps(h, h)
  BY DEF Keeps, HookStates
<1>2. EnterMode(h, app) \in {h, NotifyModeChange(v), NotifyModeChange(t)}
  BY DEF EnterMode
<1> HIDE DEF v, t
<1> QED BY <1>1, <1>2, NotifyKeeps DEF Keeps

\* So does leaving a layout that locks the mode.
LEMMA LeaveKeeps ==
  ASSUME NEW h \in HookStates, NEW was
  PROVE  Keeps(h, LeaveLock(h, was))
<1> DEFINE after == OnLayoutChanged(h, h.compat)
<1>1. h.compat \in BOOLEAN
  BY DEF HookStates
<1>2. Keeps(h, after) /\ after \in HookStates
  BY <1>1, LayoutKeeps DEF Keeps
<1>3. LeaveLock(h, was) \in {h, NotifyModeChange(after), after}
  BY DEF LeaveLock
<1> HIDE DEF after
<1> QED BY <1>2, <1>3, NotifyKeeps DEF Keeps

\* The settings of the application in front, and what the TSF DLL is told of them.
LEMMA LocksKeep ==
  ASSUME NEW h \in HookStates, NEW app \in Locks, NEW pid \in Locks,
         NEW e \in BOOLEAN, NEW f \in BOOLEAN, NEW t \in BOOLEAN
  PROVE  Keeps(h, [h EXCEPT !.active = app, !.excluded = e, !.forced = f, !.tsf = t,
                            !.forcedPid = pid])
<1> DEFINE g   == [h EXCEPT !.active = app, !.forcedPid = pid]
           k   == [g EXCEPT !.excluded = e, !.forced = f]
           all == [k EXCEPT !.tsf = t]
<1>1. Keeps(h, g) /\ g \in HookStates
  BY DEF Keeps, HookStates
<1>2. [h EXCEPT !.active = app, !.excluded = e, !.forced = f, !.tsf = t, !.forcedPid = pid] = all
  BY DEF HookStates
<1> HIDE DEF g
<1>3. Keeps(g, k) /\ k \in HookStates
  BY <1>1 DEF Keeps, HookStates
<1> HIDE DEF k
<1>4. Keeps(k, all)
  BY <1>3 DEF Keeps, HookStates
<1> HIDE DEF all
<1> QED BY <1>1, <1>2, <1>3, <1>4 DEF Keeps

\* So does what the TSF side reports, and it does not lift an exclusion.  (TsfModeCallback)
LEMMA CallbackKeeps ==
  ASSUME NEW h \in HookStates
  PROVE  Keeps(h, TsfModeCallback(h)) /\ TsfModeCallback(h).excluded = h.excluded
<1>1. ASSUME NEW a \in BOOLEAN, NEW r \in BOOLEAN
      PROVE  /\ Keeps(h, [h EXCEPT !.tsfActive = a, !.tsfReadonly = r])
             /\ [h EXCEPT !.tsfActive = a, !.tsfReadonly = r].excluded = h.excluded
  BY DEF Keeps, HookStates
<1>2. EffectiveTsf(h) \in BOOLEAN /\ (~EffectiveTsf(h) /\ ~h.excluded) \in BOOLEAN
  BY DEF EffectiveTsf
<1> QED BY <1>1, <1>2 DEF TsfModeCallback

\* A focus change as a whole: what is remembered of the application that is left.
LEMMA ApplyFocusIs ==
  ASSUME NEW h \in HookStates, NEW app \in Apps, version \in {1, 2}
  PROVE  /\ ApplyFocus(h, app) \in HookStates
         /\ ApplyFocus(h, app).real = app
         /\ \/ ApplyFocus(h, app).modes = h.modes
            \/ /\ h.real \in Apps /\ ~h.excluded /\ ~h.forced
               /\ Remembered(ApplyFocus(h, app).modes) <= MaxModes
               /\ \E m \in {h.modes, NoModes}, b \in BOOLEAN :
                    /\ ApplyFocus(h, app).modes = [m EXCEPT ![h.real] = ToMode(b)]
                    /\ ~cfg.cjk => b = h.vn
<1> DEFINE rule == Rules[version][app]
           was  == CheckLayoutChange(h, app)
           set  == [was EXCEPT !.active = app, !.excluded = rule = "english",
                               !.forced = rule = "vietnamese", !.tsf = rule = "tsf",
                               !.forcedPid = IF rule = "vietnamese" THEN app ELSE @]
           now  == TsfModeCallback(set)
           left == SaveModeOfLeftApp(now, was, was.vn)
           kept == [left EXCEPT !.real = app]
           out  == [kept EXCEPT !.excludedPid = app]
           done == EnterMode(kept, app)
<1>1. /\ was \in HookStates /\ was.modes = h.modes /\ was.real = h.real /\ was.vn \in BOOLEAN
      /\ was.excluded = h.excluded /\ was.forced = h.forced /\ (~cfg.cjk => was.vn = h.vn)
  BY CheckKeeps DEF Keeps, HookStates
<1>2. set \in HookStates /\ set.modes = was.modes /\ set.real = was.real
  <2> DEFINE pid == IF rule = "vietnamese" THEN app ELSE was.forcedPid
  <2>1. /\ app \in Locks /\ pid \in Locks /\ (rule = "english") \in BOOLEAN
        /\ (rule = "vietnamese") \in BOOLEAN /\ (rule = "tsf") \in BOOLEAN
    BY <1>1 DEF Locks, HookStates
  <2>2. set = [was EXCEPT !.active = app, !.excluded = rule = "english",
                          !.forced = rule = "vietnamese", !.tsf = rule = "tsf", !.forcedPid = pid]
    OBVIOUS
  <2> HIDE DEF was, rule, pid, set
  <2>3. Keeps(was, set)
    BY <1>1, <2>1, <2>2, LocksKeep
  <2> QED BY <2>3 DEF Keeps
<1>3. now \in HookStates /\ now.modes = h.modes /\ now.real = h.real
  <2> HIDE DEF set, was
  <2>1. Keeps(set, now)
    BY <1>2, CallbackKeeps
  <2> QED BY <1>1, <1>2, <2>1 DEF Keeps
<1>4. ApplyFocus(h, app) = IF now.excluded THEN IF was.excluded THEN out ELSE NotifyModeChange(out)
                           ELSE LeaveLock(done, was)
  <2>1. now.excluded = kept.excluded
    <3> HIDE DEF now, was
    <3>1. left.excluded = now.excluded
      <4>1. CASE ~cfg.smart \/ now.real = NoApp \/ was.excluded \/ was.forced
        BY <4>1 DEF SaveModeOfLeftApp
      <4>2. CASE ~(~cfg.smart \/ now.real = NoApp \/ was.excluded \/ was.forced)
        BY <1>3, <4>2 DEF SaveModeOfLeftApp, Remember, ClearIfFull, HookStates
      <4> QED BY <4>1, <4>2
    <3>2. left \in HookStates
      BY <1>1, <1>3, SaveModeIs
    <3> HIDE DEF left
    <3> QED BY <3>1, <3>2 DEF HookStates
  <2> QED BY DEF ApplyFocus
<1> HIDE DEF rule, was, set, now
<1>5. /\ left \in HookStates /\ left.real = h.real
      /\ \/ left.modes = h.modes
         \/ /\ h.real \in Apps /\ ~h.excluded /\ ~h.forced /\ Remembered(left.modes) <= MaxModes
            /\ \E m \in {h.modes, NoModes} : left.modes = [m EXCEPT ![h.real] = ToMode(was.vn)]
  BY <1>1, <1>3, SaveModeIs
<1> HIDE DEF left
<1>6. kept \in HookStates /\ kept.real = app /\ kept.modes = left.modes
  BY <1>5 DEF HookStates, Locks
<1> HIDE DEF kept
<1>7. out \in HookStates /\ out.real = app /\ out.modes = left.modes
  BY <1>6 DEF HookStates, Locks
<1>8. done \in HookStates /\ done.real = app /\ done.modes = left.modes
  BY <1>6, EnterKeeps DEF Keeps
<1> HIDE DEF out, done
<1>9. /\ ApplyFocus(h, app) \in HookStates /\ ApplyFocus(h, app).real = app
      /\ ApplyFocus(h, app).modes = left.modes
  BY <1>4, <1>7, <1>8, NotifyKeeps, LeaveKeeps DEF Keeps
<1> QED BY <1>1, <1>5, <1>9

\* No other handler moves the hook to another application.
Stays(h, g) == g \in HookStates /\ g.real = h.real

\* A toggle does not let an excluded application out.  (ApplyToggle)
LEMMA ToggleStays ==
  ASSUME NEW h \in HookStates
  PROVE  Stays(h, ApplyToggle(h))
<1> DEFINE mode == IF h.pending = "none" THEN h.flag ELSE h.pending = "v"
           h0   == [h EXCEPT !.pending = "none", !.toggleBit = FALSE]
           h1   == IF h0.forced THEN [h0 EXCEPT !.forced = FALSE] ELSE h0
           h2   == [h1 EXCEPT !.vn = mode]
           h3   == IF cfg.smart /\ h2.active # NoApp
                     THEN Remember(h2, h2.active, mode) ELSE h2
           no   == [h0 EXCEPT !.flag = FALSE]
           yes  == [h0 EXCEPT !.flag = TRUE]
           free == [h0 EXCEPT !.excluded = FALSE, !.vn = TRUE]
<1>1. Stays(h, h0) /\ h0 \in HookStates /\ mode \in BOOLEAN
  BY DEF Stays, HookStates
<1>2. ApplyToggle(h) \in {no, yes, NotifyModeChange(free), NotifyModeChange(h3)}
  BY DEF ApplyToggle
<1> HIDE DEF mode, h0
<1>3. Stays(h, no) /\ Stays(h, yes) /\ Stays(h, free) /\ free \in HookStates
  BY <1>1 DEF Stays, HookStates
<1>4. Stays(h, h1) /\ h1 \in HookStates
  <2>1. CASE h0.forced
    BY <1>1, <2>1 DEF Stays, HookStates
  <2>2. CASE ~h0.forced
    BY <1>1, <2>2
  <2> QED BY <2>1, <2>2
<1> HIDE DEF no, yes, free, h1
<1>5. Stays(h, h2) /\ h2 \in HookStates /\ h2.active \in Apps \cup {NoApp}
  BY <1>1, <1>4 DEF Stays, HookStates, Locks
<1> HIDE DEF h2
<1>6. Stays(h, h3) /\ h3 \in HookStates
  <2>1. CASE cfg.smart /\ h2.active # NoApp
    <3>1. h2.active \in Apps
      BY <1>5, <2>1
    <3>2. /\ Remember(h2, h2.active, mode) \in HookStates
          /\ Remember(h2, h2.active, mode).real = h2.real
      BY <1>1, <1>5, <3>1, RememberIs
    <3> QED BY <1>5, <2>1, <3>2 DEF Stays
  <2>2. CASE ~(cfg.smart /\ h2.active # NoApp)
    BY <1>5, <2>2
  <2> QED BY <2>1, <2>2
<1> HIDE DEF h3
<1> QED BY <1>2, <1>3, <1>6, NotifyKeeps DEF Keeps, Stays

\* Nor does a key.  (GuardExcluded)
LEMMA KeyStays ==
  ASSUME NEW h \in HookStates, NEW slow \in BOOLEAN, fg \in Apps
  PROVE  Stays(h, GuardExcluded(MarkActivity(h, slow)))
<1>1. ASSUME NEW g \in HookStates
      PROVE  Stays(g, GuardExcluded(g))
  <2> DEFINE here == [g EXCEPT !.excludedPid = fg]
             free == [g EXCEPT !.excluded = FALSE, !.excludedPid = NoApp]
  <2>1. GuardExcluded(g) \in {g, here, NotifyModeChange(free)}
    BY DEF GuardExcluded
  <2>2. Stays(g, g) /\ Stays(g, here) /\ Stays(g, free) /\ free \in HookStates
    <3>1. fg \in Locks /\ NoApp \in Locks
      BY DEF Locks
    <3> QED BY <3>1 DEF Stays, HookStates
  <2> HIDE DEF here, free
  <2> QED BY <2>1, <2>2, NotifyKeeps DEF Keeps, Stays
<1>2. Stays(h, MarkActivity(h, slow))
  <2> DEFINE seen == [h EXCEPT !.vn = h.flag]
  <2>1. MarkActivity(h, slow) \in {h, NotifyModeChange(seen)}
    BY DEF MarkActivity
  <2>2. Stays(h, h) /\ Stays(h, seen) /\ seen \in HookStates
    BY DEF Stays, HookStates
  <2> HIDE DEF seen
  <2> QED BY <2>1, <2>2, NotifyKeeps DEF Keeps, Stays
<1> QED BY <1>1, <1>2 DEF Stays

\* The types hold at the start.
LEMMA ModeStart == Init => ModeTypes
<1>1. ASSUME Init PROVE s \in HookStates
  BY <1>1, ModeNames DEF Init, HookStates, Locks
<1>2. ASSUME Init PROVE worker \in WorkerStates
  BY <1>2, ModeNames DEF Init, WorkerStates, Locks
<1> QED BY <1>1, <1>2, ModeNames DEF Init, ModeTypes

\* Each step keeps the types, and none but a focus change leaves an application.
LEMMA ModeStep ==
  ASSUME ModeTypes, [Next]_vars
  PROVE  ModeTypes' /\ (s'.real = s.real \/ FocusArrives)
<1> USE DEF ModeTypes
<1>s. \A b \in BOOLEAN : ToMode(b) \in {"v", "e"}
  BY ModeNames
<1>1. ASSUME NEW a \in Apps, SwitchTo(a) PROVE ModeTypes' /\ s'.real = s.real
  BY <1>1 DEF SwitchTo, HookStates
<1>2. ASSUME FocusArrives PROVE ModeTypes'
  <2> DEFINE h == [s EXCEPT !.focusDue = FALSE]
  <2>1. h \in HookStates
    BY DEF HookStates
  <2>2. s' = ApplyFocus(h, fg)
    BY <1>2 DEF FocusArrives
  <2> HIDE DEF h
  <2>3. s' \in HookStates
    BY <2>1, <2>2, ApplyFocusIs
  <2> QED BY <1>2, <2>3 DEF FocusArrives
<1>3. ASSUME ToggleFlag PROVE ModeTypes' /\ s'.real = s.real
  <2>1. s' = [s EXCEPT !.flag = ~s.flag]
    BY <1>3 DEF ToggleFlag
  <2>2. s' \in HookStates /\ s'.real = s.real
    BY <2>1 DEF HookStates
  <2>3. (~s.flag) \in BOOLEAN
    OBVIOUS
  <2>4. main' \in {"idle", "v", "e"}
    BY <1>3, <1>s, <2>3 DEF ToggleFlag
  <2> QED BY <1>3, <2>2, <2>4 DEF ToggleFlag
<1>4. ASSUME TogglePost PROVE ModeTypes' /\ s'.real = s.real
  BY <1>4 DEF TogglePost, HookStates
<1>5. ASSUME ToggleArrives PROVE ModeTypes' /\ s'.real = s.real
  BY <1>5, ToggleStays DEF ToggleArrives, Stays
<1>6. ASSUME DllToggles PROVE ModeTypes' /\ s'.real = s.real
  <2>1. s' \in HookStates /\ s'.real = s.real
    BY <1>6 DEF DllToggles, HookStates
  <2> QED BY <1>6, <2>1 DEF DllToggles
<1>7. ASSUME KeyDown PROVE ModeTypes' /\ s'.real = s.real
  BY <1>7, KeyStays DEF KeyDown, Stays
<1>8. ASSUME LayoutTick PROVE ModeTypes' /\ s'.real = s.real
  BY <1>8, CheckKeeps DEF LayoutTick, Keeps
<1>9. ASSUME TickReadFlag \/ TickCompare PROVE ModeTypes' /\ s'.real = s.real
  <2>1. CASE TickReadFlag
    <3>1. s.flag \in BOOLEAN
      BY DEF HookStates
    <3>2. worker' \in WorkerStates
      BY <2>1, <3>1 DEF TickReadFlag, WorkerStates
    <3> QED BY <2>1, <3>2 DEF TickReadFlag
  <2>2. CASE TickCompare
    BY <2>2 DEF TickCompare, Become, HookStates, WorkerStates
  <2> QED BY <1>9, <2>1, <2>2
<1>10. ASSUME TickNotify PROVE ModeTypes' /\ s'.real = s.real
  <2>1. SharedMode(s) \in BOOLEAN
    BY DEF SharedMode, HookStates
  <2> QED BY <1>10, <2>1 DEF TickNotify, WorkerStates
<1>11. ASSUME TickStoreFlag PROVE ModeTypes' /\ s'.real = s.real
  BY <1>11 DEF TickStoreFlag, HookStates, WorkerStates
<1>12. ASSUME FlushClear \/ FlushSnapshot PROVE ModeTypes' /\ s'.real = s.real
  <2>1. CASE FlushClear
    BY <2>1 DEF FlushClear, Become, HookStates, WorkerStates
  <2>2. CASE FlushSnapshot
    <3>1. s.modes \in [Apps -> Modes]
      BY DEF HookStates
    <3>2. worker' \in WorkerStates
      BY <2>2, <3>1 DEF FlushSnapshot, WorkerStates
    <3> QED BY <2>2, <3>2 DEF FlushSnapshot
  <2> QED BY <1>12, <2>1, <2>2
<1>13. ASSUME FlushSave PROVE ModeTypes' /\ s'.real = s.real
  <2>1. worker' \in WorkerStates /\ worker.modes \in [Apps -> Modes]
    BY <1>13, ModeNames DEF FlushSave, WorkerStates
  <2>2. s' \in HookStates /\ s'.real = s.real
    BY <1>13 DEF FlushSave, HookStates
  <2> QED BY <1>13, <2>1, <2>2 DEF FlushSave
<1>14. ASSUME ReloadSnapshot PROVE ModeTypes' /\ s'.real = s.real
  <2>1. s.active \in Locks
    BY DEF HookStates
  <2>2. worker' \in WorkerStates
    BY <1>14, <2>1 DEF ReloadSnapshot, WorkerStates
  <2> QED BY <1>14, <2>2 DEF ReloadSnapshot
<1>15. ASSUME ReloadStoreExcluded PROVE ModeTypes' /\ s'.real = s.real
  <2>1. PICK exe : LET excluded == IF exe = NoApp THEN s.excluded ELSE Says(exe, "english")
                   IN /\ s' = [s EXCEPT !.excluded = excluded]
                      /\ worker' = [worker EXCEPT !.pc = "tsf", !.excluded = excluded]
    BY <1>15 DEF ReloadStoreExcluded
  <2> DEFINE excluded == IF exe = NoApp THEN s.excluded ELSE Says(exe, "english")
  <2>2. excluded \in BOOLEAN
    BY DEF Says, HookStates
  <2>3. s' = [s EXCEPT !.excluded = excluded]
        /\ worker' = [worker EXCEPT !.pc = "tsf", !.excluded = excluded]
    BY <2>1
  <2> HIDE DEF excluded
  <2>4. s' \in HookStates /\ s'.real = s.real /\ worker' \in WorkerStates
    BY <2>2, <2>3 DEF HookStates, WorkerStates
  <2> QED BY <1>15, <2>4 DEF ReloadStoreExcluded
<1>16. ASSUME ReloadStoreTsf PROVE ModeTypes' /\ s'.real = s.real
  <2>1. PICK exe : LET tsf == ~worker.excluded /\ Says(exe, "tsf")
                   IN /\ s' = [s EXCEPT !.tsf = tsf]
                      /\ worker' = [worker EXCEPT !.pc = "callback", !.flag = tsf]
    BY <1>16 DEF ReloadStoreTsf
  <2> DEFINE tsf == ~worker.excluded /\ Says(exe, "tsf")
  <2>2. tsf \in BOOLEAN
    OBVIOUS
  <2>3. s' = [s EXCEPT !.tsf = tsf] /\ worker' = [worker EXCEPT !.pc = "callback", !.flag = tsf]
    BY <2>1
  <2> HIDE DEF tsf
  <2>4. s' \in HookStates /\ s'.real = s.real /\ worker' \in WorkerStates
    BY <2>2, <2>3 DEF HookStates, WorkerStates
  <2> QED BY <1>16, <2>4 DEF ReloadStoreTsf
<1>17. ASSUME ReloadCallback PROVE ModeTypes' /\ s'.real = s.real
  <2> DEFINE readonly == ~worker.flag /\ ~worker.excluded
  <2>1. readonly \in BOOLEAN /\ worker.flag \in BOOLEAN
    BY DEF WorkerStates
  <2>2. s' = [s EXCEPT !.tsfActive = worker.flag, !.tsfReadonly = readonly]
    BY <1>17 DEF ReloadCallback
  <2> HIDE DEF readonly
  <2>3. s' \in HookStates /\ s'.real = s.real
    BY <2>1, <2>2 DEF HookStates
  <2>4. worker' \in WorkerStates
    BY <1>17 DEF ReloadCallback, WorkerStates, Locks
  <2> QED BY <1>17, <2>3, <2>4 DEF ReloadCallback
<1>18. CASE UNCHANGED vars
  BY <1>18 DEF vars
<1> QED BY <1>1, <1>2, <1>3, <1>4, <1>5, <1>6, <1>7, <1>8, <1>9, <1>10, <1>11, <1>12, <1>13,
          <1>14, <1>15, <1>16, <1>17, <1>18 DEF Next

\* The state of the hook, the worker and the file has the types the code gives it, with
\* every number of applications and whatever toggles do to a full map (HookEngine.h:707).
THEOREM ModesKeepTypes == Spec => []TypeOK
<1>1. ModeTypes => TypeOK
  BY DEF ModeTypes, TypeOK, HookStates, WorkerStates, Locks
<1>2. ModeTypes /\ [Next]_vars => ModeTypes'
  BY ModeStep
<1> QED BY <1>1, <1>2, ModeStart, PTL DEF Spec

\* Where an application is left, its own mode is remembered, and none that a lock imposed;
\* every other application keeps its mode or loses it with the whole map, which is within
\* its cap afterwards (ApplyFocusOnHookThread): whatever the toggles, reloads, layouts and
\* the worker's saves do between the handlers.
THEOREM ModesAreTheirOwn == Spec => RememberedModesAreOwn
<1>1. ASSUME ModeTypes, [Next]_vars, LeavesApp
      PROVE  RemembersOwn /\ CapRestored
  <2>1. FocusArrives
    BY <1>1, ModeStep DEF LeavesApp
  <2> DEFINE h == [s EXCEPT !.focusDue = FALSE]
  <2>2. /\ h \in HookStates /\ h.modes = s.modes /\ h.real = s.real /\ h.excluded = s.excluded
        /\ h.forced = s.forced /\ h.vn = s.vn /\ s.modes \in [Apps -> Modes]
    BY <1>1 DEF ModeTypes, HookStates
  <2>3. s' = ApplyFocus(h, fg) /\ cfg' = cfg
    BY <2>1 DEF FocusArrives
  <2> HIDE DEF h
  <2>4. \/ s'.modes = s.modes
        \/ /\ s.real \in Apps /\ ~s.excluded /\ ~s.forced /\ Remembered(s'.modes) <= MaxModes
           /\ \E m \in {s.modes, NoModes}, b \in BOOLEAN :
                s'.modes = [m EXCEPT ![s.real] = ToMode(b)] /\ (~cfg.cjk => b = s.vn)
    <3>1. \/ s'.modes = h.modes
          \/ /\ h.real \in Apps /\ ~h.excluded /\ ~h.forced /\ Remembered(s'.modes) <= MaxModes
             /\ \E m \in {h.modes, NoModes}, b \in BOOLEAN :
                  s'.modes = [m EXCEPT ![h.real] = ToMode(b)] /\ (~cfg.cjk => b = h.vn)
      <4>1. fg \in Apps /\ version \in {1, 2}
        BY <1>1 DEF ModeTypes
      <4> DEFINE g == ApplyFocus(h, fg)
      <4>2. \/ g.modes = h.modes
            \/ /\ h.real \in Apps /\ ~h.excluded /\ ~h.forced /\ Remembered(g.modes) <= MaxModes
               /\ \E m \in {h.modes, NoModes}, b \in BOOLEAN :
                    g.modes = [m EXCEPT ![h.real] = ToMode(b)] /\ (~cfg.cjk => b = h.vn)
        BY <2>2, <4>1, ApplyFocusIs
      <4>3. s' = g
        BY <2>3
      <4> HIDE DEF g
      <4> QED BY <4>2, <4>3
    <3> QED BY <2>2, <3>1
  <2>5. CapRestored
    BY <2>4 DEF CapRestored
  <2>6. CASE s'.modes = s.modes
    BY <2>2, <2>5, <2>6 DEF RemembersOwn, Records
  <2>7. CASE s'.modes # s.modes
    <3>1. PICK m \in {s.modes, NoModes}, b \in BOOLEAN :
            s'.modes = [m EXCEPT ![s.real] = ToMode(b)] /\ (~cfg.cjk => b = s.vn)
      BY <2>4, <2>7
    <3>2. \A a \in Apps \ {s.real} : s'.modes[a] \in {s.modes[a], "absent"}
      BY <2>2, <3>1 DEF NoModes
    <3>3. m \in [Apps -> Modes] /\ s.real \in Apps
      BY <2>2, <2>4, <2>7, ModeNames
    <3>4. s'.modes[s.real] = ToMode(b)
      BY <3>1, <3>3
    <3> QED BY <2>4, <2>5, <2>7, <3>1, <3>2, <3>4 DEF RemembersOwn
  <2> QED BY <2>5, <2>6, <2>7
<1>2. ModeTypes /\ [Next]_vars => [LeavesApp => RemembersOwn /\ CapRestored]_vars
  BY <1>1
<1>3. ModeTypes /\ [Next]_vars => ModeTypes'
  BY ModeStep
<1> QED BY <1>2, <1>3, ModeStart, PTL DEF Spec, RememberedModesAreOwn
-----------------------------------------------------------------------------
(* Choices: what is left of a handler.                                      *)

UIs == {"dlg", "sub", "menu"}

\* The steps, those each process can have, and the order they come in.
Steps ==
  {"read", "sync", "choice", "save", "loadsys", "savesys", "bump", "spawn", "close", "end",
   "load", "wake", "hooktable", "table", "post", "rload", "rapply", "rsnap", "compare"}
StepsOf(p) ==
  CASE p = "dlg"  -> {"read", "sync", "choice", "save", "loadsys", "savesys", "bump", "spawn", "close", "end"}
    [] p = "sub"  -> {"load", "save", "read", "bump", "wake"}
    [] p = "menu" -> {"hooktable", "read", "table", "load", "save", "sync", "post", "loadsys", "savesys"}
    [] OTHER      -> {"rload", "rapply", "rsnap", "compare"}
Rank(p, z) ==
  CASE z = "sync" -> IF p = "dlg" THEN 1 ELSE 9
    [] z \in {"choice", "hooktable", "rload"} -> 2
    [] z \in {"table", "rapply"} -> 3
    [] z \in {"load", "rsnap"} -> 4
    [] z \in {"save", "compare"} -> 5
    [] z = "loadsys" -> 6
    [] z = "savesys" -> 7
    [] z = "bump" -> 8
    [] OTHER -> 10

\* A handler, or the rest of one; the steps it has left, reads apart.
Script(p, j) ==
  /\ j \in Seq(Steps) /\ Len(j) <= 8
  /\ \A i \in 1..Len(j) : j[i] \in StepsOf(p)
  /\ \A i, k \in 1..Len(j) :
       i < k /\ j[i] # "read" /\ j[k] # "read" => Rank(p, j[i]) < Rank(p, j[k])
LeftOf(j) == {j[i] : i \in 1..Len(j)} \ {"read"}
Left(p)   == LeftOf(job[p])
DlgLeft   == Left("dlg")
MenuLeft  == Left("menu")
SubLeft   == Left("sub")
WorkLeft  == Left("worker")

Jobs == job \in [Procs -> Seq(Steps)] /\ \A p \in Procs : Script(p, job[p])

\* A step taken is left no more, and it was the first in the order.
LEMMA StepTaken ==
  ASSUME NEW p, NEW j, Script(p, j), j # <<>>
  PROVE  /\ Script(p, Tail(j))
         /\ LeftOf(Tail(j)) = LeftOf(j) \ {Head(j)}
         /\ Head(j) # "read" => Head(j) \in LeftOf(j)
         /\ Head(j) # "read" => \A z \in LeftOf(j) \ {Head(j)} : Rank(p, Head(j)) < Rank(p, z)
         /\ LeftOf(j) \subseteq StepsOf(p)
<1> DEFINE n == Len(j)
<1> DEFINE t == Tail(j)
<1> HIDE DEF n, t
<1>1. j \in Seq(Steps) /\ n \in Nat /\ n >= 1 /\ n <= 8 /\ Head(j) = j[1]
      /\ t \in Seq(Steps) /\ Len(t) = n - 1 /\ \A i \in 1..n - 1 : t[i] = j[i + 1]
  BY DEF Script, n, t
<1>2. /\ \A i \in 1..n : j[i] \in StepsOf(p)
      /\ \A i, k \in 1..n :
           i < k /\ j[i] # "read" /\ j[k] # "read" => Rank(p, j[i]) < Rank(p, j[k])
  BY DEF Script, n
<1>3. Script(p, t)
  <2>1. \A i \in 1..Len(t) : t[i] \in StepsOf(p)
    BY <1>1, <1>2
  <2>2. ASSUME NEW i \in 1..Len(t), NEW k \in 1..Len(t), i < k, t[i] # "read", t[k] # "read"
        PROVE  Rank(p, t[i]) < Rank(p, t[k])
    <3>1. i + 1 \in 1..n /\ k + 1 \in 1..n /\ i + 1 < k + 1 /\ t[i] = j[i + 1] /\ t[k] = j[k + 1]
      BY <1>1, <2>2
    <3> QED
      BY ONLY <3>1, <1>2, <2>2
  <2>3. t \in Seq(Steps) /\ Len(t) <= 8
    BY <1>1
  <2> QED
    BY <2>1, <2>2, <2>3 DEF Script
<1>4. LeftOf(j) = {j[i] : i \in 1..n} \ {"read"} /\ LeftOf(t) = {t[i] : i \in 1..n - 1} \ {"read"}
  BY <1>1 DEF LeftOf, n
<1>5. Head(j) # "read" => Head(j) \in LeftOf(j)
  BY <1>1, <1>4
<1>6. ASSUME Head(j) # "read", NEW z \in LeftOf(j) \ {Head(j)}
      PROVE  Rank(p, Head(j)) < Rank(p, z)
  <2>1. PICK i \in 1..n : z = j[i] /\ z # "read"
    BY <1>4, <1>6
  <2>2. 1 \in 1..n /\ 1 < i
    BY <1>1, <1>6, <2>1
  <2> QED
    BY ONLY <1>1, <1>2, <1>6, <2>1, <2>2
<1>7. ASSUME NEW z \in LeftOf(t) PROVE z \in LeftOf(j) /\ z # Head(j)
  <2>1. PICK i \in 1..n - 1 : z = t[i] /\ z # "read"
    BY <1>4, <1>7
  <2>2. i + 1 \in 1..n /\ z = j[i + 1] /\ 1 \in 1..n /\ 1 < i + 1
    BY <1>1, <2>1
  <2>3. z \in LeftOf(j)
    BY <1>4, <2>1, <2>2
  <2>4. ASSUME z = j[1] PROVE FALSE
    <3>1. Rank(p, j[1]) < Rank(p, j[i + 1])
      BY ONLY <1>2, <2>1, <2>2, <2>4
    <3>2. Rank(p, z) \in Nat
      BY ONLY SMT DEF Rank
    <3> QED
      BY ONLY <2>2, <2>4, <3>1, <3>2
  <2> QED
    BY <1>1, <2>3, <2>4
<1>8. ASSUME NEW z \in LeftOf(j), z # Head(j) PROVE z \in LeftOf(t)
  <2>1. PICK i \in 1..n : z = j[i] /\ z # "read"
    BY <1>4, <1>8
  <2>2. i - 1 \in 1..n - 1 /\ t[i - 1] = j[(i - 1) + 1] /\ (i - 1) + 1 = i
    BY <1>1, <1>8, <2>1
  <2> QED
    BY <1>4, <2>1, <2>2
<1>9. LeftOf(j) \subseteq StepsOf(p)
  BY <1>2, <1>4
<1> QED
  BY <1>3, <1>5, <1>6, <1>7, <1>8, <1>9 DEF t

\* Handler j of p has n steps, of which these are not reads.
Runs(p, j, n, steps) == Script(p, j) /\ Len(j) = n /\ LeftOf(j) = steps

\* One handler after another.
LEMMA Sequel ==
  ASSUME NEW p, NEW a, NEW m, NEW A, Runs(p, a, m, A), NEW b, NEW n, NEW B, Runs(p, b, n, B),
         m + n <= 8, \A z \in A, t \in B : Rank(p, z) < Rank(p, t)
  PROVE  Runs(p, a \o b, m + n, A \cup B)
<1> DEFINE j == a \o b
<1>1. /\ a \in Seq(Steps) /\ b \in Seq(Steps) /\ Len(a) = m /\ Len(b) = n /\ m \in Nat /\ n \in Nat
      /\ LeftOf(a) = A /\ LeftOf(b) = B
  BY DEF Runs, Script
<1>2. /\ \A i \in 1..m : a[i] \in StepsOf(p)
      /\ \A i \in 1..n : b[i] \in StepsOf(p)
      /\ \A i, k \in 1..m :
           i < k /\ a[i] # "read" /\ a[k] # "read" => Rank(p, a[i]) < Rank(p, a[k])
      /\ \A i, k \in 1..n :
           i < k /\ b[i] # "read" /\ b[k] # "read" => Rank(p, b[i]) < Rank(p, b[k])
  BY DEF Runs, Script
<1>3. /\ A = {a[i] : i \in 1..m} \ {"read"} /\ B = {b[i] : i \in 1..n} \ {"read"}
      /\ LeftOf(j) = {j[i] : i \in 1..Len(j)} \ {"read"}
  BY <1>1 DEF LeftOf
<1>4. /\ j \in Seq(Steps) /\ Len(j) = m + n
      /\ \A i \in 1..m + n : j[i] = IF i <= m THEN a[i] ELSE b[i - m]
  BY <1>1, ConcatProperties
<1> HIDE DEF j
<1>5. \A i \in 1..m + n : j[i] \in StepsOf(p)
  BY <1>1, <1>2, <1>4
<1>6. ASSUME NEW i \in 1..m + n, NEW k \in 1..m + n, i < k, j[i] # "read", j[k] # "read"
      PROVE  Rank(p, j[i]) < Rank(p, j[k])
  <2>1. CASE k <= m
    <3>1. i \in 1..m /\ k \in 1..m /\ j[i] = a[i] /\ j[k] = a[k]
      BY <1>1, <1>4, <1>6, <2>1
    <3> QED
      BY ONLY <1>2, <1>6, <3>1
  <2>2. CASE i > m
    <3>1. i - m \in 1..n /\ k - m \in 1..n /\ i - m < k - m /\ j[i] = b[i - m] /\ j[k] = b[k - m]
      BY <1>1, <1>4, <1>6, <2>2
    <3> QED
      BY ONLY <1>2, <1>6, <3>1
  <2>3. CASE i <= m /\ k > m
    <3>1. i \in 1..m /\ k - m \in 1..n /\ j[i] = a[i] /\ j[k] = b[k - m]
      BY <1>1, <1>4, <1>6, <2>3
    <3>2. j[i] \in A /\ j[k] \in B
      BY ONLY <1>3, <1>6, <3>1
    <3> QED
      BY <3>2
  <2> QED
    BY <1>1, <1>6, <2>1, <2>2, <2>3
<1>7. ASSUME NEW z \in LeftOf(j) PROVE z \in A \cup B
  <2>1. PICK i \in 1..m + n : z = j[i] /\ z # "read"
    BY <1>3, <1>4, <1>7
  <2>2. (i \in 1..m /\ z = a[i]) \/ (i - m \in 1..n /\ z = b[i - m])
    BY <1>1, <1>4, <2>1
  <2> QED
    BY ONLY <1>3, <2>1, <2>2
<1>8. ASSUME NEW z \in A PROVE z \in LeftOf(j)
  <2>1. PICK i \in 1..m : z = a[i] /\ z # "read"
    BY <1>3, <1>8
  <2>2. i \in 1..m + n /\ z = j[i]
    BY <1>1, <1>4, <2>1
  <2> QED
    BY ONLY <1>3, <1>4, <2>1, <2>2
<1>9. ASSUME NEW z \in B PROVE z \in LeftOf(j)
  <2>1. PICK i \in 1..n : z = b[i] /\ z # "read"
    BY <1>3, <1>9
  <2>2. i + m \in 1..m + n /\ (i + m) - m = i /\ ~(i + m <= m)
    BY <1>1
  <2>3. z = j[i + m]
    BY <1>4, <2>1, <2>2
  <2> QED
    BY ONLY <1>3, <1>4, <2>1, <2>2, <2>3
<1>10. Script(p, j)
  BY <1>1, <1>4, <1>5, <1>6 DEF Script
<1> QED
  BY <1>4, <1>7, <1>8, <1>9, <1>10 DEF Runs, j

\* What the handlers of the Settings dialog run (SettingsDialog, ClassicSettingsDialog).
LEMMA DialogScripts ==
  /\ Runs("dlg", SyncToSharedState, 2, {"sync"})
  /\ Runs("dlg", SaveSystemSettings, 2, {"loadsys", "savesys"})
  /\ Runs("dlg", ClassicSaveToToml, 4, {"save", "savesys", "bump"})
  /\ Runs("dlg", SettingsSaveToToml, 3, {"save", "bump"})
  /\ Runs("dlg", <<"choice">>, 1, {"choice"})
  /\ Runs("dlg", <<"end">>, 1, {"end"})
  /\ Runs("dlg", <<"spawn">>, 1, {"spawn"})
  /\ Runs("dlg", <<"close">>, 1, {"close"})
  /\ Runs("dlg", SyncToSharedState \o ClassicSaveToToml, 6, {"sync", "save", "savesys", "bump"})
  /\ Runs("dlg", SyncToSharedState \o SettingsSaveToToml, 5, {"sync", "save", "bump"})
  /\ Runs("dlg", (SyncToSharedState \o ClassicSaveToToml) \o <<"end">>, 7, {"sync", "save", "savesys", "bump", "end"})
  /\ Runs("dlg", (SyncToSharedState \o SettingsSaveToToml) \o <<"end">>, 6, {"sync", "save", "bump", "end"})
  /\ Runs("dlg", SyncToSharedState \o <<"choice">>, 3, {"sync", "choice"})
  /\ Runs("dlg", (SyncToSharedState \o <<"choice">>) \o ClassicSaveToToml, 7, {"sync", "choice", "save", "savesys", "bump"})
  /\ Runs("dlg", SettingsSaveToToml \o <<"spawn">>, 4, {"save", "bump", "spawn"})
  /\ Runs("dlg", <<>> \o <<"spawn">>, 1, {"spawn"})
  /\ Runs("dlg", ClassicSaveToToml \o <<"close">>, 5, {"save", "savesys", "bump", "close"})
  /\ Runs("dlg", SettingsSaveToToml \o <<"close">>, 4, {"save", "bump", "close"})
  /\ Runs("dlg", <<>> \o <<"close">>, 1, {"close"})
<1>1. /\ Rank("dlg", "sync") = 1
      /\ Rank("dlg", "choice") = 2
      /\ Rank("dlg", "save") = 5
      /\ Rank("dlg", "loadsys") = 6
      /\ Rank("dlg", "savesys") = 7
      /\ Rank("dlg", "bump") = 8
      /\ Rank("dlg", "spawn") = 10
      /\ Rank("dlg", "end") = 10
      /\ Rank("dlg", "close") = 10
  BY SMT DEF Rank
<1>2. Runs("dlg", <<>>, 0, {})
  <2>1. <<>> \in Seq(Steps) /\ Len(<<>>) = 0
    OBVIOUS
  <2> QED
    BY <2>1 DEF Runs, Script, LeftOf
<1>3. Runs("dlg", SyncToSharedState, 2, {"sync"})
  <2> DEFINE j == <<"read", "sync">>
  <2>1. j \in Seq(Steps)
    BY DEF Steps
  <2>2. Len(j) = 2 /\ j[1] = "read" /\ j[2] = "sync"
    OBVIOUS
  <2> HIDE DEF j
  <2>3. \A i \in 1..Len(j) : j[i] \in StepsOf("dlg")
    BY <2>2, SMT DEF StepsOf
  <2>4. \A i, k \in 1..Len(j) :
          i < k /\ j[i] # "read" /\ j[k] # "read" => Rank("dlg", j[i]) < Rank("dlg", j[k])
    BY ONLY <1>1, <2>2
  <2>5. {j[i] : i \in 1..Len(j)} = {"read", "sync"}
    BY ONLY <2>2
  <2> QED
    BY <2>1, <2>2, <2>3, <2>4, <2>5 DEF Runs, Script, LeftOf, j, SyncToSharedState
<1>4. Runs("dlg", SaveSystemSettings, 2, {"loadsys", "savesys"})
  <2> DEFINE j == <<"loadsys", "savesys">>
  <2>1. j \in Seq(Steps)
    BY DEF Steps
  <2>2. Len(j) = 2 /\ j[1] = "loadsys" /\ j[2] = "savesys"
    OBVIOUS
  <2> HIDE DEF j
  <2>3. \A i \in 1..Len(j) : j[i] \in StepsOf("dlg")
    BY <2>2, SMT DEF StepsOf
  <2>4. \A i, k \in 1..Len(j) :
          i < k /\ j[i] # "read" /\ j[k] # "read" => Rank("dlg", j[i]) < Rank("dlg", j[k])
    BY ONLY <1>1, <2>2
  <2>5. {j[i] : i \in 1..Len(j)} = {"loadsys", "savesys"}
    BY ONLY <2>2
  <2> QED
    BY <2>1, <2>2, <2>3, <2>4, <2>5 DEF Runs, Script, LeftOf, j, SaveSystemSettings
<1>5. Runs("dlg", ClassicSaveToToml, 4, {"save", "savesys", "bump"})
  <2> DEFINE j == <<"save", "savesys", "read", "bump">>
  <2>1. j \in Seq(Steps)
    BY DEF Steps
  <2>2. Len(j) = 4 /\ j[1] = "save" /\ j[2] = "savesys" /\ j[3] = "read" /\ j[4] = "bump"
    OBVIOUS
  <2> HIDE DEF j
  <2>3. \A i \in 1..Len(j) : j[i] \in StepsOf("dlg")
    BY <2>2, SMT DEF StepsOf
  <2>4. \A i, k \in 1..Len(j) :
          i < k /\ j[i] # "read" /\ j[k] # "read" => Rank("dlg", j[i]) < Rank("dlg", j[k])
    BY ONLY <1>1, <2>2
  <2>5. {j[i] : i \in 1..Len(j)} = {"save", "savesys", "read", "bump"}
    BY ONLY <2>2
  <2> QED
    BY <2>1, <2>2, <2>3, <2>4, <2>5 DEF Runs, Script, LeftOf, j, ClassicSaveToToml
<1>6. Runs("dlg", SettingsSaveToToml, 3, {"save", "bump"})
  <2> DEFINE j == <<"save", "read", "bump">>
  <2>1. j \in Seq(Steps)
    BY DEF Steps
  <2>2. Len(j) = 3 /\ j[1] = "save" /\ j[2] = "read" /\ j[3] = "bump"
    OBVIOUS
  <2> HIDE DEF j
  <2>3. \A i \in 1..Len(j) : j[i] \in StepsOf("dlg")
    BY <2>2, SMT DEF StepsOf
  <2>4. \A i, k \in 1..Len(j) :
          i < k /\ j[i] # "read" /\ j[k] # "read" => Rank("dlg", j[i]) < Rank("dlg", j[k])
    BY ONLY <1>1, <2>2
  <2>5. {j[i] : i \in 1..Len(j)} = {"save", "read", "bump"}
    BY ONLY <2>2
  <2> QED
    BY <2>1, <2>2, <2>3, <2>4, <2>5 DEF Runs, Script, LeftOf, j, SettingsSaveToToml
<1>7. Runs("dlg", <<"choice">>, 1, {"choice"})
  <2> DEFINE j == <<"choice">>
  <2>1. j \in Seq(Steps)
    BY DEF Steps
  <2>2. Len(j) = 1 /\ j[1] = "choice"
    OBVIOUS
  <2> HIDE DEF j
  <2>3. \A i \in 1..Len(j) : j[i] \in StepsOf("dlg")
    BY <2>2, SMT DEF StepsOf
  <2>4. \A i, k \in 1..Len(j) :
          i < k /\ j[i] # "read" /\ j[k] # "read" => Rank("dlg", j[i]) < Rank("dlg", j[k])
    BY ONLY <1>1, <2>2
  <2>5. {j[i] : i \in 1..Len(j)} = {"choice"}
    BY ONLY <2>2
  <2> QED
    BY <2>1, <2>2, <2>3, <2>4, <2>5 DEF Runs, Script, LeftOf, j
<1>8. Runs("dlg", <<"end">>, 1, {"end"})
  <2> DEFINE j == <<"end">>
  <2>1. j \in Seq(Steps)
    BY DEF Steps
  <2>2. Len(j) = 1 /\ j[1] = "end"
    OBVIOUS
  <2> HIDE DEF j
  <2>3. \A i \in 1..Len(j) : j[i] \in StepsOf("dlg")
    BY <2>2, SMT DEF StepsOf
  <2>4. \A i, k \in 1..Len(j) :
          i < k /\ j[i] # "read" /\ j[k] # "read" => Rank("dlg", j[i]) < Rank("dlg", j[k])
    BY ONLY <1>1, <2>2
  <2>5. {j[i] : i \in 1..Len(j)} = {"end"}
    BY ONLY <2>2
  <2> QED
    BY <2>1, <2>2, <2>3, <2>4, <2>5 DEF Runs, Script, LeftOf, j
<1>9. Runs("dlg", <<"spawn">>, 1, {"spawn"})
  <2> DEFINE j == <<"spawn">>
  <2>1. j \in Seq(Steps)
    BY DEF Steps
  <2>2. Len(j) = 1 /\ j[1] = "spawn"
    OBVIOUS
  <2> HIDE DEF j
  <2>3. \A i \in 1..Len(j) : j[i] \in StepsOf("dlg")
    BY <2>2, SMT DEF StepsOf
  <2>4. \A i, k \in 1..Len(j) :
          i < k /\ j[i] # "read" /\ j[k] # "read" => Rank("dlg", j[i]) < Rank("dlg", j[k])
    BY ONLY <1>1, <2>2
  <2>5. {j[i] : i \in 1..Len(j)} = {"spawn"}
    BY ONLY <2>2
  <2> QED
    BY <2>1, <2>2, <2>3, <2>4, <2>5 DEF Runs, Script, LeftOf, j
<1>10. Runs("dlg", <<"close">>, 1, {"close"})
  <2> DEFINE j == <<"close">>
  <2>1. j \in Seq(Steps)
    BY DEF Steps
  <2>2. Len(j) = 1 /\ j[1] = "close"
    OBVIOUS
  <2> HIDE DEF j
  <2>3. \A i \in 1..Len(j) : j[i] \in StepsOf("dlg")
    BY <2>2, SMT DEF StepsOf
  <2>4. \A i, k \in 1..Len(j) :
          i < k /\ j[i] # "read" /\ j[k] # "read" => Rank("dlg", j[i]) < Rank("dlg", j[k])
    BY ONLY <1>1, <2>2
  <2>5. {j[i] : i \in 1..Len(j)} = {"close"}
    BY ONLY <2>2
  <2> QED
    BY <2>1, <2>2, <2>3, <2>4, <2>5 DEF Runs, Script, LeftOf, j
<1>11. Runs("dlg", SyncToSharedState \o ClassicSaveToToml, 6, {"sync", "save", "savesys", "bump"})
  <2>1. 2 + 4 = 6 /\ 6 <= 8 /\ {"sync"} \cup {"save", "savesys", "bump"} = {"sync", "save", "savesys", "bump"}
    OBVIOUS
  <2>2. \A z \in {"sync"}, t \in {"save", "savesys", "bump"} : Rank("dlg", z) < Rank("dlg", t)
    BY ONLY <1>1
  <2>3. Runs("dlg", SyncToSharedState \o ClassicSaveToToml, 2 + 4, {"sync"} \cup {"save", "savesys", "bump"})
    BY ONLY <1>3, <1>5, <2>1, <2>2, Sequel
  <2> QED
    BY ONLY <2>1, <2>3
<1>12. Runs("dlg", SyncToSharedState \o SettingsSaveToToml, 5, {"sync", "save", "bump"})
  <2>1. 2 + 3 = 5 /\ 5 <= 8 /\ {"sync"} \cup {"save", "bump"} = {"sync", "save", "bump"}
    OBVIOUS
  <2>2. \A z \in {"sync"}, t \in {"save", "bump"} : Rank("dlg", z) < Rank("dlg", t)
    BY ONLY <1>1
  <2>3. Runs("dlg", SyncToSharedState \o SettingsSaveToToml, 2 + 3, {"sync"} \cup {"save", "bump"})
    BY ONLY <1>3, <1>6, <2>1, <2>2, Sequel
  <2> QED
    BY ONLY <2>1, <2>3
<1>13. Runs("dlg", (SyncToSharedState \o ClassicSaveToToml) \o <<"end">>, 7, {"sync", "save", "savesys", "bump", "end"})
  <2>1. 6 + 1 = 7 /\ 7 <= 8 /\ {"sync", "save", "savesys", "bump"} \cup {"end"} = {"sync", "save", "savesys", "bump", "end"}
    OBVIOUS
  <2>2. \A z \in {"sync", "save", "savesys", "bump"}, t \in {"end"} : Rank("dlg", z) < Rank("dlg", t)
    BY ONLY <1>1
  <2>3. Runs("dlg", (SyncToSharedState \o ClassicSaveToToml) \o <<"end">>, 6 + 1, {"sync", "save", "savesys", "bump"} \cup {"end"})
    BY ONLY <1>11, <1>8, <2>1, <2>2, Sequel
  <2> QED
    BY ONLY <2>1, <2>3
<1>14. Runs("dlg", (SyncToSharedState \o SettingsSaveToToml) \o <<"end">>, 6, {"sync", "save", "bump", "end"})
  <2>1. 5 + 1 = 6 /\ 6 <= 8 /\ {"sync", "save", "bump"} \cup {"end"} = {"sync", "save", "bump", "end"}
    OBVIOUS
  <2>2. \A z \in {"sync", "save", "bump"}, t \in {"end"} : Rank("dlg", z) < Rank("dlg", t)
    BY ONLY <1>1
  <2>3. Runs("dlg", (SyncToSharedState \o SettingsSaveToToml) \o <<"end">>, 5 + 1, {"sync", "save", "bump"} \cup {"end"})
    BY ONLY <1>12, <1>8, <2>1, <2>2, Sequel
  <2> QED
    BY ONLY <2>1, <2>3
<1>15. Runs("dlg", SyncToSharedState \o <<"choice">>, 3, {"sync", "choice"})
  <2>1. 2 + 1 = 3 /\ 3 <= 8 /\ {"sync"} \cup {"choice"} = {"sync", "choice"}
    OBVIOUS
  <2>2. \A z \in {"sync"}, t \in {"choice"} : Rank("dlg", z) < Rank("dlg", t)
    BY ONLY <1>1
  <2>3. Runs("dlg", SyncToSharedState \o <<"choice">>, 2 + 1, {"sync"} \cup {"choice"})
    BY ONLY <1>3, <1>7, <2>1, <2>2, Sequel
  <2> QED
    BY ONLY <2>1, <2>3
<1>16. Runs("dlg", (SyncToSharedState \o <<"choice">>) \o ClassicSaveToToml, 7, {"sync", "choice", "save", "savesys", "bump"})
  <2>1. 3 + 4 = 7 /\ 7 <= 8 /\ {"sync", "choice"} \cup {"save", "savesys", "bump"} = {"sync", "choice", "save", "savesys", "bump"}
    OBVIOUS
  <2>2. \A z \in {"sync", "choice"}, t \in {"save", "savesys", "bump"} : Rank("dlg", z) < Rank("dlg", t)
    BY ONLY <1>1
  <2>3. Runs("dlg", (SyncToSharedState \o <<"choice">>) \o ClassicSaveToToml, 3 + 4, {"sync", "choice"} \cup {"save", "savesys", "bump"})
    BY ONLY <1>15, <1>5, <2>1, <2>2, Sequel
  <2> QED
    BY ONLY <2>1, <2>3
<1>17. Runs("dlg", SettingsSaveToToml \o <<"spawn">>, 4, {"save", "bump", "spawn"})
  <2>1. 3 + 1 = 4 /\ 4 <= 8 /\ {"save", "bump"} \cup {"spawn"} = {"save", "bump", "spawn"}
    OBVIOUS
  <2>2. \A z \in {"save", "bump"}, t \in {"spawn"} : Rank("dlg", z) < Rank("dlg", t)
    BY ONLY <1>1
  <2>3. Runs("dlg", SettingsSaveToToml \o <<"spawn">>, 3 + 1, {"save", "bump"} \cup {"spawn"})
    BY ONLY <1>6, <1>9, <2>1, <2>2, Sequel
  <2> QED
    BY ONLY <2>1, <2>3
<1>18. Runs("dlg", <<>> \o <<"spawn">>, 1, {"spawn"})
  <2>1. 0 + 1 = 1 /\ 1 <= 8 /\ {} \cup {"spawn"} = {"spawn"}
    OBVIOUS
  <2>2. \A z \in {}, t \in {"spawn"} : Rank("dlg", z) < Rank("dlg", t)
    BY ONLY <1>1
  <2>3. Runs("dlg", <<>> \o <<"spawn">>, 0 + 1, {} \cup {"spawn"})
    BY ONLY <1>2, <1>9, <2>1, <2>2, Sequel
  <2> QED
    BY ONLY <2>1, <2>3
<1>19. Runs("dlg", ClassicSaveToToml \o <<"close">>, 5, {"save", "savesys", "bump", "close"})
  <2>1. 4 + 1 = 5 /\ 5 <= 8 /\ {"save", "savesys", "bump"} \cup {"close"} = {"save", "savesys", "bump", "close"}
    OBVIOUS
  <2>2. \A z \in {"save", "savesys", "bump"}, t \in {"close"} : Rank("dlg", z) < Rank("dlg", t)
    BY ONLY <1>1
  <2>3. Runs("dlg", ClassicSaveToToml \o <<"close">>, 4 + 1, {"save", "savesys", "bump"} \cup {"close"})
    BY ONLY <1>5, <1>10, <2>1, <2>2, Sequel
  <2> QED
    BY ONLY <2>1, <2>3
<1>20. Runs("dlg", SettingsSaveToToml \o <<"close">>, 4, {"save", "bump", "close"})
  <2>1. 3 + 1 = 4 /\ 4 <= 8 /\ {"save", "bump"} \cup {"close"} = {"save", "bump", "close"}
    OBVIOUS
  <2>2. \A z \in {"save", "bump"}, t \in {"close"} : Rank("dlg", z) < Rank("dlg", t)
    BY ONLY <1>1
  <2>3. Runs("dlg", SettingsSaveToToml \o <<"close">>, 3 + 1, {"save", "bump"} \cup {"close"})
    BY ONLY <1>6, <1>10, <2>1, <2>2, Sequel
  <2> QED
    BY ONLY <2>1, <2>3
<1>21. Runs("dlg", <<>> \o <<"close">>, 1, {"close"})
  <2>1. 0 + 1 = 1 /\ 1 <= 8 /\ {} \cup {"close"} = {"close"}
    OBVIOUS
  <2>2. \A z \in {}, t \in {"close"} : Rank("dlg", z) < Rank("dlg", t)
    BY ONLY <1>1
  <2>3. Runs("dlg", <<>> \o <<"close">>, 0 + 1, {} \cup {"close"})
    BY ONLY <1>2, <1>10, <2>1, <2>2, Sequel
  <2> QED
    BY ONLY <2>1, <2>3
<1> QED
  BY <1>3, <1>4, <1>5, <1>6, <1>7, <1>8, <1>9, <1>10, <1>11, <1>12, <1>13, <1>14, <1>15, <1>16, <1>17, <1>18, <1>19, <1>20, <1>21

\* What an edit in another dialog runs.
LEMMA SubScripts ==
  /\ Runs("sub", <<"load", "save">>, 2, {"load", "save"})
  /\ Runs("sub", SignalConfigChange, 3, {"bump", "wake"})
  /\ Runs("sub", <<"load", "save">> \o SignalConfigChange, 5, {"load", "save", "bump", "wake"})
<1>1. /\ Rank("sub", "load") = 4
      /\ Rank("sub", "save") = 5
      /\ Rank("sub", "bump") = 8
      /\ Rank("sub", "wake") = 10
  BY SMT DEF Rank
<1>2. Runs("sub", <<"load", "save">>, 2, {"load", "save"})
  <2> DEFINE j == <<"load", "save">>
  <2>1. j \in Seq(Steps)
    BY DEF Steps
  <2>2. Len(j) = 2 /\ j[1] = "load" /\ j[2] = "save"
    OBVIOUS
  <2> HIDE DEF j
  <2>3. \A i \in 1..Len(j) : j[i] \in StepsOf("sub")
    BY <2>2, SMT DEF StepsOf
  <2>4. \A i, k \in 1..Len(j) :
          i < k /\ j[i] # "read" /\ j[k] # "read" => Rank("sub", j[i]) < Rank("sub", j[k])
    BY ONLY <1>1, <2>2
  <2>5. {j[i] : i \in 1..Len(j)} = {"load", "save"}
    BY ONLY <2>2
  <2> QED
    BY <2>1, <2>2, <2>3, <2>4, <2>5 DEF Runs, Script, LeftOf, j
<1>3. Runs("sub", SignalConfigChange, 3, {"bump", "wake"})
  <2> DEFINE j == <<"read", "bump", "wake">>
  <2>1. j \in Seq(Steps)
    BY DEF Steps
  <2>2. Len(j) = 3 /\ j[1] = "read" /\ j[2] = "bump" /\ j[3] = "wake"
    OBVIOUS
  <2> HIDE DEF j
  <2>3. \A i \in 1..Len(j) : j[i] \in StepsOf("sub")
    BY <2>2, SMT DEF StepsOf
  <2>4. \A i, k \in 1..Len(j) :
          i < k /\ j[i] # "read" /\ j[k] # "read" => Rank("sub", j[i]) < Rank("sub", j[k])
    BY ONLY <1>1, <2>2
  <2>5. {j[i] : i \in 1..Len(j)} = {"read", "bump", "wake"}
    BY ONLY <2>2
  <2> QED
    BY <2>1, <2>2, <2>3, <2>4, <2>5 DEF Runs, Script, LeftOf, j, SignalConfigChange
<1>4. Runs("sub", <<"load", "save">> \o SignalConfigChange, 5, {"load", "save", "bump", "wake"})
  <2>1. 2 + 3 = 5 /\ 5 <= 8 /\ {"load", "save"} \cup {"bump", "wake"} = {"load", "save", "bump", "wake"}
    OBVIOUS
  <2>2. \A z \in {"load", "save"}, t \in {"bump", "wake"} : Rank("sub", z) < Rank("sub", t)
    BY ONLY <1>1
  <2>3. Runs("sub", <<"load", "save">> \o SignalConfigChange, 2 + 3, {"load", "save"} \cup {"bump", "wake"})
    BY ONLY <1>2, <1>3, <2>1, <2>2, Sequel
  <2> QED
    BY ONLY <2>1, <2>3
<1> QED
  BY <1>2, <1>3, <1>4

\* What the commands of the tray menu run.
LEMMA MenuScripts ==
  /\ Runs("menu", ApplyConfigChange, 5, {"load", "save", "sync", "post"})
  /\ Runs("menu", ApplyCodeTable, 6, {"hooktable", "table", "load", "save", "post"})
  /\ Runs("menu", ToggleSystem, 2, {"loadsys", "savesys"})
<1>1. /\ Rank("menu", "hooktable") = 2
      /\ Rank("menu", "table") = 3
      /\ Rank("menu", "load") = 4
      /\ Rank("menu", "save") = 5
      /\ Rank("menu", "loadsys") = 6
      /\ Rank("menu", "savesys") = 7
      /\ Rank("menu", "sync") = 9
      /\ Rank("menu", "post") = 10
  BY SMT DEF Rank
<1>2. Runs("menu", ApplyConfigChange, 5, {"load", "save", "sync", "post"})
  <2> DEFINE j == <<"load", "save", "read", "sync", "post">>
  <2>1. j \in Seq(Steps)
    BY DEF Steps
  <2>2. Len(j) = 5 /\ j[1] = "load" /\ j[2] = "save" /\ j[3] = "read" /\ j[4] = "sync" /\ j[5] = "post"
    OBVIOUS
  <2> HIDE DEF j
  <2>3. \A i \in 1..Len(j) : j[i] \in StepsOf("menu")
    BY <2>2, SMT DEF StepsOf
  <2>4. \A i, k \in 1..Len(j) :
          i < k /\ j[i] # "read" /\ j[k] # "read" => Rank("menu", j[i]) < Rank("menu", j[k])
    BY ONLY <1>1, <2>2
  <2>5. {j[i] : i \in 1..Len(j)} = {"load", "save", "read", "sync", "post"}
    BY ONLY <2>2
  <2> QED
    BY <2>1, <2>2, <2>3, <2>4, <2>5 DEF Runs, Script, LeftOf, j, ApplyConfigChange
<1>3. Runs("menu", ApplyCodeTable, 6, {"hooktable", "table", "load", "save", "post"})
  <2> DEFINE j == <<"hooktable", "read", "table", "load", "save", "post">>
  <2>1. j \in Seq(Steps)
    BY DEF Steps
  <2>2. Len(j) = 6 /\ j[1] = "hooktable" /\ j[2] = "read" /\ j[3] = "table" /\ j[4] = "load" /\ j[5] = "save" /\ j[6] = "post"
    OBVIOUS
  <2> HIDE DEF j
  <2>3. \A i \in 1..Len(j) : j[i] \in StepsOf("menu")
    BY <2>2, SMT DEF StepsOf
  <2>4. \A i, k \in 1..Len(j) :
          i < k /\ j[i] # "read" /\ j[k] # "read" => Rank("menu", j[i]) < Rank("menu", j[k])
    BY ONLY <1>1, <2>2
  <2>5. {j[i] : i \in 1..Len(j)} = {"hooktable", "read", "table", "load", "save", "post"}
    BY ONLY <2>2
  <2> QED
    BY <2>1, <2>2, <2>3, <2>4, <2>5 DEF Runs, Script, LeftOf, j, ApplyCodeTable
<1>4. Runs("menu", ToggleSystem, 2, {"loadsys", "savesys"})
  <2> DEFINE j == <<"loadsys", "savesys">>
  <2>1. j \in Seq(Steps)
    BY DEF Steps
  <2>2. Len(j) = 2 /\ j[1] = "loadsys" /\ j[2] = "savesys"
    OBVIOUS
  <2> HIDE DEF j
  <2>3. \A i \in 1..Len(j) : j[i] \in StepsOf("menu")
    BY <2>2, SMT DEF StepsOf
  <2>4. \A i, k \in 1..Len(j) :
          i < k /\ j[i] # "read" /\ j[k] # "read" => Rank("menu", j[i]) < Rank("menu", j[k])
    BY ONLY <1>1, <2>2
  <2>5. {j[i] : i \in 1..Len(j)} = {"loadsys", "savesys"}
    BY ONLY <2>2
  <2> QED
    BY <2>1, <2>2, <2>3, <2>4, <2>5 DEF Runs, Script, LeftOf, j, ToggleSystem
<1> QED
  BY <1>2, <1>3, <1>4

\* What QuickSync runs on the worker.
LEMMA WorkerScripts ==
  /\ Runs("worker", <<"rload", "rapply", "rsnap", "compare">>, 4, {"rload", "rapply", "rsnap", "compare"})
  /\ Runs("worker", <<"compare">>, 1, {"compare"})
<1>1. /\ Rank("worker", "rload") = 2
      /\ Rank("worker", "rapply") = 3
      /\ Rank("worker", "rsnap") = 4
      /\ Rank("worker", "compare") = 5
  BY SMT DEF Rank
<1>2. Runs("worker", <<"rload", "rapply", "rsnap", "compare">>, 4, {"rload", "rapply", "rsnap", "compare"})
  <2> DEFINE j == <<"rload", "rapply", "rsnap", "compare">>
  <2>1. j \in Seq(Steps)
    BY DEF Steps
  <2>2. Len(j) = 4 /\ j[1] = "rload" /\ j[2] = "rapply" /\ j[3] = "rsnap" /\ j[4] = "compare"
    OBVIOUS
  <2> HIDE DEF j
  <2>3. \A i \in 1..Len(j) : j[i] \in StepsOf("worker")
    BY <2>2, SMT DEF StepsOf
  <2>4. \A i, k \in 1..Len(j) :
          i < k /\ j[i] # "read" /\ j[k] # "read" => Rank("worker", j[i]) < Rank("worker", j[k])
    BY ONLY <1>1, <2>2
  <2>5. {j[i] : i \in 1..Len(j)} = {"rload", "rapply", "rsnap", "compare"}
    BY ONLY <2>2
  <2> QED
    BY <2>1, <2>2, <2>3, <2>4, <2>5 DEF Runs, Script, LeftOf, j
<1>3. Runs("worker", <<"compare">>, 1, {"compare"})
  <2> DEFINE j == <<"compare">>
  <2>1. j \in Seq(Steps)
    BY DEF Steps
  <2>2. Len(j) = 1 /\ j[1] = "compare"
    OBVIOUS
  <2> HIDE DEF j
  <2>3. \A i \in 1..Len(j) : j[i] \in StepsOf("worker")
    BY <2>2, SMT DEF StepsOf
  <2>4. \A i, k \in 1..Len(j) :
          i < k /\ j[i] # "read" /\ j[k] # "read" => Rank("worker", j[i]) < Rank("worker", j[k])
    BY ONLY <1>1, <2>2
  <2>5. {j[i] : i \in 1..Len(j)} = {"compare"}
    BY ONLY <2>2
  <2> QED
    BY <2>1, <2>2, <2>3, <2>4, <2>5 DEF Runs, Script, LeftOf, j
<1> QED
  BY <1>2, <1>3

-----------------------------------------------------------------------------
(* Choices: the invariant.                                                  *)

\* A configuration as the file holds it, its typing and its system options.
TypOptions == {"opt", "table", "own"}
SysOptions == {"sys", "ext"}
Options == TypOptions \cup SysOptions
Files == [Options -> 0..1]
Typs  == [TypOptions -> 0..1]
Syss  == [SysOptions -> 0..1]
Shs   == [opt : 0..1, table : 0..1, gen : 0..Gens - 1]
Hooks == [opt : 0..1, table : 0..1, own : 0..1, snap : 0..1, gen : 0..Gens - 1,
          lopt : 0..1, ltable : 0..1]
Mems  == [cfg : Typs, base : Typs, sysc : Syss, sbase : Syss, snap : Shs, pick : Options \X (0..1)]
Races == {"stale", "lost", "lapped", "busy", "table", "undone", "refused", "killed"}

ConfigStates ==
  /\ file \in Files /\ wanted \in Files /\ sh \in Shs
  /\ mem \in [Procs -> Mems] /\ hook \in Hooks
  /\ dlg \in [open : BOOLEAN, dirty : BOOLEAN, inbox : BOOLEAN]
  /\ posted \in BOOLEAN /\ engine \in [opt : 0..1, own : 0..1]
  /\ races \in SUBSET Races

\* The tray menu has still to save a code table, and nothing counts the save.
Uncounted == "save" \in MenuLeft /\ "sync" \notin MenuLeft

\* What the steps left of a handler say of each other and of the dialog.
Shapes ==
  /\ "sync" \in DlgLeft => dlg.dirty \/ "save" \in DlgLeft
  /\ "choice" \in DlgLeft => "save" \in DlgLeft
  /\ "save" \in DlgLeft => "bump" \in DlgLeft /\ ~dlg.dirty
  /\ "close" \in DlgLeft \/ "end" \in DlgLeft => ~dlg.dirty
  /\ dlg.dirty \/ DlgLeft # {} => dlg.open
  /\ Classic => "loadsys" \notin DlgLeft
  /\ "loadsys" \in DlgLeft => "savesys" \in DlgLeft
  /\ Classic => ("save" \in DlgLeft => "savesys" \in DlgLeft)
  /\ "load" \in SubLeft => "save" \in SubLeft
  /\ "save" \in SubLeft => "bump" \in SubLeft
  /\ "load" \in MenuLeft => "save" \in MenuLeft
  /\ "loadsys" \in MenuLeft => "savesys" \in MenuLeft
  /\ "hooktable" \in MenuLeft => "table" \in MenuLeft
  /\ "table" \in MenuLeft => "load" \in MenuLeft /\ "sync" \notin MenuLeft
  /\ "load" \in MenuLeft \/ "save" \in MenuLeft \/ "sync" \in MenuLeft => "savesys" \notin MenuLeft
  /\ "rload" \in WorkLeft => "rapply" \in WorkLeft
  /\ "rapply" \in WorkLeft => "rsnap" \in WorkLeft
  /\ job["worker"] # <<>> => "compare" \in WorkLeft

\* The option a handler is about.
Picked ==
  /\ "load" \in SubLeft => mem["sub"].pick[1] = "own"
  /\ "load" \in MenuLeft => mem["menu"].pick[1] = IF "sync" \in MenuLeft THEN "opt" ELSE "table"
  /\ "loadsys" \in MenuLeft => mem["menu"].pick[1] = "ext"
  /\ "loadsys" \in DlgLeft => mem["dlg"].pick[1] = "sys"
  /\ Uncounted => "menu table" \in sc.acts
  /\ Uncounted /\ "load" \notin MenuLeft => mem["menu"].cfg.own = mem["menu"].base.own

\* The option QuickSync has read last; LastTable is the code table.
LastOpt == IF job["worker"] # <<>> THEN mem["worker"].snap.opt ELSE hook.lopt

Seen ==
  /\ job["worker"] # <<>> => mem["worker"].snap.gen = hook.gen
  /\ ~unseen => sh = [opt |-> LastOpt, table |-> LastTable, gen |-> hook.gen]

\* A generation the hook has noted comes with the option it has read; an
\* engine that is not the configuration's is about to be created anew.
SharedInv ==
  races \cap {"lost", "lapped"} = {} /\ sh.gen = hook.gen =>
    /\ sh.opt = LastOpt
    /\ "rapply" \notin WorkLeft => hook.opt = sh.opt
    /\ "rsnap" \notin WorkLeft => posted \/ engine = [opt |-> sh.opt, own |-> hook.own]

\* A count of a save is still to be written; no handler has one.
Counts(p) == "sync" \in Left(p) \/ "bump" \in Left(p)
AllCounted == ~Counts("dlg") /\ ~Counts("sub") /\ ~Counts("menu")

FileInv ==
  /\ races \cap {"lost", "lapped", "killed"} = {}
  /\ "stale" \in races => "menu table" \notin sc.acts
  /\ AllCounted /\ sh.gen = hook.gen /\ "rload" \notin WorkLeft
  => /\ IF "rapply" \in WorkLeft THEN mem["worker"].cfg.own = file.own ELSE hook.own = file.own
     /\ "rsnap" \notin WorkLeft => hook.snap = file.own

\* A handler has something to read or to write; the dialog has its timer.
Ends == {"spawn", "close", "end", "post", "wake"}
Acts(p) == Left(p) \ Ends # {} \/ (p = "dlg" /\ dlg.dirty)

\* Saves still to come.
DlgSaves == dlg.dirty \/ "save" \in DlgLeft
TypOwed  == DlgSaves \/ "save" \in MenuLeft \/ "save" \in SubLeft
SysOwed  == "savesys" \in DlgLeft \/ "savesys" \in MenuLeft

\* One user: one handler at a time.
Alone == \A p, q \in UIs : Acts(p) /\ Acts(q) => p = q

\* The choices are in the file, or their save is still to come ...
InFile ==
  /\ ~TypOwed => Typing(file) = Typing(wanted)
  /\ ~SysOwed => System(file) = System(wanted)

\* ... from the Settings dialog, unless a save of another came between ...
FromFile == mem["dlg"].base = Typing(file)
InDialog ==
  /\ DlgSaves /\ FromFile => mem["dlg"].cfg = Typing(wanted)
  /\ dlg.open /\ ~DlgSaves => mem["dlg"].cfg = mem["dlg"].base
  /\ "choice" \in DlgLeft => mem["dlg"].pick = <<"own", mem["dlg"].cfg.own>>
  /\ Classic /\ "savesys" \in DlgLeft /\ mem["dlg"].sbase = System(file)
       => mem["dlg"].sysc = System(wanted)
  /\ Classic /\ dlg.open /\ "savesys" \notin DlgLeft => mem["dlg"].sysc = mem["dlg"].sbase

\* ... or from a handler that loads the file, chooses and saves.
InHandler ==
  /\ \A p \in {"menu", "sub"} :
       /\ "load" \in Left(p) => Typing(wanted) = Chosen(Typing(file), mem[p].pick)
       /\ ("save" \in Left(p) \/ "sync" \in Left(p)) /\ "load" \notin Left(p)
            => mem[p].cfg = Typing(wanted)
  /\ \A p \in {"menu", "dlg"} :
       /\ "loadsys" \in Left(p) => System(wanted) = Chosen(System(file), mem[p].pick)
       /\ "savesys" \in Left(p) /\ "loadsys" \notin Left(p) /\ (p = "dlg" => ~Classic)
            => mem[p].sysc = System(wanted)
  /\ "table" \in MenuLeft => mem["menu"].pick = <<"table", wanted.table>>

\* They are in SharedState, but for a write still to come ...
InShared ==
  /\ DlgSaves => FromFile
  /\ "sync" \notin DlgLeft /\ "sync" \notin MenuLeft
  => /\ sh.opt = wanted.opt
     /\ "table" \notin MenuLeft => sh.table = wanted.table

\* ... and the code table is in the hook, which takes it from the file when it
\* loads it and from SharedState when it sees it change.
InHook ==
  /\ Uncounted /\ sh.gen # hook.gen => LastTable = file.table
  /\ Uncounted /\ "rload" \in WorkLeft => LastTable = file.table \/ LastTable # hook.ltable
  /\ AllCounted /\ ~dlg.dirty /\ sh.gen = hook.gen /\ "rload" \notin WorkLeft
     /\ LastTable = hook.ltable /\ LastOpt = hook.lopt
     => (IF "rapply" \in WorkLeft THEN mem["worker"].cfg.table ELSE hook.table)
          \in {LastTable, wanted.table}

ChoiceInv == races = {} => Alone /\ InFile /\ InDialog /\ InHandler /\ InShared /\ InHook

ConfigInv == Jobs /\ ConfigStates /\ Shapes /\ Picked /\ Seen /\ SharedInv /\ FileInv /\ ChoiceInv

-----------------------------------------------------------------------------
(* Choices: configurations, and steps.                                      *)

\* The two parts of a configuration are all there is of it.
LEMMA ConfigurationParts ==
  /\ DOMAIN Fresh = Options /\ Fresh \in Files
  /\ \A f \in Files : /\ Typing(f) \in Typs /\ System(f) \in Syss /\ HookOf(f) \in Hooks
                      /\ Typing(f).opt = f.opt /\ Typing(f).table = f.table /\ Typing(f).own = f.own
                      /\ System(f).sys = f.sys /\ System(f).ext = f.ext
  /\ \A f, g \in Files : Typing(f) = Typing(g) /\ System(f) = System(g) => f = g
<1>1. DOMAIN Fresh = Options /\ Fresh \in Files
  BY DEF Fresh, Options, TypOptions, SysOptions, Files
<1>2. ASSUME NEW f \in Files
      PROVE  /\ Typing(f) \in Typs /\ System(f) \in Syss
             /\ Typing(f).opt = f.opt /\ Typing(f).table = f.table /\ Typing(f).own = f.own
             /\ System(f).sys = f.sys /\ System(f).ext = f.ext
  BY DEF Typing, Typs, System, Syss, TypOptions, SysOptions, Files, Options
<1>3. ASSUME NEW f \in Files PROVE HookOf(f) \in Hooks
  BY GensAssumption DEF HookOf, Hooks, Files, Options, TypOptions, SysOptions
<1>4. ASSUME NEW f \in Files, NEW g \in Files, Typing(f) = Typing(g), System(f) = System(g)
      PROVE  f = g
  BY <1>4 DEF Typing, System, Files, Options, TypOptions, SysOptions
<1> QED
  BY <1>1, <1>2, <1>3, <1>4

\* A save of one part leaves the other as it was.
LEMMA SavedParts ==
  ASSUME NEW f \in Files
  PROVE  /\ \A g \in Typs : With(f, g) \in Files /\ Typing(With(f, g)) = g /\ System(With(f, g)) = System(f)
         /\ \A g \in Syss : With(f, g) \in Files /\ System(With(f, g)) = g /\ Typing(With(f, g)) = Typing(f)
<1>1. ASSUME NEW g \in Typs PROVE With(f, g) \in Files
  BY DEF With, Typs, Files, Options, TypOptions, SysOptions
<1>2. ASSUME NEW g \in Typs PROVE Typing(With(f, g)) = g /\ System(With(f, g)) = System(f)
  BY DEF With, Typs, Files, Options, TypOptions, SysOptions, Typing, System
<1>3. ASSUME NEW g \in Syss PROVE With(f, g) \in Files
  BY DEF With, Syss, Files, Options, TypOptions, SysOptions
<1>4. ASSUME NEW g \in Syss PROVE System(With(f, g)) = g /\ Typing(With(f, g)) = Typing(f)
  BY DEF With, Syss, Files, Options, TypOptions, SysOptions, Typing, System
<1> QED
  BY <1>1, <1>2, <1>3, <1>4

\* A choice changes one option, in the part that has it.
LEMMA ChosenParts ==
  ASSUME NEW k \in Options \X (0..1)
  PROVE  /\ \A g \in Typs : /\ Chosen(g, k) \in Typs
                            /\ \A x \in TypOptions : Chosen(g, k)[x] = IF k[1] = x THEN k[2] ELSE g[x]
         /\ \A g \in Syss : Chosen(g, k) \in Syss
         /\ \A f \in Files :
              LET w == [f EXCEPT ![k[1]] = k[2]]
              IN  w \in Files /\ Typing(w) = Chosen(Typing(f), k) /\ System(w) = Chosen(System(f), k)
         /\ \A g \in Typs : k[1] \notin TypOptions => Chosen(g, k) = g
         /\ \A g \in Syss : k[1] \notin SysOptions => Chosen(g, k) = g
         /\ \A g \in Typs : k[1] \in TypOptions => Chosen(g, k) = [g EXCEPT ![k[1]] = k[2]]
         /\ \A g \in Syss : k[1] \in SysOptions => Chosen(g, k) = [g EXCEPT ![k[1]] = k[2]]
<1>1. ASSUME NEW g \in Typs
      PROVE  /\ Chosen(g, k) \in Typs
             /\ \A x \in TypOptions : Chosen(g, k)[x] = IF k[1] = x THEN k[2] ELSE g[x]
  BY DEF Chosen, Typs, TypOptions
<1>2. ASSUME NEW g \in Syss PROVE Chosen(g, k) \in Syss
  BY DEF Chosen, Syss, SysOptions
<1>3. ASSUME NEW f \in Files
      PROVE  LET w == [f EXCEPT ![k[1]] = k[2]]
             IN  w \in Files /\ Typing(w) = Chosen(Typing(f), k) /\ System(w) = Chosen(System(f), k)
  <2> DEFINE w == [f EXCEPT ![k[1]] = k[2]]
  <2>1. w \in Files
    BY DEF Files
  <2>2. \A x \in Options : w[x] = IF k[1] = x THEN k[2] ELSE f[x]
    BY DEF Files
  <2> HIDE DEF w
  <2>3. Typing(w) = Chosen(Typing(f), k)
    BY <2>1, <2>2 DEF Typing, Chosen, Options, TypOptions
  <2>4. System(w) = Chosen(System(f), k)
    BY <2>1, <2>2 DEF System, Chosen, Options, SysOptions
  <2> QED
    BY <2>1, <2>3, <2>4 DEF w
<1>4. ASSUME NEW g \in Typs, k[1] \notin TypOptions PROVE Chosen(g, k) = g
  BY <1>4 DEF Chosen, Typs
<1>5. ASSUME NEW g \in Syss, k[1] \notin SysOptions PROVE Chosen(g, k) = g
  BY <1>5 DEF Chosen, Syss
<1>6. ASSUME NEW g \in Typs, k[1] \in TypOptions PROVE Chosen(g, k) = [g EXCEPT ![k[1]] = k[2]]
  BY <1>6 DEF Chosen, Typs
<1>7. ASSUME NEW g \in Syss, k[1] \in SysOptions PROVE Chosen(g, k) = [g EXCEPT ![k[1]] = k[2]]
  BY <1>7 DEF Chosen, Syss
<1> QED
  BY <1>1, <1>2, <1>3, <1>4, <1>5, <1>6, <1>7

\* SharedState with a caller's fields, with a new generation, with a code table.
LEMMA SharedParts ==
  ASSUME NEW z \in Shs
  PROVE  /\ Bumped(z) \in Shs /\ Bumped(z).opt = z.opt /\ Bumped(z).table = z.table
         /\ Bumped(z).gen # z.gen
         /\ \A g \in Typs : LET w == With(z, [opt |-> g.opt, table |-> g.table])
                            IN  w \in Shs /\ w.opt = g.opt /\ w.table = g.table /\ w.gen = z.gen
         /\ \A v \in 0..1 : [z EXCEPT !.table = v] \in Shs
<1>1. Bumped(z) \in Shs /\ Bumped(z).opt = z.opt /\ Bumped(z).table = z.table
  BY GensAssumption DEF Shs, Bumped
<1>2. Bumped(z).gen # z.gen
  <2>1. z.gen \in 0..Gens - 1 /\ Bumped(z).gen = (z.gen + 1) % Gens /\ Gens \in Nat /\ Gens > 1
    BY GensAssumption DEF Shs, Bumped
  <2>2. CASE z.gen = Gens - 1
    <3>1. (z.gen + 1) % Gens = 0
      BY <2>1, <2>2
    <3> QED
      BY <2>1, <2>2, <3>1
  <2>3. CASE z.gen # Gens - 1
    <3>1. (z.gen + 1) % Gens = z.gen + 1
      BY <2>1, <2>3
    <3> QED
      BY <2>1, <3>1
  <2> QED
    BY <2>2, <2>3
<1>3. ASSUME NEW g \in Typs
      PROVE  LET w == With(z, [opt |-> g.opt, table |-> g.table])
             IN  w \in Shs /\ w.opt = g.opt /\ w.table = g.table /\ w.gen = z.gen
  <2>1. With(z, [opt |-> g.opt, table |-> g.table]) = [opt |-> g.opt, table |-> g.table, gen |-> z.gen]
    BY DEF With, Typs, TypOptions, Shs
  <2>2. g.opt \in 0..1 /\ g.table \in 0..1 /\ z.gen \in 0..Gens - 1
    BY DEF Typs, TypOptions, Shs
  <2> QED
    BY <2>1, <2>2 DEF Shs
<1>4. ASSUME NEW v \in 0..1 PROVE [z EXCEPT !.table = v] \in Shs
  BY DEF Shs
<1> QED
  BY <1>1, <1>2, <1>3, <1>4

\* The configuration of a hook that loads the file.
LEMMA ReloadedHook ==
  ASSUME NEW h \in Hooks, NEW g \in Typs, NEW v
  PROVE  With(h, [g EXCEPT !.opt = v]) = [h EXCEPT !.opt = v, !.table = g.table, !.own = g.own]
BY DEF With, Typs, TypOptions, Hooks

\* p takes the step z: it is left no more, and it was the first in the order.
Takes(p, z) ==
  /\ Jobs'
  /\ z # "read" => z \in Left(p)
  /\ Left(p)' = Left(p) \ {z}
  /\ \A t \in Left(p) \ {z} : z # "read" => Rank(p, z) < Rank(p, t)
  /\ \A q \in Procs \ {p} : job'[q] = job[q] /\ Left(q)' = Left(q)

\* A step that is done is taken (Done, AtStep).
LEMMA StepDone ==
  ASSUME Jobs, NEW p \in Procs, NEW z, AtStep(p, z), Done(p)
  PROVE  Takes(p, z)
<1>1. job[p] # <<>> /\ Head(job[p]) = z /\ Script(p, job[p]) /\ job \in [Procs -> Seq(Steps)]
  BY DEF Jobs, AtStep
<1>2. job'[p] = Tail(job[p]) /\ \A q \in Procs \ {p} : job'[q] = job[q]
  BY <1>1 DEF Done
<1>3. /\ Script(p, Tail(job[p])) /\ LeftOf(Tail(job[p])) = LeftOf(job[p]) \ {z}
      /\ z # "read" => z \in LeftOf(job[p])
      /\ z # "read" => \A t \in LeftOf(job[p]) \ {z} : Rank(p, z) < Rank(p, t)
  BY <1>1, StepTaken
<1>4. Jobs'
  <2>1. \A q \in Procs : Script(q, job'[q])
    BY <1>2, <1>3 DEF Jobs
  <2>2. job' \in [Procs -> Seq(Steps)]
    BY <1>1, <1>3 DEF Done, Script
  <2> QED
    BY <2>1, <2>2 DEF Jobs
<1> QED
  BY <1>2, <1>3, <1>4 DEF Takes, Left

\* p begins a handler that has these steps; the others do nothing.
Begins(p, steps) ==
  Jobs' /\ Left(p)' = steps /\ \A q \in Procs \ {p} : job'[q] = job[q] /\ Left(q)' = Left(q)

\* A handler whose steps are in order begins.
LEMMA HandlerRuns ==
  ASSUME Jobs, NEW p \in Procs, NEW j, NEW n, NEW steps, Runs(p, j, n, steps), Run(p, j)
  PROVE  Begins(p, steps) /\ job'[p] = j
<1>1. job \in [Procs -> Seq(Steps)] /\ Script(p, j) /\ LeftOf(j) = steps
  BY DEF Jobs, Runs
<1>2. job'[p] = j /\ \A q \in Procs \ {p} : job'[q] = job[q]
  BY <1>1 DEF Run
<1>3. Jobs'
  <2>1. \A q \in Procs : Script(q, job'[q])
    BY <1>1, <1>2 DEF Jobs
  <2>2. job' \in [Procs -> Seq(Steps)]
    BY <1>1 DEF Run, Script
  <2> QED
    BY <2>1, <2>2 DEF Jobs
<1> QED
  BY <1>1, <1>2, <1>3 DEF Begins, Left

\* No process has steps of another's handlers; none has a step in an empty handler.
LEMMA OwnSteps ==
  ASSUME Jobs
  PROVE  /\ DlgLeft \subseteq StepsOf("dlg") /\ SubLeft \subseteq StepsOf("sub")
         /\ MenuLeft \subseteq StepsOf("menu") /\ WorkLeft \subseteq StepsOf("worker")
         /\ \A p \in Procs : job[p] = <<>> => Left(p) = {}
<1>1. ASSUME NEW p \in Procs PROVE Left(p) \subseteq StepsOf(p)
  BY DEF Jobs, Script, Left, LeftOf
<1>2. ASSUME NEW p \in Procs, job[p] = <<>> PROVE Left(p) = {}
  BY <1>2 DEF Left, LeftOf
<1> QED
  BY <1>1, <1>2 DEF DlgLeft, SubLeft, MenuLeft, WorkLeft, Procs

-----------------------------------------------------------------------------
(* Choices: what a step does.                                               *)

\* What p holds changes, or nothing of it but these parts.
OthersHold(p) == \A q \in Procs \ {p} : mem'[q] = mem[q]
HoldsSame(p, parts) == \A x \in {"cfg", "base", "sysc", "sbase", "snap", "pick"} \ parts :
                         mem'[p][x] = mem[p][x]

\* A new part of what p holds.
LEMMA Held1 ==
  ASSUME mem \in [Procs -> Mems], NEW p \in Procs, NEW e
  PROVE  /\ e \in Syss => /\ [mem EXCEPT ![p].sysc = e] \in [Procs -> Mems]
                          /\ mem' = [mem EXCEPT ![p].sysc = e] =>
                               OthersHold(p) /\ HoldsSame(p, {"sysc"}) /\ mem'[p].sysc = e
         /\ e \in Typs => /\ [mem EXCEPT ![p].cfg = e] \in [Procs -> Mems]
                          /\ mem' = [mem EXCEPT ![p].cfg = e] =>
                               OthersHold(p) /\ HoldsSame(p, {"cfg"}) /\ mem'[p].cfg = e
         /\ e \in Typs => /\ [mem EXCEPT ![p].base = e] \in [Procs -> Mems]
                          /\ mem' = [mem EXCEPT ![p].base = e] =>
                               OthersHold(p) /\ HoldsSame(p, {"base"}) /\ mem'[p].base = e
         /\ e \in Syss => /\ [mem EXCEPT ![p].sbase = e] \in [Procs -> Mems]
                          /\ mem' = [mem EXCEPT ![p].sbase = e] =>
                               OthersHold(p) /\ HoldsSame(p, {"sbase"}) /\ mem'[p].sbase = e
         /\ e \in Shs  => /\ [mem EXCEPT ![p].snap = e] \in [Procs -> Mems]
                          /\ mem' = [mem EXCEPT ![p].snap = e] =>
                               OthersHold(p) /\ HoldsSame(p, {"snap"}) /\ mem'[p].snap = e
         /\ e \in Options \X (0..1) =>
                          /\ [mem EXCEPT ![p].pick = e] \in [Procs -> Mems]
                          /\ mem' = [mem EXCEPT ![p].pick = e] =>
                               OthersHold(p) /\ HoldsSame(p, {"pick"}) /\ mem'[p].pick = e
<1>1. CASE e \in Syss
  BY <1>1 DEF Mems, OthersHold, HoldsSame
<1>2. CASE e \in Typs
  BY <1>2 DEF Mems, OthersHold, HoldsSame
<1>3. CASE e \in Shs
  BY <1>3 DEF Mems, OthersHold, HoldsSame
<1>4. CASE e \in Options \X (0..1)
  BY <1>4 DEF Mems, OthersHold, HoldsSame
<1> QED
  BY <1>1, <1>2, <1>3, <1>4

\* LoadOrDefault
LEMMA LoadDoes ==
  ASSUME Jobs, ConfigStates, NEW p \in UIs, LoadOrDefault(p)
  PROVE  /\ Takes(p, "load") /\ OthersHold(p) /\ HoldsSame(p, {"cfg", "base"})
         /\ mem'[p].cfg = Chosen(Typing(file), mem[p].pick) /\ mem'[p].base = Typing(file)
         /\ ConfigStates'
         /\ UNCHANGED <<sc, file, sh, unseen, dlg, sub, note, work, hook, posted, engine, quit, used, wanted, races>>
<1>1. p \in Procs /\ AtStep(p, "load") /\ Done(p)
  BY DEF LoadOrDefault, UIs, Procs
<1>2. Takes(p, "load")
  BY <1>1, StepDone
<1>3. UNCHANGED <<sc, file, sh, unseen, dlg, sub, note, work, hook, posted, engine, quit, used, wanted, races>>
  BY DEF LoadOrDefault
<1>4. Typing(file) \in Typs /\ Chosen(Typing(file), mem[p].pick) \in Typs
  <2>1. Typing(file) \in Typs /\ mem[p].pick \in Options \X (0..1)
    BY <1>1, ConfigurationParts DEF ConfigStates, Mems
  <2> QED
    BY <2>1, ChosenParts
<1>5. mem' = [mem EXCEPT ![p].cfg = Chosen(Typing(file), mem[p].pick), ![p].base = Typing(file)]
  BY DEF LoadOrDefault
<1>6. /\ mem' \in [Procs -> Mems] /\ OthersHold(p) /\ HoldsSame(p, {"cfg", "base"})
      /\ mem'[p].cfg = Chosen(Typing(file), mem[p].pick) /\ mem'[p].base = Typing(file)
  BY <1>1, <1>4, <1>5 DEF ConfigStates, Mems, OthersHold, HoldsSame
<1>7. ConfigStates'
  BY <1>3, <1>6 DEF ConfigStates
<1> QED
  BY <1>2, <1>3, <1>6, <1>7

\* SaveToFile
LEMMA SaveDoes ==
  ASSUME Jobs, ConfigStates, NEW p \in UIs, SaveToFile(p)
  PROVE  /\ Takes(p, "save") /\ OthersHold(p) /\ HoldsSame(p, {"base"}) /\ mem'[p].base = mem[p].cfg
         /\ Typing(file') = mem[p].cfg /\ System(file') = System(file)
         /\ races' = IF mem[p].base # Typing(file) THEN races \cup {"stale"} ELSE races
         /\ ConfigStates'
         /\ UNCHANGED <<sc, sh, unseen, dlg, sub, note, work, hook, posted, engine, quit, used, wanted>>
<1>1. p \in Procs /\ AtStep(p, "save") /\ Done(p)
  BY DEF SaveToFile, UIs, Procs
<1>2. Takes(p, "save")
  BY <1>1, StepDone
<1>3. UNCHANGED <<sc, sh, unseen, dlg, sub, note, work, hook, posted, engine, quit, used, wanted>>
  BY DEF SaveToFile
<1>4. mem[p].cfg \in Typs /\ file \in Files /\ mem \in [Procs -> Mems]
  BY <1>1 DEF ConfigStates, Mems
<1>5. file' \in Files /\ Typing(file') = mem[p].cfg /\ System(file') = System(file)
  BY <1>4, SavedParts DEF SaveToFile
<1>6. mem' \in [Procs -> Mems] /\ OthersHold(p) /\ HoldsSame(p, {"base"}) /\ mem'[p].base = mem[p].cfg
  <2>1. mem' = [mem EXCEPT ![p].base = mem[p].cfg]
    BY DEF SaveToFile
  <2> QED
    BY <1>1, <1>4, <2>1, Held1
<1>7. races' = IF mem[p].base # Typing(file) THEN races \cup {"stale"} ELSE races
  BY DEF SaveToFile, Race
<1>8. ConfigStates'
  <2>1. races' \in SUBSET Races
    BY <1>7 DEF ConfigStates, Races
  <2> QED
    BY <1>3, <1>5, <1>6, <2>1 DEF ConfigStates
<1> QED
  BY <1>2, <1>3, <1>5, <1>6, <1>7, <1>8

\* LoadSystemConfig, and the choice.
LEMMA LoadSystemDoes ==
  ASSUME Jobs, ConfigStates, NEW p \in UIs, LoadSystemConfig(p)
  PROVE  /\ Takes(p, "loadsys") /\ OthersHold(p) /\ HoldsSame(p, {"sysc", "sbase"})
         /\ mem'[p].sysc = Chosen(System(file), mem[p].pick) /\ mem'[p].sbase = System(file)
         /\ ConfigStates'
         /\ UNCHANGED <<sc, file, sh, unseen, dlg, sub, note, work, hook, posted, engine, quit, used, wanted, races>>
<1>1. p \in Procs /\ AtStep(p, "loadsys") /\ Done(p)
  BY DEF LoadSystemConfig, UIs, Procs
<1>2. Takes(p, "loadsys")
  BY <1>1, StepDone
<1>3. UNCHANGED <<sc, file, sh, unseen, dlg, sub, note, work, hook, posted, engine, quit, used, wanted, races>>
  BY DEF LoadSystemConfig
<1>4. System(file) \in Syss /\ Chosen(System(file), mem[p].pick) \in Syss
  <2>1. System(file) \in Syss /\ mem[p].pick \in Options \X (0..1)
    BY <1>1, ConfigurationParts DEF ConfigStates, Mems
  <2> QED
    BY <2>1, ChosenParts
<1>5. mem' = [mem EXCEPT ![p].sysc = Chosen(System(file), mem[p].pick), ![p].sbase = System(file)]
  BY DEF LoadSystemConfig
<1>6. /\ mem' \in [Procs -> Mems] /\ OthersHold(p) /\ HoldsSame(p, {"sysc", "sbase"})
      /\ mem'[p].sysc = Chosen(System(file), mem[p].pick) /\ mem'[p].sbase = System(file)
  BY <1>1, <1>4, <1>5 DEF ConfigStates, Mems, OthersHold, HoldsSame
<1>7. ConfigStates'
  BY <1>3, <1>6 DEF ConfigStates
<1> QED
  BY <1>2, <1>3, <1>6, <1>7

\* SaveSystemConfig
LEMMA SaveSystemDoes ==
  ASSUME Jobs, ConfigStates, NEW p \in UIs, SaveSystemConfig(p)
  PROVE  /\ Takes(p, "savesys") /\ OthersHold(p) /\ HoldsSame(p, {"sbase"}) /\ mem'[p].sbase = mem[p].sysc
         /\ System(file') = mem[p].sysc /\ Typing(file') = Typing(file)
         /\ races' = IF mem[p].sbase # System(file) THEN races \cup {"stale"} ELSE races
         /\ ConfigStates'
         /\ UNCHANGED <<sc, sh, unseen, dlg, sub, note, work, hook, posted, engine, quit, used, wanted>>
<1>1. p \in Procs /\ AtStep(p, "savesys") /\ Done(p)
  BY DEF SaveSystemConfig, UIs, Procs
<1>2. Takes(p, "savesys")
  BY <1>1, StepDone
<1>3. UNCHANGED <<sc, sh, unseen, dlg, sub, note, work, hook, posted, engine, quit, used, wanted>>
  BY DEF SaveSystemConfig
<1>4. mem[p].sysc \in Syss /\ file \in Files /\ mem \in [Procs -> Mems]
  BY <1>1 DEF ConfigStates, Mems
<1>5. file' \in Files /\ System(file') = mem[p].sysc /\ Typing(file') = Typing(file)
  BY <1>4, SavedParts DEF SaveSystemConfig
<1>6. mem' \in [Procs -> Mems] /\ OthersHold(p) /\ HoldsSame(p, {"sbase"}) /\ mem'[p].sbase = mem[p].sysc
  <2>1. mem' = [mem EXCEPT ![p].sbase = mem[p].sysc]
    BY DEF SaveSystemConfig
  <2> QED
    BY <1>1, <1>4, <2>1, Held1
<1>7. races' = IF mem[p].sbase # System(file) THEN races \cup {"stale"} ELSE races
  BY DEF SaveSystemConfig, Race
<1>8. ConfigStates'
  <2>1. races' \in SUBSET Races
    BY <1>7 DEF ConfigStates, Races
  <2> QED
    BY <1>3, <1>5, <1>6, <2>1 DEF ConfigStates
<1> QED
  BY <1>2, <1>3, <1>5, <1>6, <1>7, <1>8

\* Read
LEMMA ReadDoes ==
  ASSUME Jobs, ConfigStates, NEW p \in UIs, ReadShared(p)
  PROVE  /\ Takes(p, "read") /\ OthersHold(p) /\ HoldsSame(p, {"snap"}) /\ mem'[p].snap = sh
         /\ ConfigStates'
         /\ UNCHANGED <<sc, file, sh, unseen, dlg, sub, note, work, hook, posted, engine, quit, used, wanted, races>>
<1>1. p \in Procs /\ AtStep(p, "read") /\ Done(p)
  BY DEF ReadShared, UIs, Procs
<1>2. Takes(p, "read")
  BY <1>1, StepDone
<1>3. UNCHANGED <<sc, file, sh, unseen, dlg, sub, note, work, hook, posted, engine, quit, used, wanted, races>>
  BY DEF ReadShared
<1>4. mem' \in [Procs -> Mems] /\ OthersHold(p) /\ HoldsSame(p, {"snap"}) /\ mem'[p].snap = sh
  <2>1. mem' = [mem EXCEPT ![p].snap = sh] /\ sh \in Shs /\ mem \in [Procs -> Mems]
    BY DEF ReadShared, ConfigStates
  <2> QED
    BY <1>1, <2>1, Held1
<1>5. ConfigStates'
  BY <1>3, <1>4 DEF ConfigStates
<1> QED
  BY <1>2, <1>3, <1>4, <1>5

\* A Write: of what was read before, or a race.
Writes(p) ==
  /\ unseen' = TRUE
  /\ races \subseteq races'
  /\ races' \subseteq races \cup {"lost", "lapped"}
  /\ "lost" \notin races' => mem[p].snap = sh
  /\ "lapped" \notin races' /\ sh'.gen # mem[p].snap.gen => sh'.gen # hook.gen
  /\ ConfigStates'
  /\ UNCHANGED <<sc, file, mem, dlg, sub, note, work, hook, posted, engine, quit, used, wanted>>

\* A write of SharedState, and the two races it can have (WriteShared).
LEMMA WriteDoes ==
  ASSUME ConfigStates, NEW p \in UIs, NEW z \in Shs, WriteShared(p, z)
  PROVE  Writes(p) /\ sh' = z
<1>1. /\ sh' = z /\ unseen' = TRUE
      /\ races' = races \cup (IF mem[p].snap # sh THEN {"lost"} ELSE {})
                        \cup (IF z.gen # mem[p].snap.gen /\ z.gen = hook.gen THEN {"lapped"} ELSE {})
      /\ UNCHANGED <<sc, file, mem, dlg, sub, note, work, hook, posted, engine, quit, used, wanted>>
  BY DEF WriteShared
<1>2. races' \in SUBSET Races
  BY <1>1 DEF ConfigStates, Races
<1>3. ConfigStates'
  BY <1>1, <1>2 DEF ConfigStates
<1> QED
  BY <1>1, <1>3 DEF Writes

\* The three Writes.
LEMMA WritesDo ==
  ASSUME Jobs, ConfigStates, NEW p \in UIs
  PROVE  /\ WriteFields(p) => /\ Takes(p, "sync") /\ Writes(p) /\ sh'.gen # mem[p].snap.gen
                              /\ sh'.opt = mem[p].cfg.opt /\ sh'.table = mem[p].cfg.table
         /\ WriteGeneration(p) => /\ Takes(p, "bump") /\ Writes(p) /\ sh'.gen # mem[p].snap.gen
                                  /\ sh'.opt = mem[p].snap.opt /\ sh'.table = mem[p].snap.table
         /\ WriteTable(p) => /\ Takes(p, "table") /\ Writes(p)
                             /\ sh' = [mem[p].snap EXCEPT !.table = mem[p].pick[2]]
<1>1. p \in Procs
  BY DEF UIs, Procs
<1>2. mem[p].snap \in Shs /\ mem[p].cfg \in Typs /\ mem[p].pick[2] \in 0..1
  BY <1>1 DEF ConfigStates, Mems
<1>3. ASSUME WriteFields(p)
      PROVE  /\ Takes(p, "sync") /\ Writes(p) /\ sh'.gen # mem[p].snap.gen
             /\ sh'.opt = mem[p].cfg.opt /\ sh'.table = mem[p].cfg.table
  <2> DEFINE w == With(mem[p].snap, [opt |-> mem[p].cfg.opt, table |-> mem[p].cfg.table])
  <2>1. AtStep(p, "sync") /\ WriteShared(p, Bumped(w))
    BY <1>3 DEF WriteFields
  <2>2. w \in Shs /\ w.opt = mem[p].cfg.opt /\ w.table = mem[p].cfg.table /\ w.gen = mem[p].snap.gen
    BY <1>2, SharedParts
  <2> HIDE DEF w
  <2>3. /\ Bumped(w) \in Shs /\ Bumped(w).gen # mem[p].snap.gen
        /\ Bumped(w).opt = mem[p].cfg.opt /\ Bumped(w).table = mem[p].cfg.table
    BY <2>2, SharedParts
  <2>4. Writes(p) /\ sh' = Bumped(w)
    BY <2>1, <2>3, WriteDoes
  <2>5. Takes(p, "sync")
    BY <1>1, <2>1, StepDone DEF WriteShared
  <2> QED
    BY <2>3, <2>4, <2>5
<1>4. ASSUME WriteGeneration(p)
      PROVE  /\ Takes(p, "bump") /\ Writes(p) /\ sh'.gen # mem[p].snap.gen
             /\ sh'.opt = mem[p].snap.opt /\ sh'.table = mem[p].snap.table
  <2>1. AtStep(p, "bump") /\ WriteShared(p, Bumped(mem[p].snap))
    BY <1>4 DEF WriteGeneration
  <2>2. /\ Bumped(mem[p].snap) \in Shs /\ Bumped(mem[p].snap).gen # mem[p].snap.gen
        /\ Bumped(mem[p].snap).opt = mem[p].snap.opt /\ Bumped(mem[p].snap).table = mem[p].snap.table
    BY <1>2, SharedParts
  <2>3. Writes(p) /\ sh' = Bumped(mem[p].snap)
    BY <2>1, <2>2, WriteDoes
  <2>4. Takes(p, "bump")
    BY <1>1, <2>1, StepDone DEF WriteShared
  <2> QED
    BY <2>2, <2>3, <2>4
<1>5. ASSUME WriteTable(p)
      PROVE  /\ Takes(p, "table") /\ Writes(p)
             /\ sh' = [mem[p].snap EXCEPT !.table = mem[p].pick[2]]
  <2>1. AtStep(p, "table") /\ WriteShared(p, [mem[p].snap EXCEPT !.table = mem[p].pick[2]])
    BY <1>5 DEF WriteTable
  <2>2. [mem[p].snap EXCEPT !.table = mem[p].pick[2]] \in Shs
    BY <1>2, SharedParts
  <2>3. Writes(p) /\ sh' = [mem[p].snap EXCEPT !.table = mem[p].pick[2]]
    BY <2>1, <2>2, WriteDoes
  <2>4. Takes(p, "table")
    BY <1>1, <2>1, StepDone DEF WriteShared
  <2> QED
    BY <2>3, <2>4
<1> QED
  BY <1>3, <1>4, <1>5

-----------------------------------------------------------------------------
(* Choices: what a handler does first.                                      *)

\* The user chooses a value of an option.
Chooses(k) ==
  /\ k \in Options \X (0..1) /\ wanted' \in Files
  /\ Typing(wanted') = Chosen(Typing(wanted), k) /\ System(wanted') = Chosen(System(wanted), k)

\* What the user wants is what was wanted before, and the choice.
LEMMA WantsChooses ==
  ASSUME ConfigStates, NEW x \in Options, NEW v \in 0..1, Wants(x, v)
  PROVE  Chooses(<<x, v>>) /\ wanted' = [wanted EXCEPT ![x] = v]
<1>1. <<x, v>> \in Options \X (0..1) /\ <<x, v>>[1] = x /\ <<x, v>>[2] = v
  OBVIOUS
<1>2. wanted \in Files /\ wanted' = [wanted EXCEPT ![x] = v]
  BY DEF ConfigStates, Wants
<1> QED
  BY <1>1, <1>2, ChosenParts DEF Chooses

\* An edit in p; another process that has not finished is a race.
EditOf(p, other) ==
  /\ races \subseteq races' /\ other \subseteq races' /\ races' \subseteq races \cup other \cup {"busy"}
  /\ "busy" \notin races' => \A q \in UIs \ {p} : job[q] = <<>> /\ (q = "dlg" => ~dlg.dirty)

\* An edit is of the scenario; without "busy" no other handler has anything left.
LEMMA EditsDo ==
  ASSUME NEW p \in UIs, NEW act, NEW other, Edits(p, act, other)
  PROVE  EditOf(p, other) /\ act \in sc.acts
<1>1. races' = races \cup other \cup
                 (IF \E q \in Procs \ {p, "worker"} : Busy(q) THEN {"busy"} ELSE {})
  BY DEF Edits
<1>2. \A q \in UIs \ {p} : q \in Procs \ {p, "worker"}
  BY DEF UIs, Procs
<1>3. "busy" \notin races' => \A q \in UIs \ {p} : ~Busy(q)
  BY <1>1, <1>2
<1>4. races \subseteq races' /\ other \subseteq races' /\ races' \subseteq races \cup other \cup {"busy"}
  BY ONLY <1>1
<1> QED
  BY <1>3, <1>4 DEF EditOf, Busy, Edits

\* The Settings dialog holds what is in the file.
FileLoads ==
  /\ OthersHold("dlg") /\ HoldsSame("dlg", {"cfg", "base", "sysc", "sbase"})
  /\ mem'["dlg"].cfg = Typing(file) /\ mem'["dlg"].base = Typing(file)
  /\ mem'["dlg"].sysc = System(file) /\ mem'["dlg"].sbase = System(file)

\* The dialog loads the file.
LEMMA LoadedLoads ==
  ASSUME ConfigStates, mem' = [mem EXCEPT !["dlg"] = Loaded(@)]
  PROVE  FileLoads /\ mem' \in [Procs -> Mems]
<1>1. Typing(file) \in Typs /\ System(file) \in Syss /\ mem \in [Procs -> Mems] /\ "dlg" \in Procs
  BY ConfigurationParts DEF ConfigStates, Procs
<1>2. mem' = [mem EXCEPT !["dlg"].cfg = Typing(file), !["dlg"].base = Typing(file),
                         !["dlg"].sysc = System(file), !["dlg"].sbase = System(file)]
  <2>1. Loaded(mem["dlg"]) = [mem["dlg"] EXCEPT !.cfg = Typing(file), !.base = Typing(file),
                                                !.sysc = System(file), !.sbase = System(file)]
    BY DEF Loaded
  <2> QED
    BY <1>1, <2>1
<1> QED
  BY <1>1, <1>2 DEF FileLoads, OthersHold, HoldsSame, Mems

\* The options of the Settings dialog and of the file, turned over.
LEMMA Flipped ==
  ASSUME ConfigStates
  PROVE  /\ \A x \in TypOptions : 1 - mem["dlg"].cfg[x] \in 0..1
         /\ 1 - mem["dlg"].cfg.opt \in 0..1 /\ 1 - mem["dlg"].sysc.sys \in 0..1
         /\ \A x \in Options : 1 - file[x] \in 0..1
         /\ mem["dlg"].cfg \in Typs /\ mem["dlg"].sysc \in Syss /\ mem \in [Procs -> Mems]
<1>1. /\ mem["dlg"].cfg \in Typs /\ mem["dlg"].sysc \in Syss /\ file \in Files
      /\ mem \in [Procs -> Mems]
  BY DEF ConfigStates, Mems, Procs
<1> QED
  BY <1>1 DEF Typs, Syss, Files, TypOptions, SysOptions, Options

\* OpenSettings
LEMMA OpenSettingsDoes ==
  ASSUME ConfigStates, OpenSettings
  PROVE  /\ ~dlg.open /\ job["dlg"] = <<>> /\ dlg' = [open |-> TRUE, dirty |-> FALSE, inbox |-> FALSE]
         /\ FileLoads /\ ConfigStates'
         /\ UNCHANGED <<sc, file, sh, unseen, job, sub, note, work, hook, posted, engine, quit, used, wanted, races>>
<1>1. dlg' = [open |-> TRUE, dirty |-> FALSE, inbox |-> FALSE]
  BY DEF OpenSettings, Closed
<1>2. FileLoads /\ mem' \in [Procs -> Mems]
  BY LoadedLoads DEF OpenSettings
<1>3. UNCHANGED <<sc, file, sh, unseen, job, sub, note, work, hook, posted, engine, quit, used, wanted, races>>
  BY DEF OpenSettings
<1>4. ConfigStates'
  BY <1>1, <1>2, <1>3 DEF ConfigStates
<1> QED
  BY <1>1, <1>2, <1>3, <1>4 DEF OpenSettings

\* An option of the Settings dialog: its timer saves it.
LEMMA SaveSettingsDoes ==
  ASSUME Jobs, ConfigStates, NEW x \in {"opt", "table"}, SaveSettings(x)
  PROVE  \E v \in 0..1 :
           /\ DlgIdle /\ Begins("dlg", {"sync"}) /\ EditOf("dlg", {}) /\ Chooses(<<x, v>>)
           /\ OthersHold("dlg") /\ HoldsSame("dlg", {"cfg"})
           /\ mem'["dlg"].cfg = Chosen(mem["dlg"].cfg, <<x, v>>)
           /\ dlg' = [dlg EXCEPT !.dirty = TRUE] /\ ConfigStates'
           /\ UNCHANGED <<sc, file, sh, unseen, sub, note, work, hook, posted, engine, quit>>
<1> DEFINE v == 1 - mem["dlg"].cfg[x]
<1>1. v \in 0..1 /\ x \in TypOptions /\ x \in Options /\ mem \in [Procs -> Mems] /\ mem["dlg"].cfg \in Typs
  BY Flipped DEF TypOptions, Options
<1>2. /\ DlgIdle /\ Edits("dlg", x, {}) /\ mem' = [mem EXCEPT !["dlg"].cfg[x] = v]
      /\ dlg' = [dlg EXCEPT !.dirty = TRUE] /\ Run("dlg", SyncToSharedState) /\ Wants(x, v)
      /\ UNCHANGED <<sc, file, sh, unseen, sub, note, work, hook, posted, engine, quit>>
  BY DEF SaveSettings
<1> HIDE DEF v
<1>3. Begins("dlg", {"sync"})
  BY <1>2, DialogScripts, HandlerRuns DEF Procs
<1>4. EditOf("dlg", {}) /\ races' \subseteq Races
  <2>1. EditOf("dlg", {})
    BY <1>2, EditsDo DEF UIs
  <2> QED
    BY <2>1 DEF EditOf, ConfigStates, Races
<1>5. Chooses(<<x, v>>)
  BY <1>1, <1>2, WantsChooses
<1>6. /\ mem' \in [Procs -> Mems] /\ OthersHold("dlg") /\ HoldsSame("dlg", {"cfg"})
      /\ mem'["dlg"].cfg = Chosen(mem["dlg"].cfg, <<x, v>>)
  <2>1. Chosen(mem["dlg"].cfg, <<x, v>>) \in Typs
        /\ Chosen(mem["dlg"].cfg, <<x, v>>) = [mem["dlg"].cfg EXCEPT ![x] = v]
    BY <1>1, ChosenParts
  <2>2. mem' = [mem EXCEPT !["dlg"].cfg = Chosen(mem["dlg"].cfg, <<x, v>>)]
    BY <1>1, <1>2, <2>1
  <2> QED
    BY <1>1, <2>1, <2>2, Held1 DEF Procs
<1>7. ConfigStates'
  BY <1>2, <1>4, <1>5, <1>6 DEF ConfigStates, Chooses
<1> QED
  BY <1>1, <1>2, <1>3, <1>4, <1>5, <1>6, <1>7

\* A system option of the Settings dialog.
LEMMA SystemToggleDoes ==
  ASSUME Jobs, ConfigStates, HandleSystemToggle
  PROVE  \E v \in 0..1 :
           /\ DlgIdle /\ EditOf("dlg", {}) /\ Chooses(<<"sys", v>>) /\ OthersHold("dlg")
           /\ IF Classic
              THEN /\ Begins("dlg", {"sync", "save", "savesys", "bump"}) /\ HoldsSame("dlg", {"sysc"})
                   /\ mem'["dlg"].sysc = Chosen(mem["dlg"].sysc, <<"sys", v>>)
                   /\ dlg' = [dlg EXCEPT !.dirty = FALSE]
              ELSE /\ Begins("dlg", {"loadsys", "savesys"}) /\ HoldsSame("dlg", {"pick"})
                   /\ mem'["dlg"].pick = <<"sys", v>> /\ dlg' = dlg
           /\ ConfigStates'
           /\ UNCHANGED <<sc, file, sh, unseen, sub, note, work, hook, posted, engine, quit>>
<1> DEFINE v == 1 - mem["dlg"].sysc.sys
<1>1. /\ v \in 0..1 /\ "sys" \in SysOptions /\ "sys" \in Options /\ mem \in [Procs -> Mems]
      /\ mem["dlg"].sysc \in Syss
  BY Flipped DEF SysOptions, Options
<1>2. /\ DlgIdle /\ Edits("dlg", "sys", {}) /\ Wants("sys", v)
      /\ Classic => /\ mem' = [mem EXCEPT !["dlg"].sysc.sys = v] /\ dlg' = [dlg EXCEPT !.dirty = FALSE]
                    /\ Run("dlg", SyncToSharedState \o ClassicSaveToToml)
      /\ ~Classic => /\ mem' = [mem EXCEPT !["dlg"].pick = <<"sys", v>>] /\ dlg' = dlg
                     /\ Run("dlg", SaveSystemSettings)
      /\ UNCHANGED <<sc, file, sh, unseen, sub, note, work, hook, posted, engine, quit>>
  BY DEF HandleSystemToggle
<1> HIDE DEF v
<1>3. IF Classic THEN Begins("dlg", {"sync", "save", "savesys", "bump"}) ELSE Begins("dlg", {"loadsys", "savesys"})
  <2>1. CASE Classic
    BY <1>2, <2>1, DialogScripts, HandlerRuns DEF Procs
  <2>2. CASE ~Classic
    BY <1>2, <2>2, DialogScripts, HandlerRuns DEF Procs
  <2> QED
    BY <2>1, <2>2
<1>4. EditOf("dlg", {}) /\ races' \subseteq Races
  <2>1. EditOf("dlg", {})
    BY <1>2, EditsDo DEF UIs
  <2> QED
    BY <2>1 DEF EditOf, ConfigStates, Races
<1>5. Chooses(<<"sys", v>>)
  BY <1>1, <1>2, WantsChooses
<1>6. /\ mem' \in [Procs -> Mems] /\ OthersHold("dlg")
      /\ Classic => /\ HoldsSame("dlg", {"sysc"})
                    /\ mem'["dlg"].sysc = Chosen(mem["dlg"].sysc, <<"sys", v>>)
      /\ ~Classic => HoldsSame("dlg", {"pick"}) /\ mem'["dlg"].pick = <<"sys", v>>
  <2>1. CASE Classic
    <3>1. Chosen(mem["dlg"].sysc, <<"sys", v>>) \in Syss
          /\ Chosen(mem["dlg"].sysc, <<"sys", v>>) = [mem["dlg"].sysc EXCEPT !["sys"] = v]
      BY <1>1, ChosenParts
    <3>2. mem' = [mem EXCEPT !["dlg"].sysc = Chosen(mem["dlg"].sysc, <<"sys", v>>)]
      BY <1>1, <1>2, <2>1, <3>1
    <3> QED
      BY <1>1, <2>1, <3>1, <3>2, Held1 DEF Procs
  <2>2. CASE ~Classic
    <3>1. <<"sys", v>> \in Options \X (0..1)
      BY <1>1
    <3>2. mem' = [mem EXCEPT !["dlg"].pick = <<"sys", v>>] /\ "dlg" \in Procs
      BY <1>2, <2>2 DEF Procs
    <3>3. /\ mem' \in [Procs -> Mems] /\ OthersHold("dlg") /\ HoldsSame("dlg", {"pick"})
          /\ mem'["dlg"].pick = <<"sys", v>>
      BY ONLY <1>1, <3>1, <3>2, Held1
    <3> QED
      BY <2>2, <3>3
  <2> QED
    BY <2>1, <2>2
<1>7. ConfigStates'
  <2>1. dlg' \in [open : BOOLEAN, dirty : BOOLEAN, inbox : BOOLEAN]
    BY <1>2 DEF ConfigStates
  <2> QED
    BY <1>2, <1>4, <1>5, <1>6, <2>1 DEF ConfigStates, Chooses
<1> QED
  BY <1>1, <1>2, <1>3, <1>4, <1>5, <1>6, <1>7

\* The option that registers the text service.
LEMMA TsfToggleDoes ==
  ASSUME Jobs, ConfigStates, NEW ok \in BOOLEAN, HandleTsfToggle(ok)
  PROVE  \E v \in 0..1 :
           /\ DlgIdle /\ EditOf("dlg", {}) /\ OthersHold("dlg") /\ ~Classic
           /\ ok => /\ Begins("dlg", {"sync", "save", "bump"}) /\ Chooses(<<"own", v>>)
                    /\ HoldsSame("dlg", {"cfg"})
                    /\ mem'["dlg"].cfg = Chosen(mem["dlg"].cfg, <<"own", v>>)
                    /\ dlg' = [dlg EXCEPT !.dirty = FALSE]
           /\ ~ok => UNCHANGED <<mem, wanted, dlg, job>>
           /\ ConfigStates'
           /\ UNCHANGED <<sc, file, sh, unseen, sub, note, work, hook, posted, engine, quit>>
<1> DEFINE v == 1 - mem["dlg"].cfg.own
<1>1. v \in 0..1 /\ "own" \in TypOptions /\ "own" \in Options /\ mem \in [Procs -> Mems] /\ mem["dlg"].cfg \in Typs
  BY Flipped DEF TypOptions, Options
<1>2. /\ DlgIdle /\ Edits("dlg", "tsf", {}) /\ ~Classic
      /\ ok => /\ mem' = [mem EXCEPT !["dlg"].cfg.own = v] /\ dlg' = [dlg EXCEPT !.dirty = FALSE]
               /\ Run("dlg", SyncToSharedState \o SettingsSaveToToml) /\ Wants("own", v)
      /\ ~ok => UNCHANGED <<mem, wanted, dlg, job>>
      /\ UNCHANGED <<sc, file, sh, unseen, sub, note, work, hook, posted, engine, quit>>
  BY DEF HandleTsfToggle
<1> HIDE DEF v
<1>3. ok => Begins("dlg", {"sync", "save", "bump"})
  BY <1>2, DialogScripts, HandlerRuns DEF Procs
<1>4. EditOf("dlg", {}) /\ races' \subseteq Races
  <2>1. EditOf("dlg", {})
    BY <1>2, EditsDo DEF UIs
  <2> QED
    BY <2>1 DEF EditOf, ConfigStates, Races
<1>5. ok => Chooses(<<"own", v>>)
  BY <1>1, <1>2, WantsChooses
<1>6. /\ mem' \in [Procs -> Mems] /\ OthersHold("dlg")
      /\ ok => /\ HoldsSame("dlg", {"cfg"})
               /\ mem'["dlg"].cfg = Chosen(mem["dlg"].cfg, <<"own", v>>)
  <2>1. CASE ok
    <3>1. Chosen(mem["dlg"].cfg, <<"own", v>>) \in Typs
          /\ Chosen(mem["dlg"].cfg, <<"own", v>>) = [mem["dlg"].cfg EXCEPT !["own"] = v]
      BY <1>1, ChosenParts
    <3>2. mem' = [mem EXCEPT !["dlg"].cfg = Chosen(mem["dlg"].cfg, <<"own", v>>)]
      BY <1>1, <1>2, <2>1, <3>1
    <3> QED
      BY <1>1, <2>1, <3>1, <3>2, Held1 DEF Procs
  <2>2. CASE ~ok
    BY <1>1, <1>2, <2>2 DEF OthersHold
  <2> QED
    BY <2>1, <2>2
<1>7. ConfigStates'
  <2>1. dlg' \in [open : BOOLEAN, dirty : BOOLEAN, inbox : BOOLEAN]
    BY <1>2 DEF ConfigStates
  <2>2. wanted' \in Files
    BY <1>2, <1>5 DEF ConfigStates, Chooses
  <2> QED
    BY <1>2, <1>4, <1>6, <2>1, <2>2 DEF ConfigStates
<1> QED
  BY <1>1, <1>2, <1>3, <1>4, <1>5, <1>6, <1>7

\* The classic dialog: as above, and a refusal is a choice of what was there before.
LEMMA ClassicTsfToggleDoes ==
  ASSUME Jobs, ConfigStates, NEW ok \in BOOLEAN, ClassicTsfToggle(ok)
  PROVE  \E v \in 0..1 :
           /\ DlgIdle /\ EditOf("dlg", IF ok THEN {} ELSE {"refused"}) /\ OthersHold("dlg") /\ Classic
           /\ Begins("dlg", {"sync", "choice", "save", "savesys", "bump"})
           /\ HoldsSame("dlg", {"cfg", "pick"})
           /\ mem'["dlg"].cfg = Chosen(mem["dlg"].cfg, <<"own", v>>)
           /\ mem'["dlg"].pick[1] = "own"
           /\ ok => Chooses(<<"own", v>>) /\ mem'["dlg"].pick = <<"own", v>>
           /\ dlg' = [dlg EXCEPT !.dirty = FALSE]
           /\ ConfigStates'
           /\ UNCHANGED <<sc, file, sh, unseen, sub, note, work, hook, posted, engine, quit>>
<1> DEFINE v == 1 - mem["dlg"].cfg.own
<1> DEFINE k == <<"own", IF ok THEN v ELSE 1 - v>>
<1>1. /\ v \in 0..1 /\ "own" \in TypOptions /\ "own" \in Options /\ mem \in [Procs -> Mems]
      /\ mem["dlg"].cfg \in Typs /\ k \in Options \X (0..1) /\ k[1] = "own" /\ (ok => k = <<"own", v>>)
  BY Flipped DEF TypOptions, Options
<1>2. /\ DlgIdle /\ Edits("dlg", "tsf", IF ok THEN {} ELSE {"refused"}) /\ Classic
      /\ mem' = [mem EXCEPT !["dlg"].cfg.own = v, !["dlg"].pick = k]
      /\ Run("dlg", (SyncToSharedState \o <<"choice">>) \o ClassicSaveToToml)
      /\ dlg' = [dlg EXCEPT !.dirty = FALSE]
      /\ ok => Wants("own", v)
      /\ ~ok => wanted' = wanted
      /\ UNCHANGED <<sc, file, sh, unseen, sub, note, work, hook, posted, engine, quit>>
  BY DEF ClassicTsfToggle
<1> HIDE DEF v, k
<1>3. Begins("dlg", {"sync", "choice", "save", "savesys", "bump"})
  BY <1>2, DialogScripts, HandlerRuns DEF Procs
<1>4. EditOf("dlg", IF ok THEN {} ELSE {"refused"}) /\ races' \subseteq Races
  <2>1. EditOf("dlg", IF ok THEN {} ELSE {"refused"})
    BY <1>2, EditsDo DEF UIs
  <2> QED
    BY <2>1 DEF EditOf, ConfigStates, Races
<1>5. ok => Chooses(<<"own", v>>)
  BY <1>1, <1>2, WantsChooses
<1>6. /\ mem' \in [Procs -> Mems] /\ OthersHold("dlg") /\ HoldsSame("dlg", {"cfg", "pick"})
      /\ mem'["dlg"].cfg = Chosen(mem["dlg"].cfg, <<"own", v>>) /\ mem'["dlg"].pick = k
  <2>1. Chosen(mem["dlg"].cfg, <<"own", v>>) \in Typs
        /\ Chosen(mem["dlg"].cfg, <<"own", v>>) = [mem["dlg"].cfg EXCEPT !["own"] = v]
    BY <1>1, ChosenParts
  <2>2. mem' = [mem EXCEPT !["dlg"].cfg = Chosen(mem["dlg"].cfg, <<"own", v>>), !["dlg"].pick = k]
    BY <1>1, <1>2, <2>1
  <2>3. mem["dlg"] \in Mems /\ "dlg" \in Procs
    BY <1>1 DEF Procs
  <2> DEFINE m == [mem["dlg"] EXCEPT !.cfg = Chosen(mem["dlg"].cfg, <<"own", v>>), !.pick = k]
  <2>4. /\ m \in Mems /\ m.cfg = Chosen(mem["dlg"].cfg, <<"own", v>>) /\ m.pick = k
        /\ \A x \in {"base", "sysc", "sbase", "snap"} : m[x] = mem["dlg"][x]
    BY ONLY <1>1, <2>1, <2>3 DEF Mems
  <2>5. mem' = [mem EXCEPT !["dlg"] = m]
    BY <1>1, <2>2, <2>3
  <2> HIDE DEF m
  <2> QED
    BY <1>1, <2>3, <2>4, <2>5 DEF OthersHold, HoldsSame
<1>7. ConfigStates'
  <2>1. dlg' \in [open : BOOLEAN, dirty : BOOLEAN, inbox : BOOLEAN]
    BY <1>2 DEF ConfigStates
  <2>2. wanted' \in Files
    BY <1>2, <1>5 DEF ConfigStates, Chooses
  <2> QED
    BY <1>2, <1>4, <1>6, <2>1, <2>2 DEF ConfigStates
<1> QED
  BY <1>1, <1>2, <1>3, <1>4, <1>5, <1>6, <1>7

\* The steps of a save of the Settings dialog.
SaveSteps == IF Classic THEN {"save", "savesys", "bump"} ELSE {"save", "bump"}

\* The Advanced spell check.
LEMMA AdvancedDoes ==
  ASSUME Jobs, ConfigStates, NEW ready \in BOOLEAN, HandleAdvancedLevel(ready)
  PROVE  \E v \in 0..1 :
           /\ DlgIdle /\ EditOf("dlg", {}) /\ OthersHold("dlg")
           /\ Begins("dlg", {"sync"} \cup SaveSteps \cup IF ready THEN {"end"} ELSE {})
           /\ ready => /\ Chooses(<<"opt", v>>) /\ HoldsSame("dlg", {"cfg"})
                       /\ mem'["dlg"].cfg = Chosen(mem["dlg"].cfg, <<"opt", v>>)
           /\ ~ready => UNCHANGED <<mem, wanted>>
           /\ dlg' = [dlg EXCEPT !.dirty = FALSE]
           /\ ConfigStates'
           /\ UNCHANGED <<sc, file, sh, unseen, sub, note, work, hook, posted, engine, quit>>
<1> DEFINE v == 1 - mem["dlg"].cfg.opt
<1>1. v \in 0..1 /\ "opt" \in TypOptions /\ "opt" \in Options /\ mem \in [Procs -> Mems] /\ mem["dlg"].cfg \in Typs
  BY Flipped DEF TypOptions, Options
<1>2. /\ DlgIdle /\ Edits("dlg", "adv", {})
      /\ dlg' = [dlg EXCEPT !.dirty = FALSE]
      /\ ready => /\ mem' = [mem EXCEPT !["dlg"].cfg.opt = v] /\ Wants("opt", v)
                  /\ Run("dlg", (SyncToSharedState \o SaveToToml) \o <<"end">>)
      /\ ~ready => Run("dlg", SyncToSharedState \o SaveToToml) /\ UNCHANGED <<mem, wanted>>
      /\ UNCHANGED <<sc, file, sh, unseen, sub, note, work, hook, posted, engine, quit>>
  BY DEF HandleAdvancedLevel
<1> HIDE DEF v
<1>3. Begins("dlg", {"sync"} \cup SaveSteps \cup IF ready THEN {"end"} ELSE {})
  <2>1. CASE Classic /\ ready
    <3>1. Begins("dlg", {"sync", "save", "savesys", "bump", "end"})
      BY <1>2, <2>1, DialogScripts, HandlerRuns DEF Procs, SaveToToml
    <3> QED
      BY <2>1, <3>1 DEF Begins, SaveSteps
  <2>2. CASE Classic /\ ~ready
    <3>1. Begins("dlg", {"sync", "save", "savesys", "bump"})
      BY <1>2, <2>2, DialogScripts, HandlerRuns DEF Procs, SaveToToml
    <3> QED
      BY <2>2, <3>1 DEF Begins, SaveSteps
  <2>3. CASE ~Classic /\ ready
    <3>1. Begins("dlg", {"sync", "save", "bump", "end"})
      BY <1>2, <2>3, DialogScripts, HandlerRuns DEF Procs, SaveToToml
    <3> QED
      BY <2>3, <3>1 DEF Begins, SaveSteps
  <2>4. CASE ~Classic /\ ~ready
    <3>1. Begins("dlg", {"sync", "save", "bump"})
      BY <1>2, <2>4, DialogScripts, HandlerRuns DEF Procs, SaveToToml
    <3> QED
      BY <2>4, <3>1 DEF Begins, SaveSteps
  <2> QED
    BY <2>1, <2>2, <2>3, <2>4
<1>4. EditOf("dlg", {}) /\ races' \subseteq Races
  <2>1. EditOf("dlg", {})
    BY <1>2, EditsDo DEF UIs
  <2> QED
    BY <2>1 DEF EditOf, ConfigStates, Races
<1>5. ready => Chooses(<<"opt", v>>)
  BY <1>1, <1>2, WantsChooses
<1>6. /\ mem' \in [Procs -> Mems] /\ OthersHold("dlg")
      /\ ready => /\ HoldsSame("dlg", {"cfg"})
                  /\ mem'["dlg"].cfg = Chosen(mem["dlg"].cfg, <<"opt", v>>)
  <2>1. CASE ready
    <3>1. Chosen(mem["dlg"].cfg, <<"opt", v>>) \in Typs
          /\ Chosen(mem["dlg"].cfg, <<"opt", v>>) = [mem["dlg"].cfg EXCEPT !["opt"] = v]
      BY <1>1, ChosenParts
    <3>2. mem' = [mem EXCEPT !["dlg"].cfg = Chosen(mem["dlg"].cfg, <<"opt", v>>)]
      BY <1>1, <1>2, <2>1, <3>1
    <3> QED
      BY <1>1, <2>1, <3>1, <3>2, Held1 DEF Procs
  <2>2. CASE ~ready
    BY <1>1, <1>2, <2>2 DEF OthersHold
  <2> QED
    BY <2>1, <2>2
<1>7. ConfigStates'
  <2>1. dlg' \in [open : BOOLEAN, dirty : BOOLEAN, inbox : BOOLEAN]
    BY <1>2 DEF ConfigStates
  <2>2. wanted' \in Files
    BY <1>2, <1>5 DEF ConfigStates, Chooses
  <2> QED
    BY <1>2, <1>4, <1>6, <2>1, <2>2 DEF ConfigStates
<1> QED
  BY <1>1, <1>2, <1>3, <1>4, <1>5, <1>6, <1>7

\* The dialog's timer, and the buttons that open another dialog.
LEMMA DeferredSaveDoes ==
  ASSUME Jobs, ConfigStates, DeferredSave
  PROVE  /\ DlgIdle /\ dlg.dirty /\ dlg' = [dlg EXCEPT !.dirty = FALSE]
         /\ Begins("dlg", SaveSteps) /\ ConfigStates'
         /\ UNCHANGED <<sc, file, sh, unseen, mem, sub, note, work, hook, posted, engine, quit, used, wanted, races>>
<1>1. Begins("dlg", SaveSteps)
  <2>1. CASE Classic
    <3>1. Run("dlg", ClassicSaveToToml)
      BY <2>1 DEF DeferredSave, SaveToToml
    <3> QED
      BY <2>1, <3>1, DialogScripts, HandlerRuns DEF Procs, SaveSteps
  <2>2. CASE ~Classic
    <3>1. Run("dlg", SettingsSaveToToml)
      BY <2>2 DEF DeferredSave, SaveToToml
    <3> QED
      BY <2>2, <3>1, DialogScripts, HandlerRuns DEF Procs, SaveSteps
  <2> QED
    BY <2>1, <2>2
<1>2. /\ DlgIdle /\ dlg.dirty /\ dlg' = [dlg EXCEPT !.dirty = FALSE]
      /\ UNCHANGED <<sc, file, sh, unseen, mem, sub, note, work, hook, posted, engine, quit, used, wanted, races>>
  BY DEF DeferredSave
<1>3. dlg' \in [open : BOOLEAN, dirty : BOOLEAN, inbox : BOOLEAN]
  BY <1>2 DEF ConfigStates
<1>4. ConfigStates'
  BY <1>2, <1>3 DEF ConfigStates
<1> QED
  BY <1>1, <1>2, <1>4

\* A dialog is opened from Settings; only the new dialog saves first.
LEMMA OpenFromSettingsDoes ==
  ASSUME Jobs, ConfigStates, OpenFromSettings
  PROVE  /\ DlgIdle
         /\ dlg' = IF Classic THEN dlg ELSE [dlg EXCEPT !.dirty = FALSE]
         /\ Begins("dlg", IF dlg.dirty /\ ~Classic THEN {"save", "bump", "spawn"} ELSE {"spawn"})
         /\ ConfigStates'
         /\ UNCHANGED <<sc, file, sh, unseen, mem, sub, note, work, hook, posted, engine, quit, used, wanted, races>>
<1>1. Begins("dlg", IF dlg.dirty /\ ~Classic THEN {"save", "bump", "spawn"} ELSE {"spawn"})
  <2>1. CASE dlg.dirty /\ ~Classic
    <3>1. Run("dlg", SettingsSaveToToml \o <<"spawn">>)
      BY <2>1 DEF OpenFromSettings, FlushBeforeSpawn
    <3> QED
      BY <2>1, <3>1, DialogScripts, HandlerRuns DEF Procs
  <2>2. CASE ~(dlg.dirty /\ ~Classic)
    <3>1. Run("dlg", <<>> \o <<"spawn">>)
      BY <2>2 DEF OpenFromSettings, FlushBeforeSpawn
    <3> QED
      BY <2>2, <3>1, DialogScripts, HandlerRuns DEF Procs
  <2> QED
    BY <2>1, <2>2
<1>2. /\ DlgIdle /\ dlg' = IF Classic THEN dlg ELSE [dlg EXCEPT !.dirty = FALSE]
      /\ UNCHANGED <<sc, file, sh, unseen, mem, sub, note, work, hook, posted, engine, quit, used, wanted, races>>
  BY DEF OpenFromSettings
<1>3. dlg' \in [open : BOOLEAN, dirty : BOOLEAN, inbox : BOOLEAN]
  BY <1>2 DEF ConfigStates
<1>4. ConfigStates'
  BY <1>2, <1>3 DEF ConfigStates
<1> QED
  BY <1>1, <1>2, <1>4

\* WM_CLOSE: the other dialog is ended where it is.
LEMMA OnCloseDoes ==
  ASSUME Jobs, ConfigStates, OnClose
  PROVE  /\ DlgIdle /\ dlg' = [dlg EXCEPT !.dirty = FALSE] /\ Jobs'
         /\ Left("dlg")' = (IF dlg.dirty THEN SaveSteps ELSE {}) \cup {"close"}
         /\ Left("sub")' = {} /\ job'["sub"] = <<>>
         /\ \A q \in {"menu", "worker"} : job'[q] = job[q] /\ Left(q)' = Left(q)
         /\ races' = IF job["sub"] # <<>> THEN races \cup {"killed"} ELSE races
         /\ ConfigStates'
         /\ UNCHANGED <<sc, file, sh, unseen, mem, note, work, hook, posted, engine, quit, used, wanted>>
<1> DEFINE j == (IF dlg.dirty THEN SaveToToml ELSE <<>>) \o <<"close">>
<1>1. Script("dlg", j) /\ LeftOf(j) = (IF dlg.dirty THEN SaveSteps ELSE {}) \cup {"close"}
  <2>1. CASE dlg.dirty /\ Classic
    <3>1. j = ClassicSaveToToml \o <<"close">>
      BY <2>1 DEF SaveToToml
    <3> QED
      BY <2>1, <3>1, DialogScripts DEF Runs, SaveSteps
  <2>2. CASE dlg.dirty /\ ~Classic
    <3>1. j = SettingsSaveToToml \o <<"close">>
      BY <2>2 DEF SaveToToml
    <3> QED
      BY <2>2, <3>1, DialogScripts DEF Runs, SaveSteps
  <2>3. CASE ~dlg.dirty
    <3>1. j = <<>> \o <<"close">>
      BY <2>3
    <3> QED
      BY <2>3, <3>1, DialogScripts DEF Runs
  <2> QED
    BY <2>1, <2>2, <2>3
<1>2. /\ DlgIdle /\ dlg' = [dlg EXCEPT !.dirty = FALSE]
      /\ job' = [job EXCEPT !["sub"] = <<>>, !["dlg"] = j]
      /\ races' = IF job["sub"] # <<>> THEN races \cup {"killed"} ELSE races
      /\ UNCHANGED <<sc, file, sh, unseen, mem, note, work, hook, posted, engine, quit, used, wanted>>
  BY DEF OnClose, Race
<1> HIDE DEF j
<1>3. Script("sub", <<>>) /\ LeftOf(<<>>) = {} /\ <<>> \in Seq(Steps)
  <2>1. <<>> \in Seq(Steps) /\ Len(<<>>) = 0
    OBVIOUS
  <2> QED
    BY <2>1 DEF Script, LeftOf
<1>4. job \in [Procs -> Seq(Steps)] /\ j \in Seq(Steps) /\ \A q \in Procs : Script(q, job[q])
  BY <1>1 DEF Jobs, Script
<1>5. /\ job'["dlg"] = j /\ job'["sub"] = <<>> /\ job' \in [Procs -> Seq(Steps)]
      /\ \A q \in {"menu", "worker"} : job'[q] = job[q]
  BY <1>2, <1>3, <1>4 DEF Procs
<1>6. Jobs'
  BY <1>1, <1>3, <1>4, <1>5 DEF Jobs, Procs
<1>7. ConfigStates'
  <2>1. dlg' \in [open : BOOLEAN, dirty : BOOLEAN, inbox : BOOLEAN]
    BY <1>2 DEF ConfigStates
  <2>2. races' \in SUBSET Races
    BY <1>2 DEF ConfigStates, Races
  <2> QED
    BY <1>2, <2>1, <2>2 DEF ConfigStates
<1> QED
  BY <1>1, <1>2, <1>3, <1>5, <1>6, <1>7 DEF Left

\* WM_VKEY_CONFIG_CHANGED, and the classic dialog when another one closes.
LEMMA OnConfigChangedDoes ==
  ASSUME ConfigStates, OnConfigChanged
  PROVE  /\ DlgIdle /\ FileLoads /\ dlg' = [dlg EXCEPT !.inbox = FALSE]
         /\ races' = IF dlg.dirty THEN races \cup {"undone"} ELSE races
         /\ ConfigStates'
         /\ UNCHANGED <<sc, file, sh, unseen, job, sub, note, work, hook, posted, engine, quit, used, wanted>>
<1>1. /\ DlgIdle /\ dlg' = [dlg EXCEPT !.inbox = FALSE]
      /\ races' = IF dlg.dirty THEN races \cup {"undone"} ELSE races
      /\ UNCHANGED <<sc, file, sh, unseen, job, sub, note, work, hook, posted, engine, quit, used, wanted>>
  BY DEF OnConfigChanged, Race
<1>2. FileLoads /\ mem' \in [Procs -> Mems]
  BY LoadedLoads DEF OnConfigChanged
<1>3. ConfigStates'
  <2>1. dlg' \in [open : BOOLEAN, dirty : BOOLEAN, inbox : BOOLEAN]
    BY <1>1 DEF ConfigStates
  <2>2. races' \in SUBSET Races
    BY <1>1 DEF ConfigStates, Races
  <2> QED
    BY <1>1, <1>2, <2>1, <2>2 DEF ConfigStates
<1> QED
  BY <1>1, <1>2, <1>3

\* The other dialog closes; the classic Settings may load the file over its edits.
LEMMA CloseSubDoes ==
  ASSUME ConfigStates, CloseSub
  PROVE  /\ SubIdle
         /\ \/ mem' = mem /\ races' = races
            \/ FileLoads /\ Classic /\ races' = IF dlg.dirty THEN races \cup {"undone"} ELSE races
         /\ ConfigStates'
         /\ UNCHANGED <<sc, file, sh, unseen, job, dlg, note, work, hook, posted, engine, quit, used, wanted>>
<1>1. /\ SubIdle
      /\ UNCHANGED <<sc, file, sh, unseen, job, dlg, note, work, hook, posted, engine, quit, used, wanted>>
  BY DEF CloseSub
<1>2. \/ mem' = mem /\ races' = races
      \/ /\ FileLoads /\ Classic /\ mem' \in [Procs -> Mems]
         /\ races' = IF dlg.dirty THEN races \cup {"undone"} ELSE races
  <2>1. CASE Classic /\ "reload" \in sc.acts
    <3>1. /\ mem' = [mem EXCEPT !["dlg"] = Loaded(@)]
          /\ races' = IF dlg.dirty THEN races \cup {"undone"} ELSE races
      BY <2>1 DEF CloseSub, Race
    <3> QED
      BY <2>1, <3>1, LoadedLoads
  <2>2. CASE ~(Classic /\ "reload" \in sc.acts)
    BY <2>2 DEF CloseSub, Race
  <2> QED
    BY <2>1, <2>2
<1>3. ConfigStates'
  <2>1. races' \in SUBSET Races /\ mem' \in [Procs -> Mems]
    BY <1>2 DEF ConfigStates, Races
  <2> QED
    BY <1>1, <2>1 DEF ConfigStates
<1> QED
  BY <1>1, <1>2, <1>3

\* An edit in another dialog, a command of the tray menu.
LEMMA SubEditDoes ==
  ASSUME Jobs, ConfigStates, SubEdit
  PROVE  /\ SubIdle /\ EditOf("sub", {}) /\ Begins("sub", {"load", "save", "bump", "wake"})
         /\ OthersHold("sub") /\ HoldsSame("sub", {"pick"}) /\ Chooses(mem'["sub"].pick)
         /\ mem'["sub"].pick[1] = "own" /\ ConfigStates'
         /\ UNCHANGED <<sc, file, sh, unseen, dlg, sub, note, work, hook, posted, engine, quit>>
<1> DEFINE v == 1 - file.own
<1>1. v \in 0..1 /\ "own" \in Options /\ mem \in [Procs -> Mems] /\ "sub" \in Procs /\ "sub" \in UIs
      /\ <<"own", v>> \in Options \X (0..1)
  BY Flipped DEF TypOptions, Options, Procs, UIs
<1>2. /\ SubIdle /\ Edits("sub", "own", {}) /\ mem' = [mem EXCEPT !["sub"].pick = <<"own", v>>]
      /\ Run("sub", <<"load", "save">> \o SignalConfigChange) /\ Wants("own", v)
      /\ UNCHANGED <<sc, file, sh, unseen, dlg, sub, note, work, hook, posted, engine, quit>>
  BY DEF SubEdit, PersistAndSignal
<1> HIDE DEF v
<1>3. Begins("sub", {"load", "save", "bump", "wake"})
  BY <1>1, <1>2, SubScripts, HandlerRuns
<1>4. EditOf("sub", {}) /\ races' \subseteq Races
  <2>1. EditOf("sub", {})
    BY <1>1, <1>2, EditsDo
  <2> QED
    BY <2>1 DEF EditOf, ConfigStates, Races
<1>5. Chooses(<<"own", v>>)
  BY <1>1, <1>2, WantsChooses
<1>6. /\ mem' \in [Procs -> Mems] /\ OthersHold("sub") /\ HoldsSame("sub", {"pick"})
      /\ mem'["sub"].pick = <<"own", v>>
  BY ONLY <1>1, <1>2, Held1
<1>7. ConfigStates'
  BY <1>2, <1>4, <1>5, <1>6 DEF ConfigStates, Chooses
<1> QED
  BY <1>2, <1>3, <1>4, <1>5, <1>6, <1>7

\* A choice in the tray menu begins one of its three handlers.
LEMMA MenuCommandDoes ==
  ASSUME Jobs, ConfigStates, NEW act, NEW x \in Options, NEW j, NEW n, NEW steps,
         Runs("menu", j, n, steps), OnMenuCommand(act, x, j)
  PROVE  /\ job["menu"] = <<>> /\ ~quit /\ act \in sc.acts
         /\ EditOf("menu", IF x = "table" /\ sh.table # LastTable THEN {"table"} ELSE {})
         /\ Begins("menu", steps)
         /\ OthersHold("menu") /\ HoldsSame("menu", {"pick"}) /\ Chooses(mem'["menu"].pick)
         /\ mem'["menu"].pick[1] = x /\ mem'["menu"].pick = <<x, wanted'[x]>> /\ ConfigStates'
         /\ UNCHANGED <<sc, file, sh, unseen, dlg, sub, note, work, hook, posted, engine, quit>>
<1> DEFINE v == 1 - file[x]
<1> DEFINE o == IF x = "table" /\ sh.table # LastTable THEN {"table"} ELSE {}
<1>1. v \in 0..1 /\ mem \in [Procs -> Mems] /\ "menu" \in Procs /\ "menu" \in UIs
      /\ <<x, v>> \in Options \X (0..1) /\ wanted \in Files
  BY Flipped DEF Procs, UIs, ConfigStates
<1>2. /\ job["menu"] = <<>> /\ ~quit /\ Edits("menu", act, o)
      /\ mem' = [mem EXCEPT !["menu"].pick = <<x, v>>]
      /\ Run("menu", j) /\ Wants(x, v)
      /\ UNCHANGED <<sc, file, sh, unseen, dlg, sub, note, work, hook, posted, engine, quit>>
  BY DEF OnMenuCommand
<1> HIDE DEF v
<1>3. Begins("menu", steps)
  BY <1>1, <1>2, HandlerRuns
<1>4. EditOf("menu", o) /\ races' \subseteq Races /\ act \in sc.acts
  <2>1. EditOf("menu", o) /\ act \in sc.acts
    BY <1>1, <1>2, EditsDo
  <2> QED
    BY <2>1 DEF EditOf, ConfigStates, Races
<1>5. Chooses(<<x, v>>) /\ wanted'[x] = v
  BY <1>1, <1>2, WantsChooses DEF Files
<1>6. /\ mem' \in [Procs -> Mems] /\ OthersHold("menu") /\ HoldsSame("menu", {"pick"})
      /\ mem'["menu"].pick = <<x, v>>
  BY ONLY <1>1, <1>2, Held1
<1>7. ConfigStates'
  BY <1>2, <1>4, <1>5, <1>6 DEF ConfigStates, Chooses
<1> QED
  BY <1>2, <1>3, <1>4, <1>5, <1>6, <1>7

\* The messages, the dialog that opens and the dialog that ends.
LEMMA MessageStepsDo ==
  ASSUME Jobs, ConfigStates
  PROVE  /\ \A p \in UIs :
              /\ PostHookReload(p) => /\ Takes(p, "wake") /\ ConfigStates'
                   /\ UNCHANGED <<sc, file, sh, unseen, mem, dlg, sub, work, hook, posted, engine, quit, used, wanted, races>>
              /\ SpawnSub(p) => /\ Takes(p, "spawn") /\ ConfigStates'
                   /\ UNCHANGED <<sc, file, sh, unseen, mem, dlg, note, work, hook, posted, engine, quit, used, wanted, races>>
         /\ PostConfigChanged => /\ Takes("menu", "post") /\ ConfigStates' /\ dlg' = [dlg EXCEPT !.inbox = @ \/ dlg.open]
                   /\ UNCHANGED <<sc, file, sh, unseen, mem, sub, note, work, hook, posted, engine, quit, used, wanted, races>>
         /\ DestroyDialog => /\ Takes("dlg", "close") \/ Takes("dlg", "end")
                   /\ dlg' = [open |-> FALSE, dirty |-> FALSE, inbox |-> FALSE] /\ ConfigStates'
                   /\ UNCHANGED <<sc, file, sh, unseen, mem, sub, note, work, hook, posted, engine, used, wanted, races>>
<1>1. ASSUME NEW p \in UIs, PostHookReload(p)
      PROVE  /\ Takes(p, "wake") /\ ConfigStates'
             /\ UNCHANGED <<sc, file, sh, unseen, mem, dlg, sub, work, hook, posted, engine, quit, used, wanted, races>>
  <2>1. AtStep(p, "wake") /\ Done(p) /\ p \in Procs
    BY <1>1 DEF PostHookReload, UIs, Procs
  <2>2. UNCHANGED <<sc, file, sh, unseen, mem, dlg, sub, work, hook, posted, engine, quit, used, wanted, races>>
    BY <1>1 DEF PostHookReload
  <2> QED
    BY <2>1, <2>2, StepDone DEF ConfigStates
<1>2. ASSUME NEW p \in UIs, SpawnSub(p)
      PROVE  /\ Takes(p, "spawn") /\ ConfigStates'
             /\ UNCHANGED <<sc, file, sh, unseen, mem, dlg, note, work, hook, posted, engine, quit, used, wanted, races>>
  <2>1. AtStep(p, "spawn") /\ Done(p) /\ p \in Procs
    BY <1>2 DEF SpawnSub, UIs, Procs
  <2>2. UNCHANGED <<sc, file, sh, unseen, mem, dlg, note, work, hook, posted, engine, quit, used, wanted, races>>
    BY <1>2 DEF SpawnSub
  <2> QED
    BY <2>1, <2>2, StepDone DEF ConfigStates
<1>3. ASSUME PostConfigChanged
      PROVE  /\ Takes("menu", "post") /\ ConfigStates' /\ dlg' = [dlg EXCEPT !.inbox = @ \/ dlg.open]
             /\ UNCHANGED <<sc, file, sh, unseen, mem, sub, note, work, hook, posted, engine, quit, used, wanted, races>>
  <2>1. AtStep("menu", "post") /\ Done("menu") /\ "menu" \in Procs
    BY <1>3 DEF PostConfigChanged, Procs
  <2>2. /\ dlg' = [dlg EXCEPT !.inbox = @ \/ dlg.open]
        /\ UNCHANGED <<sc, file, sh, unseen, mem, sub, note, work, hook, posted, engine, quit, used, wanted, races>>
    BY <1>3 DEF PostConfigChanged
  <2>3. dlg' \in [open : BOOLEAN, dirty : BOOLEAN, inbox : BOOLEAN]
    <3> DEFINE b == dlg.inbox \/ dlg.open
    <3>1. b \in BOOLEAN /\ dlg' = [dlg EXCEPT !.inbox = b]
      BY <2>2
    <3> HIDE DEF b
    <3> QED
      BY <3>1 DEF ConfigStates
  <2> QED
    BY <2>1, <2>2, <2>3, StepDone DEF ConfigStates
<1>4. ASSUME DestroyDialog
      PROVE  /\ Takes("dlg", "close") \/ Takes("dlg", "end")
             /\ dlg' = [open |-> FALSE, dirty |-> FALSE, inbox |-> FALSE] /\ ConfigStates'
             /\ UNCHANGED <<sc, file, sh, unseen, mem, sub, note, work, hook, posted, engine, used, wanted, races>>
  <2>1. (AtStep("dlg", "close") \/ AtStep("dlg", "end")) /\ Done("dlg") /\ "dlg" \in Procs
    BY <1>4 DEF DestroyDialog, Procs
  <2>2. /\ dlg' = [open |-> FALSE, dirty |-> FALSE, inbox |-> FALSE]
        /\ UNCHANGED <<sc, file, sh, unseen, mem, sub, note, work, hook, posted, engine, used, wanted, races>>
    BY <1>4 DEF DestroyDialog, Closed
  <2>3. Takes("dlg", "close") \/ Takes("dlg", "end")
    BY <2>1, StepDone
  <2>4. ConfigStates'
    BY <2>2 DEF ConfigStates
  <2> QED
    BY <2>2, <2>3, <2>4
<1> QED
  BY <1>1, <1>2, <1>3, <1>4

\* The code table of the tray menu in the hook; the choice of a refused toggle.
LEMMA SetCodeTableDoes ==
  ASSUME Jobs, ConfigStates, SetCodeTable
  PROVE  /\ Takes("menu", "hooktable") /\ hook' = [hook EXCEPT !.table = mem["menu"].pick[2]]
         /\ ConfigStates'
         /\ UNCHANGED <<sc, file, sh, unseen, mem, dlg, sub, note, work, posted, engine, quit, used, wanted, races>>
<1>1. AtStep("menu", "hooktable") /\ Done("menu") /\ "menu" \in Procs
  BY DEF SetCodeTable, Procs
<1>2. /\ hook' = [hook EXCEPT !.table = mem["menu"].pick[2]]
      /\ UNCHANGED <<sc, file, sh, unseen, mem, dlg, sub, note, work, posted, engine, quit, used, wanted, races>>
  BY DEF SetCodeTable
<1>3. mem["menu"].pick[2] \in 0..1 /\ hook \in Hooks
  BY <1>1 DEF ConfigStates, Mems
<1>4. hook' \in Hooks
  BY ONLY <1>2, <1>3 DEF Hooks
<1>5. ConfigStates'
  BY <1>2, <1>4 DEF ConfigStates
<1> QED
  BY <1>1, <1>2, <1>5, StepDone

\* The choice is put into the copy of the dialog (ClassicTsfToggle).
LEMMA TakeChoiceDoes ==
  ASSUME Jobs, ConfigStates, TakeChoice
  PROVE  /\ Takes("dlg", "choice") /\ OthersHold("dlg") /\ HoldsSame("dlg", {"cfg"})
         /\ mem'["dlg"].cfg = Chosen(mem["dlg"].cfg, mem["dlg"].pick) /\ ConfigStates'
         /\ UNCHANGED <<sc, file, sh, unseen, dlg, sub, note, work, hook, posted, engine, quit, used, wanted, races>>
<1>1. AtStep("dlg", "choice") /\ Done("dlg") /\ "dlg" \in Procs
  BY DEF TakeChoice, Procs
<1>2. UNCHANGED <<sc, file, sh, unseen, dlg, sub, note, work, hook, posted, engine, quit, used, wanted, races>>
  BY DEF TakeChoice
<1>3. mem["dlg"].cfg \in Typs /\ mem["dlg"].pick \in Options \X (0..1) /\ mem \in [Procs -> Mems]
  BY <1>1 DEF ConfigStates, Mems
<1>4. Chosen(mem["dlg"].cfg, mem["dlg"].pick) \in Typs
  BY <1>3, ChosenParts
<1>5. mem' = [mem EXCEPT !["dlg"].cfg = Chosen(mem["dlg"].cfg, mem["dlg"].pick)]
  BY DEF TakeChoice
<1>6. /\ mem' \in [Procs -> Mems] /\ OthersHold("dlg") /\ HoldsSame("dlg", {"cfg"})
      /\ mem'["dlg"].cfg = Chosen(mem["dlg"].cfg, mem["dlg"].pick)
  BY ONLY <1>1, <1>3, <1>4, <1>5, Held1
<1>7. ConfigStates'
  BY <1>2, <1>6 DEF ConfigStates
<1> QED
  BY <1>1, <1>2, <1>6, <1>7, StepDone

\* QuickSync on the worker: the epoch is claimed, or there is none.
LEMMA QuickSyncDoes ==
  ASSUME Jobs, ConfigStates, QuickSync
  PROVE  /\ job["worker"] = <<>> /\ ConfigStates'
         /\ \/ ~unseen /\ UNCHANGED <<unseen, mem, hook, job>>
            \/ /\ unseen' = FALSE /\ OthersHold("worker") /\ HoldsSame("worker", {"snap"})
               /\ mem'["worker"].snap = sh /\ hook' = [hook EXCEPT !.gen = sh.gen]
               /\ Begins("worker", IF sh.gen # hook.gen THEN {"rload", "rapply", "rsnap", "compare"} ELSE {"compare"})
               /\ job'["worker"] # <<>>
         /\ UNCHANGED <<sc, file, sh, dlg, sub, note, posted, engine, quit, used, wanted, races>>
<1>1. /\ job["worker"] = <<>>
      /\ UNCHANGED <<sc, file, sh, dlg, sub, note, posted, engine, quit, used, wanted, races>>
  BY DEF QuickSync
<1>2. CASE ~unseen
  <2>1. UNCHANGED <<unseen, mem, hook, job>>
    BY <1>2 DEF QuickSync
  <2>2. ConfigStates'
    BY <1>1, <2>1 DEF ConfigStates
  <2> QED
    BY <1>1, <1>2, <2>1, <2>2
<1>3. CASE unseen
  <2> DEFINE j == IF sh.gen # hook.gen THEN <<"rload", "rapply", "rsnap", "compare">> ELSE <<"compare">>
  <2>1. /\ unseen' = FALSE /\ mem' = [mem EXCEPT !["worker"].snap = sh]
        /\ hook' = [hook EXCEPT !.gen = sh.gen] /\ Run("worker", j)
    BY <1>3 DEF QuickSync
  <2>2. mem \in [Procs -> Mems] /\ "worker" \in Procs /\ sh \in Shs /\ hook \in Hooks
    BY DEF ConfigStates, Procs
  <2>3. /\ mem' \in [Procs -> Mems] /\ OthersHold("worker") /\ HoldsSame("worker", {"snap"})
        /\ mem'["worker"].snap = sh
    BY ONLY <2>1, <2>2, Held1
  <2>4. hook' \in Hooks
    BY ONLY <2>1, <2>2 DEF Hooks, Shs
  <2>5. /\ Begins("worker", IF sh.gen # hook.gen THEN {"rload", "rapply", "rsnap", "compare"} ELSE {"compare"})
        /\ job'["worker"] = j
    <3>1. CASE sh.gen # hook.gen
      BY <2>1, <2>2, <3>1, WorkerScripts, HandlerRuns
    <3>2. CASE ~(sh.gen # hook.gen)
      BY <2>1, <2>2, <3>2, WorkerScripts, HandlerRuns
    <3> QED
      BY <3>1, <3>2
  <2>6. j # <<>>
    <3>1. Len(j) > 0 /\ Len(<<>>) = 0
      OBVIOUS
    <3> QED
      BY <3>1
  <2>7. ConfigStates'
    BY <1>1, <2>3, <2>4 DEF ConfigStates
  <2> HIDE DEF j
  <2> QED
    BY <1>1, <2>1, <2>3, <2>5, <2>6, <2>7
<1> QED
  BY <1>2, <1>3

\* ReloadFromToml
LEMMA ReloadsDo ==
  ASSUME Jobs, ConfigStates
  PROVE  /\ ReloadLoad => /\ Takes("worker", "rload") /\ OthersHold("worker") /\ HoldsSame("worker", {"cfg"})
              /\ mem'["worker"].cfg = Typing(file) /\ ConfigStates'
              /\ UNCHANGED <<sc, file, sh, unseen, dlg, sub, note, work, hook, posted, engine, quit, used, wanted, races>>
         /\ ReloadFromToml => /\ Takes("worker", "rapply") /\ ConfigStates'
              /\ hook' = [hook EXCEPT !.opt = sh.opt, !.table = mem["worker"].cfg.table, !.own = mem["worker"].cfg.own]
              /\ UNCHANGED <<sc, file, sh, unseen, mem, dlg, sub, note, work, posted, engine, quit, used, wanted, races>>
         /\ RebuildSnapshotFromToml => /\ Takes("worker", "rsnap") /\ ConfigStates'
              /\ hook' = [hook EXCEPT !.snap = file.own] /\ posted' = TRUE
              /\ UNCHANGED <<sc, file, sh, unseen, mem, dlg, sub, note, work, engine, quit, used, wanted, races>>
<1>1. /\ "worker" \in Procs /\ mem \in [Procs -> Mems] /\ Typing(file) \in Typs /\ hook \in Hooks /\ sh \in Shs
      /\ mem["worker"].cfg \in Typs /\ file \in Files
  BY ConfigurationParts DEF ConfigStates, Procs, Mems
<1>2. ASSUME ReloadLoad
      PROVE  /\ Takes("worker", "rload") /\ OthersHold("worker") /\ HoldsSame("worker", {"cfg"})
             /\ mem'["worker"].cfg = Typing(file) /\ ConfigStates'
             /\ UNCHANGED <<sc, file, sh, unseen, dlg, sub, note, work, hook, posted, engine, quit, used, wanted, races>>
  <2>1. /\ AtStep("worker", "rload") /\ Done("worker") /\ mem' = [mem EXCEPT !["worker"].cfg = Typing(file)]
        /\ UNCHANGED <<sc, file, sh, unseen, dlg, sub, note, work, hook, posted, engine, quit, used, wanted, races>>
    BY <1>2 DEF ReloadLoad
  <2>2. /\ mem' \in [Procs -> Mems] /\ OthersHold("worker") /\ HoldsSame("worker", {"cfg"})
        /\ mem'["worker"].cfg = Typing(file)
    BY ONLY <1>1, <2>1, Held1
  <2>3. ConfigStates'
    BY <2>1, <2>2 DEF ConfigStates
  <2> QED
    BY <1>1, <2>1, <2>2, <2>3, StepDone
<1>3. ASSUME ReloadFromToml
      PROVE  /\ Takes("worker", "rapply") /\ ConfigStates'
             /\ hook' = [hook EXCEPT !.opt = sh.opt, !.table = mem["worker"].cfg.table, !.own = mem["worker"].cfg.own]
             /\ UNCHANGED <<sc, file, sh, unseen, mem, dlg, sub, note, work, posted, engine, quit, used, wanted, races>>
  <2>1. /\ AtStep("worker", "rapply") /\ Done("worker")
        /\ hook' = With(hook, [mem["worker"].cfg EXCEPT !.opt = sh.opt])
        /\ UNCHANGED <<sc, file, sh, unseen, mem, dlg, sub, note, work, posted, engine, quit, used, wanted, races>>
    BY <1>3 DEF ReloadFromToml
  <2>2. hook' = [hook EXCEPT !.opt = sh.opt, !.table = mem["worker"].cfg.table, !.own = mem["worker"].cfg.own]
    BY <1>1, <2>1, ReloadedHook
  <2>3. sh.opt \in 0..1 /\ mem["worker"].cfg.table \in 0..1 /\ mem["worker"].cfg.own \in 0..1
    BY <1>1 DEF Shs, Typs, TypOptions
  <2>4. hook' \in Hooks
    BY ONLY <1>1, <2>2, <2>3 DEF Hooks
  <2>5. ConfigStates'
    BY <2>1, <2>4 DEF ConfigStates
  <2> QED
    BY <1>1, <2>1, <2>2, <2>5, StepDone
<1>4. ASSUME RebuildSnapshotFromToml
      PROVE  /\ Takes("worker", "rsnap") /\ ConfigStates'
             /\ hook' = [hook EXCEPT !.snap = file.own] /\ posted' = TRUE
             /\ UNCHANGED <<sc, file, sh, unseen, mem, dlg, sub, note, work, engine, quit, used, wanted, races>>
  <2>1. /\ AtStep("worker", "rsnap") /\ Done("worker")
        /\ hook' = [hook EXCEPT !.snap = file.own] /\ posted' = TRUE
        /\ UNCHANGED <<sc, file, sh, unseen, mem, dlg, sub, note, work, engine, quit, used, wanted, races>>
    BY <1>4 DEF RebuildSnapshotFromToml
  <2>2. file.own \in 0..1
    BY <1>1 DEF Files, Options, TypOptions
  <2>3. hook' \in Hooks
    BY ONLY <1>1, <2>1, <2>2 DEF Hooks
  <2>4. ConfigStates'
    BY <2>1, <2>3 DEF ConfigStates
  <2> QED
    BY <1>1, <2>1, <2>4, StepDone
<1> QED
  BY <1>2, <1>3, <1>4

\* The rest of QuickSync.
LEMMA CompareDoes ==
  ASSUME Jobs, ConfigStates, CompareFields
  PROVE  /\ Takes("worker", "compare") /\ ConfigStates'
         /\ hook'.lopt = mem["worker"].snap.opt /\ hook'.ltable = mem["worker"].snap.table
         /\ hook'.own = hook.own /\ hook'.snap = hook.snap /\ hook'.gen = hook.gen
         /\ IF mem["worker"].snap.opt = hook.lopt /\ mem["worker"].snap.table = hook.ltable
            THEN hook' = hook
            ELSE hook'.opt = mem["worker"].snap.opt /\ hook'.table = mem["worker"].snap.table
         /\ UNCHANGED <<sc, file, sh, unseen, mem, dlg, sub, note, work, posted, engine, quit, used, wanted, races>>
<1> DEFINE z == mem["worker"].snap
<1>1. "worker" \in Procs /\ z \in Shs /\ hook \in Hooks
  BY DEF ConfigStates, Procs, Mems
<1>2. /\ AtStep("worker", "compare") /\ Done("worker")
      /\ hook' = IF z.opt = hook.lopt /\ z.table = hook.ltable THEN hook
                 ELSE [hook EXCEPT !.lopt = z.opt, !.ltable = z.table, !.opt = z.opt, !.table = z.table]
      /\ UNCHANGED <<sc, file, sh, unseen, mem, dlg, sub, note, work, posted, engine, quit, used, wanted, races>>
  BY DEF CompareFields
<1> HIDE DEF z
<1>3. /\ hook'.lopt = z.opt /\ hook'.ltable = z.table
      /\ hook'.own = hook.own /\ hook'.snap = hook.snap /\ hook'.gen = hook.gen /\ hook' \in Hooks
      /\ IF z.opt = hook.lopt /\ z.table = hook.ltable
         THEN hook' = hook ELSE hook'.opt = z.opt /\ hook'.table = z.table
  BY ONLY <1>1, <1>2 DEF Hooks, Shs
<1>4. ConfigStates'
  BY <1>2, <1>3 DEF ConfigStates
<1>5. Takes("worker", "compare")
  BY <1>1, <1>2, StepDone
<1> QED
  BY <1>2, <1>3, <1>4, <1>5 DEF z

\* The hook thread, and a new main process.
LEMMA ApplyDoes ==
  ASSUME ConfigStates, ApplyConfigOnHookThread
  PROVE  /\ posted' = FALSE /\ engine' = [opt |-> hook.opt, own |-> hook.own] /\ ConfigStates'
         /\ UNCHANGED <<sc, file, sh, unseen, mem, job, dlg, sub, note, work, hook, quit, used, wanted, races>>
<1>1. /\ posted' = FALSE /\ engine' = [opt |-> hook.opt, own |-> hook.own]
      /\ UNCHANGED <<sc, file, sh, unseen, mem, job, dlg, sub, note, work, hook, quit, used, wanted, races>>
  BY DEF ApplyConfigOnHookThread
<1>2. hook.opt \in 0..1 /\ hook.own \in 0..1
  BY DEF ConfigStates, Hooks
<1>3. ConfigStates'
  BY <1>1, <1>2 DEF ConfigStates
<1> QED
  BY <1>1, <1>3

\* The main process ends and starts anew: every handler is gone, SharedState has the file.
LEMMA MainRestartDoes ==
  ASSUME Jobs, ConfigStates, MainRestart
  PROVE  /\ job["menu"] = <<>> /\ job["worker"] = <<>> /\ Jobs'
         /\ \A p \in Procs : job'[p] = <<>> /\ Left(p)' = {}
         /\ dlg' = [open |-> FALSE, dirty |-> FALSE, inbox |-> FALSE] /\ unseen' = FALSE /\ posted' = FALSE
         /\ sh' = [opt |-> file.opt, table |-> file.table, gen |-> 0] /\ hook' = HookOf(file)
         /\ engine' = [opt |-> file.opt, own |-> file.own]
         /\ races' = IF dlg.dirty \/ job["dlg"] # <<>> \/ job["sub"] # <<>> THEN races \cup {"killed"} ELSE races
         /\ ConfigStates'
         /\ UNCHANGED <<sc, file, mem, used, wanted>>
<1>1. /\ job["menu"] = <<>> /\ job["worker"] = <<>> /\ job' = [p \in Procs |-> <<>>]
      /\ dlg' = [open |-> FALSE, dirty |-> FALSE, inbox |-> FALSE] /\ unseen' = FALSE /\ posted' = FALSE
      /\ sh' = [opt |-> file.opt, table |-> file.table, gen |-> 0] /\ hook' = HookOf(file)
      /\ engine' = [opt |-> file.opt, own |-> file.own]
      /\ races' = IF dlg.dirty \/ job["dlg"] # <<>> \/ job["sub"] # <<>> THEN races \cup {"killed"} ELSE races
      /\ UNCHANGED <<sc, file, mem, used, wanted>>
  BY DEF MainRestart, Closed, Race
<1>2. Jobs' /\ \A p \in Procs : job'[p] = <<>> /\ Left(p)' = {}
  <2>1. <<>> \in Seq(Steps) /\ Len(<<>>) = 0
    OBVIOUS
  <2> QED
    BY <1>1, <2>1 DEF Jobs, Script, Left, LeftOf
<1>3. ConfigStates'
  <2>1. file.opt \in 0..1 /\ file.table \in 0..1 /\ file.own \in 0..1 /\ 0 \in 0..Gens - 1
    BY GensAssumption DEF ConfigStates, Files, Options, TypOptions
  <2>2. sh' \in Shs /\ engine' \in [opt : 0..1, own : 0..1]
    BY <1>1, <2>1 DEF Shs
  <2>3. hook' \in Hooks
    BY <1>1, ConfigurationParts DEF ConfigStates
  <2>4. races' \in SUBSET Races
    BY <1>1 DEF ConfigStates, Races
  <2> QED
    BY <1>1, <2>2, <2>3, <2>4 DEF ConfigStates
<1> QED
  BY <1>1, <1>2, <1>3

-----------------------------------------------------------------------------
(* Choices: every step keeps the invariant.                                 *)

\* What each process has left when p has taken a step.
LEMMA TakesOf ==
  ASSUME NEW p \in UIs, NEW z, Takes(p, z)
  PROVE  /\ Jobs' /\ WorkLeft' = WorkLeft /\ job'["worker"] = job["worker"]
         /\ IF p = "dlg"  THEN DlgLeft' = DlgLeft \ {z} /\ (z # "read" => z \in DlgLeft) ELSE DlgLeft' = DlgLeft
         /\ IF p = "sub"  THEN SubLeft' = SubLeft \ {z} /\ (z # "read" => z \in SubLeft) ELSE SubLeft' = SubLeft
         /\ IF p = "menu" THEN MenuLeft' = MenuLeft \ {z} /\ (z # "read" => z \in MenuLeft) ELSE MenuLeft' = MenuLeft
BY DEF Takes, UIs, Procs, DlgLeft, SubLeft, MenuLeft, WorkLeft

\* The same of a handler that begins, process by process.
LEMMA BeginsOf ==
  ASSUME NEW p \in UIs, NEW steps, Begins(p, steps)
  PROVE  /\ Jobs' /\ WorkLeft' = WorkLeft /\ job'["worker"] = job["worker"]
         /\ DlgLeft'  = IF p = "dlg"  THEN steps ELSE DlgLeft
         /\ SubLeft'  = IF p = "sub"  THEN steps ELSE SubLeft
         /\ MenuLeft' = IF p = "menu" THEN steps ELSE MenuLeft
BY DEF Begins, UIs, Procs, DlgLeft, SubLeft, MenuLeft, WorkLeft

\* A worker with no step left has none at all: it has no reads.
LEMMA WorkerEnds ==
  ASSUME NEW j, Script("worker", j), LeftOf(j) = {}
  PROVE  j = <<>>
<1>1. SUFFICES ASSUME j # <<>> PROVE FALSE
  OBVIOUS
<1>2. StepsOf("worker") = {"rload", "rapply", "rsnap", "compare"}
  BY SMT DEF StepsOf
<1>3. Head(j) \in StepsOf("worker")
  BY <1>1 DEF Script
<1>4. Head(j) # "read"
  BY ONLY <1>2, <1>3
<1> QED
  BY <1>1, <1>4, StepTaken

\* The steps of the processes by name: the steps none has.
LEMMA NotTheirs ==
  ASSUME Jobs
  PROVE  /\ "load" \notin DlgLeft /\ "table" \notin DlgLeft /\ "hooktable" \notin DlgLeft
         /\ "loadsys" \notin SubLeft /\ "savesys" \notin SubLeft /\ "sync" \notin SubLeft
         /\ "table" \notin SubLeft /\ "hooktable" \notin SubLeft /\ "choice" \notin SubLeft
         /\ "bump" \notin MenuLeft /\ "choice" \notin MenuLeft
         /\ \A p \in UIs : "read" \notin Left(p) /\ (job[p] = <<>> => Left(p) = {})
         /\ WorkLeft \subseteq {"rload", "rapply", "rsnap", "compare"}
         /\ WorkLeft = {} <=> job["worker"] = <<>>
<1>1. /\ DlgLeft \subseteq StepsOf("dlg") /\ SubLeft \subseteq StepsOf("sub")
      /\ MenuLeft \subseteq StepsOf("menu") /\ WorkLeft \subseteq StepsOf("worker")
      /\ \A p \in Procs : job[p] = <<>> => Left(p) = {}
  BY OwnSteps
<1>2. /\ StepsOf("dlg") = {"read", "sync", "choice", "save", "loadsys", "savesys", "bump", "spawn", "close", "end"}
      /\ StepsOf("sub") = {"load", "save", "read", "bump", "wake"}
      /\ StepsOf("menu") = {"hooktable", "read", "table", "load", "save", "sync", "post", "loadsys", "savesys"}
      /\ StepsOf("worker") = {"rload", "rapply", "rsnap", "compare"}
  BY SMT DEF StepsOf
<1>3. \A p \in UIs : "read" \notin Left(p) /\ (job[p] = <<>> => Left(p) = {})
  BY <1>1 DEF UIs, Procs, Left, LeftOf
<1>4. WorkLeft = {} => job["worker"] = <<>>
  BY WorkerEnds DEF Jobs, Procs, WorkLeft, Left
<1>5. job["worker"] = <<>> => WorkLeft = {}
  BY <1>1 DEF WorkLeft, Procs
<1>6. /\ "load" \notin DlgLeft /\ "table" \notin DlgLeft /\ "hooktable" \notin DlgLeft
      /\ "loadsys" \notin SubLeft /\ "savesys" \notin SubLeft /\ "sync" \notin SubLeft
      /\ "table" \notin SubLeft /\ "hooktable" \notin SubLeft /\ "choice" \notin SubLeft
      /\ "bump" \notin MenuLeft /\ "choice" \notin MenuLeft
      /\ WorkLeft \subseteq {"rload", "rapply", "rsnap", "compare"}
  BY ONLY <1>1, <1>2
<1> QED
  BY <1>3, <1>4, <1>5, <1>6

\* What has been done before a step.
LEMMA Past ==
  ASSUME NEW p \in Procs, NEW z, Takes(p, z)
  PROVE  /\ z = "load" => "hooktable" \notin Left(p) /\ "table" \notin Left(p)
         /\ z = "save" => /\ "load" \notin Left(p) /\ "choice" \notin Left(p)
                          /\ "hooktable" \notin Left(p) /\ "table" \notin Left(p)
                          /\ p = "dlg" => "sync" \notin Left(p)
         /\ z = "loadsys" => /\ "load" \notin Left(p) /\ "choice" \notin Left(p) /\ "save" \notin Left(p)
                             /\ p = "dlg" => "sync" \notin Left(p)
         /\ z = "savesys" => /\ "load" \notin Left(p) /\ "choice" \notin Left(p) /\ "save" \notin Left(p)
                             /\ "loadsys" \notin Left(p) /\ "table" \notin Left(p)
                             /\ p = "dlg" => "sync" \notin Left(p)
         /\ z = "bump" => /\ "load" \notin Left(p) /\ "choice" \notin Left(p) /\ "save" \notin Left(p)
                          /\ "loadsys" \notin Left(p) /\ "savesys" \notin Left(p)
                          /\ p = "dlg" => "sync" \notin Left(p)
         /\ z = "sync" /\ p # "dlg" => /\ "load" \notin Left(p) /\ "save" \notin Left(p)
                                       /\ "table" \notin Left(p) /\ "hooktable" \notin Left(p)
         /\ z = "table" => "hooktable" \notin Left(p)
         /\ z = "choice" /\ p = "dlg" => "sync" \notin Left(p)
         /\ z = "rapply" => "rload" \notin Left(p)
         /\ z = "rsnap" => "rload" \notin Left(p) /\ "rapply" \notin Left(p)
         /\ z = "compare" => "rload" \notin Left(p) /\ "rapply" \notin Left(p) /\ "rsnap" \notin Left(p)
         /\ z \in Ends => Left(p)' = {}
<1> DEFINE r(t) == Rank(p, t)
<1>1. \A t \in Left(p) \ {z} : z # "read" => r(z) < r(t)
  BY DEF Takes
<1>2. /\ r("choice") = 2 /\ r("hooktable") = 2 /\ r("rload") = 2 /\ r("table") = 3 /\ r("rapply") = 3
      /\ r("load") = 4 /\ r("rsnap") = 4 /\ r("save") = 5 /\ r("compare") = 5 /\ r("loadsys") = 6
      /\ r("savesys") = 7 /\ r("bump") = 8 /\ r("sync") = IF p = "dlg" THEN 1 ELSE 9
  BY SMT DEF Rank
<1>3. \A t : r(t) \in 1..10
  BY SMT DEF Rank
<1>4. \A t \in Ends : r(t) = 10 /\ t # "read"
  BY SMT DEF Rank, Ends
<1> HIDE DEF r
<1>5. z \in Ends => Left(p) \ {z} = {}
  BY <1>1, <1>3, <1>4
<1>6. z \in Ends => Left(p)' = {}
  BY <1>5 DEF Takes
<1>7. /\ z = "load" => "hooktable" \notin Left(p) /\ "table" \notin Left(p)
      /\ z = "save" => /\ "load" \notin Left(p) /\ "choice" \notin Left(p)
                       /\ "hooktable" \notin Left(p) /\ "table" \notin Left(p)
                       /\ p = "dlg" => "sync" \notin Left(p)
      /\ z = "loadsys" => /\ "load" \notin Left(p) /\ "choice" \notin Left(p) /\ "save" \notin Left(p)
                          /\ p = "dlg" => "sync" \notin Left(p)
  BY ONLY <1>1, <1>2
<1>8. /\ z = "savesys" => /\ "load" \notin Left(p) /\ "choice" \notin Left(p) /\ "save" \notin Left(p)
                          /\ "loadsys" \notin Left(p) /\ "table" \notin Left(p)
                          /\ p = "dlg" => "sync" \notin Left(p)
      /\ z = "bump" => /\ "load" \notin Left(p) /\ "choice" \notin Left(p) /\ "save" \notin Left(p)
                       /\ "loadsys" \notin Left(p) /\ "savesys" \notin Left(p)
                       /\ p = "dlg" => "sync" \notin Left(p)
  BY ONLY <1>1, <1>2
<1>9. /\ z = "sync" /\ p # "dlg" => /\ "load" \notin Left(p) /\ "save" \notin Left(p)
                                    /\ "table" \notin Left(p) /\ "hooktable" \notin Left(p)
      /\ z = "table" => "hooktable" \notin Left(p)
      /\ z = "choice" /\ p = "dlg" => "sync" \notin Left(p)
  BY ONLY <1>1, <1>2
<1>10. /\ z = "rapply" => "rload" \notin Left(p)
       /\ z = "rsnap" => "rload" \notin Left(p) /\ "rapply" \notin Left(p)
       /\ z = "compare" => "rload" \notin Left(p) /\ "rapply" \notin Left(p) /\ "rsnap" \notin Left(p)
  BY ONLY <1>1, <1>2
<1> QED
  BY <1>6, <1>7, <1>8, <1>9, <1>10

\* Nothing of the hook and its worker changes.
HookKept ==
  /\ UNCHANGED <<hook, posted, engine>> /\ job'["worker"] = job["worker"] /\ WorkLeft' = WorkLeft
  /\ mem'["worker"] = mem["worker"]

\* Nothing of the user interfaces and of what they write changes.
UIsKept ==
  /\ UNCHANGED <<sc, file, wanted>> /\ races \subseteq races' /\ dlg'.open = dlg.open /\ dlg'.dirty = dlg.dirty
  /\ DlgLeft' = DlgLeft /\ SubLeft' = SubLeft /\ MenuLeft' = MenuLeft
  /\ \A p \in UIs : mem'[p] = mem[p]

\* A step that leaves hook, worker and SharedState as they are: what is seen stays seen.
LEMMA HookFrame ==
  ASSUME Seen, SharedInv, HookKept, sh' = sh, unseen' = unseen, races \subseteq races'
  PROVE  Seen' /\ SharedInv' /\ LastOpt' = LastOpt /\ LastTable' = LastTable
<1>1. LastOpt' = LastOpt /\ LastTable' = LastTable
  BY DEF HookKept, LastOpt, LastTable
<1>2. Seen'
  BY <1>1 DEF Seen, HookKept
<1>3. SharedInv'
  BY <1>1 DEF SharedInv, HookKept
<1> QED
  BY <1>1, <1>2, <1>3

\* Handlers only end.
LEMMA AloneFrame ==
  ASSUME Alone, \A p \in UIs : Left(p)' \subseteq Left(p), dlg'.dirty => dlg.dirty
  PROVE  Alone'
BY DEF Alone, Acts

\* The steps and the choices of the user interfaces.
LEMMA UIsFrame ==
  ASSUME UIsKept, Picked, Alone, InFile, InDialog, InHandler
  PROVE  Picked' /\ Alone' /\ InFile' /\ InDialog' /\ InHandler'
<1>1. /\ Left("dlg")' = Left("dlg") /\ Left("sub")' = Left("sub") /\ Left("menu")' = Left("menu")
      /\ \A p \in UIs : Left(p)' = Left(p)
  BY DEF UIsKept, DlgLeft, SubLeft, MenuLeft, UIs
<1>2. mem'["dlg"] = mem["dlg"] /\ mem'["sub"] = mem["sub"] /\ mem'["menu"] = mem["menu"]
  BY DEF UIsKept, UIs
<1>3. Picked'
  BY <1>2 DEF UIsKept, Picked, Uncounted
<1>4. Alone'
  BY <1>1, AloneFrame DEF UIsKept
<1>5. InFile'
  BY DEF UIsKept, InFile, TypOwed, SysOwed, DlgSaves
<1>6. InDialog'
  BY <1>2 DEF UIsKept, InDialog, DlgSaves, FromFile, Classic
<1>7. InHandler'
  BY <1>1, <1>2 DEF UIsKept, InHandler, Classic
<1> QED
  BY <1>3, <1>4, <1>5, <1>6, <1>7

\* The invariant, its parts and the races apart.
LEMMA ConfigParts ==
  ASSUME ConfigInv
  PROVE  /\ Jobs /\ ConfigStates /\ Shapes /\ Picked /\ Seen /\ SharedInv /\ FileInv
         /\ races = {} => Alone /\ InFile /\ InDialog /\ InHandler /\ InShared /\ InHook
BY DEF ConfigInv, ChoiceInv

\* A handler loads the file: what it will save is the file with its choice.
LEMMA LoadKeepsConfig ==
  ASSUME ConfigInv, NEW p \in UIs, LoadOrDefault(p)
  PROVE  ConfigInv'
<1>1. /\ Jobs /\ ConfigStates /\ Shapes /\ Picked /\ Seen /\ SharedInv /\ FileInv
      /\ races = {} => Alone /\ InFile /\ InDialog /\ InHandler /\ InShared /\ InHook
  BY ConfigParts
<1>2. /\ Takes(p, "load") /\ OthersHold(p) /\ HoldsSame(p, {"cfg", "base"})
      /\ mem'[p].cfg = Chosen(Typing(file), mem[p].pick) /\ mem'[p].base = Typing(file)
      /\ ConfigStates'
      /\ UNCHANGED <<sc, file, sh, unseen, dlg, sub, note, work, hook, posted, engine, quit, used, wanted, races>>
  BY <1>1, LoadDoes
<1>3. /\ Jobs' /\ WorkLeft' = WorkLeft /\ job'["worker"] = job["worker"]
      /\ IF p = "dlg"  THEN DlgLeft' = DlgLeft \ {"load"} /\ "load" \in DlgLeft ELSE DlgLeft' = DlgLeft
      /\ IF p = "sub"  THEN SubLeft' = SubLeft \ {"load"} /\ "load" \in SubLeft ELSE SubLeft' = SubLeft
      /\ IF p = "menu" THEN MenuLeft' = MenuLeft \ {"load"} /\ "load" \in MenuLeft ELSE MenuLeft' = MenuLeft
  BY <1>2, TakesOf
<1>4. /\ p # "dlg" /\ DlgLeft' = DlgLeft /\ mem'["dlg"] = mem["dlg"]
      /\ p = "menu" => "table" \notin MenuLeft /\ "hooktable" \notin MenuLeft
      /\ "sync" \notin SubLeft
  BY <1>1, <1>2, <1>3, NotTheirs, Past DEF UIs, Procs, OthersHold, MenuLeft
<1>5. /\ p = "sub"  => mem'["menu"] = mem["menu"] /\ mem'["sub"].pick = mem["sub"].pick
      /\ p = "menu" => mem'["sub"] = mem["sub"] /\ mem'["menu"].pick = mem["menu"].pick /\ mem'["menu"].sysc = mem["menu"].sysc
      /\ HookKept /\ (p = "sub" \/ p = "menu")
  BY <1>2, <1>3, <1>4 DEF OthersHold, HoldsSame, Procs, UIs, HookKept
<1>6. Shapes'
  BY <1>1, <1>2, <1>3, <1>4 DEF Shapes, Classic
<1>7. Picked'
  <2>1. mem[p].pick[1] = "table" => mem'[p].cfg.own = mem'[p].base.own
    <3>1. mem[p].pick \in Options \X (0..1) /\ Typing(file) \in Typs
      BY <1>1, ConfigurationParts DEF ConfigStates, Mems, UIs, Procs
    <3> QED
      BY <1>2, <3>1, ChosenParts DEF TypOptions
  <2> QED
    BY <1>1, <1>2, <1>3, <1>4, <1>5, <2>1 DEF Picked, Uncounted
<1>8. Seen' /\ SharedInv' /\ LastOpt' = LastOpt /\ LastTable' = LastTable
  BY <1>1, <1>2, <1>5, HookFrame
<1>9. AllCounted' => AllCounted
  BY <1>3, <1>4 DEF AllCounted, Counts, DlgLeft, SubLeft, MenuLeft
<1>10. FileInv'
  BY <1>1, <1>2, <1>5, <1>9 DEF FileInv, HookKept
<1>11. races' = {} => Alone'
  BY <1>1, <1>2, <1>3, <1>4 DEF Alone, Acts, UIs, DlgLeft, SubLeft, MenuLeft
<1>12. races' = {} => InFile'
  BY <1>1, <1>2, <1>3, <1>4 DEF InFile, TypOwed, SysOwed, DlgSaves
<1>13. races' = {} => InDialog'
  BY <1>1, <1>2, <1>4 DEF InDialog, DlgSaves, FromFile, Classic
<1>14. races' = {} => InHandler'
  BY <1>1, <1>2, <1>3, <1>4, <1>5 DEF InHandler, Classic, DlgLeft, SubLeft, MenuLeft
<1>15. races' = {} => InShared'
  BY <1>1, <1>2, <1>3, <1>4, <1>5 DEF InShared, DlgSaves, FromFile
<1>16. races' = {} => InHook'
  BY <1>1, <1>2, <1>3, <1>4, <1>5, <1>8, <1>9 DEF InHook, Uncounted, HookKept
<1> QED
  BY <1>2, <1>3, <1>6, <1>7, <1>8, <1>10, <1>11, <1>12, <1>13, <1>14, <1>15, <1>16 DEF ConfigInv, ChoiceInv

\* With one handler at a time the others have only their ends left.
LEMMA OthersEnd ==
  ASSUME Alone, NEW p \in UIs, Acts(p)
  PROVE  /\ p # "dlg"  => ~dlg.dirty /\ DlgLeft \subseteq Ends
         /\ p # "sub"  => SubLeft \subseteq Ends
         /\ p # "menu" => MenuLeft \subseteq Ends
BY DEF Alone, Acts, UIs, DlgLeft, SubLeft, MenuLeft

\* The options of a configuration whose parts are these.
LEMMA SameOptions ==
  ASSUME NEW f \in Files, NEW g \in Files
  PROVE  /\ Typing(f) = Typing(g) => f.opt = g.opt /\ f.table = g.table /\ f.own = g.own
         /\ System(f) = System(g) => f.sys = g.sys /\ f.ext = g.ext
BY ConfigurationParts

\* A save of the typing options: the file has the choice, and others do not know it yet.
LEMMA SaveKeepsConfig ==
  ASSUME ConfigInv, NEW p \in UIs, SaveToFile(p)
  PROVE  ConfigInv'
<1>1. /\ Jobs /\ ConfigStates /\ Shapes /\ Picked /\ Seen /\ SharedInv /\ FileInv
      /\ races = {} => Alone /\ InFile /\ InDialog /\ InHandler /\ InShared /\ InHook
  BY ConfigParts
<1>2. /\ Takes(p, "save") /\ OthersHold(p) /\ HoldsSame(p, {"base"}) /\ mem'[p].base = mem[p].cfg
      /\ Typing(file') = mem[p].cfg /\ System(file') = System(file)
      /\ races' = IF mem[p].base # Typing(file) THEN races \cup {"stale"} ELSE races
      /\ ConfigStates'
      /\ UNCHANGED <<sc, sh, unseen, dlg, sub, note, work, hook, posted, engine, quit, used, wanted>>
  BY <1>1, SaveDoes
<1>3. /\ Jobs' /\ WorkLeft' = WorkLeft /\ job'["worker"] = job["worker"]
      /\ IF p = "dlg"  THEN DlgLeft' = DlgLeft \ {"save"} /\ "save" \in DlgLeft ELSE DlgLeft' = DlgLeft
      /\ IF p = "sub"  THEN SubLeft' = SubLeft \ {"save"} /\ "save" \in SubLeft ELSE SubLeft' = SubLeft
      /\ IF p = "menu" THEN MenuLeft' = MenuLeft \ {"save"} /\ "save" \in MenuLeft ELSE MenuLeft' = MenuLeft
  BY <1>2, TakesOf
<1>4. /\ p = "dlg" => "sync" \notin DlgLeft /\ "choice" \notin DlgLeft
      /\ p = "sub" => "load" \notin SubLeft
      /\ p = "menu" => "load" \notin MenuLeft /\ "table" \notin MenuLeft /\ "hooktable" \notin MenuLeft
      /\ "load" \notin DlgLeft /\ "sync" \notin SubLeft /\ "bump" \notin MenuLeft
  <2>1. /\ p \in Procs /\ Takes(p, "save") /\ (p = "dlg" => Left(p) = DlgLeft)
        /\ (p = "sub" => Left(p) = SubLeft) /\ (p = "menu" => Left(p) = MenuLeft)
    BY <1>2 DEF UIs, Procs, DlgLeft, SubLeft, MenuLeft
  <2>2. /\ "load" \notin Left(p) /\ "choice" \notin Left(p)
        /\ "hooktable" \notin Left(p) /\ "table" \notin Left(p)
        /\ p = "dlg" => "sync" \notin Left(p)
    BY ONLY <2>1, Past
  <2>3. /\ "load" \notin DlgLeft /\ "loadsys" \notin SubLeft /\ "savesys" \notin SubLeft
        /\ "sync" \notin SubLeft /\ "bump" \notin MenuLeft
    BY ONLY <1>1, NotTheirs
  <2> QED BY ONLY <2>2, <2>3, p \in UIs DEF UIs, DlgLeft, SubLeft, MenuLeft
<1>5. /\ \A x \in {"cfg", "sysc", "sbase", "snap", "pick"} : mem'[p][x] = mem[p][x]
      /\ \A q \in UIs \ {p} : mem'[q] = mem[q]
      /\ HookKept
  BY <1>2, <1>3 DEF OthersHold, HoldsSame, Procs, UIs, HookKept
<1>6. /\ mem'[p].cfg = mem[p].cfg /\ mem'[p].sysc = mem[p].sysc /\ mem'[p].sbase = mem[p].sbase
      /\ mem'[p].pick = mem[p].pick
      /\ p # "dlg" => mem'["dlg"] = mem["dlg"]
      /\ p # "sub" => mem'["sub"] = mem["sub"]
      /\ p # "menu" => mem'["menu"] = mem["menu"]
  BY <1>5 DEF UIs
<1>7. Shapes'
  BY <1>1, <1>2, <1>3, <1>4 DEF Shapes, Classic
<1>8. Picked'
  BY <1>1, <1>2, <1>3, <1>4, <1>6 DEF Picked, Uncounted
<1>9. Seen' /\ SharedInv' /\ LastOpt' = LastOpt /\ LastTable' = LastTable
  BY <1>1, <1>2, <1>5, HookFrame
<1>10. /\ p # "menu" \/ "sync" \in MenuLeft => ~AllCounted'
       /\ AllCounted' => AllCounted
  BY <1>1, <1>3, <1>4 DEF Shapes, AllCounted, Counts, DlgLeft, SubLeft, MenuLeft, UIs
<1>11. FileInv'
  <2>1. CASE p # "menu" \/ "sync" \in MenuLeft
    BY <1>10, <2>1 DEF FileInv
  <2>2. CASE p = "menu" /\ "sync" \notin MenuLeft
    <3>1. "menu table" \in sc.acts /\ mem["menu"].cfg.own = mem["menu"].base.own
      BY <1>1, <1>3, <1>4, <2>2 DEF Picked, Uncounted
    <3>2. mem["menu"].base = Typing(file) => file'.own = file.own
      <4>1. file \in Files /\ file' \in Files
        BY <1>1, <1>2 DEF ConfigStates
      <4> QED
        BY <1>2, <2>2, <3>1, <4>1, ConfigurationParts
    <3>3. CASE mem["menu"].base = Typing(file)
      BY <1>1, <1>2, <1>5, <1>10, <2>2, <3>2, <3>3 DEF FileInv, HookKept
    <3>4. CASE mem["menu"].base # Typing(file)
      BY <1>2, <2>2, <3>1, <3>4 DEF FileInv
    <3> QED
      BY <3>3, <3>4
  <2> QED
    BY <2>1, <2>2 DEF UIs
<1>12. ASSUME races' = {} PROVE Alone' /\ InFile' /\ InDialog' /\ InHandler' /\ InShared' /\ InHook'
  <2>1. /\ Alone /\ InFile /\ InDialog /\ InHandler /\ InShared /\ InHook
        /\ mem[p].base = Typing(file)
    BY <1>1, <1>2, <1>12
  <2>2. /\ p # "dlg"  => ~dlg.dirty /\ DlgLeft \subseteq Ends
        /\ p # "sub"  => SubLeft \subseteq Ends
        /\ p # "menu" => MenuLeft \subseteq Ends
    <3>1. Acts(p)
      BY <1>3 DEF Acts, Ends, UIs, DlgLeft, SubLeft, MenuLeft
    <3> QED
      BY <2>1, <3>1, OthersEnd
  <2>3. mem[p].cfg = Typing(wanted)
    BY <1>3, <1>4, <2>1 DEF InDialog, DlgSaves, FromFile, InHandler, UIs, DlgLeft, SubLeft, MenuLeft
  <2>4. Alone'
    BY <1>2, <1>3, <2>1 DEF Alone, Acts, UIs, DlgLeft, SubLeft, MenuLeft
  <2>5. InFile'
    BY <1>2, <1>3, <2>1, <2>3 DEF InFile, SysOwed
  <2>6. InDialog'
    BY <1>1, <1>2, <1>3, <1>4, <1>6, <2>1, <2>2 DEF InDialog, DlgSaves, FromFile, Classic, Ends, Shapes
  <2>7. InHandler'
    BY <1>2, <1>3, <1>4, <1>6, <2>1, <2>2 DEF InHandler, Classic, DlgLeft, SubLeft, MenuLeft, Ends
  <2>8. InShared'
    BY <1>2, <1>3, <1>4, <1>6, <2>1, <2>2 DEF InShared, DlgSaves, FromFile, Ends
  <2>9. InHook'
    BY <1>2, <1>3, <1>4, <1>5, <1>9, <1>10, <2>1, <2>2 DEF InHook, Uncounted, HookKept, Ends
  <2> QED
    BY <2>4, <2>5, <2>6, <2>7, <2>8, <2>9
<1> QED
  BY <1>2, <1>3, <1>7, <1>8, <1>9, <1>11, <1>12 DEF ConfigInv, ChoiceInv

\* The system options are loaded and the choice is put into them.
LEMMA LoadSystemKeepsConfig ==
  ASSUME ConfigInv, NEW p \in UIs, LoadSystemConfig(p)
  PROVE  ConfigInv'
<1>1. /\ Jobs /\ ConfigStates /\ Shapes /\ Picked /\ Seen /\ SharedInv /\ FileInv
      /\ races = {} => Alone /\ InFile /\ InDialog /\ InHandler /\ InShared /\ InHook
  BY ConfigParts
<1>2. /\ Takes(p, "loadsys") /\ OthersHold(p) /\ HoldsSame(p, {"sysc", "sbase"})
      /\ mem'[p].sysc = Chosen(System(file), mem[p].pick) /\ mem'[p].sbase = System(file)
      /\ ConfigStates'
      /\ UNCHANGED <<sc, file, sh, unseen, dlg, sub, note, work, hook, posted, engine, quit, used, wanted, races>>
  BY <1>1, LoadSystemDoes
<1>3. /\ Jobs' /\ WorkLeft' = WorkLeft /\ job'["worker"] = job["worker"]
      /\ IF p = "dlg"  THEN DlgLeft' = DlgLeft \ {"loadsys"} /\ "loadsys" \in DlgLeft ELSE DlgLeft' = DlgLeft
      /\ IF p = "sub"  THEN SubLeft' = SubLeft \ {"loadsys"} /\ "loadsys" \in SubLeft ELSE SubLeft' = SubLeft
      /\ IF p = "menu" THEN MenuLeft' = MenuLeft \ {"loadsys"} /\ "loadsys" \in MenuLeft ELSE MenuLeft' = MenuLeft
  BY <1>2, TakesOf
<1>4. /\ p = "dlg" => "sync" \notin DlgLeft /\ "choice" \notin DlgLeft /\ "save" \notin DlgLeft
      /\ p = "menu" => "load" \notin MenuLeft /\ "save" \notin MenuLeft
      /\ "load" \notin DlgLeft /\ "sync" \notin SubLeft /\ "bump" \notin MenuLeft
      /\ "loadsys" \notin SubLeft /\ "savesys" \notin SubLeft
  <2>1. /\ p \in Procs /\ Takes(p, "loadsys") /\ (p = "dlg" => Left(p) = DlgLeft)
        /\ (p = "sub" => Left(p) = SubLeft) /\ (p = "menu" => Left(p) = MenuLeft)
    BY <1>2 DEF UIs, Procs, DlgLeft, SubLeft, MenuLeft
  <2>2. /\ "load" \notin Left(p) /\ "choice" \notin Left(p) /\ "save" \notin Left(p)
        /\ p = "dlg" => "sync" \notin Left(p)
    BY ONLY <2>1, Past
  <2>3. /\ "load" \notin DlgLeft /\ "loadsys" \notin SubLeft /\ "savesys" \notin SubLeft
        /\ "sync" \notin SubLeft /\ "bump" \notin MenuLeft
    BY ONLY <1>1, NotTheirs
  <2> QED BY ONLY <2>2, <2>3, p \in UIs DEF UIs, DlgLeft, SubLeft, MenuLeft
<1>5. /\ mem'[p].cfg = mem[p].cfg /\ mem'[p].base = mem[p].base /\ mem'[p].pick = mem[p].pick
      /\ p # "dlg" => mem'["dlg"] = mem["dlg"]
      /\ p # "sub" => mem'["sub"] = mem["sub"]
      /\ p # "menu" => mem'["menu"] = mem["menu"]
      /\ mem'["worker"] = mem["worker"]
      /\ HookKept
  BY <1>2, <1>3 DEF OthersHold, HoldsSame, Procs, UIs, HookKept
<1>6. Shapes'
  BY <1>1, <1>2, <1>3, <1>4 DEF Shapes, Classic
<1>7. Picked'
  BY <1>1, <1>2, <1>3, <1>4, <1>5 DEF Picked, Uncounted
<1>8. Seen' /\ SharedInv' /\ LastOpt' = LastOpt /\ LastTable' = LastTable
  BY <1>1, <1>2, <1>5, HookFrame
<1>9. AllCounted' => AllCounted
  BY <1>1, <1>3, <1>4 DEF Shapes, AllCounted, Counts, DlgLeft, SubLeft, MenuLeft, UIs
<1>10. FileInv'
  BY <1>1, <1>2, <1>5, <1>9 DEF FileInv, HookKept
<1>11. ASSUME races' = {} PROVE Alone' /\ InFile' /\ InDialog' /\ InHandler' /\ InShared' /\ InHook'
  <2>1. /\ Alone /\ InFile /\ InDialog /\ InHandler /\ InShared /\ InHook
    BY <1>1, <1>2, <1>11
  <2>2. /\ p # "dlg"  => ~dlg.dirty /\ DlgLeft \subseteq Ends
        /\ p # "sub"  => SubLeft \subseteq Ends
        /\ p # "menu" => MenuLeft \subseteq Ends
    <3>1. Acts(p)
      BY <1>3 DEF Acts, Ends, UIs, DlgLeft, SubLeft, MenuLeft
    <3> QED
      BY <2>1, <3>1, OthersEnd
  <2>3. Alone'
    BY <1>2, <1>3, <2>1 DEF Alone, Acts, UIs, DlgLeft, SubLeft, MenuLeft
  <2>4. InFile'
    BY <1>1, <1>2, <1>3, <1>4, <1>5, <2>1, <2>2 DEF InFile, TypOwed, SysOwed, DlgSaves
  <2>5. InDialog'
    BY <1>1, <1>2, <1>3, <1>4, <1>5, <2>1, <2>2 DEF InDialog, DlgSaves, FromFile, Classic, Ends, Shapes
  <2>6. InHandler'
    BY <1>2, <1>3, <1>4, <1>5, <2>1, <2>2 DEF InHandler, Classic, DlgLeft, SubLeft, MenuLeft, Ends
  <2>7. InShared'
    BY <1>2, <1>3, <1>4, <1>5, <2>1, <2>2 DEF InShared, DlgSaves, FromFile, Ends
  <2>8. InHook'
    BY <1>2, <1>3, <1>4, <1>5, <1>8, <1>9, <2>1, <2>2 DEF InHook, Uncounted, HookKept, Ends
  <2> QED
    BY <2>3, <2>4, <2>5, <2>6, <2>7, <2>8
<1> QED
  BY <1>2, <1>3, <1>6, <1>7, <1>8, <1>10, <1>11 DEF ConfigInv, ChoiceInv


\* The system options are saved; the typing options stay.
LEMMA SaveSystemKeepsConfig ==
  ASSUME ConfigInv, NEW p \in UIs, SaveSystemConfig(p)
  PROVE  ConfigInv'
<1>1. /\ Jobs /\ ConfigStates /\ Shapes /\ Picked /\ Seen /\ SharedInv /\ FileInv
      /\ races = {} => Alone /\ InFile /\ InDialog /\ InHandler /\ InShared /\ InHook
  BY ConfigParts
<1>2. /\ Takes(p, "savesys") /\ OthersHold(p) /\ HoldsSame(p, {"sbase"}) /\ mem'[p].sbase = mem[p].sysc
      /\ System(file') = mem[p].sysc /\ Typing(file') = Typing(file)
      /\ races' = IF mem[p].sbase # System(file) THEN races \cup {"stale"} ELSE races
      /\ ConfigStates'
      /\ UNCHANGED <<sc, sh, unseen, dlg, sub, note, work, hook, posted, engine, quit, used, wanted>>
  BY <1>1, SaveSystemDoes
<1>3. /\ Jobs' /\ WorkLeft' = WorkLeft /\ job'["worker"] = job["worker"]
      /\ IF p = "dlg"  THEN DlgLeft' = DlgLeft \ {"savesys"} /\ "savesys" \in DlgLeft ELSE DlgLeft' = DlgLeft
      /\ IF p = "sub"  THEN SubLeft' = SubLeft \ {"savesys"} /\ "savesys" \in SubLeft ELSE SubLeft' = SubLeft
      /\ IF p = "menu" THEN MenuLeft' = MenuLeft \ {"savesys"} /\ "savesys" \in MenuLeft ELSE MenuLeft' = MenuLeft
  BY <1>2, TakesOf
<1>4. /\ p = "dlg" => "sync" \notin DlgLeft /\ "choice" \notin DlgLeft /\ "save" \notin DlgLeft
      /\ p = "menu" => "load" \notin MenuLeft /\ "save" \notin MenuLeft
      /\ "load" \notin DlgLeft /\ "sync" \notin SubLeft /\ "bump" \notin MenuLeft
      /\ p = "dlg" => "loadsys" \notin DlgLeft
      /\ p = "menu" => "loadsys" \notin MenuLeft
      /\ "loadsys" \notin SubLeft /\ "savesys" \notin SubLeft
  <2>1. /\ p \in Procs /\ Takes(p, "savesys") /\ (p = "dlg" => Left(p) = DlgLeft)
        /\ (p = "sub" => Left(p) = SubLeft) /\ (p = "menu" => Left(p) = MenuLeft)
    BY <1>2 DEF UIs, Procs, DlgLeft, SubLeft, MenuLeft
  <2>2. /\ "load" \notin Left(p) /\ "choice" \notin Left(p) /\ "save" \notin Left(p)
        /\ "loadsys" \notin Left(p) /\ "table" \notin Left(p)
        /\ p = "dlg" => "sync" \notin Left(p)
    BY ONLY <2>1, Past
  <2>3. /\ "load" \notin DlgLeft /\ "loadsys" \notin SubLeft /\ "savesys" \notin SubLeft
        /\ "sync" \notin SubLeft /\ "bump" \notin MenuLeft
    BY ONLY <1>1, NotTheirs
  <2> QED BY ONLY <2>2, <2>3, p \in UIs DEF UIs, DlgLeft, SubLeft, MenuLeft
<1>5. /\ mem'[p].cfg = mem[p].cfg /\ mem'[p].base = mem[p].base /\ mem'[p].sysc = mem[p].sysc /\ mem'[p].snap = mem[p].snap /\ mem'[p].pick = mem[p].pick
      /\ p # "dlg" => mem'["dlg"] = mem["dlg"]
      /\ p # "sub" => mem'["sub"] = mem["sub"]
      /\ p # "menu" => mem'["menu"] = mem["menu"]
      /\ mem'["worker"] = mem["worker"]
      /\ HookKept
  BY <1>2, <1>3 DEF OthersHold, HoldsSame, Procs, UIs, HookKept
<1>6. Shapes'
  BY <1>1, <1>2, <1>3, <1>4 DEF Shapes, Classic
<1>7. Picked'
  BY <1>1, <1>2, <1>3, <1>4, <1>5 DEF Picked, Uncounted
<1>8. Seen' /\ SharedInv' /\ LastOpt' = LastOpt /\ LastTable' = LastTable
  BY <1>1, <1>2, <1>5, HookFrame
<1>9. AllCounted' => AllCounted
  BY <1>1, <1>3, <1>4 DEF Shapes, AllCounted, Counts, DlgLeft, SubLeft, MenuLeft, UIs
<1>10. file'.own = file.own /\ file'.table = file.table
  BY <1>1, <1>2, SameOptions DEF ConfigStates
<1>11. FileInv'
  BY <1>1, <1>2, <1>5, <1>9, <1>10 DEF FileInv, HookKept
<1>12. ASSUME races' = {} PROVE Alone' /\ InFile' /\ InDialog' /\ InHandler' /\ InShared' /\ InHook'
  <2>1. /\ Alone /\ InFile /\ InDialog /\ InHandler /\ InShared /\ InHook
        /\ mem[p].sbase = System(file)
    BY <1>1, <1>2, <1>12
  <2>2. /\ p # "dlg"  => ~dlg.dirty /\ DlgLeft \subseteq Ends
        /\ p # "sub"  => SubLeft \subseteq Ends
        /\ p # "menu" => MenuLeft \subseteq Ends
    <3>1. Acts(p)
      BY <1>3 DEF Acts, Ends, UIs, DlgLeft, SubLeft, MenuLeft
    <3> QED
      BY <2>1, <3>1, OthersEnd
  <2>3. mem[p].sysc = System(wanted)
    BY <1>3, <1>4, <2>1 DEF InDialog, InHandler, UIs, DlgLeft, SubLeft, MenuLeft
  <2>4. Alone'
    BY <1>2, <1>3, <2>1 DEF Alone, Acts, UIs, DlgLeft, SubLeft, MenuLeft
  <2>5. InFile'
    BY <1>2, <1>3, <2>1, <2>3 DEF InFile, TypOwed, DlgSaves
  <2>6. InDialog'
    BY <1>1, <1>2, <1>3, <1>4, <1>5, <2>1, <2>2 DEF InDialog, DlgSaves, FromFile, Classic, Ends, Shapes
  <2>7. InHandler'
    BY <1>2, <1>3, <1>4, <1>5, <2>1, <2>2 DEF InHandler, Classic, DlgLeft, SubLeft, MenuLeft, Ends
  <2>8. InShared'
    BY <1>2, <1>3, <1>4, <1>5, <2>1, <2>2 DEF InShared, DlgSaves, FromFile, Ends
  <2>9. InHook'
    BY <1>2, <1>3, <1>4, <1>5, <1>8, <1>9, <2>1, <2>2, <1>10 DEF InHook, Uncounted, HookKept, Ends
  <2> QED
    BY <2>4, <2>5, <2>6, <2>7, <2>8, <2>9
<1> QED
  BY <1>2, <1>3, <1>6, <1>7, <1>8, <1>11, <1>12 DEF ConfigInv, ChoiceInv


\* SharedState is read into the copy a later write starts from.
LEMMA ReadKeepsConfig ==
  ASSUME ConfigInv, NEW p \in UIs, ReadShared(p)
  PROVE  ConfigInv'
<1>1. /\ Jobs /\ ConfigStates /\ Shapes /\ Picked /\ Seen /\ SharedInv /\ FileInv
      /\ races = {} => Alone /\ InFile /\ InDialog /\ InHandler /\ InShared /\ InHook
  BY ConfigParts
<1>2. /\ Takes(p, "read") /\ OthersHold(p) /\ HoldsSame(p, {"snap"}) /\ mem'[p].snap = sh
      /\ ConfigStates'
      /\ UNCHANGED <<sc, file, sh, unseen, dlg, sub, note, work, hook, posted, engine, quit, used, wanted, races>>
  BY <1>1, ReadDoes
<1>3. /\ Jobs' /\ WorkLeft' = WorkLeft /\ job'["worker"] = job["worker"]
      /\ IF p = "dlg"  THEN DlgLeft' = DlgLeft \ {"read"} ELSE DlgLeft' = DlgLeft
      /\ IF p = "sub"  THEN SubLeft' = SubLeft \ {"read"} ELSE SubLeft' = SubLeft
      /\ IF p = "menu" THEN MenuLeft' = MenuLeft \ {"read"} ELSE MenuLeft' = MenuLeft
  BY <1>2, TakesOf
<1>4. "read" \notin DlgLeft /\ "read" \notin SubLeft /\ "read" \notin MenuLeft
  BY <1>1, <1>2, NotTheirs, Past DEF UIs, Procs, DlgLeft, SubLeft, MenuLeft
<1>5. /\ mem'[p].cfg = mem[p].cfg /\ mem'[p].base = mem[p].base /\ mem'[p].sysc = mem[p].sysc /\ mem'[p].sbase = mem[p].sbase /\ mem'[p].pick = mem[p].pick
      /\ p # "dlg" => mem'["dlg"] = mem["dlg"]
      /\ p # "sub" => mem'["sub"] = mem["sub"]
      /\ p # "menu" => mem'["menu"] = mem["menu"]
      /\ mem'["worker"] = mem["worker"]
      /\ HookKept
  BY <1>2, <1>3 DEF OthersHold, HoldsSame, Procs, UIs, HookKept
<1>6. Shapes'
  BY <1>1, <1>2, <1>3, <1>4 DEF Shapes, Classic
<1>7. Picked'
  BY <1>1, <1>2, <1>3, <1>4, <1>5 DEF Picked, Uncounted
<1>8. Seen' /\ SharedInv' /\ LastOpt' = LastOpt /\ LastTable' = LastTable
  BY <1>1, <1>2, <1>5, HookFrame
<1>9. AllCounted' => AllCounted
  BY <1>1, <1>3, <1>4 DEF Shapes, AllCounted, Counts, DlgLeft, SubLeft, MenuLeft, UIs
<1>10. FileInv'
  BY <1>1, <1>2, <1>5, <1>9 DEF FileInv, HookKept
<1>11. ASSUME races' = {} PROVE Alone' /\ InFile' /\ InDialog' /\ InHandler' /\ InShared' /\ InHook'
  <2>1. /\ Alone /\ InFile /\ InDialog /\ InHandler /\ InShared /\ InHook
    BY <1>1, <1>2, <1>11
  <2>2. Alone'
    BY <1>2, <1>3, <2>1 DEF Alone, Acts, UIs, DlgLeft, SubLeft, MenuLeft
  <2>3. InFile'
    BY <1>1, <1>2, <1>3, <1>4, <1>5, <2>1 DEF InFile, TypOwed, SysOwed, DlgSaves
  <2>4. InDialog'
    BY <1>1, <1>2, <1>3, <1>4, <1>5, <2>1 DEF InDialog, DlgSaves, FromFile, Classic, Ends, Shapes
  <2>5. InHandler'
    BY <1>2, <1>3, <1>4, <1>5, <2>1 DEF InHandler, Classic, DlgLeft, SubLeft, MenuLeft, Ends
  <2>6. InShared'
    BY <1>2, <1>3, <1>4, <1>5, <2>1 DEF InShared, DlgSaves, FromFile, Ends
  <2>7. InHook'
    BY <1>2, <1>3, <1>4, <1>5, <1>8, <1>9, <2>1 DEF InHook, Uncounted, HookKept, Ends
  <2> QED
    BY <2>2, <2>3, <2>4, <2>5, <2>6, <2>7
<1> QED
  BY <1>2, <1>3, <1>6, <1>7, <1>8, <1>10, <1>11 DEF ConfigInv, ChoiceInv

\* SharedState takes the fields of the caller with a new generation.
LEMMA WriteFieldsKeepsConfig ==
  ASSUME ConfigInv, NEW p \in UIs, WriteFields(p)
  PROVE  ConfigInv'
<1>1. /\ Jobs /\ ConfigStates /\ Shapes /\ Picked /\ Seen /\ SharedInv /\ FileInv
      /\ races = {} => Alone /\ InFile /\ InDialog /\ InHandler /\ InShared /\ InHook
  BY ConfigParts
<1>2. /\ Takes(p, "sync") /\ sh'.gen # mem[p].snap.gen
      /\ sh'.opt = mem[p].cfg.opt /\ sh'.table = mem[p].cfg.table
      /\ unseen' = TRUE /\ races \subseteq races' /\ ("lost" \notin races' => mem[p].snap = sh)
      /\ ("lapped" \notin races' /\ sh'.gen # mem[p].snap.gen => sh'.gen # hook.gen)
      /\ ConfigStates'
      /\ UNCHANGED <<sc, file, mem, dlg, sub, note, work, hook, posted, engine, quit, used, wanted>>
  BY <1>1, WritesDo DEF Writes
<1>3. /\ Jobs' /\ WorkLeft' = WorkLeft /\ job'["worker"] = job["worker"]
      /\ IF p = "dlg"  THEN DlgLeft' = DlgLeft \ {"sync"} /\ "sync" \in DlgLeft ELSE DlgLeft' = DlgLeft
      /\ IF p = "sub"  THEN SubLeft' = SubLeft \ {"sync"} /\ "sync" \in SubLeft ELSE SubLeft' = SubLeft
      /\ IF p = "menu" THEN MenuLeft' = MenuLeft \ {"sync"} /\ "sync" \in MenuLeft ELSE MenuLeft' = MenuLeft
  BY <1>2, TakesOf
<1>4. /\ p # "sub"
      /\ p = "menu" => "load" \notin MenuLeft /\ "save" \notin MenuLeft /\ "table" \notin MenuLeft
      /\ "load" \notin DlgLeft /\ "sync" \notin SubLeft
  BY <1>1, <1>2, <1>3, NotTheirs, Past DEF UIs, Procs, DlgLeft, SubLeft, MenuLeft
<1>5. HookKept /\ \A q \in UIs : mem'[q] = mem[q]
  BY <1>2, <1>3 DEF HookKept
<1>6. Shapes'
  BY <1>1, <1>2, <1>3, <1>4 DEF Shapes, Classic
<1>7. Picked'
  BY <1>1, <1>2, <1>3, <1>4 DEF Picked, Uncounted
<1>8. LastOpt' = LastOpt /\ LastTable' = LastTable /\ Seen'
  BY <1>1, <1>2, <1>3 DEF LastOpt, LastTable, Seen
<1>9. races' \cap {"lost", "lapped"} = {} => sh'.gen # hook'.gen
  BY <1>2
<1>10. SharedInv'
  BY <1>9 DEF SharedInv
<1>11. FileInv'
  BY <1>9 DEF FileInv
<1>12. ASSUME races' = {} PROVE Alone' /\ InFile' /\ InDialog' /\ InHandler' /\ InShared' /\ InHook'
  <2>1. /\ Alone /\ InFile /\ InDialog /\ InHandler /\ InShared /\ InHook
        /\ mem[p].snap = sh
    BY <1>1, <1>2, <1>12
  <2>2. /\ p # "dlg"  => ~dlg.dirty /\ DlgLeft \subseteq Ends
        /\ p # "sub"  => SubLeft \subseteq Ends
        /\ p # "menu" => MenuLeft \subseteq Ends
    <3>1. Acts(p)
      BY <1>3 DEF Acts, Ends, UIs, DlgLeft, SubLeft, MenuLeft
    <3> QED
      BY <2>1, <3>1, OthersEnd
  <2>3. Alone'
    BY <1>2, <1>3, <2>1 DEF Alone, Acts, UIs, DlgLeft, SubLeft, MenuLeft
  <2>4. InFile'
    BY <1>2, <1>3, <1>4, <2>1, <2>2 DEF InFile, TypOwed, SysOwed, DlgSaves
  <2>5. InDialog'
    BY <1>1, <1>2, <1>3, <1>4, <2>1, <2>2 DEF InDialog, DlgSaves, FromFile, Classic, Ends, Shapes
  <2>6. InHandler'
    BY <1>2, <1>3, <1>4, <2>1, <2>2 DEF InHandler, Classic, DlgLeft, SubLeft, MenuLeft, Ends
  <2>7. InShared'
    <3>1. p = "dlg" => DlgSaves
      BY <1>1, <1>3 DEF Shapes, DlgSaves
    <3>2. (DlgSaves => FromFile) => mem[p].cfg = Typing(wanted)
      BY <1>3, <1>4, <2>1, <3>1 DEF InDialog, InHandler, DlgLeft, SubLeft, MenuLeft, UIs
    <3>3. (DlgSaves' => FromFile') => (DlgSaves => FromFile)
      BY <1>2, <1>3 DEF DlgSaves, FromFile
    <3>4. (DlgSaves => FromFile) => sh'.opt = wanted.opt /\ sh'.table = wanted.table
      BY <1>1, <1>2, <3>2, ConfigurationParts DEF ConfigStates
    <3> QED
      BY <1>2, <3>3, <3>4 DEF InShared
  <2>8. InHook'
    BY <1>2, <1>3, <1>4, <1>9, <1>8, <2>2, <2>1, <1>12 DEF InHook, Uncounted, Ends
  <2> QED
    BY <2>3, <2>4, <2>5, <2>6, <2>7, <2>8
<1> QED
  BY <1>8, <1>10, <1>2, <1>3, <1>6, <1>7, <1>11, <1>12 DEF ConfigInv, ChoiceInv


\* A new generation alone: the hook has a reload to do, with the save before it.
LEMMA WriteGenerationKeepsConfig ==
  ASSUME ConfigInv, NEW p \in UIs, WriteGeneration(p)
  PROVE  ConfigInv'
<1>1. /\ Jobs /\ ConfigStates /\ Shapes /\ Picked /\ Seen /\ SharedInv /\ FileInv
      /\ races = {} => Alone /\ InFile /\ InDialog /\ InHandler /\ InShared /\ InHook
  BY ConfigParts
<1>2. /\ Takes(p, "bump") /\ sh'.gen # mem[p].snap.gen
      /\ sh'.opt = mem[p].snap.opt /\ sh'.table = mem[p].snap.table
      /\ unseen' = TRUE /\ races \subseteq races' /\ ("lost" \notin races' => mem[p].snap = sh)
      /\ ("lapped" \notin races' /\ sh'.gen # mem[p].snap.gen => sh'.gen # hook.gen)
      /\ ConfigStates'
      /\ UNCHANGED <<sc, file, mem, dlg, sub, note, work, hook, posted, engine, quit, used, wanted>>
  BY <1>1, WritesDo DEF Writes
<1>3. /\ Jobs' /\ WorkLeft' = WorkLeft /\ job'["worker"] = job["worker"]
      /\ IF p = "dlg"  THEN DlgLeft' = DlgLeft \ {"bump"} /\ "bump" \in DlgLeft ELSE DlgLeft' = DlgLeft
      /\ IF p = "sub"  THEN SubLeft' = SubLeft \ {"bump"} /\ "bump" \in SubLeft ELSE SubLeft' = SubLeft
      /\ IF p = "menu" THEN MenuLeft' = MenuLeft \ {"bump"} /\ "bump" \in MenuLeft ELSE MenuLeft' = MenuLeft
  BY <1>2, TakesOf
<1>4. /\ p # "menu"
      /\ p = "dlg" => /\ "save" \notin DlgLeft /\ "sync" \notin DlgLeft /\ "choice" \notin DlgLeft
                      /\ "savesys" \notin DlgLeft /\ "loadsys" \notin DlgLeft
      /\ p = "sub" => "load" \notin SubLeft /\ "save" \notin SubLeft
      /\ "load" \notin DlgLeft /\ "sync" \notin SubLeft
  <2>1. /\ p \in Procs /\ Takes(p, "bump") /\ (p = "dlg" => Left(p) = DlgLeft)
        /\ (p = "sub" => Left(p) = SubLeft) /\ (p = "menu" => Left(p) = MenuLeft)
    BY <1>2 DEF UIs, Procs, DlgLeft, SubLeft, MenuLeft
  <2>2. /\ "load" \notin Left(p) /\ "choice" \notin Left(p) /\ "save" \notin Left(p)
        /\ "loadsys" \notin Left(p) /\ "savesys" \notin Left(p)
        /\ p = "dlg" => "sync" \notin Left(p)
    BY ONLY <2>1, Past
  <2>3. /\ "load" \notin DlgLeft /\ "loadsys" \notin SubLeft /\ "savesys" \notin SubLeft
        /\ "sync" \notin SubLeft /\ "bump" \notin MenuLeft
    BY ONLY <1>1, NotTheirs
  <2> QED BY ONLY <2>2, <2>3, <1>3, p \in UIs DEF UIs, DlgLeft, SubLeft, MenuLeft
<1>5. HookKept /\ \A q \in UIs : mem'[q] = mem[q]
  BY <1>2, <1>3 DEF HookKept
<1>6. Shapes'
  BY <1>1, <1>2, <1>3, <1>4 DEF Shapes, Classic
<1>7. Picked'
  BY <1>1, <1>2, <1>3, <1>4 DEF Picked, Uncounted
<1>8. LastOpt' = LastOpt /\ LastTable' = LastTable /\ Seen'
  BY <1>1, <1>2, <1>3 DEF LastOpt, LastTable, Seen
<1>9. races' \cap {"lost", "lapped"} = {} => sh'.gen # hook'.gen
  BY <1>2
<1>10. SharedInv'
  BY <1>9 DEF SharedInv
<1>11. FileInv'
  BY <1>9 DEF FileInv
<1>12. ASSUME races' = {} PROVE Alone' /\ InFile' /\ InDialog' /\ InHandler' /\ InShared' /\ InHook'
  <2>1. /\ Alone /\ InFile /\ InDialog /\ InHandler /\ InShared /\ InHook
        /\ mem[p].snap = sh
    BY <1>1, <1>2, <1>12
  <2>2. /\ p # "dlg"  => ~dlg.dirty /\ DlgLeft \subseteq Ends
        /\ p # "sub"  => SubLeft \subseteq Ends
        /\ p # "menu" => MenuLeft \subseteq Ends
    <3>1. Acts(p)
      BY <1>3 DEF Acts, Ends, UIs, DlgLeft, SubLeft, MenuLeft
    <3> QED
      BY <2>1, <3>1, OthersEnd
  <2>3. Alone'
    BY <1>2, <1>3, <2>1 DEF Alone, Acts, UIs, DlgLeft, SubLeft, MenuLeft
  <2>4. InFile'
    BY <1>2, <1>3, <1>4, <2>1, <2>2 DEF InFile, TypOwed, SysOwed, DlgSaves
  <2>5. InDialog'
    BY <1>1, <1>2, <1>3, <1>4, <2>1, <2>2 DEF InDialog, DlgSaves, FromFile, Classic, Ends, Shapes
  <2>6. InHandler'
    BY <1>2, <1>3, <1>4, <2>1, <2>2 DEF InHandler, Classic, DlgLeft, SubLeft, MenuLeft, Ends
  <2>7. InShared'
    BY <1>2, <1>3, <1>4, <2>1 DEF InShared, DlgSaves, FromFile
  <2>8. InHook'
    BY <1>2, <1>3, <1>4, <1>9, <1>8, <2>2, <2>1, <1>12 DEF InHook, Uncounted, Ends
  <2> QED
    BY <2>3, <2>4, <2>5, <2>6, <2>7, <2>8
<1> QED
  BY <1>8, <1>10, <1>2, <1>3, <1>6, <1>7, <1>11, <1>12 DEF ConfigInv, ChoiceInv


\* The code table of the tray menu without a new generation.
LEMMA WriteTableKeepsConfig ==
  ASSUME ConfigInv, NEW p \in UIs, WriteTable(p)
  PROVE  ConfigInv'
<1>1. /\ Jobs /\ ConfigStates /\ Shapes /\ Picked /\ Seen /\ SharedInv /\ FileInv
      /\ races = {} => Alone /\ InFile /\ InDialog /\ InHandler /\ InShared /\ InHook
  BY ConfigParts
<1>2. /\ Takes(p, "table") /\ sh' = [mem[p].snap EXCEPT !.table = mem[p].pick[2]]
      /\ unseen' = TRUE /\ races \subseteq races' /\ ("lost" \notin races' => mem[p].snap = sh)
      /\ ("lapped" \notin races' /\ sh'.gen # mem[p].snap.gen => sh'.gen # hook.gen)
      /\ ConfigStates'
      /\ UNCHANGED <<sc, file, mem, dlg, sub, note, work, hook, posted, engine, quit, used, wanted>>
  BY <1>1, WritesDo DEF Writes
<1>3. /\ Jobs' /\ WorkLeft' = WorkLeft /\ job'["worker"] = job["worker"]
      /\ IF p = "dlg"  THEN DlgLeft' = DlgLeft \ {"table"} /\ "table" \in DlgLeft ELSE DlgLeft' = DlgLeft
      /\ IF p = "sub"  THEN SubLeft' = SubLeft \ {"table"} /\ "table" \in SubLeft ELSE SubLeft' = SubLeft
      /\ IF p = "menu" THEN MenuLeft' = MenuLeft \ {"table"} /\ "table" \in MenuLeft ELSE MenuLeft' = MenuLeft
  BY <1>2, TakesOf
<1>4. /\ p = "menu" /\ "hooktable" \notin MenuLeft
      /\ "load" \notin DlgLeft /\ "sync" \notin SubLeft
  BY <1>1, <1>2, <1>3, NotTheirs, Past DEF UIs, Procs, DlgLeft, SubLeft, MenuLeft
<1>5. HookKept /\ \A q \in UIs : mem'[q] = mem[q]
  BY <1>2, <1>3 DEF HookKept
<1>6. Shapes'
  BY <1>1, <1>2, <1>3, <1>4 DEF Shapes, Classic
<1>7. Picked'
  BY <1>1, <1>2, <1>3, <1>4 DEF Picked, Uncounted
<1>8. LastOpt' = LastOpt /\ LastTable' = LastTable /\ Seen'
  BY <1>1, <1>2, <1>3 DEF LastOpt, LastTable, Seen
<1>9. races' \cap {"lost", "lapped"} = {} => sh'.gen = sh.gen /\ sh'.opt = sh.opt /\ sh'.table = mem[p].pick[2]
  BY <1>1, <1>2 DEF ConfigStates, Shs
<1>10. SharedInv'
  BY <1>1, <1>2, <1>3, <1>8, <1>9 DEF SharedInv
<1>11. FileInv'
  BY <1>1, <1>2, <1>3, <1>9 DEF FileInv, AllCounted, Counts, DlgLeft, SubLeft, MenuLeft
<1>12. ASSUME races' = {} PROVE Alone' /\ InFile' /\ InDialog' /\ InHandler' /\ InShared' /\ InHook'
  <2>1. /\ Alone /\ InFile /\ InDialog /\ InHandler /\ InShared /\ InHook
        /\ mem[p].snap = sh
    BY <1>1, <1>2, <1>12
  <2>2. /\ p # "dlg"  => ~dlg.dirty /\ DlgLeft \subseteq Ends
        /\ p # "sub"  => SubLeft \subseteq Ends
        /\ p # "menu" => MenuLeft \subseteq Ends
    <3>1. Acts(p)
      BY <1>3 DEF Acts, Ends, UIs, DlgLeft, SubLeft, MenuLeft
    <3> QED
      BY <2>1, <3>1, OthersEnd
  <2>3. Alone'
    BY <1>2, <1>3, <2>1 DEF Alone, Acts, UIs, DlgLeft, SubLeft, MenuLeft
  <2>4. InFile'
    BY <1>2, <1>3, <1>4, <2>1, <2>2 DEF InFile, TypOwed, SysOwed, DlgSaves
  <2>5. InDialog'
    BY <1>1, <1>2, <1>3, <1>4, <2>1, <2>2 DEF InDialog, DlgSaves, FromFile, Classic, Ends, Shapes
  <2>6. InHandler'
    BY <1>2, <1>3, <1>4, <2>1, <2>2 DEF InHandler, Classic, DlgLeft, SubLeft, MenuLeft, Ends
  <2>7. InShared'
    <3>1. mem["menu"].pick[2] = wanted.table
      BY <1>4, <1>3, <2>1 DEF InHandler
    <3> QED
      BY <1>2, <1>3, <1>4, <1>9, <2>1, <1>12, <3>1 DEF InShared, DlgSaves, FromFile
  <2>8. InHook'
    BY <1>2, <1>3, <1>4, <1>9, <1>8, <2>1, <1>12 DEF InHook, Uncounted, AllCounted, Counts, DlgLeft, SubLeft, MenuLeft
  <2> QED
    BY <2>3, <2>4, <2>5, <2>6, <2>7, <2>8
<1> QED
  BY <1>8, <1>10, <1>2, <1>3, <1>6, <1>7, <1>11, <1>12 DEF ConfigInv, ChoiceInv


\* A message posted or a dialog opened.
LEMMA MessageKeepsConfig ==
  ASSUME ConfigInv, NEW p \in UIs, NEW z \in {"wake", "spawn", "post"}, Takes(p, z), ConfigStates',
         dlg'.open = dlg.open, dlg'.dirty = dlg.dirty,
         UNCHANGED <<sc, file, sh, unseen, mem, hook, posted, engine, wanted, races>>
  PROVE  ConfigInv'
<1>1. /\ Jobs /\ ConfigStates /\ Shapes /\ Picked /\ Seen /\ SharedInv /\ FileInv
      /\ races = {} => Alone /\ InFile /\ InDialog /\ InHandler /\ InShared /\ InHook
  BY ConfigParts
<1>2. /\ Jobs' /\ WorkLeft' = WorkLeft /\ job'["worker"] = job["worker"]
      /\ DlgLeft \ Ends = DlgLeft' \ Ends /\ SubLeft \ Ends = SubLeft' \ Ends
      /\ MenuLeft \ Ends = MenuLeft' \ Ends
      /\ DlgLeft' \subseteq DlgLeft
  BY TakesOf DEF UIs, Ends
<1>3. /\ "sync" \in DlgLeft' <=> "sync" \in DlgLeft
      /\ "choice" \in DlgLeft' <=> "choice" \in DlgLeft
      /\ "save" \in DlgLeft' <=> "save" \in DlgLeft
      /\ "bump" \in DlgLeft' <=> "bump" \in DlgLeft
      /\ "loadsys" \in DlgLeft' <=> "loadsys" \in DlgLeft
      /\ "savesys" \in DlgLeft' <=> "savesys" \in DlgLeft
      /\ "load" \in DlgLeft' <=> "load" \in DlgLeft
      /\ "load" \in SubLeft' <=> "load" \in SubLeft
      /\ "save" \in SubLeft' <=> "save" \in SubLeft
      /\ "sync" \in SubLeft' <=> "sync" \in SubLeft
      /\ "bump" \in SubLeft' <=> "bump" \in SubLeft
  BY <1>2 DEF Ends
<1>4. /\ "hooktable" \in MenuLeft' <=> "hooktable" \in MenuLeft
      /\ "table" \in MenuLeft' <=> "table" \in MenuLeft
      /\ "load" \in MenuLeft' <=> "load" \in MenuLeft
      /\ "save" \in MenuLeft' <=> "save" \in MenuLeft
      /\ "sync" \in MenuLeft' <=> "sync" \in MenuLeft
      /\ "bump" \in MenuLeft' <=> "bump" \in MenuLeft
      /\ "loadsys" \in MenuLeft' <=> "loadsys" \in MenuLeft
      /\ "savesys" \in MenuLeft' <=> "savesys" \in MenuLeft
  BY <1>2 DEF Ends
<1>5. HookKept /\ mem' = mem /\ (dlg'.dirty <=> dlg.dirty) /\ (dlg'.open <=> dlg.open) /\ sc' = sc /\ file' = file /\ wanted' = wanted
  BY <1>2 DEF HookKept
<1>6. Shapes'
  BY <1>1, <1>2, <1>3, <1>4, <1>5 DEF Shapes, Classic
<1>7. Picked'
  BY <1>1, <1>3, <1>4, <1>5 DEF Picked, Uncounted
<1>8. Seen' /\ SharedInv' /\ LastOpt' = LastOpt /\ LastTable' = LastTable
  BY <1>1, <1>5, HookFrame
<1>9. AllCounted' <=> AllCounted
  BY <1>3, <1>4, <1>5 DEF AllCounted, Counts, DlgLeft, SubLeft, MenuLeft
<1>10. FileInv'
  BY <1>1, <1>5, <1>9 DEF FileInv, HookKept
<1>11. ASSUME races' = {} PROVE Alone' /\ InFile' /\ InDialog' /\ InHandler' /\ InShared' /\ InHook'
  <2>1. /\ Alone /\ InFile /\ InDialog /\ InHandler /\ InShared /\ InHook
    BY <1>1, <1>11
  <2>2. Alone'
    <3>1. \A q \in UIs : Left(q)' \ Ends = Left(q) \ Ends
      BY <1>2 DEF UIs, DlgLeft, SubLeft, MenuLeft
    <3> QED
      BY <2>1, <1>5, <3>1 DEF Alone, Acts
  <2>3. InFile'
    BY <2>1, <1>3, <1>4, <1>5 DEF InFile, TypOwed, SysOwed, DlgSaves
  <2>4. InDialog'
    BY <2>1, <1>3, <1>4, <1>5 DEF InDialog, DlgSaves, FromFile, Classic
  <2>5. InHandler'
    BY <2>1, <1>3, <1>4, <1>5 DEF InHandler, Classic, DlgLeft, SubLeft, MenuLeft
  <2>6. InShared'
    BY <2>1, <1>3, <1>4, <1>5 DEF InShared, DlgSaves, FromFile
  <2>7. InHook'
    BY <2>1, <1>3, <1>4, <1>5, <1>8, <1>9 DEF InHook, Uncounted, HookKept
  <2> QED
    BY <2>2, <2>3, <2>4, <2>5, <2>6, <2>7
<1> QED
  BY <1>2, <1>2, <1>6, <1>7, <1>8, <1>10, <1>11 DEF ConfigInv, ChoiceInv


\* The Settings dialog is gone.
LEMMA DestroyDialogKeepsConfig ==
  ASSUME ConfigInv, DestroyDialog
  PROVE  ConfigInv'
<1>1. /\ Jobs /\ ConfigStates /\ Shapes /\ Picked /\ Seen /\ SharedInv /\ FileInv
      /\ races = {} => Alone /\ InFile /\ InDialog /\ InHandler /\ InShared /\ InHook
  BY ConfigParts
<1>2. /\ Takes("dlg", "close") \/ Takes("dlg", "end")
      /\ dlg' = [open |-> FALSE, dirty |-> FALSE, inbox |-> FALSE] /\ ConfigStates'
      /\ UNCHANGED <<sc, file, sh, unseen, mem, sub, note, work, hook, posted, engine, used, wanted, races>>
  BY <1>1, MessageStepsDo
<1>3. /\ Jobs' /\ WorkLeft' = WorkLeft /\ job'["worker"] = job["worker"]
      /\ DlgLeft' = {} /\ DlgLeft \subseteq {"close", "end"} /\ ("close" \in DlgLeft \/ "end" \in DlgLeft)
      /\ SubLeft' = SubLeft /\ MenuLeft' = MenuLeft
  <2>1. PICK z \in {"close", "end"} : Takes("dlg", z)
    BY <1>2
  <2>2. DlgLeft' = {}
    BY <2>1, Past DEF Procs, DlgLeft, Ends
  <2> QED
    BY <2>1, <2>2, TakesOf DEF UIs
<1>4. /\ HookKept /\ ~dlg'.dirty /\ ~dlg'.open /\ ~dlg.dirty
  BY <1>1, <1>2, <1>3 DEF HookKept, Shapes
<1>5. Shapes'
  BY <1>1, <1>2, <1>3, <1>4 DEF Shapes, Classic
<1>6. Picked'
  BY <1>1, <1>2, <1>3 DEF Picked, Uncounted
<1>7. Seen' /\ SharedInv' /\ LastOpt' = LastOpt /\ LastTable' = LastTable
  BY <1>1, <1>2, <1>4, HookFrame
<1>8. AllCounted' <=> AllCounted
  BY <1>3 DEF AllCounted, Counts, DlgLeft, SubLeft, MenuLeft
<1>9. FileInv'
  BY <1>1, <1>2, <1>4, <1>8 DEF FileInv, HookKept
<1>10. ASSUME races' = {} PROVE Alone' /\ InFile' /\ InDialog' /\ InHandler' /\ InShared' /\ InHook'
  <2>1. /\ Alone /\ InFile /\ InDialog /\ InHandler /\ InShared /\ InHook
    BY <1>1, <1>2, <1>10
  <2>2. Alone'
    BY <2>1, <1>2, <1>3, <1>4 DEF Alone, Acts, UIs, DlgLeft, SubLeft, MenuLeft
  <2>3. InFile'
    BY <2>1, <1>2, <1>3, <1>4 DEF InFile, TypOwed, SysOwed, DlgSaves
  <2>4. InDialog'
    BY <2>1, <1>2, <1>3, <1>4 DEF InDialog, DlgSaves, FromFile, Classic
  <2>5. InHandler'
    BY <2>1, <1>2, <1>3, <1>4 DEF InHandler, Classic, DlgLeft, SubLeft, MenuLeft
  <2>6. InShared'
    BY <2>1, <1>2, <1>3, <1>4 DEF InShared, DlgSaves, FromFile
  <2>7. InHook'
    BY <2>1, <1>2, <1>3, <1>4, <1>7, <1>8 DEF InHook, Uncounted, HookKept
  <2> QED
    BY <2>2, <2>3, <2>4, <2>5, <2>6, <2>7
<1> QED
  BY <1>2, <1>3, <1>5, <1>6, <1>7, <1>9, <1>10 DEF ConfigInv, ChoiceInv


\* The code table of the tray menu reaches the hook first.
LEMMA SetCodeTableKeepsConfig ==
  ASSUME ConfigInv, SetCodeTable
  PROVE  ConfigInv'
<1>1. /\ Jobs /\ ConfigStates /\ Shapes /\ Picked /\ Seen /\ SharedInv /\ FileInv
      /\ races = {} => Alone /\ InFile /\ InDialog /\ InHandler /\ InShared /\ InHook
  BY ConfigParts
<1>2. /\ Takes("menu", "hooktable") /\ hook' = [hook EXCEPT !.table = mem["menu"].pick[2]]
      /\ ConfigStates'
      /\ UNCHANGED <<sc, file, sh, unseen, mem, dlg, sub, note, work, posted, engine, quit, used, wanted, races>>
  BY <1>1, SetCodeTableDoes
<1>3. /\ Jobs' /\ WorkLeft' = WorkLeft /\ job'["worker"] = job["worker"]
      /\ DlgLeft' = DlgLeft /\ SubLeft' = SubLeft /\ MenuLeft' = MenuLeft \ {"hooktable"} /\ "hooktable" \in MenuLeft
  BY <1>2, TakesOf DEF UIs
<1>4. /\ hook'.table = mem["menu"].pick[2] /\ hook'.opt = hook.opt /\ hook'.own = hook.own /\ hook'.snap = hook.snap
      /\ hook'.gen = hook.gen /\ hook'.lopt = hook.lopt /\ hook'.ltable = hook.ltable
      /\ LastOpt' = LastOpt /\ LastTable' = LastTable
  <2>1. hook \in Hooks
    BY <1>1 DEF ConfigStates
  <2>2. /\ hook'.table = mem["menu"].pick[2] /\ hook'.opt = hook.opt /\ hook'.own = hook.own /\ hook'.snap = hook.snap
        /\ hook'.gen = hook.gen /\ hook'.lopt = hook.lopt /\ hook'.ltable = hook.ltable
    BY <2>1, <1>2 DEF Hooks
  <2> QED
    BY <2>2, <1>2, <1>3 DEF LastOpt, LastTable
<1>5. Shapes'
  BY <1>1, <1>2, <1>3 DEF Shapes, Classic
<1>6. Picked'
  BY <1>1, <1>2, <1>3 DEF Picked, Uncounted
<1>7. Seen' /\ SharedInv'
  BY <1>1, <1>2, <1>3, <1>4 DEF Seen, SharedInv
<1>8. AllCounted' <=> AllCounted
  BY <1>3 DEF AllCounted, Counts, DlgLeft, SubLeft, MenuLeft
<1>9. FileInv'
  BY <1>1, <1>2, <1>3, <1>4, <1>8 DEF FileInv
<1>10. ASSUME races' = {} PROVE Alone' /\ InFile' /\ InDialog' /\ InHandler' /\ InShared' /\ InHook'
  <2>1. /\ Alone /\ InFile /\ InDialog /\ InHandler /\ InShared /\ InHook
    BY <1>1, <1>2, <1>10
  <2>2. Alone'
    BY <2>1, <1>2, <1>3 DEF Alone, Acts, UIs, DlgLeft, SubLeft, MenuLeft
  <2>3. InFile'
    BY <2>1, <1>2, <1>3 DEF InFile, TypOwed, SysOwed, DlgSaves
  <2>4. InDialog'
    BY <2>1, <1>2, <1>3 DEF InDialog, DlgSaves, FromFile, Classic, Ends
  <2>5. InHandler'
    BY <2>1, <1>2, <1>3 DEF InHandler, Classic, DlgLeft, SubLeft, MenuLeft, Ends
  <2>6. InShared'
    BY <2>1, <1>2, <1>3 DEF InShared, DlgSaves, FromFile, Ends
  <2>7. InHook'
    <3>1. mem["menu"].pick[2] = wanted.table
      BY <1>1, <1>3, <2>1 DEF Shapes, InHandler
    <3> QED
      BY <2>1, <1>2, <1>3, <1>4, <1>8, <3>1 DEF InHook, Uncounted
  <2> QED
    BY <2>2, <2>3, <2>4, <2>5, <2>6, <2>7
<1> QED
  BY <1>2, <1>3, <1>5, <1>6, <1>7, <1>9, <1>10 DEF ConfigInv, ChoiceInv


\* A refused toggle takes its choice back.
LEMMA TakeChoiceKeepsConfig ==
  ASSUME ConfigInv, TakeChoice
  PROVE  ConfigInv'
<1>1. /\ Jobs /\ ConfigStates /\ Shapes /\ Picked /\ Seen /\ SharedInv /\ FileInv
      /\ races = {} => Alone /\ InFile /\ InDialog /\ InHandler /\ InShared /\ InHook
  BY ConfigParts
<1>2. /\ Takes("dlg", "choice") /\ OthersHold("dlg") /\ HoldsSame("dlg", {"cfg"})
      /\ mem'["dlg"].cfg = Chosen(mem["dlg"].cfg, mem["dlg"].pick) /\ ConfigStates'
      /\ UNCHANGED <<sc, file, sh, unseen, dlg, sub, note, work, hook, posted, engine, quit, used, wanted, races>>
  BY <1>1, TakeChoiceDoes
<1>3. /\ Jobs' /\ WorkLeft' = WorkLeft /\ job'["worker"] = job["worker"]
      /\ DlgLeft' = DlgLeft \ {"choice"} /\ "choice" \in DlgLeft /\ SubLeft' = SubLeft /\ MenuLeft' = MenuLeft
      /\ "sync" \notin DlgLeft
  BY <1>2, TakesOf, Past DEF UIs, Procs, DlgLeft
<1>4. /\ mem'["dlg"].base = mem["dlg"].base /\ mem'["dlg"].sysc = mem["dlg"].sysc
      /\ mem'["dlg"].sbase = mem["dlg"].sbase /\ mem'["dlg"].pick = mem["dlg"].pick
      /\ mem'["sub"] = mem["sub"] /\ mem'["menu"] = mem["menu"] /\ mem'["worker"] = mem["worker"] /\ HookKept
  BY <1>2, <1>3 DEF OthersHold, HoldsSame, Procs, HookKept
<1>5. Shapes'
  BY <1>1, <1>2, <1>3 DEF Shapes, Classic
<1>6. Picked'
  BY <1>1, <1>2, <1>3, <1>4 DEF Picked, Uncounted
<1>7. Seen' /\ SharedInv' /\ LastOpt' = LastOpt /\ LastTable' = LastTable
  BY <1>1, <1>2, <1>4, HookFrame
<1>8. AllCounted' <=> AllCounted
  BY <1>3 DEF AllCounted, Counts, DlgLeft, SubLeft, MenuLeft
<1>9. FileInv'
  BY <1>1, <1>2, <1>4, <1>8 DEF FileInv, HookKept
<1>10. ASSUME races' = {} PROVE Alone' /\ InFile' /\ InDialog' /\ InHandler' /\ InShared' /\ InHook'
  <2>1. /\ Alone /\ InFile /\ InDialog /\ InHandler /\ InShared /\ InHook
    BY <1>1, <1>2, <1>10
  <2>2. mem'["dlg"].cfg = mem["dlg"].cfg
    <3>1. mem["dlg"].pick = <<"own", mem["dlg"].cfg.own>>
      BY <1>3, <2>1 DEF InDialog
    <3>2. mem["dlg"].cfg \in Typs /\ mem["dlg"].pick \in Options \X (0..1)
      BY <1>1 DEF ConfigStates, Mems, Procs
    <3>3. Chosen(mem["dlg"].cfg, mem["dlg"].pick) = [mem["dlg"].cfg EXCEPT !["own"] = mem["dlg"].cfg.own]
      BY <3>1, <3>2, ChosenParts DEF TypOptions
    <3> QED
      BY <1>2, <3>2, <3>3 DEF Typs
  <2>3. Alone'
    BY <1>1, <2>1, <1>2, <1>3, <1>4, <2>2 DEF Alone, Acts, UIs, DlgLeft, SubLeft, MenuLeft
  <2>4. InFile'
    BY <1>1, <2>1, <1>2, <1>3, <1>4, <2>2 DEF InFile, TypOwed, SysOwed, DlgSaves
  <2>5. InDialog'
    BY <1>1, <2>1, <1>2, <1>3, <1>4, <2>2 DEF InDialog, DlgSaves, FromFile, Classic, Ends
  <2>6. InHandler'
    BY <1>1, <2>1, <1>2, <1>3, <1>4, <2>2 DEF InHandler, Classic, DlgLeft, SubLeft, MenuLeft, Ends
  <2>7. InShared'
    BY <1>1, <2>1, <1>2, <1>3, <1>4, <2>2 DEF InShared, DlgSaves, FromFile, Ends
  <2>8. InHook'
    BY <2>1, <1>2, <1>3, <1>4, <1>7, <1>8 DEF InHook, Uncounted, HookKept
  <2> QED
    BY <2>3, <2>4, <2>5, <2>6, <2>7, <2>8
<1> QED
  BY <1>2, <1>3, <1>5, <1>6, <1>7, <1>9, <1>10 DEF ConfigInv, ChoiceInv

\* A step that writes nothing the invariant is about.
LEMMA IdleKeepsConfig ==
  ASSUME ConfigInv, races \subseteq races', races' \in SUBSET Races,
         UNCHANGED <<sc, file, sh, unseen, mem, job, dlg, hook, posted, engine, wanted>>
  PROVE  ConfigInv'
<1>1. /\ Jobs /\ ConfigStates /\ Shapes /\ Picked /\ Seen /\ SharedInv /\ FileInv
      /\ races = {} => Alone /\ InFile /\ InDialog /\ InHandler /\ InShared /\ InHook
  BY ConfigParts
<1>2. /\ \A p : Left(p)' = Left(p)
      /\ DlgLeft' = DlgLeft /\ SubLeft' = SubLeft /\ MenuLeft' = MenuLeft /\ WorkLeft' = WorkLeft
  BY DEF Left, DlgLeft, SubLeft, MenuLeft, WorkLeft
<1>3. UIsKept /\ HookKept
  BY <1>2 DEF UIsKept, HookKept
<1>4. Jobs' /\ ConfigStates'
  BY <1>1 DEF Jobs, ConfigStates
<1>5. Shapes'
  BY <1>1, <1>2 DEF Shapes, Classic
<1>6. Picked'
  BY <1>1, <1>2 DEF Picked, Uncounted
<1>7. Seen' /\ SharedInv' /\ LastOpt' = LastOpt /\ LastTable' = LastTable
  BY <1>1, <1>3, HookFrame
<1>8. FileInv' /\ (AllCounted' <=> AllCounted)
  BY <1>1, <1>2 DEF FileInv, AllCounted, Counts
<1>9. ASSUME races' = {} PROVE Alone' /\ InFile' /\ InDialog' /\ InHandler' /\ InShared' /\ InHook'
  <2>1. Alone /\ InFile /\ InDialog /\ InHandler /\ InShared /\ InHook
    BY <1>1, <1>9
  <2>2. Alone' /\ InFile' /\ InDialog' /\ InHandler'
    BY <1>1, <1>3, <2>1, UIsFrame
  <2>3. InShared'
    BY <1>2, <2>1 DEF InShared, DlgSaves, FromFile
  <2>4. InHook'
    BY <1>2, <1>7, <1>8, <2>1 DEF InHook, Uncounted
  <2> QED
    BY <2>2, <2>3, <2>4
<1> QED
  BY <1>4, <1>5, <1>6, <1>7, <1>8, <1>9 DEF ConfigInv, ChoiceInv

\* What a step of the hook or of its worker has to keep, the user interfaces apart.
LEMMA WorkerFrame ==
  ASSUME ConfigInv, UIsKept, sh' = sh, Jobs', ConfigStates',
         "rload" \in WorkLeft' => "rapply" \in WorkLeft',
         "rapply" \in WorkLeft' => "rsnap" \in WorkLeft',
         job'["worker"] # <<>> => "compare" \in WorkLeft',
         Seen', SharedInv', FileInv', races = {} => InHook'
  PROVE  ConfigInv'
<1>1. /\ Shapes /\ Picked
      /\ races = {} => Alone /\ InFile /\ InDialog /\ InHandler /\ InShared
  BY ConfigParts
<1>2. /\ DlgLeft' = DlgLeft /\ SubLeft' = SubLeft /\ MenuLeft' = MenuLeft
      /\ dlg'.open = dlg.open /\ dlg'.dirty = dlg.dirty /\ sc' = sc /\ file' = file /\ races \subseteq races'
      /\ wanted' = wanted /\ mem'["dlg"] = mem["dlg"] /\ mem'["sub"] = mem["sub"] /\ mem'["menu"] = mem["menu"]
  BY DEF UIsKept, UIs
<1>3. Shapes'
  BY <1>1, <1>2 DEF Shapes, Classic
<1>4. Picked'
  BY <1>1, <1>2 DEF Picked, Uncounted
<1>5. ASSUME races = {} PROVE Alone' /\ InFile' /\ InDialog' /\ InHandler' /\ InShared'
  <2>1. Alone' /\ InFile' /\ InDialog' /\ InHandler'
    BY <1>1, <1>5, UIsFrame
  <2>2. InShared'
    BY <1>1, <1>2, <1>5 DEF InShared, DlgSaves, FromFile
  <2> QED
    BY <2>1, <2>2
<1> QED
  BY <1>2, <1>3, <1>4, <1>5 DEF ConfigInv, ChoiceInv

\* The user interfaces during a step of the worker.
LEMMA UIsDuring ==
  ASSUME \A q \in Procs \ {"worker"} : Left(q)' = Left(q), OthersHold("worker"),
         UNCHANGED <<sc, file, wanted, races, dlg>>
  PROVE  UIsKept /\ (Uncounted' <=> Uncounted) /\ (AllCounted' <=> AllCounted)
BY DEF UIsKept, OthersHold, UIs, Procs, DlgLeft, SubLeft, MenuLeft, Uncounted, AllCounted, Counts

\* QuickSync claims the epoch: a new generation is noted, and its reload begun.
LEMMA QuickSyncKeepsConfig ==
  ASSUME ConfigInv, QuickSync
  PROVE  ConfigInv'
<1>1. /\ Jobs /\ ConfigStates /\ Shapes /\ Seen /\ SharedInv /\ FileInv /\ (races = {} => InHook)
  BY ConfigParts
<1>2. /\ job["worker"] = <<>> /\ ConfigStates'
      /\ \/ ~unseen /\ UNCHANGED <<unseen, mem, hook, job>>
         \/ /\ unseen' = FALSE /\ OthersHold("worker") /\ HoldsSame("worker", {"snap"})
            /\ mem'["worker"].snap = sh /\ hook' = [hook EXCEPT !.gen = sh.gen]
            /\ Begins("worker", IF sh.gen # hook.gen THEN {"rload", "rapply", "rsnap", "compare"} ELSE {"compare"})
            /\ job'["worker"] # <<>>
      /\ UNCHANGED <<sc, file, sh, dlg, sub, note, posted, engine, quit, used, wanted, races>>
  BY <1>1, QuickSyncDoes
<1>3. CASE UNCHANGED <<unseen, mem, hook, job>>
  <2>1. races' \in SUBSET Races
    BY <1>2 DEF ConfigStates
  <2> QED
    BY <1>2, <1>3, <2>1, IdleKeepsConfig
<1>4. CASE /\ unseen' = FALSE /\ OthersHold("worker") /\ HoldsSame("worker", {"snap"})
           /\ mem'["worker"].snap = sh /\ hook' = [hook EXCEPT !.gen = sh.gen]
           /\ Begins("worker", IF sh.gen # hook.gen THEN {"rload", "rapply", "rsnap", "compare"} ELSE {"compare"})
           /\ job'["worker"] # <<>>
  <2>1. /\ WorkLeft = {} /\ Jobs'
        /\ WorkLeft' = IF sh.gen # hook.gen THEN {"rload", "rapply", "rsnap", "compare"} ELSE {"compare"}
    BY <1>1, <1>2, <1>4, OwnSteps DEF Begins, WorkLeft, Procs
  <2>2. UIsKept /\ (Uncounted' <=> Uncounted) /\ (AllCounted' <=> AllCounted)
    BY <1>2, <1>4, UIsDuring DEF Begins
  <2>3. /\ hook'.gen = sh.gen /\ hook'.opt = hook.opt /\ hook'.table = hook.table /\ hook'.own = hook.own
        /\ hook'.snap = hook.snap /\ hook'.lopt = hook.lopt /\ hook'.ltable = hook.ltable
        /\ sh = [opt |-> sh.opt, table |-> sh.table, gen |-> sh.gen]
    BY <1>1, <1>4 DEF ConfigStates, Hooks, Shs
  <2>4. /\ LastOpt' = sh.opt /\ LastTable' = sh.table
        /\ LastOpt = hook.lopt /\ LastTable = hook.ltable
    BY <1>2, <1>4 DEF LastOpt, LastTable
  <2>5. Seen'
    BY <1>2, <1>4, <2>3, <2>4 DEF Seen
  <2>6. SharedInv'
    BY <1>1, <1>2, <2>1, <2>3, <2>4 DEF SharedInv
  <2>7. FileInv'
    BY <1>1, <1>2, <2>1, <2>2, <2>3 DEF FileInv
  <2>8. races = {} => InHook'
    <3>1. SUFFICES ASSUME races = {} PROVE InHook'
      OBVIOUS
    <3>2. InHook /\ races \cap {"lost", "lapped"} = {}
      BY <1>1, <3>1
    <3>3. sh.gen = hook.gen => sh.opt = hook.lopt
      BY <1>1, <2>4, <3>2 DEF SharedInv
    <3> QED
      BY <1>2, <2>1, <2>2, <2>3, <2>4, <3>2, <3>3 DEF InHook
  <2> QED
    BY <1>2, <2>1, <2>2, <2>5, <2>6, <2>7, <2>8, WorkerFrame
<1> QED
  BY <1>2, <1>3, <1>4

\* The worker loads the file it has noted a generation for.
LEMMA ReloadLoadKeepsConfig ==
  ASSUME ConfigInv, ReloadLoad
  PROVE  ConfigInv'
<1>1. /\ Jobs /\ ConfigStates /\ Shapes /\ Seen /\ SharedInv /\ FileInv
      /\ races = {} => InFile /\ InHook
  BY ConfigParts
<1>2. /\ Takes("worker", "rload") /\ OthersHold("worker") /\ HoldsSame("worker", {"cfg"})
      /\ mem'["worker"].cfg = Typing(file) /\ ConfigStates'
      /\ UNCHANGED <<sc, file, sh, unseen, dlg, sub, note, work, hook, posted, engine, quit, used, wanted, races>>
  BY <1>1, ReloadsDo
<1>3. /\ Jobs' /\ "rload" \in WorkLeft /\ WorkLeft' = WorkLeft \ {"rload"}
      /\ "rapply" \in WorkLeft' /\ "rsnap" \in WorkLeft' /\ "compare" \in WorkLeft'
      /\ job["worker"] # <<>> /\ job'["worker"] # <<>>
  <2>1. Jobs' /\ "rload" \in WorkLeft /\ WorkLeft' = WorkLeft \ {"rload"}
    BY <1>2 DEF Takes, WorkLeft
  <2>2. job["worker"] # <<>>
    BY <1>1, <2>1, NotTheirs
  <2>3. "rapply" \in WorkLeft' /\ "rsnap" \in WorkLeft' /\ "compare" \in WorkLeft'
    BY <1>1, <2>1, <2>2 DEF Shapes
  <2>4. job'["worker"] # <<>>
    <3>1. job'["worker"] = <<>> => LeftOf(job'["worker"]) = {}
      BY DEF LeftOf
    <3> QED
      BY <2>3, <3>1 DEF WorkLeft, Left
  <2> QED
    BY <2>1, <2>2, <2>3, <2>4
<1>4. UIsKept /\ (Uncounted' <=> Uncounted) /\ (AllCounted' <=> AllCounted)
  BY <1>2, UIsDuring DEF Takes
<1>5. /\ mem'["worker"].snap = mem["worker"].snap
      /\ LastOpt' = LastOpt /\ LastTable' = LastTable
  BY <1>2, <1>3 DEF HoldsSame, LastOpt, LastTable
<1>6. Seen' /\ SharedInv'
  BY <1>1, <1>2, <1>3, <1>5 DEF Seen, SharedInv
<1>7. Typing(file).own = file.own /\ Typing(file).table = file.table
      /\ (Typing(file) = Typing(wanted) => file.table = wanted.table)
  BY <1>1, ConfigurationParts DEF ConfigStates
<1>8. FileInv'
  BY <1>2, <1>3, <1>7 DEF FileInv
<1>9. races = {} => InHook'
  <2>1. SUFFICES ASSUME races = {} PROVE InHook'
    OBVIOUS
  <2>2. InFile /\ InHook
    BY <1>1, <2>1
  <2>3. AllCounted /\ ~dlg.dirty /\ ~Uncounted => file.table = wanted.table
    <3>1. AllCounted /\ ~dlg.dirty /\ ~Uncounted => ~TypOwed
      BY <1>1 DEF Shapes, AllCounted, Counts, Uncounted, TypOwed, DlgSaves, DlgLeft, SubLeft, MenuLeft
    <3> QED
      BY <1>7, <2>2, <3>1 DEF InFile
  <2> QED
    BY <1>2, <1>3, <1>4, <1>5, <1>7, <2>2, <2>3 DEF InHook
<1> QED
  BY <1>2, <1>3, <1>4, <1>6, <1>8, <1>9, WorkerFrame

\* The hook takes what the worker has loaded, and the option of SharedState.
LEMMA ReloadKeepsConfig ==
  ASSUME ConfigInv, ReloadFromToml
  PROVE  ConfigInv'
<1>1. /\ Jobs /\ ConfigStates /\ Shapes /\ Seen /\ SharedInv /\ FileInv
      /\ races = {} => InHook
  BY ConfigParts
<1>2. /\ Takes("worker", "rapply") /\ ConfigStates'
      /\ hook' = [hook EXCEPT !.opt = sh.opt, !.table = mem["worker"].cfg.table, !.own = mem["worker"].cfg.own]
      /\ UNCHANGED <<sc, file, sh, unseen, mem, dlg, sub, note, work, posted, engine, quit, used, wanted, races>>
  BY <1>1, ReloadsDo
<1>3. /\ Jobs' /\ "rapply" \in WorkLeft /\ WorkLeft' = WorkLeft \ {"rapply"} /\ "rload" \notin WorkLeft
      /\ "rsnap" \in WorkLeft' /\ "compare" \in WorkLeft'
      /\ job["worker"] # <<>> /\ job'["worker"] # <<>>
  <2>1. Jobs' /\ "rapply" \in WorkLeft /\ WorkLeft' = WorkLeft \ {"rapply"} /\ "rload" \notin WorkLeft
    BY <1>2, Past DEF Takes, WorkLeft, Procs
  <2>2. job["worker"] # <<>>
    BY <1>1, <2>1, NotTheirs
  <2>3. "rsnap" \in WorkLeft' /\ "compare" \in WorkLeft'
    BY <1>1, <2>1, <2>2 DEF Shapes
  <2>4. job'["worker"] # <<>>
    <3>1. job'["worker"] = <<>> => LeftOf(job'["worker"]) = {}
      BY DEF LeftOf
    <3> QED
      BY <2>3, <3>1 DEF WorkLeft, Left
  <2> QED
    BY <2>1, <2>2, <2>3, <2>4
<1>4. UIsKept /\ (Uncounted' <=> Uncounted) /\ (AllCounted' <=> AllCounted)
  BY <1>2, UIsDuring DEF Takes, OthersHold
<1>5. /\ hook'.opt = sh.opt /\ hook'.table = mem["worker"].cfg.table /\ hook'.own = mem["worker"].cfg.own
      /\ hook'.gen = hook.gen /\ hook'.lopt = hook.lopt /\ hook'.ltable = hook.ltable
  BY <1>1, <1>2 DEF ConfigStates, Hooks
<1>6. LastOpt' = LastOpt /\ LastTable' = LastTable
  BY <1>2, <1>3 DEF LastOpt, LastTable
<1>7. Seen' /\ SharedInv'
  BY <1>1, <1>2, <1>3, <1>5, <1>6 DEF Seen, SharedInv
<1>8. FileInv'
  BY <1>1, <1>2, <1>3, <1>4, <1>5 DEF FileInv
<1>9. races = {} => InHook'
  BY <1>1, <1>2, <1>3, <1>4, <1>5, <1>6 DEF InHook
<1> QED
  BY <1>2, <1>3, <1>4, <1>7, <1>8, <1>9, WorkerFrame

\* The lists are taken from the file, and the hook thread is told.
LEMMA RebuildKeepsConfig ==
  ASSUME ConfigInv, RebuildSnapshotFromToml
  PROVE  ConfigInv'
<1>1. /\ Jobs /\ ConfigStates /\ Shapes /\ Seen /\ SharedInv /\ FileInv
      /\ races = {} => InHook
  BY ConfigParts
<1>2. /\ Takes("worker", "rsnap") /\ ConfigStates'
      /\ hook' = [hook EXCEPT !.snap = file.own] /\ posted' = TRUE
      /\ UNCHANGED <<sc, file, sh, unseen, mem, dlg, sub, note, work, engine, quit, used, wanted, races>>
  BY <1>1, ReloadsDo
<1>3. /\ Jobs' /\ "rsnap" \in WorkLeft /\ WorkLeft' = WorkLeft \ {"rsnap"}
      /\ "rload" \notin WorkLeft /\ "rapply" \notin WorkLeft /\ "compare" \in WorkLeft'
      /\ job["worker"] # <<>> /\ job'["worker"] # <<>>
  <2>1. /\ Jobs' /\ "rsnap" \in WorkLeft /\ WorkLeft' = WorkLeft \ {"rsnap"}
        /\ "rload" \notin WorkLeft /\ "rapply" \notin WorkLeft
    BY <1>2, Past DEF Takes, WorkLeft, Procs
  <2>2. job["worker"] # <<>>
    BY <1>1, <2>1, NotTheirs
  <2>3. "compare" \in WorkLeft'
    BY <1>1, <2>1, <2>2 DEF Shapes
  <2>4. job'["worker"] # <<>>
    <3>1. job'["worker"] = <<>> => LeftOf(job'["worker"]) = {}
      BY DEF LeftOf
    <3> QED
      BY <2>3, <3>1 DEF WorkLeft, Left
  <2> QED
    BY <2>1, <2>2, <2>3, <2>4
<1>4. UIsKept /\ (Uncounted' <=> Uncounted) /\ (AllCounted' <=> AllCounted)
  BY <1>2, UIsDuring DEF Takes, OthersHold
<1>5. /\ hook'.snap = file.own /\ hook'.opt = hook.opt /\ hook'.table = hook.table /\ hook'.own = hook.own
      /\ hook'.gen = hook.gen /\ hook'.lopt = hook.lopt /\ hook'.ltable = hook.ltable
  BY <1>1, <1>2 DEF ConfigStates, Hooks
<1>6. LastOpt' = LastOpt /\ LastTable' = LastTable
  BY <1>2, <1>3 DEF LastOpt, LastTable
<1>7. Seen' /\ SharedInv'
  BY <1>1, <1>2, <1>3, <1>5, <1>6 DEF Seen, SharedInv
<1>8. FileInv'
  BY <1>1, <1>2, <1>3, <1>4, <1>5 DEF FileInv
<1>9. races = {} => InHook'
  BY <1>1, <1>2, <1>3, <1>4, <1>5, <1>6 DEF InHook
<1> QED
  BY <1>2, <1>3, <1>4, <1>7, <1>8, <1>9, WorkerFrame

\* What QuickSync has read is compared with what it had read before, and taken.
LEMMA CompareKeepsConfig ==
  ASSUME ConfigInv, CompareFields
  PROVE  ConfigInv'
<1>1. /\ Jobs /\ ConfigStates /\ Shapes /\ Seen /\ SharedInv /\ FileInv
      /\ races = {} => InHook
  BY ConfigParts
<1>2. /\ Takes("worker", "compare") /\ ConfigStates'
      /\ hook'.lopt = mem["worker"].snap.opt /\ hook'.ltable = mem["worker"].snap.table
      /\ hook'.own = hook.own /\ hook'.snap = hook.snap /\ hook'.gen = hook.gen
      /\ IF mem["worker"].snap.opt = hook.lopt /\ mem["worker"].snap.table = hook.ltable
         THEN hook' = hook
         ELSE hook'.opt = mem["worker"].snap.opt /\ hook'.table = mem["worker"].snap.table
      /\ UNCHANGED <<sc, file, sh, unseen, mem, dlg, sub, note, work, posted, engine, quit, used, wanted, races>>
  BY <1>1, CompareDoes
<1>3. /\ Jobs' /\ WorkLeft' = {} /\ job["worker"] # <<>> /\ job'["worker"] = <<>>
      /\ "rload" \notin WorkLeft /\ "rapply" \notin WorkLeft /\ "rsnap" \notin WorkLeft
  <2>1. /\ Jobs' /\ "compare" \in WorkLeft /\ WorkLeft' = WorkLeft \ {"compare"}
        /\ "rload" \notin WorkLeft /\ "rapply" \notin WorkLeft /\ "rsnap" \notin WorkLeft
    BY <1>2, Past DEF Takes, WorkLeft, Procs
  <2>2. job["worker"] # <<>> /\ WorkLeft' = {}
    BY <1>1, <2>1, NotTheirs
  <2>3. job'["worker"] = <<>>
    BY <2>1, <2>2, WorkerEnds DEF Jobs, Procs, WorkLeft, Left
  <2> QED
    BY <2>1, <2>2, <2>3
<1>4. UIsKept /\ (Uncounted' <=> Uncounted) /\ (AllCounted' <=> AllCounted)
  BY <1>2, UIsDuring DEF Takes, OthersHold
<1>5. LastOpt' = LastOpt /\ LastTable' = LastTable
  BY <1>2, <1>3 DEF LastOpt, LastTable
<1>6. LastOpt = mem["worker"].snap.opt /\ LastTable = mem["worker"].snap.table
  BY <1>3 DEF LastOpt, LastTable
<1>7. Seen' /\ SharedInv'
  BY <1>1, <1>2, <1>3, <1>5, <1>6 DEF Seen, SharedInv
<1>8. FileInv'
  BY <1>1, <1>2, <1>3, <1>4 DEF FileInv
<1>9. races = {} => InHook'
  BY <1>1, <1>2, <1>3, <1>4, <1>5, <1>6 DEF InHook
<1> QED
  BY <1>2, <1>3, <1>4, <1>7, <1>8, <1>9, WorkerFrame

\* The hook thread creates its engine anew.
LEMMA ApplyKeepsConfig ==
  ASSUME ConfigInv, ApplyConfigOnHookThread
  PROVE  ConfigInv'
<1>1. /\ Jobs /\ ConfigStates /\ Shapes /\ Seen /\ SharedInv /\ FileInv
      /\ races = {} => InHook
  BY ConfigParts
<1>2. /\ posted' = FALSE /\ engine' = [opt |-> hook.opt, own |-> hook.own] /\ ConfigStates'
      /\ UNCHANGED <<sc, file, sh, unseen, mem, job, dlg, sub, note, work, hook, quit, used, wanted, races>>
  BY <1>1, ApplyDoes
<1>3. /\ \A p : Left(p)' = Left(p)
      /\ DlgLeft' = DlgLeft /\ SubLeft' = SubLeft /\ MenuLeft' = MenuLeft /\ WorkLeft' = WorkLeft
      /\ Jobs' /\ LastOpt' = LastOpt /\ LastTable' = LastTable
  BY <1>1, <1>2 DEF Left, DlgLeft, SubLeft, MenuLeft, WorkLeft, Jobs, LastOpt, LastTable
<1>4. UIsKept /\ (Uncounted' <=> Uncounted) /\ (AllCounted' <=> AllCounted)
  BY <1>2, <1>3, UIsDuring DEF OthersHold
<1>5. Seen' /\ SharedInv'
  BY <1>1, <1>2, <1>3 DEF Seen, SharedInv, Shapes
<1>6. FileInv'
  BY <1>1, <1>2, <1>3, <1>4 DEF FileInv
<1>7. races = {} => InHook'
  BY <1>1, <1>2, <1>3, <1>4 DEF InHook
<1> QED
  BY <1>1, <1>2, <1>3, <1>4, <1>5, <1>6, <1>7, WorkerFrame DEF Shapes

\* A main process that starts has the configuration of the file.
LEMMA MainRestartKeepsConfig ==
  ASSUME ConfigInv, MainRestart
  PROVE  ConfigInv'
<1>1. /\ Jobs /\ ConfigStates /\ Shapes /\ Picked /\ Seen /\ SharedInv /\ FileInv
      /\ races = {} => Alone /\ InFile /\ InDialog /\ InHandler /\ InShared /\ InHook
  BY ConfigParts
<1>2. /\ job["menu"] = <<>> /\ job["worker"] = <<>> /\ Jobs'
      /\ \A p \in Procs : job'[p] = <<>> /\ Left(p)' = {}
      /\ dlg' = [open |-> FALSE, dirty |-> FALSE, inbox |-> FALSE] /\ unseen' = FALSE /\ posted' = FALSE
      /\ sh' = [opt |-> file.opt, table |-> file.table, gen |-> 0] /\ hook' = HookOf(file)
      /\ engine' = [opt |-> file.opt, own |-> file.own]
      /\ races' = IF dlg.dirty \/ job["dlg"] # <<>> \/ job["sub"] # <<>> THEN races \cup {"killed"} ELSE races
      /\ ConfigStates'
      /\ UNCHANGED <<sc, file, mem, used, wanted>>
  BY <1>1, MainRestartDoes
<1>3. /\ DlgLeft' = {} /\ SubLeft' = {} /\ MenuLeft' = {} /\ WorkLeft' = {} /\ job'["worker"] = <<>>
      /\ ~dlg'.dirty /\ ~dlg'.open
  BY <1>2 DEF Procs, DlgLeft, SubLeft, MenuLeft, WorkLeft
<1>4. /\ hook'.opt = file.opt /\ hook'.table = file.table /\ hook'.own = file.own /\ hook'.snap = file.own
      /\ hook'.gen = 0 /\ hook'.lopt = file.opt /\ hook'.ltable = file.table
      /\ LastOpt' = file.opt /\ LastTable' = file.table
  BY <1>2, <1>3 DEF HookOf, LastOpt, LastTable
<1>5. Shapes'
  BY <1>3 DEF Shapes
<1>6. Picked'
  BY <1>3 DEF Picked, Uncounted
<1>7. Seen' /\ SharedInv' /\ FileInv'
  BY <1>2, <1>3, <1>4 DEF Seen, SharedInv, FileInv
<1>8. ASSUME races' = {} PROVE Alone' /\ InFile' /\ InDialog' /\ InHandler' /\ InShared' /\ InHook'
  <2>1. InFile /\ ~dlg.dirty /\ job["dlg"] = <<>> /\ job["sub"] = <<>>
    BY <1>1, <1>2, <1>8
  <2>2. DlgLeft = {} /\ SubLeft = {} /\ MenuLeft = {}
    BY <1>1, <1>2, <2>1, OwnSteps DEF Procs, DlgLeft, SubLeft, MenuLeft
  <2>3. Typing(file) = Typing(wanted) /\ System(file) = System(wanted)
    BY <2>1, <2>2 DEF InFile, TypOwed, SysOwed, DlgSaves
  <2>4. file.opt = wanted.opt /\ file.table = wanted.table
    BY <1>1, <2>3, SameOptions DEF ConfigStates
  <2>5. Alone' /\ InFile'
    BY <1>2, <1>3, <2>3 DEF Alone, Acts, UIs, Procs, InFile
  <2>6. InDialog'
    BY <1>3 DEF InDialog, DlgSaves
  <2>7. InHandler'
    BY <1>2, <1>3 DEF InHandler, Procs
  <2>8. InShared' /\ InHook'
    BY <1>2, <1>3, <1>4, <2>4 DEF InShared, DlgSaves, InHook, Uncounted
  <2> QED
    BY <2>5, <2>6, <2>7, <2>8
<1> QED
  BY <1>2, <1>5, <1>6, <1>7, <1>8 DEF ConfigInv, ChoiceInv

\* The steps left of the Settings dialog, and its timer.
DlgShapes ==
  /\ "sync" \in DlgLeft => dlg.dirty \/ "save" \in DlgLeft
  /\ "choice" \in DlgLeft => "save" \in DlgLeft
  /\ "save" \in DlgLeft => "bump" \in DlgLeft /\ ~dlg.dirty
  /\ "close" \in DlgLeft \/ "end" \in DlgLeft => ~dlg.dirty
  /\ dlg.dirty \/ DlgLeft # {} => dlg.open
  /\ Classic => "loadsys" \notin DlgLeft
  /\ "loadsys" \in DlgLeft => "savesys" \in DlgLeft
  /\ Classic => ("save" \in DlgLeft => "savesys" \in DlgLeft)

\* What a handler of the Settings dialog has to keep, the other threads apart.
LEMMA DialogFrame ==
  ASSUME ConfigInv, Jobs', ConfigStates', races \subseteq races',
         UNCHANGED <<sc, file, sh, unseen, hook, posted, engine>>,
         job'["worker"] = job["worker"], WorkLeft' = WorkLeft, MenuLeft' = MenuLeft, SubLeft' = SubLeft,
         OthersHold("dlg"), DlgShapes', "loadsys" \in DlgLeft' => mem'["dlg"].pick[1] = "sys",
         AllCounted' => AllCounted,
         AllCounted' /\ ~dlg'.dirty => ~dlg.dirty /\ wanted'.table = wanted.table,
         races' = {} => Alone' /\ InFile' /\ InDialog' /\ InHandler' /\ InShared'
  PROVE  ConfigInv'
<1>1. /\ Jobs /\ ConfigStates /\ Shapes /\ Picked /\ Seen /\ SharedInv /\ FileInv
      /\ races = {} => Alone /\ InFile /\ InDialog /\ InHandler /\ InShared /\ InHook
  BY ConfigParts
<1>2. /\ HookKept /\ mem'["menu"] = mem["menu"] /\ mem'["sub"] = mem["sub"]
  BY DEF HookKept, OthersHold, Procs
<1>3. Shapes'
  BY <1>1 DEF Shapes, DlgShapes
<1>4. Picked'
  BY <1>1, <1>2 DEF Picked, Uncounted
<1>5. Seen' /\ SharedInv' /\ LastOpt' = LastOpt /\ LastTable' = LastTable
  BY <1>1, <1>2, HookFrame
<1>6. FileInv'
  BY <1>1, <1>2 DEF FileInv, HookKept
<1>7. races' = {} => InHook'
  BY <1>1, <1>2, <1>5 DEF InHook, Uncounted, HookKept
<1> QED
  BY <1>3, <1>4, <1>5, <1>6, <1>7 DEF ConfigInv, ChoiceInv

\* The dialog loads the file over what it holds: a process that starts, a message,
\* a dialog that has closed.
LEMMA LoadsKeepsConfig ==
  ASSUME ConfigInv, FileLoads, ConfigStates', job["dlg"] = <<>>, dlg'.dirty = dlg.dirty, dlg.open => dlg'.open,
         races' = IF dlg.dirty THEN races \cup {"undone"} ELSE races,
         UNCHANGED <<sc, file, sh, unseen, job, hook, posted, engine, wanted>>
  PROVE  ConfigInv'
<1>1. /\ Jobs /\ ConfigStates /\ Shapes
      /\ races = {} => Alone /\ InFile /\ InDialog /\ InHandler /\ InShared /\ InHook
  BY ConfigParts
<1>2. /\ \A p : Left(p)' = Left(p)
      /\ DlgLeft' = DlgLeft /\ SubLeft' = SubLeft /\ MenuLeft' = MenuLeft /\ WorkLeft' = WorkLeft
      /\ DlgLeft = {} /\ Jobs'
  BY <1>1, OwnSteps DEF Left, DlgLeft, SubLeft, MenuLeft, WorkLeft, Jobs, Procs
<1>3. /\ OthersHold("dlg") /\ mem'["menu"] = mem["menu"] /\ mem'["sub"] = mem["sub"]
      /\ mem'["dlg"].cfg = Typing(file) /\ mem'["dlg"].base = Typing(file)
      /\ mem'["dlg"].sysc = System(file) /\ mem'["dlg"].sbase = System(file)
  BY DEF FileLoads, OthersHold, Procs
<1>4. DlgShapes' /\ (AllCounted' <=> AllCounted)
  BY <1>1, <1>2 DEF DlgShapes, Shapes, AllCounted, Counts
<1>5. ASSUME races' = {} PROVE Alone' /\ InFile' /\ InDialog' /\ InHandler' /\ InShared'
  <2>1. Alone /\ InFile /\ InDialog /\ InHandler /\ InShared /\ ~dlg.dirty
    BY <1>1, <1>5
  <2>2. Alone' /\ InFile'
    BY <1>2, <2>1 DEF Alone, Acts, InFile, TypOwed, SysOwed, DlgSaves
  <2>3. InDialog'
    BY <1>2, <1>3, <2>1 DEF InDialog, DlgSaves
  <2>4. InHandler'
    BY <1>2, <1>3, <2>1 DEF InHandler, DlgLeft
  <2>5. InShared'
    BY <1>2, <2>1 DEF InShared, DlgSaves
  <2> QED
    BY <2>2, <2>3, <2>4, <2>5
<1> QED
  BY <1>2, <1>3, <1>4, <1>5, DialogFrame

\* A dialog that holds what was in the file holds the choices, when no handler runs.
LEMMA DialogHolds ==
  ASSUME InFile, InDialog, dlg.open, DlgLeft = {}, SubLeft = {}, MenuLeft = {}
  PROVE  /\ FromFile => mem["dlg"].cfg = Typing(wanted)
         /\ Classic => mem["dlg"].sysc = mem["dlg"].sbase
         /\ System(file) = System(wanted)
         /\ ~dlg.dirty => Typing(file) = Typing(wanted)
BY DEF InFile, InDialog, FromFile, TypOwed, SysOwed, DlgSaves

\* An edit without a race finds the other threads at their end.
LEMMA EditAlone ==
  ASSUME Jobs, NEW p \in UIs, NEW other, EditOf(p, other), races' = {}
  PROVE  /\ races = {} /\ other = {}
         /\ p # "dlg"  => DlgLeft = {} /\ ~dlg.dirty
         /\ p # "sub"  => SubLeft = {}
         /\ p # "menu" => MenuLeft = {}
BY OwnSteps DEF EditOf, UIs, Procs, DlgLeft, SubLeft, MenuLeft

\* A choice of a typing or a system option in the dialog, written to SharedState.
LEMMA DialogEdit ==
  ASSUME ConfigInv, DlgIdle, NEW other, EditOf("dlg", other), NEW steps, Begins("dlg", steps),
         OthersHold("dlg"), ConfigStates', dlg'.open = dlg.open,
         UNCHANGED <<sc, file, sh, unseen, hook, posted, engine>>,
         \/ steps = {"sync"} /\ dlg'.dirty
         \/ ~dlg'.dirty /\ \E x \in SUBSET {"choice", "end"} : steps = {"sync"} \cup SaveSteps \cup x,
         races' = {} =>
           /\ mem'["dlg"].base = mem["dlg"].base /\ mem'["dlg"].sbase = mem["dlg"].sbase
           /\ mem["dlg"].cfg = Typing(wanted) => mem'["dlg"].cfg = Typing(wanted')
           /\ mem["dlg"].sysc = System(wanted) => mem'["dlg"].sysc = System(wanted')
           /\ ~Classic \/ "savesys" \notin steps =>
                System(wanted') = System(wanted) /\ mem'["dlg"].sysc = mem["dlg"].sysc
           /\ "choice" \in steps => mem'["dlg"].pick = <<"own", mem'["dlg"].cfg.own>>
  PROVE  ConfigInv'
<1>1. /\ Jobs /\ ConfigStates /\ Shapes
      /\ races = {} => Alone /\ InFile /\ InDialog /\ InHandler /\ InShared /\ InHook
  BY ConfigParts
<1>2. /\ Jobs' /\ WorkLeft' = WorkLeft /\ job'["worker"] = job["worker"]
      /\ DlgLeft' = steps /\ SubLeft' = SubLeft /\ MenuLeft' = MenuLeft
  BY BeginsOf DEF UIs
<1>3. DlgLeft = {} /\ dlg.open /\ races \subseteq races'
  BY <1>1, OwnSteps DEF DlgIdle, DlgLeft, Procs, EditOf
<1>4. /\ "sync" \in steps /\ "loadsys" \notin steps /\ (~Classic => "savesys" \notin steps)
      /\ dlg'.dirty \/ ("save" \in steps /\ "bump" \in steps /\ (Classic => "savesys" \in steps))
      /\ dlg'.dirty => steps = {"sync"}
      /\ Classic' <=> Classic
  BY DEF SaveSteps, Classic
<1>5. DlgShapes'
  BY <1>2, <1>3, <1>4 DEF DlgShapes
<1>6. ~AllCounted'
  BY <1>2, <1>4 DEF AllCounted, Counts, DlgLeft
<1>7. ASSUME races' = {} PROVE Alone' /\ InFile' /\ InDialog' /\ InHandler' /\ InShared'
  <2>1. /\ Alone /\ InFile /\ InDialog /\ InHandler /\ InShared
        /\ SubLeft = {} /\ MenuLeft = {}
    BY <1>1, <1>7, EditAlone DEF UIs
  <2>2. /\ FromFile => mem["dlg"].cfg = Typing(wanted)
        /\ Classic => mem["dlg"].sysc = mem["dlg"].sbase
        /\ System(file) = System(wanted)
    BY <1>3, <2>1, DialogHolds
  <2>3. Alone'
    BY <1>2, <2>1 DEF Alone, Acts, UIs, DlgLeft, SubLeft, MenuLeft
  <2>4. InFile'
    BY <1>2, <1>4, <1>7, <2>2 DEF InFile, TypOwed, SysOwed, DlgSaves
  <2>5. InDialog'
    BY <1>2, <1>3, <1>4, <1>7, <2>1, <2>2 DEF InDialog, DlgSaves, FromFile
  <2>6. InHandler'
    BY <1>2, <1>4, <2>1 DEF InHandler, DlgLeft, SubLeft, MenuLeft
  <2>7. InShared'
    BY <1>2, <1>4 DEF InShared
  <2> QED
    BY <2>3, <2>4, <2>5, <2>6, <2>7
<1> QED
  BY <1>2, <1>3, <1>4, <1>5, <1>6, <1>7, DialogFrame

\* What the dialog holds is saved, or it begins to end.
LEMMA DialogSaves ==
  ASSUME ConfigInv, DlgIdle, NEW saves \in BOOLEAN, NEW x \in SUBSET {"spawn", "close"},
         Jobs', ConfigStates', races \subseteq races',
         UNCHANGED <<sc, file, sh, unseen, mem, hook, posted, engine, wanted>>,
         job'["worker"] = job["worker"], WorkLeft' = WorkLeft, MenuLeft' = MenuLeft, SubLeft' = SubLeft,
         DlgLeft' = (IF saves THEN SaveSteps ELSE {}) \cup x,
         saves => dlg.dirty /\ ~dlg'.dirty, ~saves => dlg'.dirty = dlg.dirty,
         "close" \in x => ~dlg'.dirty, dlg'.open = dlg.open
  PROVE  ConfigInv'
<1>1. /\ Jobs /\ ConfigStates /\ Shapes
      /\ races = {} => Alone /\ InFile /\ InDialog /\ InHandler /\ InShared /\ InHook
  BY ConfigParts
<1>2. DlgLeft = {} /\ dlg.open
  BY <1>1, OwnSteps DEF DlgIdle, DlgLeft, Procs
<1>3. /\ "sync" \notin DlgLeft' /\ "choice" \notin DlgLeft' /\ "loadsys" \notin DlgLeft'
      /\ "save" \in DlgLeft' <=> saves
      /\ "savesys" \in DlgLeft' <=> saves /\ Classic
      /\ saves => "bump" \in DlgLeft'
      /\ "close" \in DlgLeft' => "close" \in x
      /\ "end" \notin DlgLeft' /\ (~saves => DlgLeft' \subseteq Ends)
      /\ Classic' <=> Classic
  BY DEF SaveSteps, Classic, Ends
<1>4. DlgShapes'
  BY <1>2, <1>3 DEF DlgShapes
<1>5. /\ AllCounted' => AllCounted
      /\ AllCounted' => ~saves
  BY <1>2, <1>3 DEF AllCounted, Counts, DlgLeft, SubLeft, MenuLeft
<1>6. ASSUME races' = {} PROVE Alone' /\ InFile' /\ InDialog' /\ InHandler' /\ InShared'
  <2>1. Alone /\ InFile /\ InDialog /\ InHandler /\ InShared
    BY <1>1, <1>6
  <2>2. saves => MenuLeft \subseteq Ends /\ SubLeft \subseteq Ends
    <3>1. saves => Acts("dlg")
      BY DEF Acts
    <3> QED
      BY <2>1, <3>1, OthersEnd DEF UIs
  <2>3. Alone'
    <3>1. \A q \in UIs : Acts(q)' => Acts(q)
      BY <1>2, <1>3 DEF Acts, UIs, DlgLeft, SubLeft, MenuLeft
    <3> QED
      BY <2>1, <3>1 DEF Alone
  <2>4. InFile'
    BY <1>2, <1>3, <2>1 DEF InFile, TypOwed, SysOwed, DlgSaves
  <2>5. saves => System(file) = System(wanted)
    BY <1>2, <2>1, <2>2 DEF InFile, SysOwed, Ends
  <2>6. InDialog'
    BY <1>2, <1>3, <2>1, <2>5 DEF InDialog, DlgSaves, FromFile
  <2>7. InHandler'
    BY <1>2, <1>3, <2>1 DEF InHandler, DlgLeft, SubLeft, MenuLeft
  <2>8. InShared'
    BY <1>2, <1>3, <2>1 DEF InShared, DlgSaves, FromFile
  <2> QED
    BY <2>3, <2>4, <2>6, <2>7, <2>8
<1> QED
  BY <1>2, <1>3, <1>4, <1>5, <1>6, DialogFrame DEF OthersHold

\* OpenSettings, OnConfigChanged and CloseSub load the file.
LEMMA LoadersKeepConfig ==
  ASSUME ConfigInv, OpenSettings \/ OnConfigChanged \/ CloseSub
  PROVE  ConfigInv'
<1>1. Jobs /\ ConfigStates /\ Shapes
  BY ConfigParts
<1>2. CASE OpenSettings
  <2>1. /\ ~dlg.open /\ job["dlg"] = <<>> /\ dlg' = [open |-> TRUE, dirty |-> FALSE, inbox |-> FALSE]
        /\ FileLoads /\ ConfigStates'
        /\ UNCHANGED <<sc, file, sh, unseen, job, hook, posted, engine, wanted, races>>
    BY <1>1, <1>2, OpenSettingsDoes
  <2>2. dlg.dirty = FALSE
    BY <1>1, <2>1 DEF Shapes, ConfigStates
  <2> QED
    BY <2>1, <2>2, LoadsKeepsConfig
<1>3. CASE OnConfigChanged
  <2>1. /\ DlgIdle /\ FileLoads /\ dlg' = [dlg EXCEPT !.inbox = FALSE]
        /\ races' = IF dlg.dirty THEN races \cup {"undone"} ELSE races
        /\ ConfigStates'
        /\ UNCHANGED <<sc, file, sh, unseen, job, hook, posted, engine, wanted>>
    BY <1>1, <1>3, OnConfigChangedDoes
  <2>2. dlg'.dirty = dlg.dirty /\ dlg'.open = dlg.open /\ job["dlg"] = <<>>
    BY <1>1, <2>1 DEF ConfigStates, DlgIdle
  <2> QED
    BY <2>1, <2>2, LoadsKeepsConfig
<1>4. CASE CloseSub
  <2>1. /\ SubIdle
        /\ \/ mem' = mem /\ races' = races
           \/ FileLoads /\ Classic /\ races' = IF dlg.dirty THEN races \cup {"undone"} ELSE races
        /\ ConfigStates'
        /\ UNCHANGED <<sc, file, sh, unseen, job, dlg, hook, posted, engine, wanted>>
    BY <1>1, <1>4, CloseSubDoes
  <2>2. CASE mem' = mem /\ races' = races
    BY <2>1, <2>2, IdleKeepsConfig DEF ConfigStates
  <2>3. CASE FileLoads /\ Classic /\ races' = IF dlg.dirty THEN races \cup {"undone"} ELSE races
    <3>1. job["dlg"] = <<>>
      BY <2>1, <2>3 DEF SubIdle
    <3> QED
      BY <2>1, <2>3, <3>1, LoadsKeepsConfig
  <2> QED
    BY <2>1, <2>2, <2>3
<1> QED
  BY <1>2, <1>3, <1>4

\* A typing option or the code table, from the Settings dialog.
LEMMA SaveSettingsKeepsConfig ==
  ASSUME ConfigInv, NEW x \in {"opt", "table"}, SaveSettings(x)
  PROVE  ConfigInv'
<1>1. Jobs /\ ConfigStates
  BY ConfigParts
<1>2. PICK v \in 0..1 :
        /\ DlgIdle /\ EditOf("dlg", {}) /\ Begins("dlg", {"sync"}) /\ Chooses(<<x, v>>)
        /\ OthersHold("dlg") /\ HoldsSame("dlg", {"cfg"})
        /\ mem'["dlg"].cfg = Chosen(mem["dlg"].cfg, <<x, v>>)
        /\ dlg' = [dlg EXCEPT !.dirty = TRUE] /\ ConfigStates'
        /\ UNCHANGED <<sc, file, sh, unseen, hook, posted, engine>>
  BY <1>1, SaveSettingsDoes
<1>3. /\ mem'["dlg"].base = mem["dlg"].base /\ mem'["dlg"].sbase = mem["dlg"].sbase
      /\ mem'["dlg"].sysc = mem["dlg"].sysc
  BY <1>2 DEF HoldsSame
<1>4. /\ Typing(wanted') = Chosen(Typing(wanted), <<x, v>>)
      /\ System(wanted') = System(wanted)
  <2>1. <<x, v>> \in Options \X (0..1) /\ <<x, v>>[1] \notin SysOptions /\ System(wanted) \in Syss
    BY <1>1, ConfigurationParts DEF Options, TypOptions, SysOptions, ConfigStates
  <2> QED
    BY <1>2, <2>1, ChosenParts DEF Chooses
<1>5. dlg'.dirty /\ dlg'.open = dlg.open
  BY <1>1, <1>2 DEF ConfigStates
<1> QED
  BY <1>2, <1>3, <1>4, <1>5, DialogEdit

\* A system option: a handler that loads and saves, or all the classic dialog holds.
LEMMA SystemToggleKeepsConfig ==
  ASSUME ConfigInv, HandleSystemToggle
  PROVE  ConfigInv'
<1>1. /\ Jobs /\ ConfigStates /\ Shapes
      /\ races = {} => Alone /\ InFile /\ InDialog /\ InHandler /\ InShared /\ InHook
  BY ConfigParts
<1>2. PICK v \in 0..1 :
        /\ DlgIdle /\ EditOf("dlg", {}) /\ Chooses(<<"sys", v>>) /\ OthersHold("dlg")
        /\ IF Classic
           THEN /\ Begins("dlg", {"sync", "save", "savesys", "bump"}) /\ HoldsSame("dlg", {"sysc"})
                /\ mem'["dlg"].sysc = Chosen(mem["dlg"].sysc, <<"sys", v>>)
                /\ dlg' = [dlg EXCEPT !.dirty = FALSE]
           ELSE /\ Begins("dlg", {"loadsys", "savesys"}) /\ HoldsSame("dlg", {"pick"})
                /\ mem'["dlg"].pick = <<"sys", v>> /\ dlg' = dlg
        /\ ConfigStates'
        /\ UNCHANGED <<sc, file, sh, unseen, hook, posted, engine>>
  BY <1>1, SystemToggleDoes
<1>3. /\ Typing(wanted') = Typing(wanted) /\ wanted'.table = wanted.table /\ wanted'.opt = wanted.opt
      /\ System(wanted') = Chosen(System(wanted), <<"sys", v>>)
  <2>1. /\ <<"sys", v>> \in Options \X (0..1) /\ <<"sys", v>>[1] \notin TypOptions
        /\ Typing(wanted) \in Typs /\ wanted \in Files /\ wanted' \in Files
    BY <1>1, <1>2, ConfigurationParts DEF Options, TypOptions, SysOptions, ConfigStates
  <2>2. /\ Typing(wanted') = Typing(wanted)
        /\ System(wanted') = Chosen(System(wanted), <<"sys", v>>)
    BY <1>2, <2>1, ChosenParts DEF Chooses
  <2> QED
    BY <2>1, <2>2, SameOptions
<1>4. CASE Classic
  <2>1. /\ mem'["dlg"].base = mem["dlg"].base /\ mem'["dlg"].sbase = mem["dlg"].sbase
        /\ mem'["dlg"].cfg = mem["dlg"].cfg
    BY <1>2, <1>4 DEF HoldsSame
  <2>2. ~dlg'.dirty /\ dlg'.open = dlg.open
    BY <1>1, <1>2, <1>4 DEF ConfigStates
  <2>3. {"sync", "save", "savesys", "bump"} = {"sync"} \cup SaveSteps \cup {}
    BY <1>4 DEF SaveSteps
  <2>4. \E x \in SUBSET {"choice", "end"} : {"sync", "save", "savesys", "bump"} = {"sync"} \cup SaveSteps \cup x
    BY <2>3
  <2> QED
    BY <1>2, <1>3, <1>4, <2>1, <2>2, <2>4, DialogEdit
<1>5. CASE ~Classic
  <2>1. /\ mem'["dlg"].base = mem["dlg"].base /\ mem'["dlg"].sbase = mem["dlg"].sbase
        /\ mem'["dlg"].cfg = mem["dlg"].cfg /\ mem'["dlg"].sysc = mem["dlg"].sysc
        /\ mem'["dlg"].pick = <<"sys", v>> /\ dlg' = dlg /\ ~Classic'
    BY <1>2, <1>5 DEF HoldsSame, Classic
  <2>2. /\ Jobs' /\ WorkLeft' = WorkLeft /\ job'["worker"] = job["worker"]
        /\ DlgLeft' = {"loadsys", "savesys"} /\ SubLeft' = SubLeft /\ MenuLeft' = MenuLeft
    BY <1>2, <1>5, BeginsOf DEF UIs
  <2>3. DlgLeft = {} /\ dlg.open /\ races \subseteq races'
    BY <1>1, <1>2, OwnSteps DEF DlgIdle, DlgLeft, Procs, EditOf
  <2>4. DlgShapes' /\ (AllCounted' => AllCounted)
    BY <2>1, <2>2, <2>3 DEF DlgShapes, AllCounted, Counts, DlgLeft, SubLeft, MenuLeft
  <2>5. ASSUME races' = {} PROVE Alone' /\ InFile' /\ InDialog' /\ InHandler' /\ InShared'
    <3>1. /\ Alone /\ InFile /\ InDialog /\ InHandler /\ InShared
          /\ SubLeft = {} /\ MenuLeft = {}
      BY <1>1, <1>2, <2>5, EditAlone DEF UIs
    <3>2. System(file) = System(wanted)
      BY <2>3, <3>1, DialogHolds
    <3>3. Alone'
      BY <2>2, <3>1 DEF Alone, Acts, UIs, DlgLeft, SubLeft, MenuLeft
    <3>4. InFile'
      BY <1>2, <1>3, <2>1, <2>2, <2>3, <3>1 DEF InFile, TypOwed, SysOwed, DlgSaves
    <3>5. InDialog'
      BY <1>2, <1>3, <2>1, <2>2, <2>3, <3>1 DEF InDialog, DlgSaves, FromFile
    <3>6. InHandler'
      BY <1>2, <1>3, <2>1, <2>2, <3>1, <3>2 DEF InHandler, DlgLeft, SubLeft, MenuLeft
    <3>7. InShared'
      BY <1>2, <1>3, <2>1, <2>2, <2>3, <3>1 DEF InShared, DlgSaves, FromFile
    <3> QED
      BY <3>3, <3>4, <3>5, <3>6, <3>7
  <2> QED
    BY <1>2, <1>3, <2>1, <2>2, <2>3, <2>4, <2>5, DialogFrame
<1> QED
  BY <1>4, <1>5

\* The option that registers the text service.
LEMMA TsfToggleKeepsConfig ==
  ASSUME ConfigInv, NEW ok \in BOOLEAN, HandleTsfToggle(ok)
  PROVE  ConfigInv'
<1>1. Jobs /\ ConfigStates
  BY ConfigParts
<1>2. PICK v \in 0..1 :
        /\ DlgIdle /\ EditOf("dlg", {}) /\ OthersHold("dlg") /\ ~Classic
        /\ ok => /\ Begins("dlg", {"sync", "save", "bump"}) /\ Chooses(<<"own", v>>)
                 /\ HoldsSame("dlg", {"cfg"})
                 /\ mem'["dlg"].cfg = Chosen(mem["dlg"].cfg, <<"own", v>>)
                 /\ dlg' = [dlg EXCEPT !.dirty = FALSE]
        /\ ~ok => UNCHANGED <<mem, wanted, dlg, job>>
        /\ ConfigStates'
        /\ UNCHANGED <<sc, file, sh, unseen, hook, posted, engine>>
  BY <1>1, TsfToggleDoes
<1>3. CASE ok
  <2>1. /\ mem'["dlg"].base = mem["dlg"].base /\ mem'["dlg"].sbase = mem["dlg"].sbase
        /\ mem'["dlg"].sysc = mem["dlg"].sysc
    BY <1>2, <1>3 DEF HoldsSame
  <2>2. /\ Typing(wanted') = Chosen(Typing(wanted), <<"own", v>>)
        /\ System(wanted') = System(wanted)
    <3>1. <<"own", v>> \in Options \X (0..1) /\ <<"own", v>>[1] \notin SysOptions /\ System(wanted) \in Syss
      BY <1>1, ConfigurationParts DEF Options, TypOptions, SysOptions, ConfigStates
    <3> QED
      BY <1>2, <1>3, <3>1, ChosenParts DEF Chooses
  <2>3. ~dlg'.dirty /\ dlg'.open = dlg.open
    BY <1>1, <1>2, <1>3 DEF ConfigStates
  <2>4. \E x \in SUBSET {"choice", "end"} : {"sync", "save", "bump"} = {"sync"} \cup SaveSteps \cup x
    <3>1. {"sync", "save", "bump"} = {"sync"} \cup SaveSteps \cup {}
      BY <1>2 DEF SaveSteps
    <3> QED
      BY <3>1
  <2> QED
    BY <1>2, <1>3, <2>1, <2>2, <2>3, <2>4, DialogEdit
<1>4. CASE ~ok
  BY <1>2, <1>4, IdleKeepsConfig DEF EditOf, ConfigStates
<1> QED
  BY <1>3, <1>4

\* The same of the classic dialog; when it is refused nothing is said of the choices.
LEMMA ClassicTsfToggleKeepsConfig ==
  ASSUME ConfigInv, NEW ok \in BOOLEAN, ClassicTsfToggle(ok)
  PROVE  ConfigInv'
<1>1. Jobs /\ ConfigStates
  BY ConfigParts
<1>2. PICK v \in 0..1 :
        /\ DlgIdle /\ EditOf("dlg", IF ok THEN {} ELSE {"refused"}) /\ OthersHold("dlg") /\ Classic
        /\ Begins("dlg", {"sync", "choice", "save", "savesys", "bump"})
        /\ HoldsSame("dlg", {"cfg", "pick"})
        /\ mem'["dlg"].cfg = Chosen(mem["dlg"].cfg, <<"own", v>>)
        /\ mem'["dlg"].pick[1] = "own"
        /\ ok => Chooses(<<"own", v>>) /\ mem'["dlg"].pick = <<"own", v>>
        /\ dlg' = [dlg EXCEPT !.dirty = FALSE]
        /\ ConfigStates'
        /\ UNCHANGED <<sc, file, sh, unseen, hook, posted, engine>>
  BY <1>1, ClassicTsfToggleDoes
<1>3. /\ mem'["dlg"].base = mem["dlg"].base /\ mem'["dlg"].sbase = mem["dlg"].sbase
      /\ mem'["dlg"].sysc = mem["dlg"].sysc
  BY <1>2 DEF HoldsSame
<1>4. <<"own", v>> \in Options \X (0..1) /\ <<"own", v>>[1] = "own" /\ <<"own", v>>[2] = v
      /\ System(wanted) \in Syss /\ mem["dlg"].cfg \in Typs
  BY <1>1, ConfigurationParts DEF Options, TypOptions, SysOptions, ConfigStates, Procs, Mems
<1>5. ok => /\ Typing(wanted') = Chosen(Typing(wanted), <<"own", v>>)
            /\ System(wanted') = System(wanted)
            /\ mem'["dlg"].pick = <<"own", mem'["dlg"].cfg.own>>
  <2>1. Chosen(mem["dlg"].cfg, <<"own", v>>).own = v
    BY <1>4, ChosenParts DEF TypOptions
  <2>2. Chosen(System(wanted), <<"own", v>>) = System(wanted)
    BY <1>4, ChosenParts DEF SysOptions
  <2> QED
    BY <1>2, <2>1, <2>2 DEF Chooses
<1>6. ~dlg'.dirty /\ dlg'.open = dlg.open
  BY <1>1, <1>2 DEF ConfigStates
<1>7. \E x \in SUBSET {"choice", "end"} :
        {"sync", "choice", "save", "savesys", "bump"} = {"sync"} \cup SaveSteps \cup x
  <2>1. {"sync", "choice", "save", "savesys", "bump"} = {"sync"} \cup SaveSteps \cup {"choice"}
    BY <1>2 DEF SaveSteps
  <2> QED
    BY <2>1
<1>8. races' = {} => ok
  BY <1>2 DEF EditOf
<1> QED
  BY <1>2, <1>3, <1>5, <1>6, <1>7, <1>8, DialogEdit

\* The Advanced spell check: all is saved, as it was or with the option chosen.
LEMMA AdvancedKeepsConfig ==
  ASSUME ConfigInv, NEW ready \in BOOLEAN, HandleAdvancedLevel(ready)
  PROVE  ConfigInv'
<1>1. Jobs /\ ConfigStates
  BY ConfigParts
<1> DEFINE steps == {"sync"} \cup SaveSteps \cup IF ready THEN {"end"} ELSE {}
<1>2. PICK v \in 0..1 :
        /\ DlgIdle /\ EditOf("dlg", {}) /\ OthersHold("dlg")
        /\ Begins("dlg", steps)
        /\ ready => /\ Chooses(<<"opt", v>>) /\ HoldsSame("dlg", {"cfg"})
                    /\ mem'["dlg"].cfg = Chosen(mem["dlg"].cfg, <<"opt", v>>)
        /\ ~ready => UNCHANGED <<mem, wanted>>
        /\ dlg' = [dlg EXCEPT !.dirty = FALSE]
        /\ ConfigStates'
        /\ UNCHANGED <<sc, file, sh, unseen, hook, posted, engine>>
  BY <1>1, AdvancedDoes
<1>3. /\ mem'["dlg"].base = mem["dlg"].base /\ mem'["dlg"].sbase = mem["dlg"].sbase
      /\ mem'["dlg"].sysc = mem["dlg"].sysc
  BY <1>2 DEF HoldsSame
<1>4. /\ System(wanted') = System(wanted)
      /\ mem["dlg"].cfg = Typing(wanted) => mem'["dlg"].cfg = Typing(wanted')
  <2>1. <<"opt", v>> \in Options \X (0..1) /\ <<"opt", v>>[1] \notin SysOptions /\ System(wanted) \in Syss
    BY <1>1, ConfigurationParts DEF Options, TypOptions, SysOptions, ConfigStates
  <2>2. CASE ready
    BY <1>2, <2>1, <2>2, ChosenParts DEF Chooses
  <2>3. CASE ~ready
    BY <1>2, <2>3
  <2> QED
    BY <2>2, <2>3
<1>5. ~dlg'.dirty /\ dlg'.open = dlg.open
  BY <1>1, <1>2 DEF ConfigStates
<1>6. "choice" \notin steps /\ \E x \in SUBSET {"choice", "end"} : steps = {"sync"} \cup SaveSteps \cup x
  <2>1. (IF ready THEN {"end"} ELSE {}) \in SUBSET {"choice", "end"}
    OBVIOUS
  <2> QED
    BY <2>1 DEF SaveSteps
<1> HIDE DEF steps
<1> QED
  BY <1>2, <1>3, <1>4, <1>5, <1>6, DialogEdit

\* The timer, a button that opens another dialog, WM_CLOSE.
LEMMA SaversKeepConfig ==
  ASSUME ConfigInv, DeferredSave \/ OpenFromSettings \/ OnClose
  PROVE  ConfigInv'
<1>1. /\ Jobs /\ ConfigStates /\ Shapes /\ Picked /\ Seen /\ SharedInv
  BY ConfigParts
<1>2. CASE DeferredSave
  <2>1. /\ DlgIdle /\ dlg.dirty /\ dlg' = [dlg EXCEPT !.dirty = FALSE]
        /\ Begins("dlg", SaveSteps) /\ ConfigStates'
        /\ UNCHANGED <<sc, file, sh, unseen, mem, hook, posted, engine, wanted, races>>
    BY <1>1, <1>2, DeferredSaveDoes
  <2>2. /\ Jobs' /\ WorkLeft' = WorkLeft /\ job'["worker"] = job["worker"]
        /\ DlgLeft' = SaveSteps /\ SubLeft' = SubLeft /\ MenuLeft' = MenuLeft
    BY <2>1, BeginsOf DEF UIs
  <2>3. ~dlg'.dirty /\ dlg'.open = dlg.open
    BY <1>1, <2>1 DEF ConfigStates
  <2>4. DlgLeft' = (IF TRUE THEN SaveSteps ELSE {}) \cup {}
    BY <2>2
  <2> QED
    BY <2>1, <2>2, <2>3, <2>4, DialogSaves
<1>3. CASE OpenFromSettings
  <2> DEFINE saves == dlg.dirty /\ ~Classic
  <2>1. /\ DlgIdle
        /\ dlg' = IF Classic THEN dlg ELSE [dlg EXCEPT !.dirty = FALSE]
        /\ Begins("dlg", IF saves THEN {"save", "bump", "spawn"} ELSE {"spawn"})
        /\ ConfigStates'
        /\ UNCHANGED <<sc, file, sh, unseen, mem, hook, posted, engine, wanted, races>>
    BY <1>1, <1>3, OpenFromSettingsDoes
  <2>2. /\ Jobs' /\ WorkLeft' = WorkLeft /\ job'["worker"] = job["worker"]
        /\ DlgLeft' = IF saves THEN {"save", "bump", "spawn"} ELSE {"spawn"}
        /\ SubLeft' = SubLeft /\ MenuLeft' = MenuLeft
    BY <2>1, BeginsOf DEF UIs
  <2>3. /\ saves \in BOOLEAN /\ (saves => dlg.dirty /\ ~dlg'.dirty)
        /\ (~saves => dlg'.dirty = dlg.dirty) /\ dlg'.open = dlg.open
    BY <1>1, <2>1 DEF ConfigStates
  <2>4. DlgLeft' = (IF saves THEN SaveSteps ELSE {}) \cup {"spawn"}
    BY <2>2 DEF SaveSteps
  <2> HIDE DEF saves
  <2>5. {"spawn"} \in SUBSET {"spawn", "close"} /\ "close" \notin {"spawn"}
    OBVIOUS
  <2> QED
    BY <2>1, <2>2, <2>3, <2>4, <2>5, DialogSaves
<1>4. CASE OnClose
  <2>1. /\ DlgIdle /\ dlg' = [dlg EXCEPT !.dirty = FALSE] /\ Jobs'
        /\ Left("dlg")' = (IF dlg.dirty THEN SaveSteps ELSE {}) \cup {"close"}
        /\ Left("sub")' = {} /\ job'["sub"] = <<>>
        /\ \A q \in {"menu", "worker"} : job'[q] = job[q] /\ Left(q)' = Left(q)
        /\ races' = IF job["sub"] # <<>> THEN races \cup {"killed"} ELSE races
        /\ ConfigStates'
        /\ UNCHANGED <<sc, file, sh, unseen, mem, hook, posted, engine, wanted>>
    BY <1>1, <1>4, OnCloseDoes
  <2>2. /\ WorkLeft' = WorkLeft /\ job'["worker"] = job["worker"] /\ MenuLeft' = MenuLeft
        /\ DlgLeft' = (IF dlg.dirty THEN SaveSteps ELSE {}) \cup {"close"} /\ SubLeft' = {}
    BY <2>1 DEF WorkLeft, MenuLeft, DlgLeft, SubLeft
  <2>3. /\ dlg.dirty \in BOOLEAN /\ ~dlg'.dirty /\ dlg'.open = dlg.open /\ dlg.open
        /\ (~dlg.dirty => dlg'.dirty = dlg.dirty)
    BY <1>1, <2>1 DEF ConfigStates, DlgIdle
  <2>4. CASE job["sub"] = <<>>
    <3>1. SubLeft' = SubLeft
      BY <1>1, <2>2, <2>4, OwnSteps DEF SubLeft, Procs
    <3>2. {"close"} \in SUBSET {"spawn", "close"} /\ races \subseteq races'
      BY <2>1
    <3> QED
      BY <2>1, <2>2, <2>3, <3>1, <3>2, DialogSaves
  <2>5. CASE job["sub"] # <<>>
    <3>1. "killed" \in races' /\ races \subseteq races'
      BY <2>1, <2>5
    <3>2. HookKept /\ Classic' = Classic
      BY <2>1, <2>2 DEF HookKept, Classic
    <3>3. Shapes'
      BY <1>1, <2>1, <2>2, <2>3, <3>2 DEF Shapes, SaveSteps
    <3>4. Picked'
      BY <1>1, <2>1, <2>2 DEF Picked, Uncounted, SaveSteps
    <3>5. Seen' /\ SharedInv'
      BY <1>1, <2>1, <3>1, <3>2, HookFrame
    <3>6. FileInv' /\ ChoiceInv'
      BY <3>1 DEF FileInv, ChoiceInv
    <3> QED
      BY <2>1, <3>3, <3>4, <3>5, <3>6 DEF ConfigInv
  <2> QED
    BY <2>4, <2>5
<1> QED
  BY <1>2, <1>3, <1>4

\* An edit in a dialog opened from Settings.
LEMMA SubEditKeepsConfig ==
  ASSUME ConfigInv, SubEdit
  PROVE  ConfigInv'
<1>1. /\ Jobs /\ ConfigStates /\ Shapes /\ Picked /\ Seen /\ SharedInv
      /\ races = {} => Alone /\ InFile /\ InDialog /\ InHandler /\ InShared /\ InHook
  BY ConfigParts
<1>2. /\ SubIdle /\ EditOf("sub", {}) /\ Begins("sub", {"load", "save", "bump", "wake"})
      /\ OthersHold("sub") /\ HoldsSame("sub", {"pick"}) /\ Chooses(mem'["sub"].pick)
      /\ mem'["sub"].pick[1] = "own" /\ ConfigStates'
      /\ UNCHANGED <<sc, file, sh, unseen, dlg, hook, posted, engine>>
  BY <1>1, SubEditDoes
<1>3. /\ Jobs' /\ WorkLeft' = WorkLeft /\ job'["worker"] = job["worker"]
      /\ SubLeft' = {"load", "save", "bump", "wake"} /\ DlgLeft' = DlgLeft /\ MenuLeft' = MenuLeft
      /\ mem'["dlg"] = mem["dlg"] /\ mem'["menu"] = mem["menu"] /\ HookKept /\ races \subseteq races'
  BY <1>2, BeginsOf DEF UIs, OthersHold, Procs, HookKept, EditOf
<1>4. Shapes'
  BY <1>1, <1>2, <1>3 DEF Shapes, Classic
<1>5. Picked'
  BY <1>1, <1>2, <1>3 DEF Picked, Uncounted
<1>6. Seen' /\ SharedInv' /\ LastOpt' = LastOpt /\ LastTable' = LastTable
  BY <1>1, <1>2, <1>3, HookFrame
<1>7. ~AllCounted'
  BY <1>3 DEF AllCounted, Counts, SubLeft
<1>8. FileInv'
  BY <1>7 DEF FileInv
<1>9. ASSUME races' = {} PROVE Alone' /\ InFile' /\ InDialog' /\ InHandler' /\ InShared' /\ InHook'
  <2>1. /\ Alone /\ InFile /\ InDialog /\ InHandler /\ InShared /\ InHook
        /\ DlgLeft = {} /\ ~dlg.dirty /\ MenuLeft = {}
    BY <1>1, <1>2, <1>9, EditAlone DEF UIs
  <2>2. SubLeft = {}
    BY <1>1, <1>2, OwnSteps DEF SubIdle, SubLeft, Procs
  <2>3. Typing(file) = Typing(wanted) /\ System(file) = System(wanted)
    BY <2>1, <2>2 DEF InFile, TypOwed, SysOwed, DlgSaves
  <2>4. /\ Typing(wanted') = Chosen(Typing(file), mem'["sub"].pick)
        /\ System(wanted') = System(wanted) /\ wanted'.opt = wanted.opt /\ wanted'.table = wanted.table
    <3>1. /\ mem'["sub"].pick \in Options \X (0..1) /\ wanted \in Files /\ wanted' \in Files
          /\ Typing(wanted) \in Typs /\ System(wanted) \in Syss
          /\ Typing(wanted') = Chosen(Typing(wanted), mem'["sub"].pick)
          /\ System(wanted') = Chosen(System(wanted), mem'["sub"].pick)
      BY <1>1, <1>2, ConfigurationParts DEF ConfigStates, Chooses
    <3>2. System(wanted') = System(wanted)
      BY <1>2, <3>1, ChosenParts DEF SysOptions
    <3>3. Typing(wanted').opt = Typing(wanted).opt /\ Typing(wanted').table = Typing(wanted).table
      BY <1>2, <3>1, ChosenParts DEF TypOptions
    <3> QED
      BY <2>3, <3>1, <3>2, <3>3, ConfigurationParts
  <2>5. Alone'
    BY <1>2, <1>3, <2>1 DEF Alone, Acts, UIs, DlgLeft, SubLeft, MenuLeft
  <2>6. InFile'
    BY <1>2, <1>3, <2>1, <2>3, <2>4 DEF InFile, TypOwed, SysOwed, DlgSaves
  <2>7. InDialog'
    BY <1>2, <1>3, <2>1 DEF InDialog, DlgSaves, Classic
  <2>8. InHandler'
    BY <1>2, <1>3, <2>1, <2>4 DEF InHandler, DlgLeft, SubLeft, MenuLeft
  <2>9. InShared'
    BY <1>2, <1>3, <2>1, <2>4 DEF InShared, DlgSaves
  <2>10. InHook'
    BY <1>3, <1>7, <2>1 DEF InHook, Uncounted
  <2> QED
    BY <2>5, <2>6, <2>7, <2>8, <2>9, <2>10
<1> QED
  BY <1>2, <1>3, <1>4, <1>5, <1>6, <1>8, <1>9 DEF ConfigInv, ChoiceInv

\* What a command of the tray menu runs, by the option it is about.
MenuSteps(x) ==
  CASE x = "opt"   -> {"load", "save", "sync", "post"}
    [] x = "table" -> {"hooktable", "table", "load", "save", "post"}
    [] OTHER       -> {"loadsys", "savesys"}

\* A command of the tray menu: an option, the code table, a system option.
LEMMA MenuKeepsConfig ==
  ASSUME ConfigInv, MenuOption \/ MenuTable \/ MenuSystem
  PROVE  ConfigInv'
<1>1. /\ Jobs /\ ConfigStates /\ Shapes /\ Picked /\ Seen /\ SharedInv /\ FileInv
      /\ races = {} => Alone /\ InFile /\ InDialog /\ InHandler /\ InShared /\ InHook
  BY ConfigParts
<1>2. PICK x \in {"opt", "table", "ext"} :
        /\ x = "table" => "menu table" \in sc.acts
        /\ job["menu"] = <<>>
        /\ EditOf("menu", IF x = "table" /\ sh.table # LastTable THEN {"table"} ELSE {})
        /\ Begins("menu", MenuSteps(x))
        /\ OthersHold("menu") /\ HoldsSame("menu", {"pick"}) /\ Chooses(mem'["menu"].pick)
        /\ mem'["menu"].pick[1] = x /\ mem'["menu"].pick = <<x, wanted'[x]>> /\ ConfigStates'
        /\ UNCHANGED <<sc, file, sh, unseen, dlg, hook, posted, engine>>
  <2>1. "opt" \in Options /\ "table" \in Options /\ "ext" \in Options
    BY DEF Options, TypOptions, SysOptions
  <2>2. CASE MenuOption
    <3>1. OnMenuCommand("menu option", "opt", ApplyConfigChange)
      BY <2>2 DEF MenuOption
    <3> QED
      BY <1>1, <2>1, <3>1, MenuScripts, MenuCommandDoes DEF MenuSteps
  <2>3. CASE MenuTable
    <3>1. OnMenuCommand("menu table", "table", ApplyCodeTable)
      BY <2>3 DEF MenuTable
    <3> QED
      BY <1>1, <2>1, <3>1, MenuScripts, MenuCommandDoes DEF MenuSteps
  <2>4. CASE MenuSystem
    <3>1. OnMenuCommand("menu system", "ext", ToggleSystem)
      BY <2>4 DEF MenuSystem
    <3> QED
      BY <1>1, <2>1, <3>1, MenuScripts, MenuCommandDoes DEF MenuSteps
  <2> QED
    BY <2>2, <2>3, <2>4
<1> DEFINE steps == MenuSteps(x)
<1>3. /\ x = "opt" => steps = {"load", "save", "sync", "post"}
      /\ x = "table" => steps = {"hooktable", "table", "load", "save", "post"}
      /\ x = "ext" => steps = {"loadsys", "savesys"}
  BY DEF MenuSteps
<1>4. /\ Jobs' /\ WorkLeft' = WorkLeft /\ job'["worker"] = job["worker"]
      /\ SubLeft' = SubLeft /\ DlgLeft' = DlgLeft /\ MenuLeft' = steps
      /\ mem'["dlg"] = mem["dlg"] /\ mem'["sub"] = mem["sub"] /\ HookKept /\ races \subseteq races'
  BY <1>2, BeginsOf DEF UIs, OthersHold, Procs, HookKept, EditOf
<1> HIDE DEF steps
<1>5. MenuLeft = {}
  BY <1>1, <1>2, OwnSteps DEF MenuLeft, Procs
<1>6. Shapes'
  BY <1>1, <1>2, <1>3, <1>4 DEF Shapes, Classic
<1>7. Picked'
  BY <1>1, <1>2, <1>3, <1>4 DEF Picked, Uncounted
<1>8. Seen' /\ SharedInv' /\ LastOpt' = LastOpt /\ LastTable' = LastTable
  BY <1>1, <1>2, <1>4, HookFrame
<1>9. /\ AllCounted' => AllCounted
      /\ Uncounted' => x = "table"
      /\ ~Uncounted
  BY <1>3, <1>4, <1>5 DEF AllCounted, Counts, Uncounted, DlgLeft, SubLeft, MenuLeft
<1>10. FileInv'
  BY <1>1, <1>2, <1>4, <1>9 DEF FileInv, HookKept
<1>11. ASSUME races' = {} PROVE Alone' /\ InFile' /\ InDialog' /\ InHandler' /\ InShared' /\ InHook'
  <2>1. /\ Alone /\ InFile /\ InDialog /\ InHandler /\ InShared /\ InHook
        /\ DlgLeft = {} /\ ~dlg.dirty /\ SubLeft = {}
        /\ x = "table" => sh.table = LastTable
    BY <1>1, <1>2, <1>11, EditAlone DEF UIs
  <2>2. /\ Typing(file) = Typing(wanted) /\ System(file) = System(wanted)
        /\ file.table = wanted.table /\ sh.opt = wanted.opt /\ sh.table = wanted.table
    <3>1. Typing(file) = Typing(wanted) /\ System(file) = System(wanted)
      BY <1>5, <2>1 DEF InFile, TypOwed, SysOwed, DlgSaves
    <3>2. sh.opt = wanted.opt /\ sh.table = wanted.table
      BY <1>5, <2>1 DEF InShared, DlgSaves
    <3> QED
      BY <1>1, <3>1, <3>2, SameOptions DEF ConfigStates
  <2>3. /\ Typing(wanted') = Chosen(Typing(file), mem'["menu"].pick)
        /\ System(wanted') = Chosen(System(file), mem'["menu"].pick)
        /\ x = "ext" => Typing(wanted') = Typing(wanted) /\ wanted'.opt = wanted.opt
        /\ x # "ext" => System(wanted') = System(wanted)
        /\ x # "table" => wanted'.table = wanted.table
        /\ x # "opt" => wanted'.opt = wanted.opt
    <3>1. /\ mem'["menu"].pick \in Options \X (0..1) /\ wanted \in Files /\ wanted' \in Files
          /\ Typing(wanted) \in Typs /\ System(wanted) \in Syss
          /\ Typing(wanted') = Chosen(Typing(wanted), mem'["menu"].pick)
          /\ System(wanted') = Chosen(System(wanted), mem'["menu"].pick)
      BY <1>1, <1>2, ConfigurationParts DEF ConfigStates, Chooses
    <3>2. x # "ext" => System(wanted') = System(wanted)
      BY <1>2, <3>1, ChosenParts DEF SysOptions
    <3>3. x = "ext" => Typing(wanted') = Typing(wanted)
      BY <1>2, <3>1, ChosenParts DEF TypOptions
    <3>4. \A y \in TypOptions : y # x => Typing(wanted')[y] = Typing(wanted)[y]
      <4> DEFINE k == mem'["menu"].pick
      <4>1. k \in Options \X (0..1) /\ k[1] = x /\ Typing(wanted') = Chosen(Typing(wanted), k)
        BY <1>2, <3>1
      <4> HIDE DEF k
      <4>2. \A y \in TypOptions : Chosen(Typing(wanted), k)[y] = IF k[1] = y THEN k[2] ELSE Typing(wanted)[y]
        BY <3>1, <4>1, ChosenParts
      <4> QED
        BY <4>1, <4>2
    <3>5. /\ x # "table" => wanted'.table = wanted.table
          /\ x # "opt" => wanted'.opt = wanted.opt
      BY <3>1, <3>4, ConfigurationParts DEF TypOptions
    <3> QED
      BY <2>2, <3>1, <3>2, <3>3, <3>5
  <2>4. Alone'
    BY <1>2, <1>4, <2>1 DEF Alone, Acts, UIs, DlgLeft, SubLeft, MenuLeft
  <2>5. InFile'
    BY <1>2, <1>3, <1>4, <2>2, <2>3 DEF InFile, TypOwed, SysOwed, DlgSaves
  <2>6. InDialog'
    BY <1>2, <1>4, <2>1 DEF InDialog, DlgSaves, Classic
  <2>7. InHandler'
    <3>1. x = "table" => mem'["menu"].pick = <<"table", wanted'.table>>
      BY <1>2
    <3>2. "load" \in steps <=> x # "ext"
      BY <1>2, <1>3
    <3>3. "loadsys" \in steps <=> x = "ext"
      BY <1>2, <1>3
    <3>4. /\ "save" \in steps \/ "sync" \in steps => "load" \in steps
          /\ "savesys" \in steps => "loadsys" \in steps
          /\ "table" \in steps => x = "table"
      BY <1>2, <1>3
    <3>5. /\ Left("menu")' = steps /\ Left("sub")' = {} /\ Left("dlg")' = {}
      BY <1>4, <2>1 DEF DlgLeft, SubLeft, MenuLeft
    <3> QED
      BY <1>2, <1>4, <2>3, <3>1, <3>2, <3>3, <3>4, <3>5 DEF InHandler, MenuLeft
  <2>8. InShared'
    BY <1>2, <1>3, <1>4, <2>1, <2>2, <2>3 DEF InShared, DlgSaves
  <2>9. InHook'
    BY <1>2, <1>3, <1>4, <1>8, <1>9, <2>1, <2>2, <2>3 DEF InHook, HookKept, AllCounted, Counts, MenuLeft
  <2> QED
    BY <2>4, <2>5, <2>6, <2>7, <2>8, <2>9
<1> QED
  BY <1>2, <1>4, <1>6, <1>7, <1>8, <1>10, <1>11 DEF ConfigInv, ChoiceInv

\* It holds of a main process that starts with no dialog.
LEMMA ConfigStart == ConfigInit => ConfigInv
<1>1. SUFFICES ASSUME ConfigInit PROVE ConfigInv
  OBVIOUS
<1>2. /\ file = Fresh /\ wanted = Fresh /\ sh = [opt |-> 0, table |-> 0, gen |-> 0] /\ unseen = FALSE
      /\ mem = [p \in Procs |-> Mem] /\ job = [p \in Procs |-> <<>>]
      /\ dlg = [open |-> FALSE, dirty |-> FALSE, inbox |-> FALSE]
      /\ hook = HookOf(Fresh) /\ posted = FALSE /\ engine = [opt |-> 0, own |-> 0] /\ races = {}
  BY <1>1 DEF ConfigInit, Closed
<1>3. /\ DlgLeft = {} /\ SubLeft = {} /\ MenuLeft = {} /\ WorkLeft = {}
      /\ \A p \in Procs : job[p] = <<>> /\ Left(p) = {}
  BY <1>2 DEF DlgLeft, SubLeft, MenuLeft, WorkLeft, Left, LeftOf, Procs
<1>4. Jobs
  <2>1. \A p : Script(p, <<>>)
    <3>1. <<>> \in Seq(Steps) /\ Len(<<>>) = 0
      OBVIOUS
    <3> QED
      BY <3>1 DEF Script
  <2> QED
    BY <1>2, <2>1 DEF Jobs
<1>5. ConfigStates
  <2>1. 0 \in 0..Gens - 1 /\ Fresh \in Files /\ Typing(Fresh) \in Typs /\ System(Fresh) \in Syss
        /\ HookOf(Fresh) \in Hooks /\ "opt" \in Options
    BY GensAssumption, ConfigurationParts DEF Options, TypOptions
  <2>2. Mem \in Mems
    BY <2>1 DEF Mem, Mems, Shs
  <2>3. mem \in [Procs -> Mems]
    BY <1>2, <2>2
  <2>4. sh \in Shs /\ hook \in Hooks /\ dlg \in [open : BOOLEAN, dirty : BOOLEAN, inbox : BOOLEAN]
    BY <1>2, <2>1 DEF Shs
  <2>5. posted \in BOOLEAN /\ races \in SUBSET Races /\ file \in Files /\ wanted \in Files
    BY <1>2, <2>1
  <2>6. engine \in [opt : 0..1, own : 0..1]
    BY ONLY <1>2, SMT
  <2> QED
    BY ONLY <2>3, <2>4, <2>5, <2>6 DEF ConfigStates
<1>6. /\ hook.opt = 0 /\ hook.table = 0 /\ hook.own = 0 /\ hook.snap = 0 /\ hook.gen = 0
      /\ hook.lopt = 0 /\ hook.ltable = 0 /\ LastOpt = 0 /\ LastTable = 0
  BY <1>2, <1>3 DEF HookOf, Fresh, LastOpt, LastTable, Procs
<1>7. Shapes /\ Picked
  BY <1>2, <1>3 DEF Shapes, Picked, Uncounted, Procs
<1>8. Seen /\ SharedInv /\ FileInv
  BY <1>2, <1>3, <1>6 DEF Seen, SharedInv, FileInv, Fresh, Procs
<1>9. Alone /\ InFile /\ InDialog /\ InHandler /\ InShared /\ InHook
  BY <1>2, <1>3, <1>6 DEF Alone, Acts, UIs, Procs, InFile, InDialog, DlgSaves, InHandler, InShared, InHook,
     Uncounted, Fresh
<1> QED
  BY <1>4, <1>5, <1>7, <1>8, <1>9 DEF ConfigInv, ChoiceInv

\* Every step keeps it.
LEMMA ConfigStep == ConfigInv /\ [ConfigNext]_cvars => ConfigInv'
<1>1. SUFFICES ASSUME ConfigInv, [ConfigNext]_cvars PROVE ConfigInv'
  OBVIOUS
<1>2. Jobs /\ ConfigStates
  BY <1>1, ConfigParts
<1>3. CASE UNCHANGED cvars
  <2>1. UNCHANGED <<sc, file, sh, unseen, mem, job, dlg, hook, posted, engine, wanted, races>>
    BY <1>3 DEF cvars
  <2> QED
    BY <1>1, <1>2, <2>1, IdleKeepsConfig DEF ConfigStates
<1>4. CASE SettingsHandler
  <2>1. CASE HandleToggleChange \/ HandleDropdownChange
    BY <1>1, <2>1, SaveSettingsKeepsConfig DEF HandleToggleChange, HandleDropdownChange
  <2>2. CASE \E ok \in BOOLEAN : HandleTsfToggle(ok) \/ ClassicTsfToggle(ok) \/ HandleAdvancedLevel(ok)
    BY <1>1, <2>2, TsfToggleKeepsConfig, ClassicTsfToggleKeepsConfig, AdvancedKeepsConfig
  <2>3. CASE OpenSettings \/ HandleSystemToggle \/ OpenFromSettings \/ OnClose
    BY <1>1, <2>3, LoadersKeepConfig, SystemToggleKeepsConfig, SaversKeepConfig
  <2> QED
    BY <1>4, <2>1, <2>2, <2>3 DEF SettingsHandler
<1>5. CASE SubEdit \/ CloseSub \/ MenuOption \/ MenuTable \/ MenuSystem
  BY <1>1, <1>5, SubEditKeepsConfig, LoadersKeepConfig, MenuKeepsConfig
<1>6. CASE MenuExit \/ Key \/ OnHookReload
  <2>1. UNCHANGED <<sc, file, sh, unseen, mem, job, dlg, hook, posted, engine, wanted, races>>
    BY <1>6 DEF MenuExit, Key, OnHookReload
  <2> QED
    BY <1>1, <1>2, <2>1, IdleKeepsConfig DEF ConfigStates
<1>7. CASE DeferredSave \/ OnConfigChanged
  BY <1>1, <1>7, SaversKeepConfig, LoadersKeepConfig
<1>8. CASE OtherSteps
  <2>1. CASE PostConfigChanged
    <3>1. Takes("menu", "post") /\ ConfigStates' /\ dlg' = [dlg EXCEPT !.inbox = @ \/ dlg.open]
          /\ UNCHANGED <<sc, file, sh, unseen, mem, hook, posted, engine, wanted, races>>
      BY <1>2, <2>1, MessageStepsDo
    <3>2. dlg'.open = dlg.open /\ dlg'.dirty = dlg.dirty
      BY <1>2, <3>1 DEF ConfigStates
    <3> QED
      BY <1>1, <3>1, <3>2, MessageKeepsConfig DEF UIs
  <2>2. CASE SetCodeTable \/ DestroyDialog \/ TakeChoice
    BY <1>1, <2>2, SetCodeTableKeepsConfig, DestroyDialogKeepsConfig, TakeChoiceKeepsConfig
  <2> QED
    BY <1>8, <2>1, <2>2 DEF OtherSteps
<1>9. CASE WorkerStep
  BY <1>1, <1>9, QuickSyncKeepsConfig, ReloadLoadKeepsConfig, ReloadKeepsConfig, RebuildKeepsConfig,
     CompareKeepsConfig DEF WorkerStep
<1>10. CASE ApplyConfigOnHookThread \/ MainRestart
  BY <1>1, <1>10, ApplyKeepsConfig, MainRestartKeepsConfig
<1>11. CASE \E p \in {"dlg", "sub", "menu"} : ProcStep(p)
  <2>1. PICK p \in UIs : ProcStep(p)
    BY <1>11 DEF UIs
  <2>2. CASE LoadOrDefault(p) \/ SaveToFile(p) \/ LoadSystemConfig(p) \/ SaveSystemConfig(p)
    BY <1>1, <2>2, LoadKeepsConfig, SaveKeepsConfig, LoadSystemKeepsConfig, SaveSystemKeepsConfig
  <2>3. CASE ReadShared(p) \/ WriteFields(p) \/ WriteGeneration(p) \/ WriteTable(p)
    BY <1>1, <2>3, ReadKeepsConfig, WriteFieldsKeepsConfig, WriteGenerationKeepsConfig, WriteTableKeepsConfig
  <2>4. CASE PostHookReload(p) \/ SpawnSub(p)
    <3>1. /\ Takes(p, "wake") \/ Takes(p, "spawn")
          /\ ConfigStates' /\ UNCHANGED <<sc, file, sh, unseen, mem, dlg, hook, posted, engine, wanted, races>>
      BY <1>2, <2>4, MessageStepsDo
    <3> QED
      BY <1>1, <3>1, MessageKeepsConfig
  <2> QED
    BY <2>1, <2>2, <2>3, <2>4 DEF ProcStep
<1> QED
  BY <1>1, <1>3, <1>4, <1>5, <1>6, <1>7, <1>8, <1>9, <1>10, <1>11 DEF ConfigNext, UserAction, Threads

\* What it says when everything has come to its end.
LEMMA ConfigArrives == ConfigInv => ChoicesArrive
<1>1. SUFFICES ASSUME ConfigInv PROVE ChoicesArrive
  OBVIOUS
<1>2. /\ Jobs /\ ConfigStates /\ Seen /\ SharedInv /\ FileInv
      /\ races = {} => InFile /\ InShared /\ InHook
  BY <1>1, ConfigParts
<1>3. ConfigTypes
  <2>1. \A p \in Procs : Len(job[p]) <= 8
    BY <1>2 DEF Jobs, Script
  <2> QED
    BY <1>2, <2>1, ConfigurationParts DEF ConfigTypes, ConfigStates, Files, Shs, Hooks, Races
<1>4. ASSUME Quiet
      PROVE  /\ DlgLeft = {} /\ SubLeft = {} /\ MenuLeft = {} /\ WorkLeft = {} /\ job["worker"] = <<>>
             /\ ~dlg.dirty /\ ~posted /\ sh.gen = hook.gen /\ sh.table = LastTable
             /\ LastOpt = hook.lopt /\ LastTable = hook.ltable
  <2>1. /\ DlgLeft = {} /\ SubLeft = {} /\ MenuLeft = {} /\ WorkLeft = {} /\ job["worker"] = <<>>
        /\ ~dlg.dirty /\ ~posted /\ ~unseen
    BY <1>4 DEF Quiet, DlgLeft, SubLeft, MenuLeft, WorkLeft, Left, LeftOf, Procs
  <2>2. sh.gen = hook.gen /\ sh.table = LastTable
    BY <1>2, <2>1 DEF Seen
  <2> QED
    BY <2>1, <2>2 DEF LastOpt, LastTable
<1>5. Quiet => AllCounted
  BY <1>4 DEF AllCounted, Counts, DlgLeft, SubLeft, MenuLeft
<1>6. HookFollowsShared
  BY <1>2, <1>4 DEF HookFollowsShared, SharedInv
<1>7. HookFollowsFile
  BY <1>2, <1>4, <1>5 DEF HookFollowsFile, SharedInv, FileInv
<1>8. ChoicesKept
  <2>1. SUFFICES ASSUME Quiet, races = {}
        PROVE  /\ file = wanted
               /\ sh.opt = wanted.opt /\ sh.table = wanted.table
               /\ hook.opt = wanted.opt /\ hook.table = wanted.table /\ hook.own = wanted.own
    BY DEF ChoicesKept
  <2>2. file = wanted
    BY <1>2, <1>4, <2>1, ConfigurationParts DEF InFile, TypOwed, SysOwed, DlgSaves, ConfigStates
  <2>3. sh.opt = wanted.opt /\ sh.table = wanted.table
    BY <1>2, <1>4, <2>1 DEF InShared, DlgSaves
  <2>4. hook.opt = wanted.opt /\ hook.own = wanted.own
    BY <1>2, <1>4, <1>5, <2>1, <2>2, <2>3 DEF SharedInv, FileInv
  <2>5. hook.table = wanted.table
    BY <1>2, <1>4, <1>5, <2>1, <2>3 DEF InHook
  <2> QED
    BY <2>2, <2>3, <2>4, <2>5
<1> QED
  BY <1>3, <1>6, <1>7, <1>8 DEF ChoicesArrive

\* Choices arrive, whatever the threads of the dialogs, the tray menu and the hook do in
\* which order, with any number of edits and restarts: the hook and its engine follow
\* SharedState and the file, and without a race the last choice of every option is in all.
THEOREM ChoicesDoArrive == ConfigSpec => []ChoicesArrive
<1>1. ConfigSpec => []ConfigInv
  BY ConfigStart, ConfigStep, PTL DEF ConfigSpec
<1> QED
  BY <1>1, ConfigArrives, PTL
=============================================================================
