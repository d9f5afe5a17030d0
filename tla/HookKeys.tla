------------------------------ MODULE HookKeys ------------------------------
(***************************************************************************)
(* The key pipeline of the low-level keyboard hook (HookEngine): what the  *)
(* callback does with a key, what it sends to the host in its place, and   *)
(* what the host's text becomes.                                           *)
(*                                                                         *)
(* The callback runs on one thread and is a function of its state: every   *)
(* handler below is an operator from a record (fields: EmptyWord, Init) to *)
(* a record with field out: "eat", "pass" or "fall" (KeyOutcome).  What    *)
(* interleaves is the delivery of the events it has sent: SendInput only   *)
(* queues them, so a key the callback passes reaches the host first.       *)
(*                                                                         *)
(* A word is a sequence of letters; "s" (Telex) or "1" (VNI) puts the tone *)
(* on an "a".  In the two-unit code table "á" is sent as two characters.   *)
(***************************************************************************)
EXTENDS Naturals, Sequences, SequencesExt, FiniteSets

CONSTANTS
  Keyboards,   \* scenarios: host, configuration, keys the user has, budgets
  MaxStack     \* CommitState::kMaxStack

ASSUME StackAssumption == MaxStack \in Nat \ {0}

VARIABLES
  kb,        \* the scenario (fixed)
  h,         \* the hook engine, its output queue and the host's text
  typed,     \* keys typed
  fast,      \* keys typed while sent events were still on their way
  flaws,     \* what has happened that the properties set apart (Flaws)
  base       \* the text before the shortcut expanded last: <<>> if none was there

vars == <<kb, h, typed, fast, flaws, base>>

Letter(k)  == k \in {"a", "s", "n", "copy"}
Digit(k)   == k = "1"
Glyph(k)   == k \in {"1", ".", ":"}
(* Ctrl, Alt or Win is held. *)
Chord(k)   == k = "copy"

(* Macro::IsCommitTrigger; "enter" stands for Tab as well. *)
IsCommitTrigger(k) == Glyph(k) \/ k \in {"space", "enter", "esc", "left"}
IsReplayContextBoundary(k) == k = "enter"
IsCaretNavigationKey(k)    == k = "left"
(* VkToMacroChar for the keys that have a character. *)
CharOf(k)  == IF k = "space" THEN " " ELSE k
TypesText(k) == k = "space" \/ Glyph(k) \/ k \in {"a", "s", "n", "back", "enter"}

Vni     == kb.method = "vni"
Unicode == kb.table = "unicode"
Sync    == kb.channel = "sync"
ToneKey == IF Vni THEN "1" ELSE "s"

Drop(s, n) == SubSeq(s, 1, IF n > Len(s) THEN 0 ELSE Len(s) - n)
Chars(s)   == {s[i] : i \in DOMAIN s}
CommonLen(s, t) ==
  CHOOSE n \in 0..Len(s) :
    /\ n <= Len(t)
    /\ SubSeq(s, 1, n) = SubSeq(t, 1, n)
    /\ n < Len(s) /\ n < Len(t) => s[n + 1] # t[n + 1]

(* CodeTableConverter::ConvertChar: the units one character is sent as. *)
Encode(c) == IF ~Unicode /\ c = "á" THEN <<"a", "´">> ELSE <<c>>
EncodeAll(s) == FlattenSeq([i \in DOMAIN s |-> Encode(s[i])])
Widths(s)    == [i \in DOMAIN s |-> Len(Encode(s[i]))]
Sum(w)       == FoldSeq(LAMBDA x, y : x + y, 0, w)

-----------------------------------------------------------------------------
(* The typing engine, as far as the pipeline can tell (IInputEngine). *)

Peek(x)  == [i \in DOMAIN x.cells |-> x.cells[i].ch]
Count(x) == Len(x.cells)
Vowels(x) == {i \in DOMAIN x.cells : x.cells[i].ch \in {"a", "á"}}

(* The tone key marks the last vowel; a second one takes the mark back and *)
(* stays as a letter.                                                      *)
PushChar(x, c) ==
  LET v  == CHOOSE i \in Vowels(x) : \A j \in Vowels(x) : j <= i
      x1 == [x EXCEPT !.raw = Append(@, c)]
      cell == [ch |-> c, at |-> Len(x.raw)]
  IN IF c # ToneKey \/ Vowels(x) = {} THEN [x1 EXCEPT !.cells = Append(@, cell)]
     ELSE IF x.cells[v].ch = "a" THEN [x1 EXCEPT !.cells[v].ch = "á"]
     ELSE [x1 EXCEPT !.cells = Append([@ EXCEPT ![v].ch = "a"], cell)]

(* The last character goes, and with it all raw input since it was typed. *)
EngineBackspace(x) ==
  IF x.cells = <<>> THEN x
  ELSE [x EXCEPT !.cells = Front(@), !.raw = SubSeq(@, 1, Last(x.cells).at)]

EngineReset(x) == [x EXCEPT !.cells = <<>>, !.raw = <<>>]

(* Commit gives the raw keys back for what is no syllable. *)
Committed(x) == IF Cardinality(Vowels(x)) > 1 THEN x.raw ELSE Peek(x)

Base(c) == IF c = "á" THEN "a" ELSE c
Seedable(text) == text # <<>> /\ \A i \in DOMAIN text : ~Glyph(text[i])
SeedFromText(x, text) ==
  [x EXCEPT !.cells = [i \in DOMAIN text |-> [ch |-> text[i], at |-> i - 1]],
            !.raw   = [i \in DOMAIN text |-> Base(text[i])]]

-----------------------------------------------------------------------------
(* Output: the host's text before the caret, and the events on their way. *)

(* The host receives a key or a character. *)
HostGets(d, u) ==
  CASE u \in {"back", "left"}  -> Drop(d, 1)
    [] u \in {"esc", "copy"}   -> d
    [] u = "space"             -> Append(d, " ")
    [] OTHER                   -> Append(d, u)

Settled(x) == FoldLeft(HostGets, x.doc, x.queue)

(* TrackedSendInput: the counter goes up, the events line up. *)
SendInput(x, us) == [x EXCEPT !.queue = @ \o us, !.syn = @ + Len(us)]

InjectKey(x, k) == SendInput(x, <<k>>)

(* The events of Win32SendInputInjector and SplitDispatchInjector: the     *)
(* key of a game, a bait character and its deletion, deletions, text.      *)
Strokes(bs, text, re) ==
  LET bait == kb.bait /\ bs > 0
  IN (IF re = "none" THEN <<>> ELSE <<re>>)
     \o (IF bait THEN <<"bait">> ELSE <<>>)
     \o [i \in 1..(IF bait THEN bs + 1 ELSE bs) |-> "back"]
     \o text

(* The message channel edits the text at once; it refuses to delete more   *)
(* than there is.                                                          *)
SyncOk(x, bs)          == bs <= Len(x.doc)
SyncReplace(x, bs, text) == [x EXCEPT !.doc = Drop(@, bs) \o text]

(* IOutputInjector::Replace through ReplaceRaw: FALSE is reported, not     *)
(* retried.                                                                *)
RawOk(x, bs) == Sync => SyncOk(x, bs)
ReplaceRaw(x, bs, text) ==
  IF bs = 0 /\ text = <<>> THEN x
  ELSE IF Sync THEN IF SyncOk(x, bs) THEN SyncReplace(x, bs, text) ELSE x
  ELSE SendInput(x, Strokes(bs, text, "none"))

NoteSynth(x) == [x EXCEPT !.had = @ \/ x.syn > 0]

(* ReplaceUnicode: messages first where the host takes them, else events.  *)
(* kb.channel "paste" tries the edit messages whatever the injector is.    *)
ReplaceUnicode(x, bs, text, re) ==
  IF Sync /\ re = "none" THEN
    NoteSynth(IF SyncOk(x, bs) THEN SyncReplace(x, bs, text)
              ELSE SendInput(x, Strokes(bs, text, "none")))
  ELSE IF kb.channel = "paste" THEN
    LET n == IF re # "none" /\ bs > 0 THEN bs - 1 ELSE bs
    IN NoteSynth(IF SyncOk(x, n) THEN SyncReplace(x, n, text)
                 ELSE SendInput(x, [i \in 1..n |-> "back"] \o text))
  ELSE NoteSynth(SendInput(x, Strokes(bs, text, re)))

(* ReplaceComposition: only what differs is sent.  Code tables with two    *)
(* units count the units they sent, character by character.                *)
ReplaceComposition(x, new, re) ==
  LET From(n, rest) ==
        IF Unicode
        THEN [ReplaceUnicode(x, Len(x.prev) - n, rest, re) EXCEPT !.prev = new]
        ELSE [ReplaceRaw(x, Sum(SubSeq(x.widths, n + 1, Len(x.widths))), EncodeAll(rest))
                EXCEPT !.prev = new,
                       !.widths = SubSeq(@, 1, n) \o Widths(rest)]
      After(n) == From(n, SubSeq(new, n + 1, Len(new)))
  IN After(CommonLen(x.prev, new))

-----------------------------------------------------------------------------
(* State of the word, of the recall of committed words, of macros. *)

ClearMacroBuffer(x) == [x EXCEPT !.buf = <<>>, !.cross = FALSE]

NoUndo == [on |-> FALSE, shortcut |-> <<>>, len |-> 0, trail |-> FALSE]
ClearMacroUndo(x) == [x EXCEPT !.undo = NoUndo]

ClearWordState(x) ==
  [EngineReset(ClearMacroBuffer(x)) EXCEPT
     !.prev = <<>>, !.widths = <<>>, !.hist = <<>>, !.skip = FALSE,
     !.had = FALSE, !.digit = FALSE]

(* CommitState::Cancel *)
CancelCommitUndo(x) ==
  [x EXCEPT !.cu = "idle", !.pend = 0, !.lead = 0, !.gap = FALSE, !.stack = <<>>]

DiscardReplayContext(x) ==
  [CancelCommitUndo(x) EXCEPT !.hist = <<>>, !.pushed = FALSE]

SetCommitUndoReady(x) ==
  [x EXCEPT !.pend = x.lead, !.lead = 0, !.gap = FALSE, !.cu = "ready"]

ResetComposition(x) ==
  [ClearMacroUndo(CancelCommitUndo(ClearWordState(x))) EXCEPT !.syn = 0]

PushEntry(st, e) == Append(IF Len(st) >= MaxStack THEN Tail(st) ELSE st, e)

(* CommitComposition: the word is finished; what the engine makes of it    *)
(* replaces what is shown, and is remembered with the keys it came from.   *)
Restores(x) == x.prev # <<>> /\ Committed(x) # x.prev
CommitComposition(x) ==
  LET Entry(y) == [hist |-> x.hist, text |-> y.prev, raw |-> x.raw,
                   widths |-> y.widths, lead |-> x.lead]
      Remembered(y) == IF x.hist = <<>> THEN [y EXCEPT !.pushed = FALSE]
                       ELSE [y EXCEPT !.pushed = TRUE, !.lead = 0,
                                      !.stack = PushEntry(@, Entry(y))]
  IN ClearWordState(
       Remembered(IF Restores(x) THEN ReplaceComposition(x, Committed(x), "none") ELSE x))

Out(x, o) == [x EXCEPT !.out = o]

-----------------------------------------------------------------------------
(* Letters, digits and Backspace while a word is composed. *)

(* What a key makes of the word is shown: a plain letter by the host itself, *)
(* anything else by events; a game gets the key first.                       *)
ShowWord(x, k, comp) ==
  LET simple == comp = Append(x.prev, k)
      passes == /\ Unicode /\ ~(x.had /\ kb.lockstep) /\ ~Sync
                /\ x.syn = 0 /\ simple
      game   == kb.game /\ ~simple /\ Unicode /\ ~kb.bait /\ ~Sync
  IN IF passes THEN Out([x EXCEPT !.prev = comp], "pass")
     ELSE Out(ReplaceComposition(IF game THEN [x EXCEPT !.prev = Append(@, k)] ELSE x,
                                 comp, IF game THEN k ELSE "none"), "eat")
Pushed(x, k) == PushChar([x EXCEPT !.hist = Append(@, k)], k)

(* Mutant: what was shown before stays although the word is empty. *)
HandleAlphaKeyKeepingPrev(x, k) ==
  LET Show(y) == ShowWord(y, k, Peek(y)) IN Show(Pushed(x, k))

HandleAlphaKey(x, k) ==
  LET Show(y) == ShowWord(y, k, Peek(y))
  IN Show(Pushed(IF x.cells = <<>> /\ x.prev # <<>>
                 THEN [x EXCEPT !.prev = <<>>, !.widths = <<>>] ELSE x, k))

HandleVniDigitKey(x, k) ==
  LET Show(y) == Out(ReplaceComposition(y, Peek(y), "none"), "eat") IN Show(Pushed(x, k))

HandleBackspace(x) ==
  LET Width(y) == IF Unicode THEN Len(y.prev) ELSE Sum(y.widths)
      Cleared(y) == IF y.prev = <<>> THEN y
                    ELSE [ReplaceRaw(y, Width(y), <<>>) EXCEPT !.prev = <<>>, !.widths = <<>>]
      Recallable(y) == IF y.stack = <<>> THEN y ELSE SetCommitUndoReady(y)
      Shorter(y) == IF y.cells # <<>> THEN ReplaceComposition(y, Peek(y), "none")
                    ELSE Recallable(Cleared(y))
  IN Shorter(EngineBackspace([x EXCEPT !.hist = Append(@, "back")]))

-----------------------------------------------------------------------------
(* Recall of the words committed last (HookEngineCommitUndo.cpp). *)

ReplayHistory(x, hist) ==
  FoldLeft(LAMBDA y, c : IF c = "back" THEN EngineBackspace(y) ELSE PushChar(y, c),
           EngineReset(x), hist)

(* RestoreCommittedText: the engine is brought to show the text that is on *)
(* screen, by its keys or by its letters, whichever is preferred.          *)
Restored(x, e, visible) ==
  LET byText == <<[SeedFromText(x, e.text) EXCEPT !.hist = e.text]>>
      Replayed(y) == IF Peek(y) = e.text THEN <<[y EXCEPT !.hist = e.hist]>>
                     ELSE IF Seedable(e.text) THEN byText ELSE <<>>
  IN IF visible /\ Seedable(e.text) THEN byText ELSE Replayed(ReplayHistory(x, e.hist))

(* ReplayCommittedChars; field out is "pass" when it fails. *)
ReplayCommittedChars(x, visible) ==
  LET Shows(y, e) == Out([y EXCEPT !.prev = e.text, !.widths = e.widths, !.lead = e.lead], "fall")
      Tried(y, e, r) == IF r = <<>> THEN Out([EngineReset(y) EXCEPT !.hist = <<>>], "pass")
                        ELSE Shows(r[1], e)
      Top(y, e) == Tried(y, e, Restored(y, e, visible))
  IN IF x.stack = <<>> THEN Out([x EXCEPT !.cu = "idle"], "pass")
     ELSE Top([x EXCEPT !.stack = Front(@), !.cu = "idle"], Last(x.stack))

(* IsCommitUndoExemptKey: keys that mark the committed word. *)
Exempt(k) == \/ ~Vni /\ k \in {"s", "a"}
             \/ Vni /\ Digit(k)
             \/ k = "esc" /\ kb.escRaw

(* A key while a committed word is before the caret; old: the last events *)
(* were sent longer ago than the host needs to settle.                    *)
PrimedKey(x, k, old) ==
  LET replays == Exempt(k) \/ (Letter(k) /\ x.stack # <<>> /\ kb.glue)
      space == [x EXCEPT !.pend = 0, !.gap = FALSE, !.cu = "ready"]
      Marked(y) ==
        CASE y.out = "pass" -> y
          [] y.out # "pass" /\ Letter(k) -> HandleAlphaKey(y, k)
          [] y.out # "pass" /\ Digit(k)  ->
               IF Count(y) = 0 THEN Out([y EXCEPT !.cu = "idle"], "pass")
               ELSE HandleVniDigitKey(y, k)
          [] y.out # "pass" /\ k = "back" -> Out(HandleBackspace(y), "eat")
  IN CASE x.syn > 0 /\ ~Sync /\ ~old /\ ~replays -> Out(CancelCommitUndo(x), "fall")
       [] Letter(k) /\ ~replays ->
            Out([x EXCEPT !.cu = "idle", !.stack = IF @ = <<>> THEN @ ELSE Front(@)], "fall")
       [] (Letter(k) /\ replays) \/ (Digit(k) /\ Vni) \/ k = "back" ->
            Marked(ReplayCommittedChars(x, k = "back"))
       [] k = "space" ->
            IF x.syn > 0 THEN Out(InjectKey(space, k), "eat")
            ELSE IF Sync THEN Out(SyncReplace(space, 0, <<" ">>), "eat")
            ELSE Out(space, "pass")
       [] Glyph(k) /\ ~(Vni /\ Digit(k)) -> Out(CancelCommitUndo(x), "fall")
       [] k = "esc" /\ Exempt(k) -> Out(x, "fall")
       [] OTHER -> Out([x EXCEPT !.cu = "idle"], "fall")

(* Mutant: the spaces after the word are not counted. *)
ReadyKeyUncounted(x, k) ==
  IF IsCaretNavigationKey(k) THEN CancelCommitUndo(x)
  ELSE IF IsCommitTrigger(k) THEN x ELSE [x EXCEPT !.cu = "idle"]

(* A key in the gap after a committed word, other than Backspace. *)
ReadyKey(x, k) ==
  LET trigger == IsCommitTrigger(k) /\ Count(x) = 0
  IN CASE IsCaretNavigationKey(k) -> CancelCommitUndo(x)
       [] trigger /\ k = "space"  -> [x EXCEPT !.pend = @ + 1]
       [] trigger /\ k # "space"  -> CancelCommitUndo(x)
       [] ~trigger /\ x.pend = 0 /\ x.gap -> CancelCommitUndo(x)
       [] OTHER -> [x EXCEPT !.lead = x.pend, !.pend = 0, !.gap = FALSE, !.cu = "idle"]

(* Backspace in the gap: the extra characters first, then the trigger. *)
ReadyBackspace(x) ==
  LET primed == ClearMacroBuffer([x EXCEPT !.cu = "primed"])
  IN IF x.pend > 0 THEN Out([x EXCEPT !.pend = @ - 1], "pass")
     ELSE IF x.syn > 0 THEN Out(InjectKey(primed, "back"), "eat")
     ELSE IF Sync /\ SyncOk(x, 1) THEN Out(SyncReplace(primed, 1, <<>>), "eat")
     ELSE Out(primed, "pass")

(* HandleCommitUndoFsm; t.late: more than four seconds since Ready. *)
CommitUndo(x, k, t) ==
  LET Drops(y) == \/ y.cu # "idle" /\ Chord(k)
                  \/ k = "enter" /\ (y.cu # "idle" \/ y.stack # <<>>)
                  \/ y.cu = "ready" /\ t.late
      Ready(y) == IF y.out = "fall" /\ y.cu = "ready" THEN Out(ReadyKey(y, k), "fall") ELSE y
      Primed(y) == IF y.cu = "primed" /\ Count(y) = 0 /\ kb.vn THEN PrimedKey(y, k, t.old)
                   ELSE Out(y, "fall")
      Window(y) == IF y.cu = "ready" /\ k = "back" /\ Count(y) = 0 THEN ReadyBackspace(y)
                   ELSE Ready(Primed(y))
      Noted(y) == Window(IF Drops(y) THEN CancelCommitUndo(y) ELSE y)
  IN Noted([x EXCEPT !.open = IF Letter(k) /\ Count(x) = 0 THEN x.glyph ELSE @,
                     !.glyph = IF k \in {".", ":"} THEN k ELSE "none"])

-----------------------------------------------------------------------------
(* Macros. *)

MacrosOn == kb.macros # <<>>
Shortcuts == {kb.macros[i].key : i \in DOMAIN kb.macros}
ExpansionOf(w) == (CHOOSE i \in DOMAIN kb.macros : kb.macros[i].key = w)
SpacePrefix(w) == \E s \in Shortcuts : " " \in Chars(s) /\ IsPrefix(w, s)

(* Macro::Plan: the shortcut found for the buffer, without the trigger, or *)
(* for the word on screen, and how much of the screen it takes.            *)
Plan(x, k) ==
  LET glyph == Glyph(k)
      without == glyph /\ Len(x.buf) > 1 /\ Front(x.buf) \in Shortcuts
      withKey == glyph /\ x.prev # <<>> /\ Append(x.prev, k) \in Shortcuts
      shown == x.prev # <<>> /\ x.prev \in Shortcuts
      bufLen == IF glyph /\ x.buf # <<>> THEN Len(x.buf) - 1 ELSE Len(x.buf)
      width == IF Unicode THEN Len(x.prev) ELSE Sum(x.widths)
      bs == IF x.cross \/ x.prev = <<>> THEN bufLen ELSE width
  IN CASE x.buf \in Shortcuts -> <<[key |-> x.buf, whole |-> glyph, bs |-> bs]>>
       [] x.buf \notin Shortcuts /\ without ->
            <<[key |-> Front(x.buf), whole |-> FALSE, bs |-> bs]>>
       [] x.buf \notin Shortcuts /\ ~without /\ withKey ->
            <<[key |-> Append(x.prev, k), whole |-> TRUE, bs |-> width]>>
       [] x.buf \notin Shortcuts /\ ~without /\ ~withKey /\ shown ->
            <<[key |-> x.prev, whole |-> FALSE, bs |-> width]>>
       [] OTHER -> <<>>

(* TryExpandMacro: the shortcut gives way to its expansion; Backspace may  *)
(* undo it where every unit sent is one character.                         *)
TryExpandMacro(x, k, p) ==
  LET Follow(y) == IF p.whole THEN Out(y, "eat")
                   ELSE IF y.syn > 0 THEN Out(InjectKey(y, k), "eat") ELSE Out(y, "pass")
      undoable == Unicode /\ RawOk(x, p.bs) /\ TypesText(k) /\ k # "enter"
      Expand(text) ==
        [CancelCommitUndo(ClearWordState(ReplaceRaw(x, p.bs, EncodeAll(text)))) EXCEPT
           !.undo = IF undoable THEN [on |-> TRUE, shortcut |-> p.key, len |-> Len(text),
                                      trail |-> ~p.whole]
                    ELSE NoUndo]
  IN Follow(Expand(kb.macros[ExpansionOf(p.key)].text))

(* Mutant: the key that called for the expansion stays. *)
UndoMacroKeepingTrigger(x) ==
  LET u == x.undo
      x1 == ReplaceRaw(ReplaceRaw(ClearMacroUndo(x), u.len, <<>>), 0, u.shortcut)
  IN Out([x1 EXCEPT !.buf = u.shortcut, !.cross = TRUE, !.skip = TRUE], "eat")

UndoMacro(x) ==
  LET u == x.undo
      n == u.len + (IF u.trail THEN 1 ELSE 0)
      x1 == ReplaceRaw(ReplaceRaw(ClearMacroUndo(x), n, <<>>), 0, u.shortcut)
  IN IF RawOk(x, n)
     THEN Out([x1 EXCEPT !.buf = u.shortcut, !.cross = TRUE, !.skip = TRUE], "eat")
     ELSE Out(ResetComposition(ClearMacroUndo(x)), "eat")

(* The buffer after a key that expands nothing. *)
TrimBuffer(x, k) ==
  LET keep == \/ k = "space" /\ SpacePrefix(Append(x.buf, " "))
              \/ k # "space" /\ Glyph(k)
  IN CASE k = "back" /\ x.buf # <<>> ->
            IF Len(x.buf) = 1 THEN ClearMacroBuffer(x) ELSE [x EXCEPT !.buf = Front(@)]
       [] IsCommitTrigger(k) /\ keep -> x
       [] Letter(k) -> x
       [] OTHER -> [ClearMacroBuffer(x) EXCEPT !.skip = FALSE]

(* HandleMacro in Vietnamese mode. *)
Macro(x, k) ==
  LET Planned(y, plan) == IF plan # <<>> THEN TryExpandMacro(y, k, plan[1])
                          ELSE Out(IF MacrosOn THEN TrimBuffer(y, k) ELSE y, "fall")
      Grown(y) == Planned(y, IF /\ MacrosOn /\ ~x.skip /\ IsCommitTrigger(k) /\ k # "esc"
                                /\ y.buf # <<>>
                             THEN Plan(y, k) ELSE <<>>)
  IN IF x.undo.on /\ k = "back" THEN UndoMacro(x)
     ELSE Grown(IF MacrosOn /\ (Letter(k) \/ Glyph(k))
                THEN [x EXCEPT !.buf = Append(@, CharOf(k))] ELSE x)

(* HandleMacro in English mode: nothing else looks at the key. *)
MacroEnglish(x, k) ==
  LET Planned(y, plan) ==
        IF plan # <<>> THEN TryExpandMacro(y, k, plan[1])
        ELSE Out(IF k = "esc" THEN [ClearMacroBuffer(y) EXCEPT !.skip = FALSE] ELSE y, "pass")
      Grown(y) == Planned(y, IF y.buf # <<>> /\ k # "esc" THEN Plan(y, k) ELSE <<>>)
  IN CASE x.undo.on /\ k = "back" -> UndoMacro(x)
       [] Letter(k) -> Out([x EXCEPT !.buf = Append(@, k)], "pass")
       [] IsCommitTrigger(k) /\ ~x.skip ->
            Grown(IF Glyph(k) THEN [x EXCEPT !.buf = Append(@, k)] ELSE x)
       [] k = "back" /\ x.buf # <<>> /\ ~x.undo.on ->
            Out(IF Len(x.buf) = 1 THEN ClearMacroBuffer(x) ELSE [x EXCEPT !.buf = Front(@)],
                "pass")
       [] ~IsCommitTrigger(k) /\ x.buf = <<>> ->    \* a Backspace with nothing to take back
            Out([ClearMacroBuffer(x) EXCEPT !.skip = FALSE], "pass")
       [] OTHER -> Out(x, "pass")

-----------------------------------------------------------------------------
(* Esc bound to "restore the raw keys": the word composed, or the one      *)
(* committed last.                                                         *)
TryEscRestoreRaw(x, late) ==
  LET top == Last(x.stack)
      bs  == IF Unicode THEN Len(top.text) ELSE Sum(top.widths)
      done(y) == Out([ClearMacroBuffer(y) EXCEPT !.skip = FALSE], "eat")
  IN IF Count(x) > 0
     THEN IF x.raw = <<>> \/ ~RawOk(x, Count(x)) THEN Out(x, "fall")
          ELSE done(EngineReset(ReplaceRaw(x, Count(x), x.raw)))
     ELSE IF late THEN Out(CancelCommitUndo(x), "fall")
     ELSE IF RawOk(x, bs) THEN done(CancelCommitUndo(ReplaceRaw(x, bs, top.raw)))
     ELSE Out(x, "fall")

EscRestoreRaw(x, k, late) ==
  IF /\ k = "esc" /\ kb.escRaw
     /\ Count(x) > 0 \/ (x.cu = "primed" /\ x.stack # <<>> /\ Last(x.stack).raw # <<>>)
  THEN TryEscRestoreRaw(x, late) ELSE Out(x, "fall")

-----------------------------------------------------------------------------
(* DispatchKeyAction *)

DigitLedBoundary(k) == k \in {"space", "enter", "esc", "back", "left"}

(* A word of digits is left alone up to its end. *)
DigitLed(x, k) ==
  CASE x.digit /\ Count(x) > 0 -> Out([x EXCEPT !.digit = FALSE], "fall")
    [] x.digit /\ Count(x) = 0 -> Out([x EXCEPT !.digit = ~DigitLedBoundary(k)], "pass")
    [] ~x.digit /\ Count(x) = 0 /\ Digit(k) /\ Vni -> Out([x EXCEPT !.digit = TRUE], "pass")
    [] OTHER -> Out(x, "fall")

(* The end of a word: it is committed, the macro buffer may live on, the   *)
(* recall is armed, and the trigger follows whatever is still on its way.  *)
CommitTrigger(x, k) ==
  LET saved == CASE ~(MacrosOn /\ ~x.skip /\ x.buf # <<>>) -> <<>>
                 [] Glyph(k) -> x.buf
                 [] k = "space" /\ SpacePrefix(Append(x.buf, " ")) -> Append(x.buf, " ")
                 [] OTHER -> <<>>
      Saved(y) == IF saved = <<>> THEN y ELSE [y EXCEPT !.buf = saved, !.cross = TRUE]
      Armed(y) == CASE ~y.pushed \/ k \in {"left", "esc"} -> y
                    [] y.pushed /\ (k = "enter" \/ (k = ":" /\ y.open = ":")) ->
                         CancelCommitUndo(y)
                    [] OTHER -> [SetCommitUndoReady(y) EXCEPT !.gap = k # "space"]
      Follow(y) == IF Restores(x) \/ y.syn > 0 THEN Out(InjectKey(y, k), "eat")
                   ELSE IF Sync /\ (k = "space" \/ Glyph(k))
                   THEN Out(SyncReplace(y, 0, <<CharOf(k)>>), "eat")
                   ELSE Out(y, "pass")
  IN Follow(Armed(Saved(CommitComposition(x))))

(* Esc without a binding: the composition is left as it is. *)
Escape(x, k) ==
  LET x1 == IF Count(x) > 0 THEN ResetComposition(x) ELSE x
  IN IF x.syn > 0 THEN Out(InjectKey(x1, k), "eat") ELSE Out(x1, "pass")

DispatchKeyAction(x, k) ==
  LET Act(d) ==
        CASE d.out = "pass" -> d
          [] d.out # "pass" /\ Letter(k) -> HandleAlphaKey(d, k)
          [] d.out # "pass" /\ Digit(k) /\ Vni /\ Count(d) > 0 -> HandleVniDigitKey(d, k)
          [] d.out # "pass" /\ k = "back" /\ Count(d) > 0 -> Out(HandleBackspace(d), "eat")
          [] d.out # "pass" /\ k = "esc" -> Escape(d, k)
          [] d.out # "pass" /\ IsCommitTrigger(k) /\ k # "esc" /\ Count(d) > 0
               /\ ~(Digit(k) /\ Vni) -> CommitTrigger(d, k)
          [] d.out # "pass" /\ k = "back" /\ Count(d) = 0 /\ d.syn > 0 ->
               Out(InjectKey(d, k), "eat")
          [] OTHER -> Out(d, "pass")
  IN IF x.off
     THEN Out(IF IsCommitTrigger(k) \/ (k = "back" /\ Count(x) = 0)
              THEN [x EXCEPT !.off = FALSE, !.digit = FALSE] ELSE x, "pass")
     ELSE IF Chord(k) THEN Out(ResetComposition(x), "pass")
     ELSE Act(DigitLed(x, k))

(* The hotkey that switches the engine off for one word. *)
ToggleEnabled(x) ==
  LET x1 == IF Count(x) > 0 THEN CommitComposition(x) ELSE x
  IN Out(CancelCommitUndo([x1 EXCEPT !.off = ~@]), "eat")

(* ProcessKeyDown: the features in the order of their priorities, then the *)
(* hotkeys, then the action of the key.  t.late: four seconds have passed; *)
(* t.stuck: half a second without a delivery, the counter is given up.     *)
ProcessKeyDown(x, k, t) ==
  LET Action(c) == CASE c.out # "fall" -> c
                     [] c.out = "fall" /\ k = "toggle" -> ToggleEnabled(c)
                     [] OTHER -> DispatchKeyAction(c, k)
      Esc(b) == IF b.out # "fall" THEN b ELSE EscRestoreRaw(b, k, t.late)
      Macros(a) == IF a.out # "fall" THEN a
                   ELSE IF kb.vn THEN Macro(a, k) ELSE MacroEnglish(a, k)
      Features(y) == IF ~kb.vn /\ y.cu = "idle" /\ ~y.undo.on /\ ~MacrosOn THEN Out(y, "pass")
                     ELSE Action(Esc(Macros(CommitUndo(y, k, t))))
      Counted(y) == IF t.stuck THEN [y EXCEPT !.syn = 0] ELSE y
      Bounded(y) == IF IsReplayContextBoundary(k) THEN DiscardReplayContext(y) ELSE y
  IN Features(Counted(Bounded(
       IF x.undo.on /\ (k # "back" \/ t.late) THEN ClearMacroUndo(x) ELSE x)))

(* A Backspace another program injected: the engine follows it where it    *)
(* can tell what it deletes, else forgets the word.                        *)
InjectedBackspace(x) ==
  LET has == Count(x) > 0 /\ x.prev # <<>>
      x1 == IF has /\ Unicode THEN EngineBackspace(x) ELSE x
      synced == /\ has /\ Unicode
                /\ Len(Peek(x1)) + 1 = Len(x.prev) /\ IsPrefix(Peek(x1), x.prev)
      buf == IF x.buf = <<>> THEN x.buf ELSE Front(x.buf)
      x2 == ClearMacroUndo(CancelCommitUndo([x1 EXCEPT !.prev = Peek(x1), !.buf = buf]))
      x3 == IF x.buf # <<>> /\ buf = <<>> THEN ClearMacroBuffer(x2) ELSE x2
  IN IF synced THEN [x3 EXCEPT !.digit = @ /\ Count(x1) > 0]
     ELSE ResetComposition(x1)

-----------------------------------------------------------------------------
EmptyWord ==
  [cells |-> <<>>, raw |-> <<>>, prev |-> <<>>, widths |-> <<>>, hist |-> <<>>,
   cu |-> "idle", stack |-> <<>>, pushed |-> FALSE, gap |-> FALSE,
   open |-> "none", glyph |-> "none", pend |-> 0, lead |-> 0,
   digit |-> FALSE, off |-> FALSE, buf |-> <<>>, cross |-> FALSE, skip |-> FALSE,
   undo |-> NoUndo, syn |-> 0, had |-> FALSE, queue |-> <<>>, doc |-> <<>>,
   out |-> "pass"]

Init ==
  /\ kb \in Keyboards
  /\ h = EmptyWord
  /\ typed = 0 /\ fast = 0 /\ flaws = {}
  /\ base = <<>>

(* A shortcut as the user sees it typed, without the key that expands it. *)
Shown(u) == LET w == IF u.trail THEN u.shortcut ELSE Front(u.shortcut)
            IN IF kb.vn THEN Peek(ReplayHistory(EmptyWord, w)) ELSE w

(* The text before the shortcut an expansion takes the place of. *)
TextBefore(x, y) ==
  IF ~y.undo.on \/ x.undo.on THEN base
  ELSE LET w == Shown(y.undo)
           d == Settled(x)
       IN IF IsSuffix(w, d) THEN <<Drop(d, Len(w))>> ELSE <<>>

(* "overtaken": the host's text changes while events sent earlier are on   *)
(* their way.  "stale": words stay remembered although the caret has left  *)
(* them: no window is open and no word is composed, or a letter was glued  *)
(* to the last of them and only that one was forgotten.  "recalled": the   *)
(* word composed was recalled, and the macro buffer does not know it.      *)
Flaws(x, k, y) ==
  LET overtaken == x.queue # <<>> /\ ((y.out = "pass" /\ TypesText(k)) \/ y.doc # x.doc)
      behind == y.cu = "idle" /\ (Count(y) = 0 \/ (x.cu = "primed" /\ y.hist = <<k>>))
      recall == x.cu = "primed" /\ Count(y) > 0 /\ y.hist # <<k>>
  IN {f \in {"overtaken", "stale", "recalled"} :
        CASE f = "overtaken" -> f \in flaws \/ overtaken
          [] f = "stale"     -> y.stack # <<>> /\ (f \in flaws \/ behind)
          [] f = "recalled"  -> recall \/ (f \in flaws /\ (Count(y) > 0 \/ y.undo.on \/ y.buf # <<>>))}

(* A physical key.  Passed, it is in the host before what is queued. *)
KeyDown(k) ==
  /\ typed < kb.depth /\ k \in kb.keys
  /\ h.queue # <<>> => fast < kb.fast
  /\ \E t \in [late : BOOLEAN, stuck : BOOLEAN, old : BOOLEAN] :
       /\ t.late => kb.waits /\ h.queue = <<>> /\ (h.cu # "idle" \/ h.undo.on)
       /\ t.stuck => kb.stuck /\ h.syn > 0 /\ ~t.old
       /\ t.old => h.syn > 0 /\ h.cu = "primed"
       /\ \E y \in {ProcessKeyDown(h, k, t)} :
            /\ h' = IF y.out = "pass" THEN [y EXCEPT !.doc = HostGets(@, k)] ELSE y
            /\ flaws' = Flaws(h, k, y)
            /\ base' = TextBefore(h, y)
  /\ typed' = typed + 1
  /\ fast' = IF h.queue = <<>> THEN fast ELSE fast + 1
  /\ UNCHANGED kb

(* The first event sent comes through the hook and reaches the host. *)
Deliver ==
  /\ h.queue # <<>>
  /\ h' = [h EXCEPT !.queue = Tail(@), !.doc = HostGets(@, Head(h.queue)),
                    !.syn = IF @ > 0 THEN @ - 1 ELSE 0]
  /\ UNCHANGED <<kb, typed, fast, flaws, base>>

(* A click moves the caret: the text before it is no longer known. *)
Click ==
  /\ typed < kb.depth /\ "click" \in kb.keys /\ h.queue = <<>> /\ h.doc # <<>>
  /\ h' = [ResetComposition(h) EXCEPT !.doc = Drop(@, 1)]
  /\ typed' = typed + 1
  /\ flaws' = flaws \cap {"overtaken"}
  /\ UNCHANGED <<kb, fast, base>>

(* An injected Backspace is never held back. *)
External ==
  /\ typed < kb.depth /\ "xback" \in kb.keys /\ h.queue = <<>>
  /\ h' = [InjectedBackspace(h) EXCEPT !.doc = Drop(@, 1)]
  /\ typed' = typed + 1
  /\ flaws' = flaws \cap {"overtaken"}
  /\ UNCHANGED <<kb, fast, base>>

Next == Deliver \/ Click \/ External \/ \E k \in kb.keys \ {"click", "xback"} : KeyDown(k)

Spec == Init /\ [][Next]_vars

-----------------------------------------------------------------------------
(* Properties.  Settled(h) is the text once everything sent has arrived.   *)

Word == Seq({"a", "á", "s", "n", "1"})
(* Types: the word and its keys, the recall and its counters, the queue.   *)
TypeOK ==
  /\ h.prev \in Word /\ h.hist \in Seq({"a", "á", "s", "n", "1", "back"})
  /\ h.cu \in {"idle", "ready", "primed"} /\ Len(h.stack) <= MaxStack
  /\ \A i \in DOMAIN h.stack : h.stack[i].text \in Word /\ h.stack[i].lead \in Nat
  /\ h.pend \in Nat /\ h.lead \in Nat /\ h.syn \in Nat
  /\ h.out \in {"eat", "pass"}
  /\ ~Unicode => Len(h.widths) = Len(h.prev)

(* What the engine composes is what the user sees before the caret: HookEngine's     *)
(* previousComposition_ is the engine's word and the end of the host's text, however *)
(* the keys, the events sent and the channels interleave (HandleAlphaKey,            *)
(* ReplaceComposition, ReplayCommittedChars).                                        *)
InStep ==
  "overtaken" \notin flaws /\ Count(h) > 0 =>
    h.prev = Peek(h) /\ IsSuffix(EncodeAll(h.prev), Settled(h))

(* The recall of a committed word (CommitState) points at that word: Primed, it is   *)
(* right before the caret, so the next key edits it; Ready, it is there followed by  *)
(* its trigger and the gap characters counted.                                       *)
RecallPointsAtWord ==
  "overtaken" \notin flaws /\ h.stack # <<>> =>
    LET w == EncodeAll(Last(h.stack).text)
        d == Settled(h)
    IN /\ h.cu = "primed" => IsSuffix(w, d)
       /\ h.cu = "ready" =>
            /\ Len(d) > h.pend
            /\ IsSuffix(w, Drop(d, h.pend + 1))
            /\ \A i \in Len(d) - h.pend + 1 .. Len(d) : d[i] = " "

(* The same as long as no word has been left behind in the stack: by an arrow key    *)
(* that ends a word, by Esc, or by a letter stale to the word recalled.              *)
FreshRecallPointsAtWord == "stale" \notin flaws => RecallPointsAtWord

(* While a macro expansion may be undone, the text is the text before its shortcut,  *)
(* the expansion and its trigger: the expansion has taken the shortcut's place and   *)
(* nothing else's, and Backspace takes away exactly what came (TryExpandMacro).      *)
ExpansionTakesShortcut ==
  "overtaken" \notin flaws /\ h.undo.on =>
    /\ base # <<>>
    /\ IsPrefix(base[1], Settled(h))
    /\ Len(Settled(h)) = Len(base[1]) + h.undo.len + (IF h.undo.trail THEN 1 ELSE 0)

(* In Vietnamese mode, where no word was recalled: in English mode the buffer runs   *)
(* on across words, and the keys of a recalled word are not in it.                   *)
FreshExpansionTakesShortcut == kb.vn /\ "recalled" \notin flaws => ExpansionTakesShortcut

(* Undo gives back what was there: a Backspace on a macro expansion leaves the text   *)
(* before it and the shortcut (HandleMacro), Esc on a word leaves its raw keys in its *)
(* place (TryEscRestoreRaw, in tables with one unit per character).                   *)
GivesBack ==
  [][ /\ FreshExpansionTakesShortcut /\ kb.vn /\ flaws = {} /\ h.undo.on /\ h'.skip /\ h'.cross
        => Settled(h') = base[1] \o h.undo.shortcut
      /\ /\ kb.escRaw /\ Unicode /\ flaws = {}
         /\ Count(h) > 0 /\ Count(h') = 0 /\ h'.hist = h.hist
        => Settled(h') = Drop(Settled(h), Count(h)) \o h.raw ]_vars

(* Nothing changes the host's text while events the hook has sent are on their way:   *)
(* "Re-inject trigger AFTER all pending synthetic events" (DispatchKeyAction).        *)
NothingOvertakes == "overtaken" \notin flaws

(* What the hook keeps of earlier words is where it says: a word to be recalled is    *)
(* before the caret, an expansion to be undone is after the text its shortcut was     *)
(* after (CommitState, TryExpandMacro).                                               *)
RecallAndMacrosInPlace == TypeOK /\ FreshRecallPointsAtWord /\ FreshExpansionTakesShortcut
=============================================================================
