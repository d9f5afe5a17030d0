--------------------------- MODULE TsfComposition ---------------------------
(***************************************************************************)
(* The text service inside an application: the two callbacks a key makes   *)
(* (KeyEventSink), the edit sessions in which the word on the screen is    *)
(* changed (CompositionEditSession, CompositionManager), and the word's    *)
(* engine, commit undo, macros and Backspace revival (EngineController).   *)
(*                                                                         *)
(* A callback runs on the thread of the application and is an operator     *)
(* from a record (NewText lists the fields) to a record whose field out is *)
(* "eat" or "pass".  What comes between two callbacks does so from         *)
(* outside: another process changes the flags, the application ends the    *)
(* composition, refuses an edit session, moves the caret or the focus,     *)
(* sends a key twice.                                                      *)
(*                                                                         *)
(* The typing engine (TypingEngine.tla) is cut down to what matters here:  *)
(* a tone key "s" turns a final "a" into "A", the marked vowel, and every  *)
(* other letter is appended.                                               *)
(***************************************************************************)
EXTENDS Naturals, Sequences, SequencesExt, FiniteSets, FiniteSetsExt

CONSTANT Desks    \* scenarios: application, settings, keys and budgets

Keys  == {"a", "s", " ", ".", "ret", "bk", "left", "esc", "ctrl"}
Chars == Keys \cup {"A", "E", "F"}    \* a marked vowel, and an expansion

ASSUME DesksAssumption ==
  \A d \in Desks : d.keys \subseteq Keys /\ d.text \in Seq(Chars)

VARIABLES
  desk,      \* the scenario (fixed)
  w,         \* the text service and the document
  phase,     \* the key between its two callbacks: [key, again, ate] or NoKey
  held,      \* the space bar is down
  spent,     \* outside events so far
  before,    \* the document when the last key was pressed
  upsets     \* what has happened that the properties set apart (UpsetsAfter)

tvars == <<desk, w, phase, held, spent, before, upsets>>

Letters == {"a", "s"}
Word    == {"a", "s", "A"}                    \* DecomposeVietChar
NoKey   == [key |-> "", again |-> FALSE, ate |-> FALSE]
NoRange == [word |-> <<>>, at |-> 0, len |-> 0]

Expansion == <<"E", "F">>

IsPunctuationKey(k) == k = "."
IsCommitTrigger(k)  == k \in {" ", ".", "ret", "left", "esc"}
IsTextProducingTrigger(k) == k \in {" ", "."}
ShouldTrigger(k) ==
  IF k = "." THEN desk.triggers \cap {" ", "ret"} # {} ELSE k \in desk.triggers

(***************************************************************************)
(* The document.  Only the text before the caret matters to the service;   *)
(* with sel the character after the caret is selected.                     *)
(***************************************************************************)

(* A range keeps to its text when n characters after position at become m. *)
Shifted(r, at, n, m) ==
  LET End(p) == IF p <= at THEN p ELSE IF p >= at + n THEN p + m - n ELSE at
      start  == IF r.at >= at + n THEN r.at + m - n ELSE IF r.at <= at THEN r.at ELSE at
      stop   == End(r.at + r.len)
  IN [r EXCEPT !.at = start, !.len = IF stop > start THEN stop - start ELSE 0]

SetText(d, at, n, new) ==
  [d EXCEPT
     !.text  = SubSeq(@, 1, at) \o new \o SubSeq(@, at + n + 1, Len(@)),
     !.caret = at + Len(new),
     !.sel   = FALSE,
     !.comp  = IF d.on THEN Shifted(@, at, n, Len(new)) ELSE @,
     !.rev   = IF @ = NoRange THEN @ ELSE Shifted(@, at, n, Len(new))]

Selected(d)  == IF d.sel THEN 1 ELSE 0
Preceding(d) == SubSeq(d.text, 1, d.caret)

(* Mutant: a selection is overlooked. *)
PrecedingWordOrSelection(d) ==
  LET lens == {n \in 0..d.caret : \A i \in d.caret - n + 1 .. d.caret : d.text[i] \in Word}
  IN SubSeq(d.text, d.caret - Max(lens) + 1, d.caret)

(* The letters that end at the caret: none with a selection. *)
PrecedingWord(d) ==
  LET lens == {n \in 0..d.caret : \A i \in d.caret - n + 1 .. d.caret : d.text[i] \in Word}
  IN IF d.sel THEN <<>> ELSE SubSeq(d.text, d.caret - Max(lens) + 1, d.caret)

(* What the application does with a key the service has not eaten. *)
HostKey(d, k) ==
  LET typed == k \in {"a", "s", " ", ".", "ret"}
      from  == IF k = "bk" /\ ~d.sel /\ d.caret > 0 THEN d.caret - 1 ELSE d.caret
  IN CASE typed \/ k = "bk" ->
            SetText(d, from, d.caret - from + Selected(d), IF typed THEN <<k>> ELSE <<>>)
       [] k = "left" -> IF d.sel THEN [d EXCEPT !.sel = FALSE]
                        ELSE [d EXCEPT !.caret = IF @ > 0 THEN @ - 1 ELSE 0]
       [] k = "esc"  -> [d EXCEPT !.escs = TRUE]
       [] OTHER      -> d

(***************************************************************************)
(* The engine: text is what Peek shows, raw the keys of escRawHistory_.    *)
(***************************************************************************)
EmptyEngine == [text |-> <<>>, raw |-> <<>>]

PushKey(e, c) ==
  [text |-> IF c = "s" /\ e.text # <<>> /\ Last(e.text) = "a"
            THEN Front(e.text) \o <<"A">> ELSE Append(e.text, c),
   raw  |-> Append(e.raw, c)]

(* One key of the history goes with the letter, and all with the last. *)
EngineBackspace(e) ==
  IF Len(e.text) <= 1 THEN EmptyEngine
  ELSE [text |-> Front(e.text), raw |-> IF e.raw = <<>> THEN <<>> ELSE Front(e.raw)]

(* RestoreCommittedText: the keys are pressed again if they give the word on
   the screen; otherwise the engine is seeded with the word, without a history. *)
SeedRevivedWord(word, raw) ==
  LET Seeded(again) == [text |-> word, raw |-> IF again.text = word THEN raw ELSE <<>>]
  IN Seeded(FoldLeft(PushKey, EmptyEngine, raw))

Buffer(d) == d.eng.text # <<>>

(***************************************************************************)
(* Macro tracking and the two undo records.                                *)
(***************************************************************************)
ResetMacroUndo(d) == [d EXCEPT !.mundo = <<>>, !.mwas = <<>>]
ClearMacroTracking(d) ==
  [ResetMacroUndo(d) EXCEPT !.moff = FALSE, !.mbuf = <<>>, !.cross = FALSE]

Flags(d)  == d.shared
Routed(d) == Flags(d).en /\ Flags(d).tsf

IsMacroTrackingEnabled(d) ==
  /\ ~d.blocked /\ desk.macros # {}
  /\ Routed(d) /\ (Flags(d).vn \/ desk.english)
IsEnglishMacroTrackingActive(d) ==
  ~d.blocked /\ desk.english /\ desk.macros # {} /\ Routed(d) /\ ~Flags(d).vn
HasMacroUndo(d) == d.mundo # <<>> /\ ~d.mlate /\ IsMacroTrackingEnabled(d)
HasMacroCandidate(d) == IsMacroTrackingEnabled(d) /\ (d.mbuf # <<>> \/ Buffer(d))

TrackMacroCharacter(d, c) ==
  IF IsMacroTrackingEnabled(d) THEN [d EXCEPT !.mbuf = Append(@, c)] ELSE d

TrackMacroBackspace(d) ==
  IF ~IsMacroTrackingEnabled(d) \/ d.mbuf = <<>> THEN d
  ELSE IF Len(d.mbuf) = 1 THEN ClearMacroTracking(d)
  ELSE [d EXCEPT !.mbuf = Front(@)]

NoCommit == [text |-> <<>>, raw |-> <<>>, trail |-> FALSE]
ResetCommitUndo(d) ==
  IF d.undo = "Idle" THEN d ELSE [d EXCEPT !.undo = "Idle", !.last = NoCommit]
OnNonRestoreKey(d) == ResetMacroUndo(ResetCommitUndo(d))

RecordCommitSnapshot(d, text, raw, trail) ==
  IF text = <<>> \/ raw = <<>>
  THEN [d EXCEPT !.undo = "Idle", !.last = NoCommit]
  ELSE [d EXCEPT !.undo = IF trail THEN "Ready" ELSE "Idle",
                 !.last = [text |-> text, raw |-> raw, trail |-> trail],
                 !.late = FALSE]

CommittedWord(c) == IF c.trail /\ c.text # <<>> THEN Front(c.text) ELSE c.text
MatchingRawForCommittedWord(d, word) ==
  IF word # <<>> /\ CommittedWord(d.last) = word THEN d.last.raw ELSE <<>>
WithinUndoWindow(d) == d.undo # "Idle" /\ ~d.late
TransitionUndoReadyToPrimed(d) == [d EXCEPT !.undo = "Primed"]

(***************************************************************************)
(* Edit sessions.  d.grant is what the application does with the sessions  *)
(* requested during this callback: "ok", "refused", or "nostart" (granted, *)
(* but no composition can be started).                                     *)
(***************************************************************************)
Granted(d) == d.grant # "refused"

EndComposition(d) == [d EXCEPT !.comp = NoRange, !.on = FALSE]
BeginCompositionOnRange(d, at, len, text) ==
  [d EXCEPT !.on = TRUE, !.comp = [word |-> text, at |-> at, len |-> len]]

(* InsertTextAtSelection and a composition on what was inserted; without
   one the insertion is taken back, the selection it replaced is not. *)
StartComposition(d, text) ==
  LET Inserted(ins) == IF d.grant = "nostart" THEN SetText(ins, d.caret, Len(text), <<>>)
                       ELSE BeginCompositionOnRange(ins, d.caret, Len(text), text)
  IN Inserted(SetText(IF d.on THEN EndComposition(d) ELSE d, d.caret, Selected(d), text))

SetCompositionText(d, text) ==
  [SetText(d, d.comp.at, d.comp.len, text) EXCEPT
     !.comp = [word |-> text, at |-> d.comp.at, len |-> Len(text)]]

StartCompositionEditSession(d, text) == IF Granted(d) THEN StartComposition(d, text) ELSE d

UpdateCompositionEditSession(d, text) ==
  IF ~Granted(d) THEN d
  ELSE IF d.on THEN SetCompositionText(d, text)
  ELSE IF text = <<>> THEN d ELSE StartComposition(d, text)

CommitEditSession(d, final) ==
  IF ~Granted(d) \/ ~d.on THEN d
  ELSE EndComposition(IF d.comp.word = final THEN d ELSE SetCompositionText(d, final))

(* Replace what is before the caret, if it is what is expected ("any": no
   expectation). *)
ReplacePrecedingText(d, n, new, expected) ==
  IF /\ Granted(d) /\ n > 0 /\ ~d.sel /\ n <= d.caret
     /\ expected = <<"any">> \/ SubSeq(d.text, d.caret - n + 1, d.caret) = expected
  THEN [SetText(d, d.caret - n, n, new) EXCEPT !.replaced = TRUE]
  ELSE [d EXCEPT !.replaced = FALSE]

(* EscRestoreLastCommitSession shifts the start of the selection, and so takes
   a selected character into the comparison. *)
EscRestoreLastCommitSession(d, word, raw) ==
  IF /\ Granted(d) /\ word # <<>> /\ Len(word) <= d.caret
     /\ SubSeq(d.text, d.caret - Len(word) + 1, d.caret) = word
  THEN [SetText(d, d.caret - Len(word), Len(word) + Selected(d), raw)
          EXCEPT !.replaced = TRUE]
  ELSE [d EXCEPT !.replaced = FALSE]

(* Backspace into a word that was committed: the word becomes a composition
   again and loses its last letter, also where no composition can start. *)
ReviveCompositionEditSession(d) ==
  LET Ended(c) == IF c.eng.text = <<>> THEN EndComposition(c) ELSE c
      Revived(c, e) ==
        IF d.grant = "nostart"
        THEN [SetText(c, d.rev.at, d.rev.len, e.text) EXCEPT !.eng = EmptyEngine]
        ELSE Ended([SetCompositionText(BeginCompositionOnRange(c, d.rev.at, d.rev.len, d.rev.word),
                                       e.text) EXCEPT !.eng = e])
  IN IF ~Granted(d) THEN d
     ELSE Revived(IF d.on THEN EndComposition(d) ELSE d,
                  EngineBackspace(SeedRevivedWord(d.rev.word,
                                    MatchingRawForCommittedWord(d, d.rev.word))))

(* A letter typed at the end of a word that was committed. *)
ReviveAndTypeEditSession(d, word, c) ==
  LET Typed(e) == [SetCompositionText(BeginCompositionOnRange(d, d.caret - Len(word), Len(word), word),
                                      e.text) EXCEPT !.eng = e, !.replaced = TRUE]
  IN IF ~Granted(d) THEN [d EXCEPT !.replaced = FALSE]
     ELSE IF d.grant = "nostart" THEN [d EXCEPT !.eng = EmptyEngine, !.replaced = FALSE]
     ELSE Typed(PushKey(SeedRevivedWord(word, MatchingRawForCommittedWord(d, word)), c))

HasNonEmptySelection(d) == Granted(d) /\ d.sel

(***************************************************************************)
(* EngineController.                                                       *)
(***************************************************************************)
EngineReset(d) == [d EXCEPT !.eng = EmptyEngine]

Commit(d) ==
  LET c == ClearMacroTracking(EngineReset(CommitEditSession(d, d.eng.text)))
  IN RecordCommitSnapshot(c, d.eng.text, d.eng.raw, FALSE)

CommitWithChar(d, c) ==
  LET final == Append(d.eng.text, c)
      Ended(done) == IF done.cross THEN done ELSE ClearMacroTracking(done)
  IN RecordCommitSnapshot(Ended(EngineReset(CommitEditSession(d, final))), final, d.eng.raw, TRUE)

CommitRawAndEnd(d) == ClearMacroTracking(EngineReset(CommitEditSession(d, d.eng.raw)))
EndCompositionVerbatim(d) ==
  ResetCommitUndo(ClearMacroTracking(EngineReset(CommitEditSession(d, d.eng.text))))

(* Reset drops what the service holds and leaves the document alone. *)
Reset(d) == EndComposition(EngineReset(ClearMacroTracking(d)))

TryRestoreLastCommitRaw(d) ==
  ResetCommitUndo(EscRestoreLastCommitSession(d, CommittedWord(d.last), d.last.raw))

RefreshKeyRouting(d) ==
  LET f == d.shared
      c == d.cache
      new == [en  |-> f.en,
              tsf |-> IF f.en THEN f.tsf ELSE c.tsf,
              vn  |-> IF f.en /\ f.tsf THEN f.vn ELSE c.vn]
  IN IF new = c THEN d ELSE [ClearMacroTracking(d) EXCEPT !.cache = new]

(* Mutant: the scope of the first field is kept for all. *)
CheckFirstField(d) == [d EXCEPT !.seen = TRUE, !.scope = FALSE, !.blocked = FALSE]

(* The input scope is read with the first key in a field, and a scope that
   cannot be read does not block. *)
CheckContextBlocked(d) ==
  LET scope == IF d.seen THEN d.scope ELSE Granted(d) /\ d.secret
  IN [d EXCEPT !.seen = TRUE, !.scope = scope, !.blocked = scope]

WantKey(d, k) ==
  /\ Routed(d) /\ d.cache.vn
  /\ \/ k \in Letters
     \/ k = "bk" /\ (HasMacroUndo(d) \/ Buffer(d))
     \/ k = " " /\ ~desk.scintilla /\ Buffer(d)

PrepareBackspaceRevive(d) ==
  LET word == PrecedingWord(d)
      ready == /\ Routed(d) /\ d.cache.vn /\ ~Buffer(d) /\ ~desk.scintilla
               /\ Granted(d) /\ word # <<>>
  IN [d EXCEPT !.rev = IF ready
                       THEN [word |-> word, at |-> d.caret - Len(word), len |-> Len(word)]
                       ELSE NoRange]

(* Macro::Plan: the shortcut is the tracked keys, with or without the trigger,
   or the word on the screen.  cross: the text to go is not the composition's. *)
NoPlan == [matched |-> FALSE, part |-> FALSE, shortcut |-> <<>>, n |-> 0, cross |-> TRUE]
Plan(buf, prev, k, cross) ==
  LET glyph == IsPunctuationKey(k)
      By(found) ==
        [matched  |-> found # "none",
         part     |-> found = "with" \/ (found = "exact" /\ glyph),
         shortcut |-> CASE found = "exact" -> buf
                        [] found = "cut"   -> Front(buf)
                        [] found = "with"  -> Append(prev, k)
                        [] OTHER           -> prev,
         n        |-> IF found \in {"with", "alone"} \/ (~cross /\ prev # <<>>) THEN Len(prev)
                      ELSE Len(buf) - (IF glyph /\ buf # <<>> THEN 1 ELSE 0),
         cross    |-> cross]
  IN By(IF buf \in desk.macros THEN "exact"
        ELSE IF glyph /\ Len(buf) > 1 /\ Last(buf) = k /\ Front(buf) \in desk.macros THEN "cut"
        ELSE IF prev # <<>> /\ glyph /\ Append(prev, k) \in desk.macros THEN "with"
        ELSE IF prev # <<>> /\ prev \in desk.macros THEN "alone" ELSE "none")

(* Macro::MatchInPrecedingText: the longest text before the caret that is a
   shortcut and starts a word. *)
LookupMacroInContext(d, k) ==
  LET tail(n) == SubSeq(d.text, d.caret - n + 1, d.caret)
                   \o (IF IsPunctuationKey(k) THEN <<k>> ELSE <<>>)
      starts  == {n \in 1..d.caret :
                    /\ \E m \in desk.macros : Len(tail(n)) <= Len(m)
                    /\ n < d.caret => d.text[d.caret - n] \in {" ", ".", "ret"}}
      Longest(plans) ==
        LET best == {p \in plans : \A q \in plans : q.n <= p.n}
        IN IF best = {} THEN NoPlan ELSE CHOOSE p \in best : TRUE
  IN IF ~Granted(d) \/ desk.scintilla \/ d.sel THEN NoPlan
     ELSE Longest({p \in {[Plan(tail(n), <<>>, k, TRUE) EXCEPT !.n = n] : n \in starts} :
                     p.matched})

Candidate(d, k) ==
  IF (d.mbuf # <<>> \/ Buffer(d)) /\ IsPunctuationKey(k) THEN Append(d.mbuf, k) ELSE d.mbuf

WouldExpandMacroTrigger(d, k) ==
  /\ ~d.moff /\ IsMacroTrackingEnabled(d) /\ ShouldTrigger(k)
  /\ \/ Plan(IF IsPunctuationKey(k) THEN Append(d.mbuf, k) ELSE d.mbuf, d.eng.text, k,
             d.cross).matched
     \/ LookupMacroInContext(d, k).matched

(* A space goes on in a shortcut that has spaces. *)
KeepsSpace(d, k) ==
  /\ k = " " /\ d.mbuf # <<>>
  /\ \E m \in desk.macros : IsPrefix(Append(d.mbuf, " "), m)

(* res: "none", "eat" or "pass" (MacroResult) *)
ExpandMacro(d, k, plan) ==
  LET own  == k \in {" ", "."}
      text == IF plan.part \/ ~own THEN Expansion ELSE Append(Expansion, k)
      Ended(c) == [c EXCEPT !.replaced = ~c.on]
      Put(p) ==
        IF ~p.replaced THEN [ClearMacroTracking(p) EXCEPT !.res = "none"]
        ELSE [ResetCommitUndo(ClearMacroTracking(EngineReset(p))) EXCEPT
                !.res = IF plan.part \/ own THEN "eat" ELSE "pass",
                !.grown = TRUE,
                !.mundo = IF desk.undo /\ own THEN plan.shortcut ELSE <<>>,
                !.mwas  = IF desk.undo /\ own THEN text ELSE <<>>,
                !.mlate = FALSE]
      Shut(c) == IF plan.cross \/ ~d.on
                 THEN ReplacePrecedingText(IF d.on THEN EngineReset(c) ELSE d, plan.n, text, <<"any">>)
                 ELSE Ended(c)
  IN Put(Shut(CommitEditSession(d, IF plan.cross THEN d.eng.text ELSE text)))

HandleMacroTrigger(d, k) ==
  LET none == [d EXCEPT !.res = "none"]
      OrContext(p) == IF p.matched THEN p ELSE LookupMacroInContext(d, k)
      Unmatched(buf) ==
        IF KeepsSpace(d, k) THEN [none EXCEPT !.mbuf = Append(@, " "), !.cross = TRUE]
        ELSE IF IsPunctuationKey(k) /\ ShouldTrigger(k)
        THEN [none EXCEPT !.mbuf = buf, !.cross = TRUE]
        ELSE ClearMacroTracking(none)
      Planned(plan, buf) == IF plan.matched THEN ExpandMacro(d, k, plan) ELSE Unmatched(buf)
      Keyed(buf) == IF buf = <<>> /\ ~Buffer(d) THEN NoPlan ELSE Plan(buf, d.eng.text, k, d.cross)
  IN IF d.moff \/ ~IsMacroTrackingEnabled(d) THEN ClearMacroTracking(none)
     ELSE Planned(IF ShouldTrigger(k) THEN OrContext(Keyed(Candidate(d, k))) ELSE NoPlan,
                  Candidate(d, k))

MacroUndone(r, shortcut) ==
  IF r.replaced
  THEN [r EXCEPT !.mbuf = shortcut, !.cross = TRUE, !.moff = TRUE, !.undone = TRUE]
  ELSE r

(* Mutant: what stands before the caret is not compared with the expansion. *)
UndoMacroUnseen(d) ==
  MacroUndone(ReplacePrecedingText(ResetMacroUndo(d), Len(d.mwas), d.mundo, <<"any">>), d.mundo)

(* An expansion is taken back only where it still stands before the caret. *)
UndoMacro(d) ==
  MacroUndone(ReplacePrecedingText(ResetMacroUndo(d), Len(d.mwas), d.mundo, d.mwas), d.mundo)

(* False if no composition could be started: the key goes to the application. *)
PushEngineKey(d, c) ==
  LET Shown(s, e) == IF s.on THEN [s EXCEPT !.eng = e, !.out = "eat"]
                     ELSE [s EXCEPT !.eng = EmptyEngine, !.out = "pass"]
      Push(e) == Shown(IF d.on THEN UpdateCompositionEditSession(d, e.text)
                       ELSE StartCompositionEditSession(d, e.text), e)
  IN Push(PushKey(d.eng, c))

TypeLetter(d, c) ==
  LET Typed(r, revived) == IF revived /\ r.replaced THEN [r EXCEPT !.out = "eat"]
                           ELSE PushEngineKey(TrackMacroCharacter(r, c), c)
      After(word) == IF ~Buffer(d) /\ ~d.on /\ ~desk.scintilla /\ word # <<>>
                     THEN Typed(ReviveAndTypeEditSession(d, word, c), TRUE) ELSE Typed(d, FALSE)
  IN After(IF Granted(d) THEN PrecedingWord(d) ELSE <<>>)

ProcessBackspace(d) ==
  LET Shorter(e) == LET t == [TrackMacroBackspace(d) EXCEPT !.eng = e]
                    IN IF e.text # <<>> THEN UpdateCompositionEditSession(t, e.text)
                       ELSE CommitEditSession(t, <<>>)
  IN Shorter(EngineBackspace(d.eng))

Eat(d)  == [d EXCEPT !.out = "eat"]
Pass(d) == [d EXCEPT !.out = "pass"]
ByReplaced(d) == [d EXCEPT !.out = IF d.replaced THEN "eat" ELSE "pass"]

HandleKey(d, k) ==
  CASE k = "bk" /\ HasMacroUndo(d) ->
         ByReplaced(UndoMacro(d))
    [] k = "bk" /\ ~HasMacroUndo(d) /\ d.rev # NoRange ->
         [ReviveCompositionEditSession(d) EXCEPT !.rev = NoRange, !.out = "eat"]
    [] k = "bk" /\ ~HasMacroUndo(d) /\ d.rev = NoRange ->
         [ProcessBackspace(d) EXCEPT !.out = "eat"]
    [] k = " " -> [CommitWithChar(d, " ") EXCEPT !.out = "eat"]
    [] OTHER   -> TypeLetter(d, k)

(***************************************************************************)
(* KeyEventSink.                                                           *)
(***************************************************************************)
Remember(d, k, want) == [d EXCEPT !.vk = k, !.want = want]

ClearInactiveKeyState(d) ==
  [ClearMacroTracking(Remember(d, "", FALSE)) EXCEPT !.obs = "", !.mh = "", !.mhEat = FALSE]
(* Mutant: the word is left open. *)
BypassWithoutCommit(d) == ClearInactiveKeyState(d)

CommitBeforeInactiveBypass(d) ==
  ClearInactiveKeyState(IF d.on \/ Buffer(d) THEN Commit(d) ELSE d)

(* The space bar that was eaten is claimed until it comes up; the key-down an
   application sends a second time is not a second space. *)
RememberClaimedSpaceKeyDown(d, k, again) ==
  IF k = " " /\ ~again THEN [d EXCEPT !.space = TRUE] ELSE d
OtherKeyDropsClaim(d, k) == IF k = " " THEN d ELSE [d EXCEPT !.space = FALSE]
ShouldSuppressClaimedKeyDown(d, k, again) == d.space /\ k = " " /\ ~again

(* Engine and composition have come apart: A the application has ended the
   composition, B the engine is empty. *)
Resync(d) ==
  CASE ~d.on /\ Buffer(d) -> Reset(d)
    [] d.on /\ ~Buffer(d) -> Commit(d)
    [] OTHER              -> d

Chord(d) ==
  LET Ended(u) == Pass(IF Buffer(u) THEN Commit(u) ELSE u) IN Ended(ResetMacroUndo(d))

Escape(d) ==
  LET v == [d EXCEPT !.vk = ""]
  IN CASE desk.esc /\ Buffer(v) /\ v.eng.raw # <<>> -> Eat(CommitRawAndEnd(v))
       [] Buffer(v) /\ ~(desk.esc /\ v.eng.raw # <<>>) -> Pass(EndCompositionVerbatim(v))
       [] desk.esc /\ ~Buffer(v) /\ v.undo = "Primed" /\ WithinUndoWindow(v) ->
            ByReplaced(TryRestoreLastCommitRaw(v))
       [] OTHER -> Pass(v)

MacroOutcome(m, k) ==
  [m EXCEPT !.mh = k, !.mhEat = (m.res = "eat"), !.out = m.res]

(* In English mode the keys are only watched for shortcuts; out stays "go"
   where the callback goes on. *)
TestEnglish(d, k) ==
  LET Watched(o) == IF o.res = "none" THEN o ELSE MacroOutcome(o, k)
  IN CASE ~IsEnglishMacroTrackingActive(d) -> d
       [] IsEnglishMacroTrackingActive(d) /\ k \in Letters ->
            [TrackMacroCharacter(d, k) EXCEPT !.obs = k]
       [] IsEnglishMacroTrackingActive(d) /\ k = "bk" ->
            [TrackMacroBackspace(d) EXCEPT !.obs = k]
       [] IsEnglishMacroTrackingActive(d) /\ IsCommitTrigger(k) ->
            IF IsTextProducingTrigger(k) /\ WouldExpandMacroTrigger(d, k)
            THEN Eat(Remember(d, k, TRUE))
            ELSE Watched([HandleMacroTrigger(d, k) EXCEPT !.obs = k])
       [] OTHER -> d

(* Backspace with no word under way. *)
TestBackspace(d, want) ==
  LET Prepared(p) == [p EXCEPT !.want = (p.rev # NoRange)]
      Plain(c) == IF want THEN [c EXCEPT !.want = TRUE] ELSE Prepared(PrepareBackspaceRevive(c))
  IN CASE HasMacroUndo(d) -> Eat(Remember(d, "bk", TRUE))
       [] ~HasMacroUndo(d) /\ d.undo = "Ready" /\ WithinUndoWindow(d) ->
            Pass(Remember(TransitionUndoReadyToPrimed(d), "bk", FALSE))
       [] OTHER -> Plain(IF d.undo = "Primed" THEN ResetCommitUndo(d) ELSE d)

TestRest(d, k) ==
  LET want == WantKey(d, k) /\ ~(k = "bk" /\ desk.keep /\ HasNonEmptySelection(d))
      Verdict(m) == IF ~m.want /\ Buffer(m) THEN Pass(Commit(m))
                    ELSE IF m.want THEN Eat(m) ELSE Pass(m)
      Ended(m) == IF m.res # "none" THEN MacroOutcome(m, k) ELSE Verdict(m)
      Macro(r) == IF /\ ~r.want /\ ~IsEnglishMacroTrackingActive(r)
                     /\ HasMacroCandidate(r) /\ IsCommitTrigger(k)
                  THEN HandleMacroTrigger(r, k) ELSE [r EXCEPT !.res = "none"]
      Going(b) == IF b.out # "go" THEN b ELSE Ended(Macro(Remember(b, k, b.want)))
  IN Going(IF k = "bk" /\ ~Buffer(d) THEN TestBackspace(d, want) ELSE [d EXCEPT !.want = want])

TestRouted(d, k) ==
  LET English(e) == IF e.out = "go" THEN TestRest(e, k) ELSE e
      Synced(a) ==
        CASE k = "ctrl" -> Chord(a)
          [] k = "esc"  -> Escape(a)
          [] IsPunctuationKey(k) /\ Buffer(a) -> Eat(Remember(a, k, TRUE))
          [] OTHER -> English(TestEnglish(a, k))
  IN IF k = "bk" /\ Buffer(d) /\ desk.keep /\ HasNonEmptySelection(d)
     THEN Pass(Remember(Commit(d), k, FALSE))
     ELSE Synced(Resync(IF k \in {"bk", "esc"} THEN d ELSE OnNonRestoreKey(d)))

OnTestKeyDown(d, k, again) ==
  LET Checked(c) == IF c.blocked THEN Pass(ClearMacroTracking(c)) ELSE TestRouted(c, k)
      Known(r) ==
        IF ShouldSuppressClaimedKeyDown(r, k, again) THEN Eat(r)
        ELSE IF ~Routed(r) THEN Pass(ClearInactiveKeyState(r))
        ELSE Checked(CheckContextBlocked(r))
      Forget(r) == [IF k # "bk" THEN ResetMacroUndo(r) ELSE r EXCEPT !.obs = "", !.mh = ""]
  IN Known(OtherKeyDropsClaim(Forget(RefreshKeyRouting([d EXCEPT !.out = "go"])), k))

ByMacro(m, k, again) ==
  IF m.res = "eat" THEN Eat(RememberClaimedSpaceKeyDown(m, k, again)) ELSE Pass(m)

KeyDownEnglish(d, k, again) ==
  LET o == [d EXCEPT !.obs = "", !.vk = ""]
  IN CASE k = d.obs                     -> Pass(o)
       [] k # d.obs /\ k \in Letters    -> Pass(TrackMacroCharacter(o, k))
       [] k # d.obs /\ k = "bk"         -> Pass(TrackMacroBackspace(o))
       [] OTHER -> ByMacro(HandleMacroTrigger(o, k), k, again)

(* Enter is eaten with the word it commits, and posted again 30 ms later. *)
CommitAndPassOn(d, k) ==
  LET Sent(c) == IF k = "ret" THEN Eat([c EXCEPT !.repost = TRUE, !.timers = @ + 1])
                 ELSE Pass(c)
  IN Sent(Commit(d))

KeyDownRest(d, k, again) ==
  LET Handled(h) == IF h.out = "eat" THEN RememberClaimedSpaceKeyDown(h, k, again) ELSE h
      Wanted(m) == IF k = m.vk THEN m.want
                   ELSE WantKey(m, k) /\ ~(k = "bk" /\ desk.keep /\ HasNonEmptySelection(m))
      Own(v, want) ==
        CASE IsPunctuationKey(k) /\ Buffer(v) -> Eat(CommitWithChar(v, k))
          [] ~(IsPunctuationKey(k) /\ Buffer(v)) /\ want -> Handled(HandleKey(v, k))
          [] OTHER -> IF Buffer(v) THEN CommitAndPassOn(v, k) ELSE Pass(v)
      Tried(m) == IF m.res # "none" THEN ByMacro(m, k, again)
                  ELSE Own([m EXCEPT !.vk = ""], Wanted(m))
  IN Tried(IF HasMacroCandidate(d) /\ IsCommitTrigger(k)
           THEN HandleMacroTrigger(d, k) ELSE [d EXCEPT !.res = "none"])

KeyDownRouted(d, k, again) ==
  LET claimed == [RememberClaimedSpaceKeyDown(d, k, again \/ ~d.mhEat)
                    EXCEPT !.mh = "", !.mhEat = FALSE, !.obs = ""]
  IN IF k = "ctrl" THEN Chord(d)
     ELSE IF k = d.mh THEN IF d.mhEat THEN Eat(claimed) ELSE Pass(claimed)
     ELSE IF k = "bk" /\ HasMacroUndo(d)
     THEN ByReplaced(UndoMacro([d EXCEPT !.vk = "", !.obs = ""]))
     ELSE IF IsEnglishMacroTrackingActive(d) THEN KeyDownEnglish(d, k, again)
     ELSE IF k = "bk" /\ Buffer(d) /\ desk.keep /\ HasNonEmptySelection(d)
     THEN Pass([Commit(d) EXCEPT !.vk = ""])
     ELSE IF k = "esc" THEN Escape(d)
     ELSE KeyDownRest(d, k, again)

OnKeyDown(d, k, again) ==
  LET Checked(c) == IF c.blocked THEN Pass(ClearMacroTracking(c))
                    ELSE KeyDownRouted(Resync(c), k, again)
      Known(r) ==
        IF ShouldSuppressClaimedKeyDown(r, k, again) THEN Eat(r)
        ELSE IF ~Routed(r) THEN Pass(CommitBeforeInactiveBypass(r))
        ELSE Checked(CheckContextBlocked(r))
      Forget(r) == IF k # "bk" /\ k # r.mh THEN ResetMacroUndo(r) ELSE r
  IN Known(OtherKeyDropsClaim(Forget(RefreshKeyRouting([d EXCEPT !.out = "go"])), k))

(* OnTestKeyUp and OnKeyUp; the application does nothing with a key that
   comes up. *)
OnKeyUp(d) == IF d.space THEN [d EXCEPT !.space = FALSE] ELSE RefreshKeyRouting(d)

(* All three flags, whatever they say. *)
RefreshFeatureFlags(d) ==
  IF d.shared = d.cache THEN d ELSE [ClearMacroTracking(d) EXCEPT !.cache = d.shared]

(* The focus goes away and comes back. *)
OnSetFocus(d) ==
  [ResetMacroUndo(ResetCommitUndo(ClearMacroTracking(RefreshFeatureFlags(d))))
     EXCEPT !.space = FALSE]

OnCompositionTerminated(d) == IF d.on THEN Reset(EndComposition(d)) ELSE d

(***************************************************************************)
(* The application, the user and the other processes.                      *)
(***************************************************************************)
NewText == [text |-> desk.text, caret |-> Len(desk.text), sel |-> FALSE,
            on |-> FALSE, comp |-> NoRange, rev |-> NoRange, eng |-> EmptyEngine,
            undo |-> "Idle", last |-> NoCommit, late |-> FALSE,
            mbuf |-> <<>>, cross |-> FALSE, moff |-> FALSE,
            mundo |-> <<>>, mwas |-> <<>>, mlate |-> FALSE,
            shared |-> desk.flags, cache |-> desk.flags,
            seen |-> FALSE, scope |-> FALSE, blocked |-> FALSE, secret |-> FALSE,
            vk |-> "", want |-> FALSE, obs |-> "", mh |-> "", mhEat |-> FALSE,
            space |-> FALSE, repost |-> FALSE, timers |-> 0,
            grant |-> "ok", out |-> "go", res |-> "none", replaced |-> FALSE,
            grown |-> FALSE, undone |-> FALSE, escs |-> FALSE]

NoDoc == [text |-> <<>>, caret |-> 0, sel |-> FALSE, key |-> "",
          mundo |-> <<>>, rets |-> 0, whole |-> TRUE, tracked |-> TRUE, stale |-> FALSE]

TInit ==
  /\ desk \in Desks
  /\ w = NewText
  /\ phase = NoKey
  /\ held = FALSE
  /\ spent = [e \in {"key", "odd", "ret"} |-> 0]
  /\ before = NoDoc
  /\ upsets = {}

(* At most desk.odd of the outside events in desk.events. *)
Odd(event) == /\ event \in desk.events /\ spent["odd"] < desk.odd
              /\ spent' = [spent EXCEPT !["odd"] = @ + 1]

(* The session answers of one callback. *)
Grants == {"ok"} \cup (IF spent["odd"] < desk.odd THEN desk.events \cap {"refused", "nostart"}
                       ELSE {})
(* What a callback leaves behind for the properties to set apart: sessions that
   were not granted; a scope that could not be read; a composition the commit
   of which was refused; a word that stays open when the keys go elsewhere and
   the application calls only the first callback, or when it calls the second
   and the keys are watched for shortcuts in English; a second Enter while one waits. *)
UpsetsAfter(g, old, new) ==
  (IF g = "ok" THEN {} ELSE {g})
  \cup (IF g = "refused" /\ ~old.seen /\ old.secret THEN {"unread"} ELSE {})
  \cup (IF new.on /\ ~Buffer(new) THEN {"stranded"} ELSE {})
  \cup (IF /\ new.on
           /\ \/ desk.host = "classic" /\ ~(new.cache.en /\ new.cache.tsf)
              \/ phase' = NoKey /\ IsEnglishMacroTrackingActive(new)
        THEN {"left open"} ELSE {})
  \cup (IF new.timers > 1 THEN {"overlap"} ELSE {})
Answered(g) ==
  /\ spent' = IF g = "ok" THEN spent ELSE [spent EXCEPT !["odd"] = @ + 1]
  /\ upsets' = upsets \cup UpsetsAfter(g, w, w')

Settled(d) == [d EXCEPT !.grant = "ok", !.out = "go", !.res = "none", !.replaced = FALSE]
Applied(d, k) == Settled(IF d.out = "pass" THEN HostKey(d, k) ELSE d)

TestPhase(d, k, again) ==
  \E t \in {OnTestKeyDown(d, k, again)} :
    /\ w' = Settled(t)
    /\ phase' = [key |-> k, again |-> again, ate |-> t.out = "eat"]

KeyPhase(d, k, again) ==
  /\ w' = Applied(OnKeyDown(d, k, again), k)
  /\ phase' = NoKey

FirstPhase(d, k, again) ==
  IF desk.host = "single" THEN KeyPhase(d, k, again) ELSE TestPhase(d, k, again)

(* The keys a text stands for. *)
Flat(s) == FoldLeft(LAMBDA acc, c : acc \o (IF c = "A" THEN <<"a", "s">> ELSE <<c>>), <<>>, s)

(* An update that was refused is made up for by the next. *)
Meant(d) == IF d.on /\ Buffer(d) /\ d.comp.word # d.eng.text
            THEN SetCompositionText(d, d.eng.text) ELSE d

(* The history gives back the whole word. *)
Whole(word, raw) == Flat(word) = raw

(* The tracked keys are the ones that stand before the caret, and as many. *)
Tracked(d) ==
  LET shown == IF d.cross THEN Preceding(d)
               ELSE IF Buffer(d) THEN Flat(d.eng.text) ELSE Flat(Preceding(d))
  IN /\ d.comp.word = d.eng.text
     /\ \/ d.mbuf = <<>>
        \/ IF ~d.cross /\ Buffer(d) THEN d.mbuf = shown ELSE IsSuffix(d.mbuf, shown)

(* What a property compares the next document with; stale: the revival of an
   earlier Backspace was prepared and never used. *)
Snapshot(k) ==
  [tracked |-> Tracked(w), stale |-> w.rev # NoRange,
   whole |-> IF Buffer(w) THEN Whole(w.eng.text, w.eng.raw)
             ELSE w.undo = "Idle" \/ Whole(CommittedWord(w.last), w.last.raw),
   text |-> Meant(w).text, caret |-> Meant(w).caret, sel |-> Meant(w).sel,
   key |-> k, mundo |-> w.mundo, rets |-> w.timers]

Press(k) ==
  /\ phase = NoKey /\ k \in desk.keys /\ spent["key"] < desk.presses
  /\ k = " " => ~held
  /\ held' = (held \/ k = " ")
  /\ before' = Snapshot(k)
  /\ \E g \in Grants :
       /\ FirstPhase([w EXCEPT !.grant = g, !.grown = FALSE, !.undone = FALSE, !.escs = FALSE], k, FALSE)
       /\ spent' = [spent EXCEPT !["key"] = @ + 1,
                                 !["odd"] = IF g = "ok" THEN @ ELSE @ + 1,
                                 !["ret"] = IF k = "ret" THEN @ + 1 ELSE @]
       /\ upsets' = (upsets \ {"refused", "nostart", "between"})
                       \cup UpsetsAfter(g, w, w')
  /\ UNCHANGED desk

(* The second callback, or the application's own handling of a key that the
   first has not claimed. *)
KeyDown ==
  /\ phase # NoKey
  /\ IF desk.host = "classic" /\ ~phase.ate
     THEN /\ w' = Settled(HostKey(w, phase.key))
          /\ phase' = NoKey
          /\ UNCHANGED <<spent, upsets>>
     ELSE \E g \in Grants : /\ KeyPhase([w EXCEPT !.grant = g], phase.key, phase.again)
                            /\ Answered(g)
  /\ UNCHANGED <<desk, held, before>>

(* The space bar is held down and repeats. *)
Repeat ==
  /\ phase = NoKey /\ held /\ before.key = " " /\ Odd("repeat")
  /\ before' = Snapshot(" ")
  /\ FirstPhase([w EXCEPT !.grown = FALSE, !.undone = FALSE, !.escs = FALSE], " ", TRUE)
  /\ upsets' = (upsets \ {"refused", "nostart", "between"}) \cup UpsetsAfter("ok", w, w')
  /\ UNCHANGED <<desk, held>>

(* The application sends the key-down of an eaten space once more. *)
Redispatch ==
  /\ phase = NoKey /\ held /\ before.key = " " /\ w.space /\ Odd("redispatch")
  /\ FirstPhase(w, " ", FALSE)
  /\ UNCHANGED <<desk, held, before, upsets>>

SpaceUp ==
  /\ phase = NoKey /\ held
  /\ held' = FALSE
  /\ w' = OnKeyUp(w)
  /\ before' = IF w'.cache = w.cache THEN before ELSE NoDoc
  /\ UNCHANGED <<desk, phase, spent, upsets>>

(* RepostEnterTimerProc: the Enter that waits comes in as a key of its own. *)
EnterTimer ==
  /\ phase = NoKey /\ w.timers > 0
  /\ LET d == [w EXCEPT !.timers = @ - 1, !.repost = FALSE, !.grown = FALSE, !.undone = FALSE, !.escs = FALSE]
     IN w' = IF w.repost THEN Applied(OnKeyDown(d, "ret", FALSE), "ret") ELSE d
  /\ before' = NoDoc
  /\ UNCHANGED <<desk, phase, held, spent>>
  /\ upsets' = upsets \cup UpsetsAfter("ok", w, w')

Terminate ==
  /\ w.on /\ Odd("terminate")
  /\ w' = OnCompositionTerminated(w)
  /\ upsets' = IF phase = NoKey THEN upsets ELSE upsets \cup {"between"}
  /\ UNCHANGED <<desk, phase, held, before>>

Toggle(f) ==
  /\ Odd(f)
  /\ w' = [w EXCEPT !.shared[f] = ~@]
  /\ upsets' = IF phase = NoKey THEN upsets ELSE upsets \cup {"between"}
  /\ UNCHANGED <<desk, phase, held, before>>

(* LanguageBarButton: a click toggles the language in this process. *)
ToggleVietnameseMode ==
  /\ phase = NoKey /\ Odd("bar")
  /\ w' = LET vn == ~w.shared.vn
          IN [ClearMacroTracking(w) EXCEPT !.shared.vn = vn, !.cache.vn = vn]
  /\ UNCHANGED <<desk, phase, held, before, upsets>>

Wait ==
  /\ phase = NoKey /\ Odd("wait")
  /\ w' = [w EXCEPT !.late = (w.undo # "Idle"), !.mlate = (w.mundo # <<>>)]
  /\ UNCHANGED <<desk, phase, held, before, upsets>>

(* The mouse puts the caret somewhere, or selects a character. *)
Click ==
  /\ phase = NoKey /\ Odd("click")
  /\ \E c \in 0..Len(w.text), sel \in BOOLEAN :
       /\ sel => c < Len(w.text)
       /\ w' = [OnCompositionTerminated(w) EXCEPT !.caret = c, !.sel = sel]
  /\ before' = NoDoc
  /\ UNCHANGED <<desk, phase, held, upsets>>

(* Another field of the same window: another context. *)
OtherField ==
  /\ phase = NoKey /\ Odd("field")
  /\ w' = [OnCompositionTerminated(w) EXCEPT
              !.text = <<>>, !.caret = 0, !.sel = FALSE, !.rev = NoRange,
              !.seen = FALSE, !.secret = ~@]
  /\ before' = NoDoc
  /\ UNCHANGED <<desk, phase, held, upsets>>

SetFocus ==
  /\ phase = NoKey /\ Odd("focus")
  /\ w' = OnSetFocus(OnCompositionTerminated(w))
  /\ before' = NoDoc
  /\ UNCHANGED <<desk, phase, held, upsets>>

(* Quick convert ends the word first.  It goes by the cached flags. *)
OnPreservedKey ==
  /\ phase = NoKey /\ Odd("convert")
  /\ LET c == CheckContextBlocked(w)
     IN w' = IF w.cache.en /\ w.cache.tsf
             THEN IF ~c.blocked /\ Buffer(c) THEN Settled(Commit(c)) ELSE c
             ELSE w
  /\ before' = NoDoc
  /\ UNCHANGED <<desk, phase, held, upsets>>

Outside ==
  \/ Terminate \/ Wait \/ Click \/ OtherField \/ SetFocus \/ ToggleVietnameseMode
  \/ OnPreservedKey \/ Repeat \/ Redispatch
  \/ \E f \in {"en", "tsf", "vn"} : Toggle(f)

TNext ==
  \/ \E k \in desk.keys : Press(k)
  \/ KeyDown \/ SpaceUp \/ EnterTimer \/ Outside

TSpec == TInit /\ [][TNext]_tvars

(***************************************************************************)
(* Properties.                                                             *)
(***************************************************************************)
Ranges == [word : Seq(Word \cup {" ", "."} \cup Range(Expansion)), at : Nat, len : Nat]

(* The caret and the ranges of composition and revival lie in the text, a recall
   has a word, and a composition that is not on has no range. *)
TextTypes ==
  /\ w.caret \in 0..Len(w.text)
  /\ w.sel => w.caret < Len(w.text)
  /\ w.comp \in Ranges /\ w.comp.at + w.comp.len <= Len(w.text)
  /\ w.rev \in Ranges /\ w.rev.at + w.rev.len <= Len(w.text)
  /\ w.undo \in {"Idle", "Ready", "Primed"}
  /\ w.undo # "Idle" => w.last.text # <<>>
  /\ ~w.on => w.comp = NoRange
  /\ phase.key \in desk.keys \cup {"", " "}

Done == phase = NoKey /\ before.key # ""
Undisturbed == upsets \cap {"refused", "nostart", "between"} = {}

(* A key that is pressed once takes effect once: whether the service or the
   application handles it, and in whichever of the two callbacks, the text on
   both sides of the caret is afterwards that of an application alone, up to
   the tone marks the keys stand for; and an Esc that gave back the keys is not
   the application's as well.  (KeyEventSink.cpp) *)
KeyTakesEffectOnce ==
  /\ Done /\ Undisturbed /\ ~w.grown /\ ~w.undone /\ w.timers = before.rets
  /\ upsets \cap {"stranded", "left open"} = {}
  /\ before.tracked /\ ~before.stale /\ (before.key = "esc" => before.whole /\ ~before.sel)
  =>
    LET plain == HostKey([text |-> before.text, caret |-> before.caret, sel |-> before.sel,
                          on |-> FALSE, comp |-> NoRange, rev |-> NoRange, escs |-> FALSE],
                         before.key)
    IN /\ Flat(Preceding(w)) = Flat(Preceding(plain))
       /\ Flat(SubSeq(w.text, w.caret + 1, Len(w.text)))
            = Flat(SubSeq(plain.text, plain.caret + 1, Len(plain.text)))
       /\ before.key = "esc" /\ w.text # before.text /\ desk.host = "single" => ~w.escs

(* After a key whose sessions were granted the engine, the composition and the
   text on the screen are one word, whatever had come between them; and no word
   is left open when the keys no longer come here.  (OnTestKeyDownImpl,
   OnKeyDownImpl: desync recovery; CommitBeforeInactiveBypass) *)
WordInStep ==
  Done /\ Undisturbed /\ "left open" \notin upsets =>
    /\ w.on = Buffer(w)
    /\ w.on => /\ w.comp.word = w.eng.text
               /\ SubSeq(w.text, w.comp.at + 1, w.comp.at + w.comp.len) = w.eng.text
    /\ w.on => w.cache.en /\ w.cache.tsf

(* An expansion takes the place of its shortcut, all of it and nothing else,
   and keeps the key that called for it.  (HandleMacroTrigger, Macro::Plan) *)
ExpansionTakesShortcut ==
  Done /\ Undisturbed /\ w.grown /\ before.tracked =>
    LET was == Flat(SubSeq(before.text, 1, before.caret))
        key == IF before.key = "left" THEN <<>> ELSE <<before.key>>
    IN \E m \in desk.macros, n \in 0..Len(was) :
         \/ /\ SubSeq(was, n + 1, Len(was)) = Flat(m)
            /\ Preceding(w) = SubSeq(Preceding(w), 1, Len(Preceding(w)) - Len(key) - 2)
                               \o Expansion \o key
            /\ Flat(Preceding(w)) = SubSeq(was, 1, n) \o Expansion \o key
         \/ /\ SubSeq(was, n + 1, Len(was)) \o key = Flat(m)
            /\ Flat(Preceding(w)) = SubSeq(was, 1, n) \o Expansion

(* Taking an expansion back puts the shortcut where the expansion was, and
   never where something else has come to stand.  (UndoMacro) *)
UndoTakesExpansion ==
  Done /\ w.undone =>
    \E n \in 0..before.caret :
      /\ SubSeq(before.text, n + 1, before.caret) \in
           {Expansion, Append(Expansion, " "), Append(Expansion, ".")}
      /\ Preceding(w) = SubSeq(before.text, 1, n) \o before.mundo

(* In a field for a password the keys are the application's: no composition, no
   marks, no expansion.  (CheckContextBlocked) *)
SecretFieldUntouched ==
  w.secret /\ "unread" \notin upsets =>
    /\ ~w.on /\ ~Buffer(w)
    /\ Range(w.text) \cap ({"A"} \cup Range(Expansion)) = {}

(* Every Enter reaches the application: at once, or by the timer.
   (CommitAndPassOn, RepostEnterTimerProc) *)
EnterKept ==
  /\ phase = NoKey /\ "overlap" \notin upsets
  /\ {"bk"} \cap desk.keys = {} /\ desk.events \cap {"click", "field"} = {}
  => Cardinality({i \in DOMAIN w.text : w.text[i] = "ret"}) + (IF w.repost THEN 1 ELSE 0)
       = spent["ret"]

(* Every key counts, once: typed into the text or handed to the application, Enter
   by its timer if need be, in every kind of host.  (OnTestKeyDown, OnKeyDown,
   RepostEnterTimerProc) *)
KeysCount == TextTypes /\ KeyTakesEffectOnce /\ EnterKept

(* An expansion takes the place of its shortcut and its undo that of the expansion,
   whatever came between.  (HandleMacroTrigger, UndoMacro) *)
MacrosReplace == ExpansionTakesShortcut /\ UndoTakesExpansion
=============================================================================
