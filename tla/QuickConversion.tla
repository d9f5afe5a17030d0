--------------------------- MODULE QuickConversion --------------------------
(***************************************************************************)
(* Two users of the Windows clipboard.  QuickConvert copies the selection, *)
(* converts it, pastes it back and selects it again, so that the next      *)
(* press of the hotkey goes on to the next conversion and in the end back  *)
(* to the original; it runs on a thread of its own.  ClipboardInjector     *)
(* types a word into applications that take nothing else by pasting it,    *)
(* and gives the user's clipboard back 200 ms later.  Both only post keys: *)
(* the application handles them when it pleases, and the user, who may     *)
(* copy something himself, is not stopped.                                 *)
(*                                                                         *)
(* A document is a sequence of words, a text is a word in a form: 0 as it  *)
(* was written, k after the k-th conversion.  TSF's own conversion         *)
(* (QuickConvertEditSession) replaces the selection in one step.           *)
(***************************************************************************)
EXTENDS Naturals, Sequences

Acts == {"press", "copy", "inject", "move", "miss", "config"}

CONSTANTS
  Words,      \* the words of the document, a sequence
  Natural,    \* word -> the conversion that leaves it as it is, 0 for none
  Setups      \* [kind, sequential, autoPaste, options, bounds]: the kind of field,
              \* the configuration and how often each thing happens (bounds)

ASSUME WordsAssumption == Words \in Seq(STRING) /\ \A i \in DOMAIN Words : Words[i] # "none"
ASSUME SetupsAssumption ==
  Setups \subseteq [kind : {"edit", "other", "tsf"}, sequential : BOOLEAN, autoPaste : BOOLEAN,
                   options : Nat, bounds : [Acts -> Nat]]

VARIABLES
  setup,  \* the configuration and the kind of field ("edit", "other", "tsf")
  doc,    \* the document
  sel,    \* its selection: [from, to]; a caret if they are equal
  cb,     \* the clipboard: [text, seq]
  keys,   \* operations posted to the application
  qc,     \* the conversion's thread
  cycle,  \* seqState_ (TSF: TsfQuickConvertSequenceState)
  inj,    \* the injector: [pc, has, orig, seq, timer]
  mine,   \* what the user expects on the clipboard
  round,  \* the user's count of conversions: [place, text, n]
  rest,   \* what is left of the bounds
  slips   \* what has happened that the properties set apart

qvars == <<setup, doc, sel, cb, keys, qc, cycle, inj, mine, round, rest, slips>>

NoText   == [w |-> "none", f |-> 0]
Unconverted(w) == [w |-> w, f |-> 0]
NoAnchor == [has |-> FALSE, valid |-> FALSE, start |-> 0, end |-> 0]
Idle     == [pc |-> "idle", tries |-> 0, anchor |-> NoAnchor, saved |-> NoText, seq |-> 0,
             text |-> NoText, recovery |-> FALSE, result |-> NoText]
NoCycle  == [on |-> FALSE, origin |-> NoText, index |-> 0, last |-> NoText,
             anchor |-> NoAnchor, pasted |-> FALSE]
NoRound  == [place |-> 0, text |-> NoText, n |-> 0]
NoInj    == [pc |-> "idle", has |-> FALSE, orig |-> NoText, seq |-> 0, timer |-> FALSE]

QInit ==
  /\ setup \in Setups
  /\ doc = [i \in 1..Len(Words) |-> Unconverted(Words[i])] /\ sel = [from |-> 0, to |-> 0]
  /\ cb = [text |-> Unconverted("u"), seq |-> 1] /\ mine = Unconverted("u")
  /\ keys = <<>> /\ qc = Idle /\ cycle = NoCycle /\ round = NoRound /\ inj = NoInj
  /\ rest = setup.bounds
  /\ slips = {}

(* After one of these no property is asked of the clipboard or the document
   any more, and nothing new is begun; after "astray", a selection of more than
   the word that was pasted, neither (bounds). *)
Excused == {"busy", "late", "raced", "both", "copied"}
UseUp(what) == /\ rest[what] > 0 /\ slips \cap (Excused \cup {"astray"}) = {}
               /\ rest' = [rest EXCEPT ![what] = @ - 1]
Flaw(cond, f) == slips' = IF cond THEN slips \cup {f} ELSE slips
Put(t)     == cb' = [text |-> t, seq |-> cb.seq + 1]
Caret      == sel.from = sel.to
Posted(k)  == \E i \in 1..Len(keys) : keys[i] = k
InWork     == qc.pc # "idle" \/ keys # <<>> \/ inj.pc # "idle"
Pasted(t) == SubSeq(doc, 1, sel.from) \o <<t>> \o SubSeq(doc, sel.to + 1, Len(doc))

(* A call of the clipboard that works, and one that finds it open elsewhere. *)
Works  == rest' = rest
Missed == UseUp("miss")

(***************************************************************************)
(* The conversions.                                                        *)
(***************************************************************************)
(* ApplyQuickConvertOption: the k-th option, of the words Natural one leaves
   as they are. *)
ApplyQuickConvertOption(t, k) ==
  [t EXCEPT !.f = IF t.w \in DOMAIN Natural /\ Natural[t.w] = k THEN 0 ELSE k]

(* Option number i of the cycle, 0 for the original text. *)
Output(origin, i) == IF i = 0 THEN origin ELSE ApplyQuickConvertOption(origin, i)
NextIndex(i) == (i + 1) % (setup.options + 1)
Cyclic == setup.sequential /\ setup.autoPaste

(***************************************************************************)
(* The thread of QuickConvert::Execute.                                    *)
(***************************************************************************)
GetSelectionAnchor ==
  IF setup.kind # "edit" THEN NoAnchor
  ELSE IF Caret THEN [NoAnchor EXCEPT !.has = TRUE]
  ELSE [has |-> TRUE, valid |-> TRUE, start |-> sel.from, end |-> sel.to]

(* The hotkey; a press while the thread runs does nothing. *)
Execute ==
  /\ setup.kind # "tsf" /\ UseUp("press")
  /\ qc' = IF qc.pc = "idle" THEN [Idle EXCEPT !.pc = "save", !.anchor = GetSelectionAnchor] ELSE qc
  /\ Flaw(qc.pc = "idle" /\ (inj.has \/ keys # <<>>), "both")
  /\ UNCHANGED <<setup, doc, sel, cb, keys, cycle, inj, mine, round>>

(* ReadClipboard *)
Save ==
  /\ qc.pc = "save"
  /\ \/ Works /\ qc' = [qc EXCEPT !.pc = "seq", !.saved = cb.text] /\ slips' = slips
     \/ Missed /\ qc' = [qc EXCEPT !.pc = "seq"] /\ Flaw(TRUE, "busy")
  /\ UNCHANGED <<setup, doc, sel, cb, keys, cycle, inj, mine, round>>

TakeSeq ==
  /\ qc.pc = "seq"
  /\ qc' = [qc EXCEPT !.seq = cb.seq, !.pc = IF qc.anchor.has /\ ~qc.anchor.valid THEN "decide" ELSE "copy"]
  /\ UNCHANGED <<setup, doc, sel, cb, keys, cycle, inj, mine, round, rest, slips>>

(* One attempt: the clipboard is emptied and Ctrl+C is posted. *)
SimulateCopy ==
  /\ qc.pc = "copy"
  /\ \/ /\ Works /\ Put(NoText) /\ slips' = slips
        /\ qc' = [qc EXCEPT !.pc = "wait", !.tries = @ + 1, !.seq = cb'.seq]
     \/ /\ Missed /\ cb' = cb /\ Flaw(TRUE, "busy")
        /\ qc' = [qc EXCEPT !.pc = "wait", !.tries = @ + 1]
  /\ keys' = Append(keys, "copy")
  /\ UNCHANGED <<setup, doc, sel, cycle, inj, mine, round>>

(* Mutant: without the limit of 150 ms. *)
WaitForClipboardUnicodeForever ==
  /\ qc.pc = "wait" /\ cb.text # NoText
  /\ qc' = [qc EXCEPT !.pc = "read", !.text = cb.text] /\ Works /\ slips' = slips
  /\ UNCHANGED <<setup, doc, sel, cb, keys, cycle, inj, mine, round>>

(* WaitForClipboardUnicode and ReadClipboard; after the second attempt it
   goes on without a text. *)
WaitForClipboardUnicode ==
  /\ qc.pc = "wait"
  /\ LET again == [qc EXCEPT !.pc = IF qc.tries < 2 THEN "copy" ELSE "decide"]
     IN \/ cb.text # NoText /\ Works /\ qc' = [qc EXCEPT !.pc = "read", !.text = cb.text] /\ slips' = slips
        \/ cb.text # NoText /\ Missed /\ qc' = again /\ Flaw(TRUE, "busy")
        \/ cb.text = NoText /\ Works /\ qc' = again /\ Flaw(Posted("copy"), "late")
  /\ UNCHANGED <<setup, doc, sel, cb, keys, cycle, inj, mine, round>>

ReadSeq ==
  /\ qc.pc = "read" /\ qc' = [qc EXCEPT !.pc = "decide", !.seq = cb.seq]
  /\ UNCHANGED <<setup, doc, sel, cb, keys, cycle, inj, mine, round, rest, slips>>

IsNewSelection(text) ==
  \/ ~cycle.on                                                    \* more than 5 s
  \/ qc.anchor.valid /\ cycle.anchor.valid /\ qc.anchor.start # cycle.anchor.start
  \/ text \notin {cycle.origin, cycle.last}

IsStillInCycle ==
  /\ cycle.on /\ cycle.pasted
  /\ qc.anchor.valid /\ cycle.anchor.valid =>
       {qc.anchor.start, qc.anchor.end} = {cycle.anchor.start + 1}

(* The user's count: where he sees the text and how many presses it has had. *)
Counted(text, place) ==
  IF place # round.place THEN [place |-> place, text |-> text, n |-> 1]
  ELSE [round EXCEPT !.n = @ + 1]

(* Steps 5 to 7 of Execute: what there is to convert, and into what. *)
Decide ==
  /\ qc.pc = "decide"
  /\ LET recovery == qc.text = NoText /\ Cyclic /\ IsStillInCycle
         text == IF qc.text # NoText \/ recovery THEN qc.text ELSE qc.saved
         stop == /\ qc' = [qc EXCEPT !.pc = "restore"]
                 /\ UNCHANGED <<cycle, round>>
         new   == ~recovery /\ IsNewSelection(text)
         index == IF new THEN 1 ELSE NextIndex(cycle.index)
         from  == IF new THEN text ELSE cycle.origin
         result == IF Cyclic THEN Output(from, index) ELSE ApplyQuickConvertOption(text, 1)
         place  == IF Caret /\ ~recovery THEN sel.to + 1 ELSE sel.to
     IN /\ keys' = IF recovery THEN Append(keys, "left") ELSE keys
        /\ slips' = slips \cup (IF recovery /\ cycle.on /\ (sel.to = 0 \/ doc[sel.to] # cycle.last) THEN {"moved"} ELSE {})
                           \cup (IF qc.text = NoText /\ ~recovery THEN {"fallback"} ELSE {})
                           \cup (IF ~new /\ Cyclic /\ place # round.place THEN {"twin"} ELSE {})
        /\ IF (text = NoText /\ ~recovery) \/ setup.options = 0 THEN stop
           ELSE /\ qc' = [qc EXCEPT !.pc = IF result = text THEN "restore" ELSE "write",
                                    !.result = result, !.recovery = recovery]
                /\ round' = Counted(text, place)
                /\ cycle' = IF ~Cyclic THEN cycle
                            ELSE [cycle EXCEPT !.on = TRUE, !.origin = from, !.index = index, !.last = result,
                                               !.anchor = IF new THEN qc.anchor ELSE @]
  /\ UNCHANGED <<setup, doc, sel, cb, inj, mine, rest>>

(* Mutant: the clipboard's number is not looked at. *)
RestoreSavedClipboardAnyway ==
  /\ qc.pc = "restore" /\ qc' = IF qc.saved = NoText THEN Idle ELSE [qc EXCEPT !.pc = "putback"]
  /\ UNCHANGED <<setup, doc, sel, cb, keys, cycle, inj, mine, round, rest, slips>>

(* restoreSavedClipboardIfSafe: looks, then opens the clipboard and writes. *)
RestoreSavedClipboardIfSafe ==
  /\ qc.pc = "restore"
  /\ qc' = IF qc.saved = NoText \/ cb.seq # qc.seq THEN Idle ELSE [qc EXCEPT !.pc = "putback"]
  /\ UNCHANGED <<setup, doc, sel, cb, keys, cycle, inj, mine, round, rest, slips>>

PutBack ==
  /\ qc.pc = "putback" /\ qc' = Idle
  /\ \/ Works /\ Put(qc.saved) /\ slips' = slips
     \/ Missed /\ cb' = cb /\ Flaw(TRUE, "busy")
  /\ UNCHANGED <<setup, doc, sel, keys, cycle, inj, mine, round>>

(* WriteClipboard(result); then the paste, unless only the clipboard is asked for. *)
WriteResult ==
  /\ qc.pc = "write"
  /\ qc' = IF setup.autoPaste THEN [qc EXCEPT !.pc = "paste"] ELSE Idle
  /\ \/ Works /\ Put(qc.result) /\ mine' = qc.result /\ slips' = slips
     \/ Missed /\ UNCHANGED <<cb, mine>> /\ Flaw(TRUE, "busy")
  /\ UNCHANGED <<setup, doc, sel, keys, cycle, inj, round>>

SimulatePaste ==
  /\ qc.pc = "paste" /\ qc' = [qc EXCEPT !.pc = "reselect"] /\ keys' = Append(keys, "paste")
  /\ UNCHANGED <<setup, doc, sel, cb, cycle, inj, mine, round, rest, slips>>

(* EM_SETSEL ends at the end of the text. *)
Clipped(i) == IF i > Len(doc) THEN Len(doc) ELSE i

(* TryReselect: by its place in a control that tells it, by Shift+Left elsewhere. *)
TryReselect ==
  /\ qc.pc = "reselect" /\ qc' = Idle
  /\ LET anchor == IF qc.recovery THEN cycle.anchor ELSE qc.anchor
     IN \/ ~anchor.valid /\ keys' = Append(keys, "left") /\ UNCHANGED <<sel, slips>>
        \/ /\ anchor.valid /\ Caret /\ keys' = keys
           /\ sel' = [from |-> Clipped(anchor.start),
                      to   |-> IF sel.to >= anchor.start THEN sel.to ELSE Clipped(anchor.start + 1)]
           /\ slips' = slips \cup (IF keys # <<>> THEN {"late"} ELSE {})
                             \cup (IF sel.to # anchor.start + 1 THEN {"astray"} ELSE {})
        \/ anchor.valid /\ ~Caret /\ UNCHANGED <<sel, keys>> /\ Flaw(TRUE, "late")
  /\ cycle' = IF setup.sequential THEN [cycle EXCEPT !.pasted = TRUE] ELSE cycle
  /\ UNCHANGED <<setup, doc, cb, inj, mine, round, rest>>

(* QuickConvert::UpdateConfig, from the callback of a reload. *)
UpdateConfig ==
  /\ UseUp("config") /\ cycle' = NoCycle /\ round' = NoRound /\ Flaw(InWork, "interfered")
  /\ UNCHANGED <<setup, doc, sel, cb, keys, qc, inj, mine>>

ThreadRuns ==
  \/ Save \/ TakeSeq \/ SimulateCopy \/ WaitForClipboardUnicode \/ ReadSeq \/ Decide
  \/ RestoreSavedClipboardIfSafe \/ PutBack \/ WriteResult \/ SimulatePaste \/ TryReselect

(***************************************************************************)
(* TSF: QuickConvertEditSession::DoEditSession.                            *)
(***************************************************************************)
Marker(result, text) == [cycle EXCEPT !.last = result]

DoEditSession ==
  /\ setup.kind = "tsf"
  /\ IF Caret \/ setup.options = 0
     THEN /\ cycle' = NoCycle /\ round' = NoRound /\ UseUp("press")
          /\ UNCHANGED <<doc, cb, mine, slips>>
     ELSE LET text == doc[sel.to]
              on   == cycle.on /\ cycle.anchor.start = sel.from /\ cycle.last = text
              index == IF on THEN NextIndex(cycle.index) ELSE 1
              from  == IF on THEN cycle.origin ELSE text
              result == IF Cyclic THEN Output(from, index) ELSE ApplyQuickConvertOption(text, 1)
              place == [NoAnchor EXCEPT !.start = sel.from]
          IN /\ round' = Counted(text, sel.to)
             /\ \/ /\ UseUp("press") /\ slips' = slips
                   /\ doc' = IF setup.autoPaste THEN Pasted(result) ELSE doc
                   /\ cycle' = IF Cyclic
                               THEN [Marker(result, text) EXCEPT !.on = TRUE, !.origin = from, !.index = index,
                                                                 !.anchor = place]
                               ELSE NoCycle
                   /\ IF setup.autoPaste \/ result = text THEN UNCHANGED <<cb, mine>>
                      ELSE Put(result) /\ mine' = result
                \/ /\ Cyclic /\ rest.miss > 0 /\ rest.press > 0     \* SetText is refused
                   /\ rest' = [rest EXCEPT !.miss = @ - 1, !.press = @ - 1]
                   /\ cycle' = [cycle EXCEPT !.origin = from, !.index = index]
                   /\ Flaw(TRUE, "refused") /\ UNCHANGED <<doc, cb, mine>>
  /\ UNCHANGED <<setup, sel, keys, qc, inj>>

(***************************************************************************)
(* ClipboardInjector::Replace, on the hook thread.                         *)
(***************************************************************************)
Typed == Unconverted("t")

(* A new word, or the user has copied something since. *)
Capture == ~inj.has \/ cb.seq # inj.seq

Inject ==
  /\ setup.kind # "tsf" /\ inj.pc = "idle" /\ Caret
  /\ \/ /\ UseUp("inject")
        /\ inj' = IF Capture THEN [inj EXCEPT !.pc = "write", !.timer = FALSE, !.has = TRUE, !.orig = cb.text]
                  ELSE [inj EXCEPT !.pc = "write", !.timer = FALSE]
        /\ slips' = slips \cup (IF InWork THEN {"both"} ELSE {}) \cup (IF cycle.on THEN {"typed"} ELSE {})
     \/ /\ Capture /\ rest.miss > 0 /\ rest.inject > 0 /\ Flaw(TRUE, "busy")
        /\ rest' = [rest EXCEPT !.miss = @ - 1, !.inject = @ - 1]
        /\ inj' = [inj EXCEPT !.pc = "write", !.timer = FALSE, !.has = TRUE, !.orig = NoText]
  /\ UNCHANGED <<setup, doc, sel, cb, keys, qc, cycle, mine, round>>

InjectWrite ==
  /\ inj.pc = "write"
  /\ \/ Works /\ Put(Typed) /\ inj' = [inj EXCEPT !.pc = "send"] /\ slips' = slips
     \/ Missed /\ cb' = cb /\ inj' = [inj EXCEPT !.pc = "unwritten"] /\ Flaw(TRUE, "busy")
  /\ UNCHANGED <<setup, doc, sel, keys, qc, cycle, mine, round>>

(* The number after our write, the keys, and the timer. *)
InjectSend ==
  /\ inj.pc \in {"send", "unwritten"}
  /\ inj' = [inj EXCEPT !.pc = "idle", !.seq = IF inj.pc = "send" THEN cb.seq ELSE @, !.timer = TRUE]
  /\ keys' = Append(keys, "paste") /\ Flaw(cb.text # Typed, "raced")
  /\ UNCHANGED <<setup, doc, sel, cb, qc, cycle, mine, round, rest>>

(* RestoreTimerProc; the second look is under the open clipboard. *)
RestoreTimerProc ==
  /\ inj.timer /\ inj.pc = "idle" /\ inj' = [NoInj EXCEPT !.seq = inj.seq]
  /\ \/ /\ Works /\ Flaw(Posted("paste"), "late")
        /\ IF cb.seq = inj.seq THEN Put(inj.orig) ELSE cb' = cb
     \/ /\ cb.seq = inj.seq /\ Missed /\ cb' = cb /\ Flaw(TRUE, "busy")
  /\ UNCHANGED <<setup, doc, sel, keys, qc, cycle, mine, round>>

(***************************************************************************)
(* The application and the user.                                           *)
(***************************************************************************)
AppHandles ==
  /\ keys # <<>> /\ keys' = Tail(keys)
  /\ CASE Head(keys) = "copy" ->
            /\ IF Caret THEN cb' = cb ELSE Put(doc[sel.to])
            /\ UNCHANGED <<doc, sel>>
       [] Head(keys) = "paste" ->
            /\ IF cb.text = NoText THEN UNCHANGED <<doc, sel>>
               ELSE doc' = Pasted(cb.text) /\ sel' = [from |-> sel.from + 1, to |-> sel.from + 1]
            /\ cb' = cb
       [] OTHER ->
            /\ sel' = IF Caret /\ sel.to > 0 THEN [sel EXCEPT !.from = @ - 1] ELSE sel
            /\ UNCHANGED <<doc, cb>>
  /\ UNCHANGED <<setup, qc, cycle, inj, mine, round, rest, slips>>

(* He leaves the document alone while something is under way. *)
UserSelects(i) ==
  /\ ~InWork /\ UseUp("move") /\ sel' = [from |-> i - 1, to |-> i]
  /\ UNCHANGED <<setup, doc, cb, keys, qc, cycle, inj, mine, round, slips>>

UserMoves(i) ==
  /\ ~InWork /\ UseUp("move") /\ sel' = [from |-> i, to |-> i]
  /\ UNCHANGED <<setup, doc, cb, keys, qc, cycle, inj, mine, round, slips>>

(* What the user copies while the thread has not yet read the clipboard is taken
   for the selection's text; between a look at the clipboard and the write that
   follows it is lost. *)
UserCopies ==
  /\ UseUp("copy") /\ Put(Unconverted("v")) /\ mine' = Unconverted("v")
  /\ slips' = slips \cup (IF qc.pc \in {"seq", "copy", "wait", "read"} THEN {"copied"} ELSE {})
                    \cup (IF inj.pc # "idle" \/ qc.pc = "putback" THEN {"raced"} ELSE {})
                    \cup (IF Posted("paste") \/ qc.pc \in {"write", "paste"} THEN {"pasted"} ELSE {})
  /\ UNCHANGED <<setup, doc, sel, keys, qc, cycle, inj, round>>

(* SEQUENTIAL_TIMEOUT_MS *)
CycleExpires ==
  /\ cycle.on /\ ~InWork /\ cycle' = [cycle EXCEPT !.on = FALSE] /\ round' = NoRound
  /\ UNCHANGED <<setup, doc, sel, cb, keys, qc, inj, mine, rest, slips>>

QNext ==
  \/ Execute \/ ThreadRuns \/ UpdateConfig \/ DoEditSession
  \/ Inject \/ InjectWrite \/ InjectSend \/ RestoreTimerProc
  \/ AppHandles \/ UserCopies \/ CycleExpires
  \/ \E i \in 1..Len(doc) : UserSelects(i)
  \/ \E i \in 0..Len(doc) : UserMoves(i)

(* The thread runs and its waits end; nothing else is promised. *)
QFairness == WF_qvars(ThreadRuns)
QSpec == QInit /\ [][QNext]_qvars /\ QFairness

(***************************************************************************)
(* Properties.                                                             *)
(***************************************************************************)
Quiet == ~InWork /\ ~inj.has

(* The presses of the hotkey lead through the conversions one after the other
   and then back to the text as it was, whatever has to be selected again on
   the way and whatever he converts elsewhere.  The same text at another place is
   taken for the one before it where a control does not tell places: "twin".
   (seqState_, IsNewSelection, TryReselect, DoEditSession) *)
RoundTrip ==
  Quiet /\ Cyclic /\ round.place > 0 /\ slips = {} =>
    doc[round.place] = Output(round.text, round.n % (setup.options + 1))

(* A conversion and a word that is typed replace nothing else in the document.
   A caret that the user has moved within the 5 s is not noticed: "moved".
   (IsStillInCycle, SimulateShiftLeftSelect, ClipboardInjector::Replace) *)
WordsKept ==
  slips \subseteq {"fallback", "typed", "twin"} =>
    \A i \in 1..Len(Words) : \E j \in 1..Len(doc) : doc[j].w = Words[i]

(* When nothing is under way the clipboard holds what the user has copied or had
   converted last.  (restoreSavedClipboardIfSafe, RestoreTimerProc,
   g_lastWrittenSeq) *)
ClipboardKept ==
  Quiet /\ slips \cap Excused = {} => cb.text = mine

(* A caret that has been moved ends the cycle: the recovery does not select and
   replace what stands before the caret now.  (IsStillInCycle) *)
CaretNoticed == "moved" \notin slips

(* A conversion comes to its end and lets the next one start.
   (WaitForClipboardUnicode, isRunning_) *)
ConversionEnds == qc.pc # "idle" ~> qc.pc = "idle"

(* A conversion harms nothing: the cycle leads back to the text as it was, no other
   word of the document is replaced, and the clipboard is the user's again.
   (QuickConvert::Execute, ClipboardInjector::Replace) *)
ConversionHarmless == RoundTrip /\ WordsKept /\ ClipboardKept
=============================================================================
