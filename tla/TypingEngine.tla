---------------------------- MODULE TypingEngine ----------------------------
(* TypingEngine.cpp: the composition of one word from keys.  The engine keeps *)
(*   st    the characters shown, each with the index in raw of the key that   *)
(*         made it and of the tone key it consumed (traw, 0: none);           *)
(*   raw   the keys auto-restore brings back (keys consumed by a double press *)
(*         are taken out of it again);                                        *)
(*   hist  every key, for Esc;                                                *)
(* and what the later keys depend on: the kind of the last escape (esc), the  *)
(* English protection (bias, tkey, tcnt), the spell check's verdict (dis) and *)
(* the quick consonants (qcAt, qcKey, only, qesc, qs).                        *)
(*                                                                            *)
(* The handlers are functions from engine to engine; one that may decline     *)
(* returns [ok, e], and e may differ from its argument even when ok is FALSE. *)
(* Letter case is left out.                                                   *)
EXTENDS Phonology, TLC

CONSTANTS Scenarios     \* [cfg, keys, len, back]: configuration, alphabet, longest word,
                        \* most Backspaces

VARIABLES sc,           \* the scenario
          e,            \* the engine
          pushed,       \* keys pressed since the engine was reset
          backs,        \* Backspaces since then
          before        \* what was shown before the last key, and that key
vars == <<sc, e, pushed, backs, before>>

cfg == sc.cfg
IsTelexMode == cfg.method \notin {"VNI", "User"}
IsVniMode == cfg.method \in {"VNI", "Combined"}
EffectiveSpellCheck == cfg.spell /\ ~cfg.bypass
Digits == {"0", "1", "2", "3", "4", "5", "6", "7", "8", "9"}
Tones == {"acute", "grave", "hook", "tilde", "dot"}

Fresh ==
  [st |-> <<>>, raw |-> <<>>, hist |-> <<>>, esc |-> "none", bias |-> "unknown", tkey |-> "",
   tcnt |-> 0, dis |-> FALSE, qcAt |-> 0, qcKey |-> "", only |-> FALSE, qesc |-> FALSE, qs |-> ""]

No(g) == [ok |-> FALSE, e |-> g]
Yes(g) == [ok |-> TRUE, e |-> g]
(* A rule that holds ends the key; else the next one sees what it has left. *)
Otherwise(r, Rule(_)) == IF r.ok THEN r ELSE Rule(r.e)
Validate(st) == ValidateSyllableState(st, cfg.zwjf)
Target(st) == FindToneTarget(st, cfg.modern)

-----------------------------------------------------------------------------
(* What is shown, and the words excluded from the spell check.                *)

Lit(k) == <<k, "none", "none">>
ComposeChar(s) == <<s.base, s.mod, s.tone>>
Compose(st) == [i \in DOMAIN st |-> ComposeChar(st[i])]
Toneless(text) == [i \in DOMAIN text |-> <<text[i][1], text[i][2]>>]

IsSpellExcluded(st) == \E p \in cfg.excl : IsPrefix(p, Compose(st))
PrefixOfOther(a, b) == IsPrefix(a, b) \/ IsPrefix(b, a)
ToneMatchesExclusion(st, t, tone) ==
  t # 0 /\ \E p \in cfg.excl : PrefixOfOther(p, Compose([st EXCEPT ![t].tone = tone]))
WouldAnyModifierMatchExclusion(st, mod, bases) ==
  \E p \in cfg.excl : \E i \in DOMAIN st :
    /\ st[i].base \in bases /\ ~HasMod(st[i])
    /\ PrefixOfOther(Toneless(p), Toneless(Compose([st EXCEPT ![i].mod = mod])))

(* The d a d or 9 strokes: the last one, if no vowel stands before its group. *)
FindStrokeDTarget(st) ==
  LET d == {i \in DOMAIN st : IsD(st[i])}
      t == Max(d)
  IN IF d = {} \/ (\E i \in 1 .. t - 1 : IsVowel(st[i]) /\ \A j \in i + 1 .. t : IsD(st[j]))
     THEN 0 ELSE t
WouldStrokeDMatchExclusion(st) ==
  LET t == FindStrokeDTarget(st)
  IN t # 0 /\ \E p \in cfg.excl : PrefixOfOther(p, Compose([st EXCEPT ![t].mod = "stroke"]))

WouldModifierKeyMatchExclusion(st, k) ==
  CASE k \in {"d", "9"} -> WouldStrokeDMatchExclusion(st)
    [] k = "w" -> \/ WouldAnyModifierMatchExclusion(st, "horn", {"u", "o"})
                  \/ WouldAnyModifierMatchExclusion(st, "breve", {"a"})
    [] k \in {"a", "e", "o", "6"} -> WouldAnyModifierMatchExclusion(st, "circ", {"a", "e", "o"})
    [] k = "7" -> WouldAnyModifierMatchExclusion(st, "horn", {"u", "o"})
    [] k = "8" -> WouldAnyModifierMatchExclusion(st, "breve", {"a"})
    [] OTHER -> FALSE

UpdateSpellState(g) ==
  [g EXCEPT !.dis = /\ cfg.spell /\ g.st # <<>> /\ ~IsSpellExcluded(g.st)
                    /\ Validate(g.st) = "invalid"]
ResetBias(g) == [g EXCEPT !.bias = RecalcEnglishBias(g.st), !.tkey = "", !.tcnt = 0]
CheckZwjfInitialBias(g) ==
  [g EXCEPT !.bias = IF /\ IsTelexMode /\ ~cfg.zwjf /\ cfg.spell /\ g.st # <<>>
                        /\ @ # "vietnamese" /\ g.st[1].base \in Zwjf
                     THEN "hard" ELSE @]

-----------------------------------------------------------------------------
(* Characters, marks and the places tones move to.                            *)

NewChar(g, base, mod, syn) ==
  [base |-> base, mod |-> mod, tone |-> "none", syn |-> syn,
   raw |-> IF g.raw = <<>> THEN 1 ELSE Len(g.raw), traw |-> 0]
ProcessChar(g, k) == [g EXCEPT !.st = Append(@, NewChar(g, k, "none", FALSE))]
Escape(g, kind, k) == [ProcessChar(g, k) EXCEPT !.esc = kind]

UndoHornU(st, i) ==
  IF i > 1 /\ st[i].base = "o" /\ HasMod(st[i]) /\ st[i - 1].base = "u" /\ HasMod(st[i - 1])
  THEN [st EXCEPT ![i - 1].mod = "none"] ELSE st
SetVowelMod(st, i, m) ==
  LET s == [st EXCEPT ![i].mod = m] IN IF m = "circ" THEN UndoHornU(s, i) ELSE s

MoveTone(st, from, to) ==
  IF \/ from = 0 \/ to \in {0, from}
     \/ HasConsonantBetween(st, from, to) \/ IsToneRelocBlockedByP4(st, to, cfg.modern)
  THEN st
  ELSE [st EXCEPT ![to].tone = st[from].tone, ![to].traw = st[from].traw,
                  ![from].tone = "none", ![from].traw = 0]
RelocateToneToTarget(st) == MoveTone(st, FindTonedVowelIndex(st), Target(st))

(* The index of the tone key stays behind. *)
RelocateToneToHornVowel(st) ==
  LET horns == {i \in DOMAIN st : IsVowel(st[i]) /\ st[i].mod = "horn"}
      toned == {i \in DOMAIN st : IsVowel(st[i]) /\ HasTone(st[i])}
      to == Max(horns)
      from == Max(toned)
  IN IF /\ horns # {} /\ toned # {} /\ from # to
        /\ st[from].mod \in {"none", "horn"} /\ ~HasConsonantBetween(st, from, to)
     THEN [st EXCEPT ![to].tone = st[from].tone, ![from].tone = "none"]
     ELSE st

(* u and horned o, or horned u and o, with a letter behind them: both horned. *)
ApplyAutoUO(st) ==
  LET n == Len(st)
      fix(s, i) ==
        LET open == ~(i > 1 /\ s[i - 1].base = "q") /\ s[i].base = "u" /\ s[i + 1].base = "o"
            s1 == IF open /\ ~HasMod(s[i]) /\ s[i + 1].mod = "horn"
                  THEN [s EXCEPT ![i].mod = "horn"] ELSE s
        IN IF open /\ s1[i].mod = "horn" /\ ~HasMod(s1[i + 1])
           THEN RelocateToneToTarget([s1 EXCEPT ![i + 1].mod = "horn"]) ELSE s1
      at == SelectSeq([i \in 1 .. n |-> i], LAMBDA i : i >= n - 3 /\ i + 2 <= n)
  IN FoldLeft(fix, st, at)

Settle(g) == UpdateSpellState([g EXCEPT !.st = ApplyAutoUO(@)])

IsUOEdgeCasePrefix(st, u) ==
  \/ u = 2 /\ st[1].base = "h"
  \/ u = 3 /\ st[2].base = "h" /\ st[1].base \in {"t", "k"}

IsToneStopCodaMismatch(st) ==
  HasStopFinalCoda(st) /\ FirstTone(st) \in {"grave", "hook", "tilde"}

(* Would the word still be a syllable with this mark? *)
WouldBeValidSyllable(st, i, m, clear, relocate) ==
  LET s1 == SetVowelMod(st, i, m)
      s2 == IF clear # 0 /\ s1[clear].mod = "circ" THEN [s1 EXCEPT ![clear].mod = "none"] ELSE s1
      Passes(s) == Validate(s) # "invalid" \/ IsToneStopCodaMismatch(s)
  IN ~cfg.spell \/ Passes(IF relocate THEN RelocateToneToTarget(s2) ELSE s2)
ShouldRejectModifier(st, i, m, k) ==
  cfg.spell /\ ~WouldBeValidSyllable(st, i, m, 0, FALSE) /\ ~WouldModifierKeyMatchExclusion(st, k)

-----------------------------------------------------------------------------
(* raw: taking out a consumed key.                                            *)

EraseConsumedRaw(g, idx) ==
  IF idx > Len(g.raw) THEN g
  ELSE [g EXCEPT
         !.raw = RemoveAt(@, idx),
         !.st = [i \in DOMAIN @ |-> [@[i] EXCEPT !.raw = IF @ > idx THEN @ - 1 ELSE @,
                                                 !.traw = IF @ > idx THEN @ - 1 ELSE @]]]

(* Mutant: the indexes of the later letters are left as they are. *)
RestoreConsumedKeyAtEnd(g, idx, k) ==
  ProcessChar(IF idx = 0 THEN g ELSE [g EXCEPT !.raw = RemoveAt(@, Min({idx, Len(@)}))], k)

(* The key shows where the consumed one was typed.  When the index is stale   *)
(* and just past the end, the write of the key goes to spare capacity.        *)
RestoreConsumedKeyInPlace(g, idx, k) ==
  IF idx = 0 \/ idx > Len(g.raw) \/ g.raw = <<>> \/ Last(g.raw) # k
  THEN ProcessChar(IF idx # 0 THEN EraseConsumedRaw(g, idx) ELSE g, k)
  ELSE LET g1 == EraseConsumedRaw(g, Len(g.raw))
           s  == [NewChar(g1, k, "none", FALSE) EXCEPT !.raw = idx]
           later == {i \in DOMAIN g1.st : g1.st[i].raw > idx}
           at == IF later = {} THEN Len(g1.st) + 1 ELSE Min(later)
       IN [g1 EXCEPT !.raw = [i \in DOMAIN @ |-> IF i = idx THEN k ELSE @[i]],
                     !.st = InsertAt(@, at, s)]

(* A tone on the second of two plain o's holds only before c and n. *)
RevertProvisionalOoTone(g, k) ==
  LET n == Len(g.st)
      o == g.st[n]
      idx == o.traw
      known == idx # 0 /\ idx <= Len(g.raw)
      bare == [g.st EXCEPT ![n].tone = "none", ![n].traw = 0]
      key == g.raw[idx]
  IN IF \/ n < 2 \/ Bases(SubSeq(g.st, n - 1, n)) # <<"o", "o">>
        \/ HasMod(g.st[n - 1]) \/ HasMod(o) \/ ~HasTone(o) \/ HasTone(g.st[n - 1])
        \/ k \in {"c", "n"}
     THEN No(g)
     ELSE IF ~known THEN No([g EXCEPT !.st = bare])
     ELSE LET g1 == [g EXCEPT !.st = Append(bare, [NewChar(g, key, "none", FALSE) EXCEPT !.raw = idx])]
          IN IF key = k THEN Yes([g1 EXCEPT !.esc = "tone"]) ELSE No(g1)

-----------------------------------------------------------------------------
(* Tone keys.                                                                 *)

TelexActions ==
  [z |-> "ClearTone", s |-> "acute", f |-> "grave", r |-> "hook", x |-> "tilde", j |-> "dot",
   a |-> "CircumflexA", e |-> "CircumflexE", o |-> "CircumflexO", w |-> "HornW", d |-> "StrokeD"]
  @@ "[" :> "HornInsertO" @@ "]" :> "HornInsertU"
VniActions ==
  "0" :> "ClearTone" @@ "1" :> "acute" @@ "2" :> "grave" @@ "3" :> "hook" @@ "4" :> "tilde"
  @@ "5" :> "dot" @@ "6" :> "VniCircumflex" @@ "7" :> "VniHorn" @@ "8" :> "VniBreve"
  @@ "9" :> "VniStroke"
ClassifyKey(k) ==
  CASE cfg.method = "User" /\ k \in DOMAIN cfg.map -> cfg.map[k]
    [] IsTelexMode /\ k \in DOMAIN TelexActions -> TelexActions[k]
    [] IsVniMode /\ k \in DOMAIN VniActions -> VniActions[k]
    [] OTHER -> "None"
TelexModifiers == {"CircumflexA", "CircumflexE", "CircumflexO", "HornW", "HornInsertO",
                   "HornInsertU", "StrokeD"}
VniModifiers == {"VniCircumflex", "VniHorn", "VniBreve", "VniStroke"}
UserModifiers == {"HornOrInsertU", "HornOrInsertUNoStart", "UndoAllMarks",
                  "InsertABreve", "InsertDStroke", "InsertUHorn"}

(* Mutant: the first press stays among the raw keys. *)
ProcessToneAppends(g, tone, k, t) ==
  IF t = 0 THEN No(g)
  ELSE IF g.st[t].tone = tone
  THEN Yes([ProcessChar([g EXCEPT !.st[t].tone = "none"], k) EXCEPT !.esc = "tone"])
  ELSE Yes([g EXCEPT !.st[t].tone = tone, !.st[t].traw = Len(g.raw), !.esc = "none"])

(* A second press of the tone key takes the tone away and types the key. *)
ProcessTone(g, tone, k, t) ==
  IF t = 0 THEN No(g)
  ELSE IF g.st[t].tone = tone
  THEN LET bare == [g EXCEPT !.st[t].tone = "none", !.st[t].traw = 0]
       IN Yes([RestoreConsumedKeyInPlace(bare, g.st[t].traw, k) EXCEPT !.esc = "tone"])
  ELSE Yes([g EXCEPT !.st[t].tone = tone, !.st[t].traw = Len(g.raw), !.esc = "none"])

ProcessClearTone(g, t) ==
  IF t = 0 \/ ~HasTone(g.st[t]) THEN No(g)
  ELSE Yes([g EXCEPT !.st[t].tone = "none", !.st[t].traw = 0])

UpdateToneInsistence(g, k) ==
  [g EXCEPT !.tkey = k, !.tcnt = IF k = g.tkey THEN 2 ELSE 1]

(* t: the vowel the tone goes to. *)
HandleTone(g, tone, k, t) ==
  LET literal(h) == Yes(UpdateSpellState(ProcessChar(h, k)))
      telex == k \notin Digits
      with  == [g.st EXCEPT ![t].tone = tone]
      escaping == t # 0 /\ g.st[t].tone = tone
      excluded == ToneMatchesExclusion(g.st, t, tone)
      recovers == t # 0 /\ HasTone(g.st[t]) /\ Validate(with) = "valid"
      wouldValidate == t # 0 /\ ~escaping /\ Validate(with) = "valid"
      insisted == UpdateToneInsistence(g, k)
      g1 == IF wouldValidate THEN [g EXCEPT !.bias = "vietnamese"]
            ELSE IF g.bias = "soft" THEN insisted ELSE g
      hard == \/ telex /\ IsHardEnglishEnd(k) /\ HasStructuralVCVPattern(g.st)
              \/ ~telex /\ HasStructuralVCVPattern(g.st)
              \/ HasInvalidAdjacentVowelPair(g.st)
      g2 == IF cfg.bypass THEN g ELSE g1
      Settled(r) ==
        IF ~r.ok THEN r
        ELSE Yes(Settle(IF r.e.esc = "none" THEN [r.e EXCEPT !.bias = "vietnamese"]
                        ELSE CheckZwjfInitialBias(ResetBias(r.e))))
  IN IF EffectiveSpellCheck /\ g.dis /\ ~escaping /\ ~excluded /\ ~recovers THEN literal(g)
     ELSE IF telex /\ EffectiveSpellCheck /\ IsBlockedEnglishTone(g.raw) /\ ~excluded THEN literal(g)
     ELSE IF ~cfg.bypass /\ ~wouldValidate /\ g.bias = "hard" THEN literal(g)
     ELSE IF ~cfg.bypass /\ ~wouldValidate /\ g.bias = "soft" /\ insisted.tcnt < 2 THEN literal(insisted)
     ELSE IF ~cfg.bypass /\ ~wouldValidate /\ hard THEN literal([g1 EXCEPT !.bias = "hard"])
     ELSE IF /\ EffectiveSpellCheck /\ ~g.dis
             /\ tone \in {"grave", "hook", "tilde"} /\ HasStopFinalCoda(g.st) THEN literal(g2)
     ELSE Settled(ProcessTone(g2, tone, k, t))

HandleToneFsm(g, action, k) ==
  LET Checked(r) == IF r.ok THEN Yes(UpdateSpellState(r.e)) ELSE r
  IN IF g.st = <<>> THEN No(g)
     ELSE IF action # "ClearTone" THEN HandleTone(g, action, k, Target(g.st))
     ELSE Checked(IF EffectiveSpellCheck /\ g.dis THEN Yes(ProcessChar(g, k))
                  ELSE ProcessClearTone(g, Target(g.st)))

-----------------------------------------------------------------------------
(* Marks.                                                                     *)

(* [ and ] put a horned o or u; a second press gives the key itself. *)
InsertOrEscape(g, base, mod, k, kind) ==
  LET n == Len(g.st)
      again == /\ n > 0 /\ Len(g.raw) >= 2 /\ g.raw[Len(g.raw) - 1] = k
               /\ g.st[n].base = base /\ g.st[n].mod = mod
      popped == [g EXCEPT !.st = Front(@)]
  IN IF again THEN Yes(Escape(EraseConsumedRaw(popped, g.st[n].raw), kind, k))
     ELSE Yes([g EXCEPT !.st = Append(@, NewChar(g, base, mod, FALSE))])
HandleHornInsert(g, action, k) ==
  IF cfg.method = "SimpleTelex" THEN No(g)
  ELSE InsertOrEscape(g, IF action = "HornInsertO" THEN "o" ELSE "u", "horn", k, "horn")
HandleInsertChar(g, action, k) ==
  CASE action = "InsertABreve"  -> InsertOrEscape(g, "a", "breve", k, "breve")
    [] action = "InsertDStroke" -> InsertOrEscape(g, "d", "stroke", k, "stroke")
    [] action = "InsertUHorn"   -> InsertOrEscape(g, "u", "horn", k, "horn")

HandleUndoAllMarks(g) ==
  IF \E i \in DOMAIN g.st : HasMod(g.st[i]) \/ HasTone(g.st[i])
  THEN Yes([g EXCEPT
              !.st = [i \in DOMAIN @ |-> IF HasMod(@[i]) \/ HasTone(@[i])
                                         THEN [@[i] EXCEPT !.mod = "none", !.tone = "none", !.traw = 0]
                                         ELSE @[i]],
              !.esc = "tone"])
  ELSE No(g)

(* A vowel key again: the roof. *)
HandleAdjacentCircumflex(g, action, k) ==
  LET st == g.st
      n  == Len(st)
      v  == [CircumflexA |-> "a", CircumflexE |-> "e", CircumflexO |-> "o"][action]
      hits == {i \in 1 .. n : st[i].base = v}
      t  == Max(hits)
      crossed == {i \in t + 1 .. n : ~IsVowel(st[i])}
      foreign == \E i \in t + 1 .. n : IsVowel(st[i])
      roof == [g EXCEPT !.st = RelocateToneToTarget(SetVowelMod(st, t, "circ"))]
      hard == No([g EXCEPT !.bias = "hard"])
      use == /\ action = "CircumflexE" /\ Bases(st) = <<"u", "s", "e">>
             /\ ~HasMod(st[1]) /\ ~HasMod(st[3])
             /\ Len(g.raw) >= 4 /\ IsPrefix(<<"u", "s", "e">>, g.raw)
      useSt == [RemoveAt(st, 2) EXCEPT ![2].mod = "circ", ![2].tone = "acute", ![2].traw = 2]
      rejected == IF Validate(st) = "prefix"
                  THEN ~WouldBeValidSyllable(st, n, "circ", 0, TRUE) /\ ~WouldModifierKeyMatchExclusion(st, k)
                  ELSE ShouldRejectModifier(st, n, "circ", v)
  IN IF n = 0 THEN No(g)
     ELSE IF use THEN Yes([g EXCEPT !.st = RelocateToneToTarget(useSt), !.bias = "vietnamese"])
     ELSE IF st[n].base = v
     THEN IF n >= 3 /\ IsTriphthong(Bases(SubSeq(st, n - 2, n))) THEN Yes(g)
          ELSE IF st[n].mod = "circ"
               THEN LET u == ProcessChar([g EXCEPT !.st[n].mod = "none"], k)
                    IN Yes(IF cfg.spell THEN [u EXCEPT !.esc = "circ"] ELSE u)
          ELSE IF rejected THEN No(g) ELSE Yes(roof)
     ELSE IF \/ hits = {}
             \/ n >= 2 /\ IsTriphthong(<<st[n - 1].base, st[n].base, v>>) THEN No(g)
     ELSE IF foreign /\ st[t].mod = "breve" THEN No(g)
     ELSE IF st[t].mod = "circ" THEN Yes(Escape([g EXCEPT !.st[t].mod = "none"], "circ", k))
     ELSE IF st[t].mod = "breve"
          THEN Yes([g EXCEPT !.st = RelocateToneToTarget([st EXCEPT ![t].mod = "circ"])])
     ELSE IF st[t].mod = "horn" THEN Yes(roof)
     ELSE IF foreign /\ cfg.spell /\ ShouldRejectModifier(st, t, "circ", v) THEN No(g)
     ELSE IF foreign /\ ~cfg.spell /\ crossed # {} THEN hard
     ELSE IF /\ ~foreign /\ ~cfg.spell /\ n = t + 1
             /\ st[n].base \notin {"c", "k", "m", "n", "p", "t"} THEN hard
     ELSE IF /\ ~foreign /\ cfg.spell /\ crossed # {}
             /\ ~WouldBeValidSyllable(st, t, "circ", 0, TRUE) THEN No(g)
     ELSE Yes([g EXCEPT !.st = RelocateToneToTarget([st EXCEPT ![t].mod = "circ"])])

HasNonClusterVowel(st) ==
  \E i \in DOMAIN st : IsVowel(st[i]) /\ ~(st[i].base = "i" /\ i > 1 /\ st[i - 1].base = "g")
IsInQUCluster(st) == \E i \in 1 .. Len(st) - 1 : st[i].base = "q" /\ st[i + 1].base = "u" /\ ~HasMod(st[i + 1])

(* w: horns on u and o, the breve on a, or a u with a horn of its own. *)
HandleHornW(g, k) ==
  LET st == g.st
      n  == Len(st)
      qu(i) == i > 1 /\ st[i].base = "u" /\ ~HasMod(st[i]) /\ st[i - 1].base = "q"
      Is(b, mods) == {i \in 1 .. n : st[i].base = b /\ st[i].mod \in mods /\ ~qu(i)}
      Pair(a, b) == {i \in 1 .. n - 1 : st[i].base = a /\ st[i + 1].base = b /\ ~qu(i)}
      us == Is("u", {"none"})
      os == Is("o", {"none", "circ"})
      as == Is("a", {"none", "circ"})
      horned == Is("u", {"horn"}) \union Is("o", {"horn"})
      breved == Is("a", {"breve"})
      p  == Max(Pair("u", "o"))
      um == st[p].mod
      om == st[p + 1].mod
      edge == IsUOEdgeCasePrefix(st, p)
      clear(s) == IF as # {} /\ s[Max(as)].mod = "circ" THEN [s EXCEPT ![Max(as)].mod = "none"] ELSE s
      set(s) == Yes([g EXCEPT !.st = RelocateToneToHornVowel(s)])
      undo(s, kind) == Yes(Escape([g EXCEPT !.st = s], kind, k))
      after(i) == \E j \in i + 1 .. n : ~IsVowel(st[j])
      tu == IF Pair("u", "u") # {} THEN Min(us) ELSE Max(us)
      h  == Max(horned)
  IN IF cfg.method = "SimpleTelex" /\ ~(\E i \in 1 .. n : st[i].base \in {"a", "o", "u"}) THEN No(g)
     ELSE IF Pair("u", "a") # {} /\ us # {} THEN set(clear([st EXCEPT ![Max(us)].mod = "horn"]))
     ELSE IF Pair("u", "o") # {} /\ um # "horn" /\ om \in {"none", "circ"}
          THEN set(IF edge THEN [st EXCEPT ![p + 1].mod = "horn"]
                   ELSE [st EXCEPT ![p].mod = "horn", ![p + 1].mod = "horn"])
     ELSE IF Pair("u", "o") # {} /\ um = "horn" /\ om = "none" THEN set([st EXCEPT ![p + 1].mod = "horn"])
     ELSE IF Pair("u", "o") # {} /\ um = "none" /\ om = "horn" /\ edge THEN set([st EXCEPT ![p].mod = "horn"])
     ELSE IF Pair("u", "o") # {} /\ om = "horn"
          THEN undo([st EXCEPT ![p].mod = "none", ![p + 1].mod = "none"], "horn")
     ELSE IF Pair("o", "a") # {} /\ as # {} THEN Yes([g EXCEPT !.st[Max(as)].mod = "breve"])
     ELSE IF horned # {}
          THEN IF st[h].syn /\ h = n THEN undo(Front(st), "horn")
               ELSE undo([UndoHornU(st, h) EXCEPT ![h].mod = "none"], "horn")
     ELSE IF breved # {} THEN undo([st EXCEPT ![Max(breved)].mod = "none"], "breve")
     ELSE IF us # {}
          THEN IF /\ after(tu)
                  /\ ~WouldBeValidSyllable(st, tu, "horn", IF as = {} THEN 0 ELSE Max(as), FALSE)
               THEN No(g) ELSE set(clear([st EXCEPT ![tu].mod = "horn"]))
     ELSE IF os # {} /\ Pair("o", "a") = {}
          THEN IF after(Max(os)) /\ ~WouldBeValidSyllable(st, Max(os), "horn", 0, FALSE)
               THEN No(g) ELSE set([st EXCEPT ![Max(os)].mod = "horn"])
     ELSE IF as # {}
          THEN IF after(Max(as)) /\ ~WouldBeValidSyllable(st, Max(as), "breve", 0, FALSE)
               THEN No(g) ELSE Yes([g EXCEPT !.st[Max(as)].mod = "breve"])
     ELSE IF cfg.method \notin {"SimpleTelex", "User"} /\ ~IsInQUCluster(st) /\ ~HasNonClusterVowel(st)
          THEN Yes([g EXCEPT !.st = Append(@, NewChar(g, "u", "horn", TRUE))])
     ELSE No(g)

HandleHornOrInsertU(g, action, k) ==
  LET i == HandleHornInsert(g, "HornInsertU", k)
      grown == Len(i.e.st) > Len(g.st)
      Insert(h) == IF HasNonClusterVowel(h.st) THEN No(h)
                   ELSE IF i.ok /\ grown THEN Yes([i.e EXCEPT !.st[Len(i.e.st)].syn = TRUE])
                   ELSE i
  IN IF action = "HornOrInsertUNoStart" /\ g.st = <<>> THEN No(g)
     ELSE Otherwise(HandleHornW(g, k), Insert)

(* d or 9: the stroke, and back. *)
HandleStrokeD(g, k) ==
  LET t == FindStrokeDTarget(g.st)
      n == Len(g.st)
  IN IF g.esc = "stroke" \/ t = 0 THEN No(g)
     ELSE IF ~HasMod(g.st[t]) THEN Yes([g EXCEPT !.st[t].mod = "stroke"])
     ELSE IF ~(t = n \/ (t = 1 /\ n >= 2)) \/ (t = 1 /\ WouldModifierKeyMatchExclusion(g.st, k))
     THEN No(g)
     ELSE Yes(Escape([g EXCEPT !.st[t].mod = "none"], "stroke", k))
ShouldBlockStrokeDAsEnglish(st, t) ==
  \/ /\ ~(t = 1 /\ Len(st) > 1 /\ IsVowel(st[2]))
     /\ ~IsVowel(Last(st)) /\ ~IsD(Last(st))
  \/ t = 1 /\ HasStructuralVCVPattern(st)

(* VNI 6, 7, 8 on the last vowel that can take the mark; then one mark for    *)
(* another; then back.                                                        *)
ProcessVniVowelModifier(g, m, k) ==
  LET st == g.st
      at(P(_)) == {i \in DOMAIN st : IsVowel(st[i]) /\ ~IsClusterConsonant(st, i) /\ P(st[i])}
      takes == [circ |-> {"a", "e", "o"}, horn |-> {"o", "u"}, breve |-> {"a"}][m]
      free == at(LAMBDA s : s.base \in takes /\ ~HasMod(s))
      switch == at(LAMBDA s : \/ s.base = "a" /\ {s.mod, m} = {"circ", "breve"}
                              \/ s.base = "o" /\ {s.mod, m} = {"circ", "horn"})
      same == at(LAMBDA s : s.mod = m)
      i == Max(free)
      prefix == Validate(st) = "prefix"
      rejected == IF prefix THEN /\ ~WouldBeValidSyllable(st, i, m, 0, TRUE)
                                 /\ ~WouldModifierKeyMatchExclusion(st, k)
                  ELSE ShouldRejectModifier(st, i, m, k)
      marked == SetVowelMod(st, i, m)
  IN IF free # {}
     THEN IF rejected THEN No(g)
          ELSE Yes([g EXCEPT !.st = IF prefix THEN RelocateToneToTarget(marked) ELSE marked])
     ELSE IF switch # {}
     THEN Yes([g EXCEPT !.st = RelocateToneToTarget(SetVowelMod(st, Max(switch), m))])
     ELSE IF same # {}
     THEN Yes(Escape([g EXCEPT !.st = [UndoHornU(st, Max(same)) EXCEPT ![Max(same)].mod = "none"]],
                     "modifier", k))
     ELSE No(g)

HandleVniHorn(g, k) ==
  LET st == g.st
      At(b) == {i \in DOMAIN st : st[i].base = b /\ ~IsClusterConsonant(st, i)}
      us == At("u")
      u  == Max(us)
      o  == Max(At("o"))
      pair == us # {} /\ At("o") # {} /\ o = u + 1
      edge == IsUOEdgeCasePrefix(st, u)
      uh == st[u].mod = "horn"
      oh == st[o].mod = "horn"
      set(s) == Yes([g EXCEPT !.st = RelocateToneToTarget(s)])
      first == Min(us)
      two == us # {} /\ first # u
  IN IF pair /\ ~uh /\ ~oh
     THEN set(IF edge THEN [st EXCEPT ![o].mod = "horn"]
              ELSE [st EXCEPT ![u].mod = "horn", ![o].mod = "horn"])
     ELSE IF pair /\ uh /\ ~oh THEN set([st EXCEPT ![o].mod = "horn"])
     ELSE IF pair /\ edge /\ ~uh THEN set([st EXCEPT ![u].mod = "horn"])
     ELSE IF pair /\ uh /\ oh
     THEN Yes(Escape([g EXCEPT !.st[u].mod = "none", !.st[o].mod = "none"], "horn", k))
     ELSE IF two /\ ~HasMod(st[first]) /\ ~HasMod(st[u]) THEN set([st EXCEPT ![first].mod = "horn"])
     ELSE IF two /\ st[first].mod = "horn"
     THEN Yes(Escape([g EXCEPT !.st[first].mod = "none"], "horn", k))
     ELSE ProcessVniVowelModifier(g, "horn", k)

ProcessModifier(g, action, k) ==
  CASE action \in {"HornInsertO", "HornInsertU"} -> HandleHornInsert(g, action, k)
    [] action = "HornW" -> HandleHornW(g, k)
    [] action \in {"CircumflexA", "CircumflexE", "CircumflexO"} -> HandleAdjacentCircumflex(g, action, k)
    [] action \in {"StrokeD", "VniStroke"} -> HandleStrokeD(g, k)
    [] action \in {"VniCircumflex", "VniBreve"} ->
         ProcessVniVowelModifier(g, IF action = "VniBreve" THEN "breve" ELSE "circ", k)
    [] action = "VniHorn" -> HandleVniHorn(g, k)
    [] action \in {"HornOrInsertU", "HornOrInsertUNoStart"} -> HandleHornOrInsertU(g, action, k)
    [] action = "UndoAllMarks" -> HandleUndoAllMarks(g)
    [] OTHER -> HandleInsertChar(g, action, k)

HasEscapableModifier(st, m) == \E i \in DOMAIN st : st[i].mod = m
(* In a word that is no syllable a mark key only undoes, or repairs. *)
WouldModifierRecoverOrEscape(g, action, k) ==
  LET st == g.st
      n  == Len(st)
      strokes == HasEscapableModifier(st, "stroke") \/ FindStrokeDTarget(st) # 0
      canEscape ==
        IF action \in TelexModifiers
        THEN IF k = "w" THEN HasEscapableModifier(st, "horn") \/ HasEscapableModifier(st, "breve")
             ELSE IF k = "d" THEN strokes
             ELSE IF k \in {"a", "e", "i", "o", "u", "y"} /\ n > 0
                  THEN st[n].base = k /\ st[n].mod = "circ"
             ELSE /\ action \in {"HornInsertO", "HornInsertU"} /\ n > 0
                  /\ Len(g.raw) >= 2 /\ g.raw[Len(g.raw) - 1] = k
                  /\ st[n].base = (IF action = "HornInsertO" THEN "o" ELSE "u")
                  /\ st[n].mod = "horn"
        ELSE CASE action = "VniStroke" -> strokes
               [] action = "VniCircumflex" -> HasEscapableModifier(st, "circ")
               [] action = "VniHorn" -> HasEscapableModifier(st, "horn")
               [] action = "VniBreve" -> HasEscapableModifier(st, "breve")
               [] OTHER -> FALSE
  IN canEscape \/ WouldModifierKeyMatchExclusion(st, k) \/ IsToneStopCodaMismatch(st)

HandleModifierAction(g0, action, k) ==
  LET telex == action \in TelexModifiers /\ (IsTelexMode \/ cfg.method = "User")
      vni   == action \in VniModifiers /\ (IsVniMode \/ cfg.method = "User")
      user  == action \in UserModifiers /\ cfg.method = "User"
      t == FindStrokeDTarget(g0.st)
      g == IF /\ action \in {"StrokeD", "VniStroke"} /\ g0.bias # "hard" /\ Len(g0.st) >= 3
              /\ t # 0 /\ ~HasMod(g0.st[t]) /\ ShouldBlockStrokeDAsEnglish(g0.st, t)
           THEN [g0 EXCEPT !.bias = "hard"] ELSE g0
      useE == action = "CircumflexE" /\ Bases(g.st) = <<"u", "s", "e">>
      english == \/ ~cfg.bypass /\ g.bias = "hard" /\ ~useE
                 \/ ~vni /\ EffectiveSpellCheck /\ IsBlockedEnglishModifier(g.raw)
      onsetD == action \in {"StrokeD", "VniStroke"} /\ ~HasVowelState(g.st)
      block == \/ g.esc # "none"
               \/ english /\ ~onsetD /\ ~WouldModifierKeyMatchExclusion(g.st, k)
      canApply == EffectiveSpellCheck /\ g.dis /\ ~user => WouldModifierRecoverOrEscape(g, action, k)
      Settled(r) == IF r.ok THEN Yes(Settle([r.e EXCEPT !.bias = "vietnamese"])) ELSE r
  IN IF ~(telex \/ vni \/ user) \/ block \/ ~canApply THEN No(g)
     ELSE Settled(ProcessModifier(g, action, k))

-----------------------------------------------------------------------------
(* Quick consonants, and the end of an ordinary key.                          *)

(* "wh" after all, not a horned u. *)
AsWh(g) ==
  IF /\ cfg.method = "Telex" /\ g.bias # "hard" /\ g.st # <<>> /\ g.st[1].syn
     /\ g.st[1].base = "u" /\ g.st[1].mod = "horn" /\ ~HasTone(g.st[1])
     /\ IsHardEnglishStart(g.raw)
  THEN [g EXCEPT !.bias = "hard", !.st[1].base = "w", !.st[1].mod = "none", !.st[1].syn = FALSE]
  ELSE g
(* "use" after all, not an accented ue. *)
AsUse(g) ==
  LET bare(i) == [g.st[i] EXCEPT !.tone = "none", !.traw = 0]
  IN IF /\ EffectiveSpellCheck /\ IsTelexMode /\ g.bias # "hard"
        /\ Bases(g.st) = <<"u", "e">> /\ ~HasMod(g.st[1]) /\ ~HasMod(g.st[2])
        /\ \E i \in 1 .. 2 : g.st[i].tone = "acute"
        /\ IsPrefix(<<"u", "s", "e">>, g.raw)
     THEN [g EXCEPT !.bias = "hard",
             !.st = <<bare(1), [NewChar(g, "s", "none", FALSE) EXCEPT !.raw = 2], bare(2)>>]
     ELSE g
Biased(g) == [g EXCEPT !.bias = CheckEnglishBias(g.st, @)]
FinalizeRegularChar(g) ==
  CheckZwjfInitialBias(AsUse(AsWh(Biased(
    UpdateSpellState([g EXCEPT !.st = ApplyAutoUO(RelocateToneToTarget(@))])))))

QuickStart == [f |-> <<"p", "h">>, j |-> <<"g", "i">>, w |-> <<"q", "u">>]
QuickDouble == [c |-> "h", g |-> "i", n |-> "g", k |-> "h", q |-> "u", p |-> "h", t |-> "h"]
QuickEnd == [g |-> <<"n", "g">>, h |-> <<"n", "h">>, k |-> <<"c", "h">>]

HandleQuickStartConsonant(g, k) ==
  LET two == ProcessChar(ProcessChar(g, QuickStart[k][1]), QuickStart[k][2])
      vowel == k \in {"a", "e", "i", "o", "u", "y"}
      (* no vowel after f, j, w: back to the key itself *)
      back == [ProcessChar([g EXCEPT !.st = <<>>, !.raw = <<g.qs>>], g.qs) EXCEPT !.raw = <<g.qs, k>>]
      g1 == [(IF g.qs # "" /\ ~vowel THEN back ELSE g) EXCEPT !.qs = ""]
      again == g1.qcKey # "" /\ k = g1.qcKey
      escaped == g1.qesc \/ again
      g2 == [g1 EXCEPT !.qesc = FALSE, !.qcKey = IF again THEN @ ELSE ""]
      n == Len(g2.st)
      s == g2.st[n]
      double == ~IsVowel(s) /\ s.base = k /\ k \in DOMAIN QuickDouble
      uu == /\ s.base = "u" /\ ~HasMod(s) /\ k = "u"
            /\ ~(n >= 3 /\ IsTriphthong(Bases(SubSeq(g2.st, n - 2, n))))
      active(h) == [h EXCEPT !.qcAt = n + 1, !.qcKey = k, !.only = n = 1]
  IN IF cfg.qstart /\ g.st = <<>> /\ k \in DOMAIN QuickStart
     THEN Yes(UpdateSpellState([two EXCEPT !.qs = k]))
     ELSE IF ~cfg.quick \/ n = 0 \/ escaped THEN No(g2)
     ELSE IF double THEN Yes(FinalizeRegularChar(ProcessChar(active(g2), QuickDouble[k])))
     ELSE IF uu
     THEN Yes(UpdateSpellState(active([g2 EXCEPT
                !.st = Append([@ EXCEPT ![n].mod = "horn"], NewChar(g2, "o", "horn", FALSE))])))
     ELSE No(g2)

HandleQuickEndConsonant(g, k) ==
  IF cfg.qend /\ g.st # <<>> /\ IsVowel(Last(g.st)) /\ k \in DOMAIN QuickEnd
  THEN Yes(UpdateSpellState(ProcessChar(ProcessChar(g, QuickEnd[k][1]), QuickEnd[k][2])))
  ELSE No(g)

-----------------------------------------------------------------------------
(* The operations.                                                            *)

(* EvaluateGates: an escape that is not a roof's holds the tone rule back. *)
ToneGateOpen(g) == g.esc \in {"none", "circ"}

ActionOf(g, k) ==
  IF IsVniMode /\ k \in Digits /\ g.st # <<>> /\ Last(g.st).base \in Digits
  THEN "None" ELSE ClassifyKey(k)

(* The rules in the order of their phases and priorities: tone (if its gate   *)
(* is open), mark, quick end; a key no rule takes is a letter.                *)
ApplyRules(g, action, k) ==
  LET Tone(h) == IF action \in Tones \union {"ClearTone"} /\ ToneGateOpen(h)
                 THEN HandleToneFsm(h, action, k) ELSE No(h)
      Mark(h)  == HandleModifierAction(h, action, k)
      End(h)   == HandleQuickEndConsonant(h, k)
      Plain(h) == Yes(FinalizeRegularChar(ProcessChar(h, k)))
  IN Otherwise(Otherwise(Otherwise(Tone(g), Mark), End), Plain)

PushKey(g0, k) ==
  LET g == [g0 EXCEPT !.raw = Append(@, k), !.hist = Append(@, k), !.only = FALSE]
      Reverted(r) == IF r.ok THEN Yes(ResetBias(UpdateSpellState(r.e))) ELSE r
      Start(h) == HandleQuickStartConsonant(h, k)
      Rules(h) == ApplyRules(h, ActionOf(h, k), k)
  IN Otherwise(Otherwise(Reverted(RevertProvisionalOoTone(g, k)), Start), Rules).e

Backspace(g0) ==
  LET g == [g0 EXCEPT !.esc = "none", !.qs = ""]
      n == Len(g.st)
      start == ProcessChar([g EXCEPT !.st = <<>>, !.raw = <<g0.qs>>], g0.qs)
      undone == [g EXCEPT !.st = Front(UndoHornU(@, n)), !.qesc = TRUE, !.qcAt = 0, !.qcKey = ""]
      literal == IF g.qcKey # "" THEN ProcessChar(undone, g.qcKey) ELSE undone
      keep == g.st[n].raw - 1
      popped == [g EXCEPT !.qcAt = 0, !.qcKey = "", !.st = Front(@),
                          !.raw = IF Len(@) > keep THEN SubSeq(@, 1, keep) ELSE @,
                          !.hist = IF @ = <<>> \/ n = 1 THEN <<>> ELSE Front(@)]
  IN IF g0.qs # "" /\ n = 2 THEN UpdateSpellState(start)
     ELSE CheckZwjfInitialBias(ResetBias(UpdateSpellState(
            IF g.qcAt = n THEN literal ELSE popped)))

RawText(raw) == [i \in DOMAIN raw |-> Lit(raw[i])]
ShouldAutoRestore(raw, text) ==
  /\ RawText(raw) # text
  /\ (\E i \in DOMAIN text : text[i] # Lit(text[i][1])) \/ Len(raw) <= Len(text)
(* dd or d9 typed, and no plain vowel after the last stroked d. *)
HasIntentionalStrokeD(raw, text) ==
  LET d == {i \in DOMAIN text : text[i][2] = "stroke"}
  IN /\ \E i \in 1 .. Len(raw) - 1 : raw[i] = "d" /\ raw[i + 1] \in {"d", "9"}
     /\ d # {}
     /\ \A i \in Max(d) + 1 .. Len(text) :
          text[i] \notin {Lit(v) : v \in {"a", "e", "i", "o", "u", "y"}}

(* Mutant: only the verdict kept from the last key counts. *)
CommitByVerdict(g0) ==
  LET text == Compose(g0.st)
  IN IF cfg.spell /\ cfg.restore /\ g0.dis /\ ShouldAutoRestore(g0.raw, text)
     THEN RawText(g0.raw) ELSE text

Unfinished(g) ==
  LET bareAA == Len(g.st) = 1 /\ g.st[1].base = "a" /\ g.st[1].mod = "circ"
  IN ~g.dis /\ g.st # <<>> /\ Validate(g.st) = "prefix" /\ ~bareAA
TextOf(g, unfinished) ==
  LET text == Compose(g.st)
      quick == (g.qs # "" /\ Len(g.raw) = 1) \/ g.only
      kept == \/ IsSpellExcluded(g.st)
              \/ /\ ~(unfinished /\ HasVowelState(g.st))
                 /\ HasIntentionalStrokeD(g.raw, text)
  IN IF \/ quick
        \/ cfg.spell /\ cfg.restore /\ g.qcAt = 0 /\ (g.dis \/ unfinished) /\ ~kept
     THEN IF ShouldAutoRestore(g.raw, text) THEN RawText(g.raw) ELSE text
     ELSE text
(* What Commit hands out; it resets the engine. *)
CommitText(g0) ==
  LET Of(g) == TextOf(g, Unfinished(g)) IN Of(RevertProvisionalOoTone(g0, " ").e)

(* The word an engine is seeded with when its composition is taken up again. *)
SeedFromText(text) ==
  LET g == [Fresh EXCEPT
              !.st = [i \in DOMAIN text |->
                        [base |-> text[i][1], mod |-> text[i][2], tone |-> text[i][3],
                         syn |-> FALSE, raw |-> i, traw |-> 0]],
              !.raw = [i \in DOMAIN text |-> text[i][1]]]
  IN Biased(UpdateSpellState(g))

Init ==
  /\ sc \in Scenarios
  /\ e = Fresh
  /\ pushed = 0
  /\ backs = 0
  /\ before = [letters |-> <<>>, raw |-> <<>>, key |-> ""]

PressKey(k) ==
  /\ pushed < sc.len
  /\ e' = PushKey(e, k)
  /\ pushed' = pushed + 1
  /\ before' = [letters |-> Bases(e.st), raw |-> e.raw, key |-> k]
  /\ UNCHANGED <<sc, backs>>

PressBackspace ==
  /\ backs < sc.back /\ e.st # <<>>
  /\ e' = Backspace(e)
  /\ backs' = backs + 1
  /\ before' = [letters |-> <<>>, raw |-> <<>>, key |-> ""]
  /\ UNCHANGED <<sc, pushed>>

CommitWord ==
  /\ pushed > 0
  /\ e' = Fresh
  /\ pushed' = 0 /\ backs' = 0 /\ before' = [letters |-> <<>>, raw |-> <<>>, key |-> ""]
  /\ UNCHANGED sc

(* The user goes back into the word just committed. *)
Revive ==
  /\ sc.revive /\ pushed > 0 /\ backs = 0 /\ e.st # <<>>
  /\ \E t \in {CommitText(e)} :
       /\ \A i \in DOMAIN t : t[i][1] \notin Digits \union {"[", "]"}
       /\ e' = SeedFromText(t)
  /\ pushed' = pushed
  /\ backs' = backs + 1
  /\ before' = [letters |-> <<>>, raw |-> <<>>, key |-> ""]
  /\ UNCHANGED sc

Next == (\E k \in sc.keys : PressKey(k)) \/ PressBackspace \/ CommitWord \/ Revive
Spec == Init /\ [][Next]_vars

-----------------------------------------------------------------------------
(* The engine's enumerations, and indexes that stay near the keys typed.      *)
TypeOK ==
  /\ e.esc \in {"none", "tone", "circ", "horn", "breve", "stroke", "modifier"}
  /\ e.bias \in {"unknown", "hard", "soft", "vietnamese"}
  /\ \A i \in DOMAIN e.st : e.st[i].raw \in 1 .. sc.len + 1 /\ e.st[i].traw \in 0 .. sc.len + 1
  /\ e.qcAt \in 0 .. 2 * sc.len

Toned(st) == {i \in DOMAIN st : HasTone(st[i])}
InsertKey(k) == ClassifyKey(k) \in {"HornInsertO", "HornInsertU"} \union UserModifiers
HasMarks(t) == \E i \in DOMAIN t : t[i] # Lit(t[i][1])

(* Keys after the tone key keep moving the tone: in a syllable the validator  *)
(* accepts, typed with the spelling check on, it stands where FindToneTarget  *)
(* would put it now, unless rule P4 forbids the move. (A horned vowel that a  *)
(* single key inserts is left out: its handlers do not move the tone.)        *)
ToneInPlace ==
  (/\ backs = 0 /\ cfg.spell /\ ~cfg.quick
   /\ \A i \in DOMAIN e.st : ~e.st[i].syn /\ ~InsertKey(e.raw[e.st[i].raw])
   /\ Validate(e.st) = "valid")
    => \A i \in Toned(e.st) :
         i = Target(e.st) \/ IsToneRelocBlockedByP4(e.st, Target(e.st), cfg.modern)

(* As long as nothing is taken back, each letter's rawIdx is the position of  *)
(* the key it came from in rawInput_, in the letters' order, whatever keys an *)
(* escape has erased before it: Backspace cuts rawInput_ there.               *)
KeysPointHome ==
  (backs = 0 /\ ~cfg.quick /\ ~cfg.qstart /\ ~cfg.qend)
    => /\ \A i \in DOMAIN e.st :
            /\ e.st[i].raw <= Len(e.raw)
            /\ \/ e.st[i].syn \/ InsertKey(e.raw[e.st[i].raw])
               \/ e.raw[e.st[i].raw] = e.st[i].base
       /\ \A i \in 1 .. Len(e.st) - 1 : e.st[i].raw < e.st[i + 1].raw

(* Commit lets no misspelling with marks through while checking and restoring *)
(* are on: what it hands out with a mark is a complete syllable, or an        *)
(* excluded word, a d stroked on purpose, a lone roofed a, a quick consonant, *)
(* or has an oo whose tone the commit itself takes back.                      *)
MarkedIsSyllable ==
  \A t \in {CommitText(e)} :
     (/\ cfg.spell /\ cfg.restore /\ e.qcAt = 0 /\ HasMarks(t)
      /\ RevertProvisionalOoTone(e, " ").e = e /\ ~IsSpellExcluded(e.st)
      /\ ~HasIntentionalStrokeD(e.raw, t) /\ Toneless(t) # <<<<"a", "circ">>>>)
     => Validate(SeedFromText(t).st) = "valid"

(* A tone key pressed twice means the letter: the second press of the key     *)
(* that toned a word leaves the letters it had before the first, plus the     *)
(* key, no tone, and a raw input in which the key occurs once.                *)
DoublePress ==
  [][(/\ before'.key # "" /\ before'.key = before.key
      /\ e'.esc = "tone" /\ e.esc # "tone" /\ Len(e.st) = Len(before.letters)
      /\ Cardinality(Toned(e.st)) = 1)
       => /\ Bases(e'.st) = Append(before.letters, before.key)
          /\ Toned(e'.st) = {}
          /\ IsSuffix(<<"o", "o">>, before.letters) \/ e'.raw = Append(before.raw, before.key)]_vars

(* "Trim rawInput_ to the position when this state was created ... so         *)
(* backspace removes all associated raw entries" (TypingEngine.cpp:1887): a   *)
(* word erased to nothing leaves nothing to be restored later.                *)
EmptyIsFresh == e.st = <<>> => e.raw = <<>>

(* The word on the screen is Vietnamese while it looks so: the tone stands    *)
(* where the syllable wants it now, and no marked misspelling is committed    *)
(* (RelocateToneToTarget, Commit).                                            *)
SyllableIsRight == ToneInPlace /\ MarkedIsSyllable

(* Letters and raw keys belong together, so that Backspace and restoring take *)
(* away and bring back what was typed (rawIdx, EraseConsumedRaw).             *)
KeysStayHome == TypeOK /\ KeysPointHome
=============================================================================
