----------------------------- MODULE Phonology ------------------------------
(* The pure part of the typing engine: which letters may follow one another   *)
(* in a Vietnamese syllable (PhonotacticsValidator.cpp), where the tone mark  *)
(* goes (Phonotactics.cpp) and what makes a word look English                 *)
(* (EnglishProtection.h).                                                     *)
(*                                                                            *)
(* A word is a sequence of character states: base letter (lower case), mod    *)
(* (the roof, breve, horn or stroke on it) and tone.  A marked vowel is named *)
(* by the Telex keys that type it: "aa" is a with a roof, "aw" with a breve,  *)
(* "ow" and "uw" carry a horn.                                                *)
EXTENDS Naturals, Sequences, SequencesExt

IsVowel(s) == s.base \in {"a", "e", "i", "o", "u", "y"}
IsD(s) == s.base = "d"
HasMod(s) == s.mod # "none"
HasTone(s) == s.tone # "none"
Bases(w) == [i \in DOMAIN w |-> w[i].base]
Last2(w) == <<w[Len(w) - 1], w[Len(w)]>>

-----------------------------------------------------------------------------
(* Tables.                                                                    *)

Marked(s) ==
  CASE s.mod = "none" -> s.base
    [] s.mod = "circ" -> [a |-> "aa", e |-> "ee", o |-> "oo"][s.base]
    [] s.mod = "breve" -> "aw"
    [] OTHER -> [o |-> "ow", u |-> "uw"][s.base]

Single == {"a", "aa", "aw", "e", "ee", "i", "o", "oo", "ow", "u", "uw", "y"}
(* Nuclei that take a final consonant, and nuclei that do not. *)
Open ==
  {<<v>> : v \in Single} \union
  { <<"o", "a">>, <<"i", "ee">>, <<"o", "aw">>, <<"o", "e">>, <<"o", "o">>, <<"u", "aa">>,
    <<"u", "ee">>, <<"u", "oo">>, <<"u", "ow">>, <<"u", "y">>, <<"uw", "ow">>, <<"y", "ee">>,
    <<"u", "y", "ee">> }
Closed ==
  { <<"a", "i">>, <<"a", "o">>, <<"a", "u">>, <<"a", "y">>, <<"aa", "u">>, <<"aa", "y">>,
    <<"e", "o">>, <<"ee", "u">>, <<"i", "a">>, <<"i", "u">>, <<"o", "i">>, <<"oo", "i">>,
    <<"ow", "i">>, <<"u", "a">>, <<"u", "i">>, <<"uw", "a">>, <<"uw", "i">>, <<"uw", "u">>,
    <<"i", "ee", "u">>, <<"o", "a", "i">>, <<"o", "a", "y">>, <<"o", "e", "o">>,
    <<"u", "aa", "y">>, <<"u", "oo", "i">>, <<"u", "y", "a">>, <<"u", "y", "u">>,
    <<"uw", "ow", "i">>, <<"uw", "ow", "u">>, <<"y", "ee", "u">> }
Nuclei == Open \union Closed
RequiresEnd == {<<"aa">>}

Finals == {<<"c">>, <<"k">>, <<"m">>, <<"n">>, <<"p">>, <<"t">>,
           <<"c", "h">>, <<"n", "g">>, <<"n", "h">>}
NoChNh == Finals \ {<<"c", "h">>, <<"n", "h">>}
Six == {<<"c">>, <<"m">>, <<"n">>, <<"n", "g">>, <<"p">>, <<"t">>}
GetAllowedFinals(nuc) ==
  CASE nuc \in {<<"a">>, <<"e">>, <<"o", "a">>} -> Finals
    [] nuc \in {<<"aa">>, <<"aw">>, <<"o">>, <<"oo">>, <<"u">>, <<"uw">>} -> NoChNh
    [] nuc = <<"ee">> -> Finals \ {<<"k">>, <<"n", "g">>}
    [] nuc = <<"i">> -> Finals \ {<<"n", "g">>}
    [] nuc = <<"ow">> -> {<<"m">>, <<"n">>, <<"p">>, <<"t">>}
    [] nuc = <<"y">> -> {<<"t">>}
    [] nuc = <<"o", "e">> -> {<<"m">>, <<"n">>, <<"n", "g">>, <<"t">>}
    [] nuc = <<"o", "o">> -> {<<"c">>, <<"n", "g">>}
    [] nuc = <<"u", "aa">> -> {<<"n">>, <<"n", "g">>, <<"t">>}
    [] nuc = <<"u", "ee">> -> {<<"c", "h">>, <<"n">>, <<"n", "h">>}
    [] nuc = <<"u", "y">> -> {<<"c", "h">>, <<"n">>, <<"n", "h">>, <<"p">>, <<"t">>}
    [] nuc = <<"u", "y", "ee">> -> {<<"n">>, <<"t">>}
    [] OTHER -> Six          \* i-ee, o-aw, u-oo, u-ow, uw-ow, y-ee

Onset1 == {"b", "c", "d", "g", "h", "k", "l", "m", "n", "p", "q", "r", "s", "t", "v", "x"}
Zwjf == {"z", "w", "j", "f"}
Onset2 == {<<"c", "h">>, <<"g", "h">>, <<"k", "h">>, <<"n", "g">>, <<"n", "h">>,
           <<"p", "h">>, <<"t", "h">>, <<"t", "r">>}

-----------------------------------------------------------------------------
(* Is the word a syllable, the beginning of one, or neither?                  *)

ParseInitialConsonant(w, zwjf) ==
  CASE IsVowel(w[1]) -> 0
    [] Len(w) >= 3 /\ Bases(SubSeq(w, 1, 3)) = <<"n", "g", "h">> -> 3
    [] Len(w) >= 2 /\ Bases(SubSeq(w, 1, 2)) \in Onset2 -> 2
    [] w[1].base \in Onset1 \union (IF zwjf THEN Zwjf ELSE {}) -> 1
    [] OTHER -> 0

ParseFinalConsonant(fin) ==
  CASE Len(fin) >= 2 /\ SubSeq(fin, 1, 2) \in Finals -> 2
    [] fin # <<>> /\ SubSeq(fin, 1, 1) \in Finals -> 1
    [] OTHER -> 0

VowelRun(w) == CHOOSE n \in 0 .. Len(w) : /\ \A i \in 1 .. n : IsVowel(w[i])
                                          /\ n = Len(w) \/ ~IsVowel(w[n + 1])
IsVowelPrefix(nuc) == \E n \in Nuclei : Len(n) > Len(nuc) /\ SubSeq(n, 1, Len(nuc)) = nuc

(* The nuclei one mark, or the two horns of uo, make of these vowels. *)
ModifiedVowels(v) ==
  LET nuc == [i \in DOMAIN v |-> Marked(v[i])]
      marks(i) == {x \in Single \ {v[i].base} : x \in CASE v[i].base = "a" -> {"aa", "aw"}
                                                       [] v[i].base = "e" -> {"ee"}
                                                       [] v[i].base = "o" -> {"oo", "ow"}
                                                       [] v[i].base = "u" -> {"uw"}
                                                       [] OTHER -> {}}
  IN Nuclei \intersect
       (UNION {{[nuc EXCEPT ![i] = x] : x \in marks(i)} : i \in {j \in DOMAIN v : ~HasMod(v[j])}}
        \union (IF Len(v) = 3 /\ SubSeq(nuc, 1, 2) = <<"u", "o">>
                THEN {<<"uw", "ow", nuc[3]>>} ELSE {}))

FirstTone(w) == IF \E i \in DOMAIN w : HasTone(w[i])
                THEN w[CHOOSE i \in DOMAIN w : HasTone(w[i]) /\ \A j \in 1 .. i - 1 : ~HasTone(w[j])].tone
                ELSE "none"

(* The vowels v, written nuc, with the coda fin. *)
ValidateRhyme(v, nuc, fin, tone) ==
  LET whole == ParseFinalConsonant(fin) = Len(fin)
      could(n) == fin = <<>> \/ (n \in Open /\ whole)
      grown == CASE fin = <<"c">> -> {<<"c", "h">>}
                 [] fin = <<"n">> -> {<<"n", "g">>, <<"n", "h">>}
                 [] OTHER -> {}
      Coded(allowed) ==
        IF ~whole \/ (fin = <<"k">> /\ nuc # <<"aw">>) THEN "invalid"
        ELSE IF fin \notin allowed
             THEN IF grown \intersect allowed # {} THEN "prefix" ELSE "invalid"
        ELSE IF fin[1] \in {"p", "t", "c", "k"} /\ tone \in {"grave", "hook", "tilde"}
             THEN "invalid" ELSE "valid"
  IN CASE nuc \in Nuclei /\ fin = <<>> -> IF nuc \in RequiresEnd THEN "prefix" ELSE "valid"
       [] nuc \in Open /\ fin # <<>> -> Coded(GetAllowedFinals(nuc))
       [] OTHER ->
            IF \/ nuc \notin Nuclei /\ Len(v) <= 2 /\ IsVowelPrefix(nuc) /\ fin = <<>>
               \/ \E n \in ModifiedVowels(v) : could(n)
            THEN "prefix" ELSE "invalid"

ValidateDecomposition(w, initialLen) ==
  LET rest == SubSeq(w, initialLen + 1, Len(w))
      Split(vl) == LET v == SubSeq(rest, 1, vl)
                   IN ValidateRhyme(v, [i \in 1 .. vl |-> Marked(v[i])],
                                    Bases(SubSeq(rest, vl + 1, Len(rest))), FirstTone(w))
  IN IF rest = <<>> THEN "prefix"
     ELSE IF VowelRun(rest) \notin 1 .. 3 THEN "invalid"
     ELSE Split(VowelRun(rest))

IsValidConsonantPrefix(w, zwjf) ==
  LET b == Bases(w)
  IN \/ Len(b) = 1 /\ b[1] \in Onset1 \union (IF zwjf THEN Zwjf ELSE {})
     \/ b \in Onset2
     \/ b = <<"n", "g", "h">>

Best(results) == CASE "valid" \in results -> "valid"
                   [] "prefix" \in results -> "prefix"
                   [] OTHER -> "invalid"

(* k, gh and ngh before a front vowel, c before the others, q before u; oe    *)
(* and o-aw only after some onsets.                                           *)
OnsetFits(w, il) ==
  LET on == Bases(SubSeq(w, 1, il))
      v  == w[il + 1]
      front == v.base \in {"e", "i", "y"}
  IN /\ on \in {<<"k">>, <<"g", "h">>, <<"n", "g", "h">>} => front
     /\ on = <<"c">> => ~front
     /\ on = <<"q">> => v.base = "u"
     /\ (/\ Len(w) > il + 1 /\ v.base = "o" /\ ~HasMod(v)
         /\ \/ w[il + 2].base = "e" /\ ~HasMod(w[il + 2])
            \/ w[il + 2].base = "a" /\ w[il + 2].mod = "breve")
        => on \in {<<>>, <<"h">>, <<"l">>, <<"t">>, <<"x">>, <<"c", "h">>, <<"k", "h">>,
                   <<"n", "g">>, <<"n", "h">>, <<"t", "r">>}

(* gi and qu may be read as an onset of two letters as well. *)
ValidateImpl(w, zwjf) ==
  LET il == ParseInitialConsonant(w, zwjf)
      two == /\ Len(w) > 2 /\ IsVowel(w[3])
             /\ <<w[1].base, w[2].base>> \in {<<"g", "i">>, <<"q", "u">>}
  IN IF il = 0 /\ ~IsVowel(w[1]) THEN "invalid"
     ELSE IF il = Len(w) \/ ~IsVowel(w[il + 1])
          THEN IF IsValidConsonantPrefix(w, zwjf) THEN "prefix" ELSE "invalid"
     ELSE IF ~OnsetFits(w, il) THEN "invalid"
     ELSE IF w[1].base = "q" /\ Len(w) = 2 THEN "prefix"
     ELSE Best({ValidateDecomposition(w, i) : i \in {il} \union (IF two THEN {2} ELSE {})})

(* One tone at most, and on a marked vowel if there is one. *)
CheckToneModInvariant(w) ==
  LET vowels == {i \in DOMAIN w : IsVowel(w[i])}
      toned  == {i \in vowels : HasTone(w[i])}
  IN /\ \A i, j \in toned : i = j
     /\ (\E i \in vowels : HasMod(w[i])) => \A i \in toned : HasMod(w[i])

ValidateSyllableState(w, zwjf) ==
  IF w = <<>> THEN "prefix"
  ELSE IF CheckToneModInvariant(w) THEN ValidateImpl(w, zwjf) ELSE "invalid"

-----------------------------------------------------------------------------
(* Where the tone goes.                                                       *)

(* 0 no rule, 1 on the first vowel, 2 on the second, 3 on the second only     *)
(* when something follows.                                                    *)
DiphthongRule(modern, a, b) ==
  CASE <<a, b>> \in {<<"a", "i">>, <<"a", "o">>, <<"a", "u">>, <<"a", "y">>, <<"e", "i">>,
                     <<"e", "o">>, <<"e", "u">>, <<"i", "a">>, <<"i", "u">>, <<"o", "i">>,
                     <<"o", "u">>, <<"u", "a">>, <<"u", "i">>} -> 1
    [] <<a, b>> \in {<<"o", "a">>, <<"o", "e">>, <<"u", "y">>} -> IF modern THEN 2 ELSE 3
    [] <<a, b>> = <<"u", "e">> -> IF modern THEN 2 ELSE 1
    [] <<a, b>> = <<"u", "o">> -> IF modern THEN 2 ELSE 0
    [] <<a, b>> = <<"y", "u">> -> 3
    [] OTHER -> 0

IsTriphthong(b) == b \in {<<"o", "a", "i">>, <<"o", "e", "o">>, <<"u", "y", "a">>,
                          <<"u", "y", "u">>, <<"o", "a", "o">>, <<"o", "a", "y">>}

(* The last two of the vowels b decide, or of three the first two. *)
PairPosition(b, hasCoda, modern) ==
  LET n == Len(b)
      Placed(shifted, f, r) ==
        CASE r = 1 \/ (r = 3 /\ shifted /\ b[n] = b[n - 1]) -> f
          [] r = 0 -> n
          [] r = 2 -> f + 1
          [] OTHER -> IF f + 1 < n \/ hasCoda THEN f + 1 ELSE f
      From(shifted, f) == Placed(shifted, f, DiphthongRule(modern, b[f], b[f + 1]))
      Shift(shifted) == From(shifted, IF shifted THEN n - 2 ELSE n - 1)
  IN Shift(n >= 3 /\ DiphthongRule(modern, b[n - 2], b[n - 1]) # 0)

(* v: the vowels; the answer is an index into v, which is not empty. *)
FindTonePosition(v, hasCoda, modern) ==
  LET n == Len(v)
      horn  == {i \in 1 .. n : v[i].mod = "horn"}
      other == {i \in 1 .. n : v[i].mod \in {"circ", "breve"}}
  IN CASE horn # {} -> Max(horn)
       [] horn = {} /\ other # {} -> Min(other)
       [] horn \union other = {} /\ n = 1 -> 1
       [] OTHER -> IF modern /\ n >= 3 /\ IsTriphthong(Bases(SubSeq(v, n - 2, n))) THEN n - 1
                   ELSE IF Bases(v) = <<"u", "y", "e">> THEN n
                   ELSE PairPosition(Bases(v), hasCoda, modern)

(* The i of gi and the u of qu belong to the onset. *)
IsClusterConsonant(w, i) ==
  /\ i > 1
  /\ \/ /\ w[i].base = "i" /\ w[i - 1].base = "g"
        /\ i < Len(w) /\ IsVowel(w[i + 1])
     \/ w[i].base = "u" /\ w[i - 1].base = "q"

NucleusAt(w) == SelectSeq([i \in DOMAIN w |-> i],
                          LAMBDA i : IsVowel(w[i]) /\ ~IsClusterConsonant(w, i))

(* The index of the vowel a tone goes to; 0: there is none. *)
FindToneTarget(w, modern) ==
  LET Among(at) ==
        IF at = <<>> THEN 0
        ELSE at[FindTonePosition([k \in DOMAIN at |-> w[at[k]]], Last(at) < Len(w), modern)]
  IN Among(NucleusAt(w))

FindTonedVowelIndex(w) ==
  LET t == {i \in DOMAIN w : IsVowel(w[i]) /\ HasTone(w[i])} IN IF t = {} THEN 0 ELSE Min(t)
HasConsonantBetween(w, i, j) == \E k \in (Min({i, j}) + 1) .. (Max({i, j}) - 1) : ~IsVowel(w[k])

(* A tone does not move to the last of two vowels no rule is about. *)
IsToneRelocBlockedByP4(w, target, modern) ==
  LET LastOf(at, n) == /\ n >= 2 /\ target = at[n] /\ at[n] = at[n - 1] + 1
                       /\ DiphthongRule(modern, w[at[n - 1]].base, w[at[n]].base) = 0
      Blocked(at) == LastOf(at, Len(at))
  IN ~HasMod(w[target]) /\ Blocked(NucleusAt(w))

(* Letters after the last vowel. *)
Coda(w) == LET v == {i \in DOMAIN w : IsVowel(w[i])}
           IN Bases(SubSeq(w, (IF v = {} THEN 0 ELSE Max(v)) + 1, Len(w)))
HasVowelState(w) == \E i \in DOMAIN w : IsVowel(w[i])
HasStopFinalCoda(w) ==
  HasVowelState(w) /\ Coda(w) \in {<<"c">>, <<"k">>, <<"p">>, <<"t">>, <<"c", "h">>}

-----------------------------------------------------------------------------
(* Does the word look English?                                                *)

HardStarts ==
  { <<"c", "l">>, <<"c", "r">>, <<"b", "r">>, <<"b", "l">>, <<"d", "r">>, <<"f", "r">>, <<"f", "l">>,
    <<"g", "r">>, <<"g", "l">>, <<"p", "r">>, <<"p", "l">>, <<"s", "m">>, <<"s", "n">>, <<"s", "p">>,
    <<"s", "w">>, <<"s", "t">>, <<"s", "c">>, <<"s", "k">>, <<"s", "l">>, <<"w", "h">>, <<"w", "r">>,
    <<"k", "n">>, <<"p", "n">>, <<"p", "s">> }
IsHardEnglishStart(raw) == Len(raw) >= 2 /\ SubSeq(raw, 1, 2) \in HardStarts
IsHardEnglishEnd(c) == c \in {"x", "r", "z", "f", "s", "j"}

CheckSoftEnglishBias(w) ==
  /\ Len(w) >= 2 /\ w[1].base = "y" /\ w[2].base \in {"a", "o", "e"}
  /\ ~ /\ w[2].base = "e" /\ HasMod(w[2])
       /\ Len(w) > 2 => w[3].base \in {"u", "n", "m", "t"}

(* Two vowel groups with a consonant between them, unless the first is marked *)
(* and the consonant could be its coda.                                       *)
HasStructuralVCVPattern(w) ==
  Len(w) >= 4 /\
  \E i \in DOMAIN w : \E k \in i + 1 .. Len(w) - 1 : \E j \in k + 1 .. Len(w) :
    /\ \A x \in i .. k - 1 : IsVowel(w[x])
    /\ i = 1 \/ ~IsVowel(w[i - 1])
    /\ \A x \in k .. j - 1 : ~IsVowel(w[x])
    /\ IsVowel(w[j])
    /\ ~ /\ j = k + 1
         /\ \E x \in i .. k - 1 : HasMod(w[x])
         /\ w[k].base \in {"c", "k", "m", "n", "p", "t"}

HasInvalidAdjacentVowelPair(w) ==
  \E i \in 1 .. Len(w) - 1 :
    /\ IsVowel(w[i]) /\ IsVowel(w[i + 1]) /\ ~HasMod(w[i]) /\ ~HasMod(w[i + 1])
    /\ ~IsClusterConsonant(w, i)
    /\ <<w[i].base, w[i + 1].base>> \notin
          {<<"i", "e">>, <<"y", "a">>, <<"y", "e">>, <<"o", "o">>}
    /\ \A m \in BOOLEAN : DiphthongRule(m, w[i].base, w[i + 1].base) = 0

(* Two or more letters after the last vowel (or a leading d) that are no coda. *)
IsInvalidVietnameseCoda(w) ==
  LET stop == {i \in DOMAIN w : IsVowel(w[i]) \/ (i = 1 /\ IsD(w[i]))}
      n == Len(w) - Max(stop)
  IN Len(w) >= 3 /\ stop # {} /\
     (n >= 3 \/ (n = 2 /\ Bases(Last2(w)) \notin {<<"c", "h">>, <<"n", "g">>, <<"n", "h">>}))

LooksHard(w) ==
  \/ /\ Len(w) >= 2 /\ ~IsVowel(w[1]) /\ ~IsVowel(w[2]) /\ ~IsD(w[1])
     /\ <<w[1].base, w[2].base>> \in HardStarts \/ w[1].base = "q"
  \/ /\ Len(w) >= 3 /\ IsHardEnglishEnd(w[Len(w)].base) /\ IsVowel(w[Len(w) - 1])
  \/ IsInvalidVietnameseCoda(w)

CheckEnglishBias(w, bias) ==
  CASE bias = "vietnamese" -> bias
    [] bias # "vietnamese" /\ LooksHard(w) -> "hard"
    [] bias = "unknown" /\ ~LooksHard(w) /\ CheckSoftEnglishBias(w) -> "soft"
    [] OTHER -> bias
RecalcEnglishBias(w) ==
  LET prefixes == {SubSeq(w, 1, n) : n \in 2 .. Len(w)}
  IN CASE \E p \in prefixes : LooksHard(p) -> "hard"
       [] \E p \in prefixes : CheckSoftEnglishBias(p) -> "soft"
       [] OTHER -> "unknown"

(* Words like "passive" and "power" are let alone. *)
IsBlockedEnglishTone(raw) ==
  \E p \in {<<"p", "a", "s">>, <<"g", "u", "e", "s">>, <<"p", "e", "r">>} : IsPrefix(p, raw)
IsBlockedEnglishModifier(raw) ==
  \E p \in {<<"p", "o", "w">>, <<"u", "p", "w">>} : IsPrefix(p, raw)
=============================================================================
