---------------------------- MODULE TsfLexiconMC ----------------------------
(***************************************************************************)
(* TsfLexicon for TLC: two lexicons that differ in the dictionary only (no *)
(* new engine needed), one that differs in all three parts.  In a mild     *)
(* behaviour the lexicon changes once and nothing fails that is not tried  *)
(* again with the next key.                                                *)
(***************************************************************************)
EXTENDS TsfLexicon

VARIABLE mild

MCLexicons == {[excl |-> "e1", dict |-> "d1", sug |-> TRUE],
               [excl |-> "e1", dict |-> "d2", sug |-> TRUE],
               [excl |-> "e2", dict |-> "d3", sug |-> FALSE]}

ForGood == {"reads", "create"}   \* failures that are not made good
MildNext ==
  \/ \E x \in Results \ ForGood : Construct(x) \/ Key(x) \/ StartWord(x) \/ EndWord(x) \/ Focus(x)
  \/ Unblock \/ (\E l \in Lexicons : ChangeLexicon(l)) \/ PublishLexicon \/ PublishGeneration
  \/ \E s, g \in {0, 1}, e \in BOOLEAN : WriteSharedState(s, g, e)

MCInit == mild \in BOOLEAN /\ Init
MCNext == /\ \/ mild /\ MildNext /\ changes' <= 1
             \/ ~mild /\ Next /\ changes' + bumps' <= 2
          /\ UNCHANGED mild
MCSpec == MCInit /\ [][MCNext]_<<vars, mild>> /\ Fairness

(* Once the lexicon on disk no longer changes, the typing thread comes to use *)
(* it, whatever was staged before and whichever read of the wire, of          *)
(* SharedState or compilation failed once.                                    *)
MildLexiconIsActivated ==
  <>[](mild => /\ ctl.engine.cfg.excl = disk.excl /\ ctl.engine.cfg.sug = disk.sug
               /\ disk.sug => ctl.engine.dict = disk.dict)

(* Once SharedState is no longer written, the typing thread comes to use its  *)
(* settings.                                                                  *)
MildSettingsAreActivated == <>[](mild => ctl.engine.cfg.other = shared.other)

(* Changes are taken up, and never inside a word: lexicon and settings of a    *)
(* thread in which the user types become those on disk and in SharedState      *)
(* (CheckConfigEvent, RefreshUserDictionarySnapshot, TryPromotePendingConfig). *)
ChangesAreTakenUp == NoMidWordSwap /\ MildLexiconIsActivated /\ MildSettingsAreActivated
=============================================================================
