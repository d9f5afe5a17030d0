-------------------------- MODULE TsfLexiconProofs --------------------------
(***************************************************************************)
(* Proofs about TsfLexicon, for every set of lexicons and every number of  *)
(* changes and failures: the engine of a typing thread is the one its      *)
(* active configuration asks for, its exclusions and dictionary belong to  *)
(* one lexicon, and no word in progress has its engine replaced.           *)
(*                                                                         *)
(* None of the three is inductive: which lexicon the next engine will have *)
(* depends on what is staged.  The invariant (Steady) follows the lexicon  *)
(* that the next promotion makes active: pendingConfig_ and the staged     *)
(* dictionary, or the active ones where nothing is staged, belong          *)
(* together (NextIsWhole) before anything is built from them.              *)
(*                                                                         *)
(* Between two calls of one handler that is all there is: TryAttach may    *)
(* give the engine of the old configuration the new dictionary, if a new   *)
(* engine is due and the promotion that builds it follows in the same call *)
(* (Ready).                                                                *)
(*                                                                         *)
(* The second part is about TsfComposition and has two invariants.         *)
(* FieldsInv: a field for a password has no word.  WordInv: the word on    *)
(* the screen is the engine's; a callback that goes through from any state *)
(* of WordInv ends with no composition, or with one it has just written    *)
(* (KeyGoesThrough), so what has to be carried from key to key is where a  *)
(* composition may not be: under a claim on the space bar, behind an undo  *)
(* that is due, between the callbacks of a key the application keeps.      *)
(***************************************************************************)
EXTENDS TsfLexicon, TsfComposition, SequenceTheorems, WellFoundedInduction, TLAPS

-----------------------------------------------------------------------------
(* Types.                                                                   *)

EngineRec == [cfg : Config, dict : Dict, dead : BOOLEAN, miscast : BOOLEAN]
Controllers ==
  [active : Config, engine : EngineRec, activeDict : Dict, pending : Config, pendingDict : Dict,
   staged : BOOLEAN, recreate : BOOLEAN, needsReload : BOOLEAN, genKnown : BOOLEAN, gen : Nat,
   cached : Nat, wireActive : BOOLEAN, lastEpoch : Nat, enabled : BOOLEAN, busy : BOOLEAN]

EnvTypes ==
  /\ disk \in Lexicons /\ wire \in [id : Nat, lex : Lexicons] /\ announced \in BOOLEAN
  /\ shared \in [epoch : Nat, cgen : Nat, other : Nat, enabled : BOOLEAN]

-----------------------------------------------------------------------------
(* The invariant.                                                           *)

\* The lexicon fields of cfg and the dictionary d are those of one lexicon.
OfOne(cfg, d) == \E l \in Lexicons : l.sug = cfg.sug /\ l.excl = cfg.excl /\ l.dict = d

\* What the next promotion makes the active configuration and dictionary.
NextCfg(c)  == IF c.pending # NoConfig THEN c.pending ELSE c.active
NextDict(c) == IF c.pendingDict # None THEN c.pendingDict ELSE c.activeDict

\* The parts of the invariant: a dictionary is pending only as part of a staged
\* lexicon; what comes next is whole; what is pending but not staged has the
\* active lexicon; a new configuration has its engine scheduled; the engine was
\* made from the active configuration; settings come from a real SharedState.
DictIsStaged(c)      == c.pendingDict # None => c.staged
NextIsWhole(c)       == NextCfg(c).sug => OfOne(NextCfg(c), NextDict(c))
LexiconOnlyStaged(c) ==
  (~c.staged /\ c.pending # NoConfig) => (c.pending.excl = c.active.excl /\ c.pending.sug = c.active.sug)
Scheduled(c)         == (c.pending # NoConfig /\ c.pending # c.active) => c.recreate
FromActive(c)        == c.engine # NoEngine => (c.engine.cfg = c.active /\ ~c.engine.miscast)
SettingsAreReal(c)   == c.active.other >= 0 /\ (c.pending # NoConfig => c.pending.other >= 0)

\* All of it but the engine.
Sound(c) == /\ c \in Controllers /\ DictIsStaged(c) /\ NextIsWhole(c) /\ LexiconOnlyStaged(c)
            /\ Scheduled(c) /\ FromActive(c) /\ SettingsAreReal(c)

\* A Rust engine with a handle has the dictionary of its lexicon.
EngineIsWhole(c) == (c.engine.cfg.sug /\ ~c.engine.dead) => OfOne(c.active, c.engine.dict)

Steady(c) == Sound(c) /\ EngineIsWhole(c)

\* The state in which TryPromote is called: steady, or about to get a new engine.
Ready(c) == Sound(c) /\ (EngineIsWhole(c) \/ (c.recreate /\ CanPromote(c)))

\* d uses the configuration and the engine of c.
SameUse(c, d) == /\ d.active = c.active /\ d.engine = c.engine /\ (c.recreate => d.recreate)

\* d has the engine of c if there was a word in progress, which it leaves alone.
Holds(c, d) == d.busy = c.busy /\ (~CanPromote(c) => d.engine = c.engine)

-----------------------------------------------------------------------------
(* The methods of the model as compositions of functions on records.        *)

\* TryPromotePendingConfig: the pending configuration is active, ...
Moved(c) == [c EXCEPT !.active = IF c.pending # NoConfig THEN c.pending ELSE @, !.pending = NoConfig]

\* ... there is a new engine, or the old one has the staged dictionary, ...
EngineOf(c, d, x) == IF c.recreate \/ c.engine = NoEngine THEN Recreate(d, x) ELSE TryAttach(d)

\* ... and nothing is staged that has been taken.
Cleared(d) == [d EXCEPT !.staged = @ /\ (d.pendingDict # None \/ d.needsReload)]

\* Nothing to promote, or a word in progress.
Blocked(c) == (~c.recreate /\ c.pendingDict = None) \/ ~CanPromote(c)

\* RefreshUserDictionarySnapshot after the generation has been noted.
ReadLexicon(d, allowDisk, x) ==
  IF wire.id > 0 /\ x \notin {"wire", "reads"}
  THEN IF d.cached = wire.id THEN [d EXCEPT !.wireActive = TRUE, !.needsReload = FALSE]
       ELSE IF x = "compile" THEN [d EXCEPT !.wireActive = TRUE, !.cached = 0]
       ELSE Stage([d EXCEPT !.wireActive = TRUE, !.cached = wire.id], wire.lex)
  ELSE IF allowDisk /\ x # "reads" THEN Stage(d, disk) ELSE d

\* ApplySharedState before the lexicon is read.
Taken(c) ==
  LET lex == IF c.pending # NoConfig /\ c.staged THEN c.pending ELSE c.active
  IN [c EXCEPT !.enabled = shared.enabled, !.recreate = TRUE,
               !.pending = [excl |-> lex.excl, sug |-> lex.sug, other |-> shared.other]]

\* CheckConfigEvent after the first promotion.
Reloaded(d, allowDisk, x) ==
  IF d.needsReload \/ d.wireActive THEN Refresh(d, d.gen, allowDisk, x) ELSE d

Checked(d, allowDisk, x) ==
  IF shared.epoch = d.lastEpoch THEN TryPromote(TryAttach(Reloaded(d, allowDisk, x)), x)
  ELSE IF x = "shared" THEN d
  ELSE ApplySharedState([d EXCEPT !.lastEpoch = shared.epoch], allowDisk, x)

\* A choice from one element is that element: Then(c, Method) is Method(c).
LEMMA OnlyOne ==
  ASSUME NEW v, NEW S, S = {v} PROVE (CHOOSE d \in S : TRUE) = v
  OBVIOUS

\* TryPromotePendingConfig, step by step.
LEMMA PromoteIs ==
  ASSUME NEW c, NEW x
  PROVE  TryPromote(c, x) = IF Blocked(c) THEN c ELSE Cleared(EngineOf(c, Moved(c), x))
<1> DEFINE E(d) == EngineOf(c, d, x)
           C(d) == Cleared(d)
<1>1. Then(Moved(c), E) = E(Moved(c))
  <2>1. {E(e) : e \in {Moved(c)}} = {E(Moved(c))}
    <3> HIDE DEF E
    <3> QED OBVIOUS
  <2> HIDE DEF E
  <2> QED BY <2>1, OnlyOne DEF Then
<1>2. Then(E(Moved(c)), C) = C(E(Moved(c)))
  <2> DEFINE m == E(Moved(c))
  <2>1. {C(e) : e \in {m}} = {C(m)}
    <3> HIDE DEF C, m
    <3> QED OBVIOUS
  <2> HIDE DEF C, m
  <2>2. Then(m, C) = C(m)
    BY <2>1, OnlyOne DEF Then
  <2> QED BY <2>2 DEF m
<1>3. TryPromote(c, x) = IF Blocked(c) THEN c ELSE Then(Then(Moved(c), E), C)
  BY DEF TryPromote, Blocked, Moved, EngineOf, Cleared
<1> QED BY <1>1, <1>2, <1>3

\* RefreshUserDictionarySnapshot notes the generation and then reads.
LEMMA RefreshIs ==
  ASSUME NEW c, NEW g, NEW allowDisk, NEW x
  PROVE  Refresh(c, g, allowDisk, x) = ReadLexicon(NoteGeneration(c, g), allowDisk, x)
<1> DEFINE R(d) == ReadLexicon(d, allowDisk, x)
           m == NoteGeneration(c, g)
<1>1. {R(e) : e \in {m}} = {R(m)}
  <2> HIDE DEF R, m
  <2> QED OBVIOUS
<1>2. Refresh(c, g, allowDisk, x) = Then(m, R)
  BY DEF Refresh, ReadLexicon
<1>3. Then(m, R) = R(m)
  <2> HIDE DEF R, m
  <2> QED BY <1>1, OnlyOne DEF Then
<1> QED BY <1>2, <1>3

\* ApplySharedState takes the settings, reads the lexicon and promotes.
LEMMA ApplyIs ==
  ASSUME NEW c, NEW allowDisk, NEW x
  PROVE  ApplySharedState(c, allowDisk, x) = TryPromote(Refresh(Taken(c), shared.cgen, allowDisk, x), x)
<1> DEFINE R(d) == Refresh(d, shared.cgen, allowDisk, x)
           P(d) == TryPromote(d, x)
           t == Taken(c)
           r == R(t)
<1>1. {R(e) : e \in {t}} = {R(t)}
  <2> HIDE DEF R, t
  <2> QED OBVIOUS
<1>2. Then(t, R) = r
  <2> HIDE DEF R, t
  <2> QED BY <1>1, OnlyOne DEF Then
<1>3. {P(e) : e \in {r}} = {P(r)}
  <2> HIDE DEF P, r
  <2> QED OBVIOUS
<1>4. Then(r, P) = P(r)
  <2> HIDE DEF P, r
  <2> QED BY <1>3, OnlyOne DEF Then
<1>5. ApplySharedState(c, allowDisk, x) = Then(Then(t, R), P)
  BY DEF ApplySharedState, Taken
<1> QED BY <1>2, <1>4, <1>5

\* CheckConfigEvent promotes and then checks lexicon and SharedState.
LEMMA CheckIs ==
  ASSUME NEW c, NEW allowDisk, NEW x
  PROVE  CheckConfig(c, allowDisk, x) = Checked(TryPromote(c, x), allowDisk, x)
<1> DEFINE P(d) == TryPromote(d, x)
           R(d) == Reloaded(d, allowDisk, x)
           K(d) == IF shared.epoch = d.lastEpoch THEN Then(Then(R(d), TryAttach), P)
                   ELSE IF x = "shared" THEN d
                   ELSE ApplySharedState([d EXCEPT !.lastEpoch = shared.epoch], allowDisk, x)
           m == P(c)
           r == R(m)
           a == TryAttach(r)
<1>1. {K(e) : e \in {m}} = {K(m)}
  <2> HIDE DEF K, m
  <2> QED OBVIOUS
<1>2. Then(m, K) = K(m)
  <2> HIDE DEF K, m
  <2> QED BY <1>1, OnlyOne DEF Then
<1>3. CheckConfig(c, allowDisk, x) = Then(m, K)
  BY DEF CheckConfig, Reloaded
<1>4. {TryAttach(e) : e \in {r}} = {a}
  <2> HIDE DEF r
  <2> QED OBVIOUS
<1>5. Then(r, TryAttach) = a
  <2> HIDE DEF r, a
  <2> QED BY <1>4, OnlyOne DEF Then
<1>6. {P(e) : e \in {a}} = {P(a)}
  <2> HIDE DEF P, a
  <2> QED OBVIOUS
<1>7. Then(a, P) = P(a)
  <2> HIDE DEF P, a
  <2> QED BY <1>6, OnlyOne DEF Then
<1> QED BY <1>2, <1>3, <1>5, <1>7 DEF Checked

-----------------------------------------------------------------------------
(* What each method keeps.                                                  *)

\* Types of the constants' parts and of the fields of a controller.
LEMMA Samples ==
  ASSUME ParamAssumption
  PROVE  /\ NoConfig \in Config /\ Defaults \in Config /\ None \in Dict
         /\ \A l \in Lexicons : l.dict \in Dict /\ l.dict # None /\ l.sug \in BOOLEAN
                                /\ l.excl \in {k.excl : k \in Lexicons} \cup {None}
         /\ \A c \in Controllers : c.active \in Config /\ c.pending \in Config
                                   /\ c.engine \in EngineRec /\ c.engine.cfg \in Config
<1>1. NoConfig \in Config /\ Defaults \in Config /\ None \in Dict
  BY DEF NoConfig, Defaults, Config, Dict
<1>2. \A l \in Lexicons : l.dict \in Dict /\ l.dict # None /\ l.sug \in BOOLEAN
                          /\ l.excl \in {k.excl : k \in Lexicons} \cup {None}
  BY DEF ParamAssumption, Dict
<1>3. \A c \in Controllers : c.active \in Config /\ c.pending \in Config
                             /\ c.engine \in EngineRec /\ c.engine.cfg \in Config
  BY DEF Controllers, EngineRec
<1> QED BY <1>1, <1>2, <1>3

\* Staging a whole lexicon leaves what is in use alone, and what comes next whole.
LEMMA StageKeeps ==
  ASSUME ParamAssumption, NEW c \in Controllers, Sound(c), NEW l \in Lexicons
  PROVE  Sound(Stage(c, l)) /\ SameUse(c, Stage(c, l)) /\ Stage(c, l).busy = c.busy
<1> DEFINE p == IF c.pending = NoConfig THEN c.active ELSE c.pending
           q == [p EXCEPT !.sug = l.sug, !.excl = l.excl]
           d == Stage(c, l)
<1>1. p \in Config /\ p.other >= 0 /\ p = NextCfg(c)
  BY Samples DEF Sound, SettingsAreReal, NextCfg
<1>2. q \in Config /\ q.sug = l.sug /\ q.excl = l.excl /\ q.other = p.other
  <2> HIDE DEF p
  <2> QED BY <1>1, Samples DEF Config
<1>3. q # NoConfig
  <2> HIDE DEF p, q
  <2> QED BY <1>1, <1>2 DEF NoConfig
<1>4. (p.sug = l.sug /\ p.excl = l.excl) => q = p
  <2> HIDE DEF p
  <2> QED BY <1>1 DEF Config
<1>5. /\ d.pending = q /\ d.pendingDict = l.dict /\ d.staged = TRUE /\ d.active = c.active
      /\ d.engine = c.engine /\ d.activeDict = c.activeDict /\ d.busy = c.busy
      /\ d.recreate = (c.recreate \/ p.sug # l.sug \/ p.excl # l.excl)
  <2> HIDE DEF q
  <2>1. d = [c EXCEPT !.pending = q, !.recreate = @ \/ p.sug # l.sug \/ p.excl # l.excl,
                      !.pendingDict = l.dict, !.staged = TRUE, !.needsReload = FALSE]
    BY DEF Stage, q
  <2> HIDE DEF p, d
  <2> QED BY <2>1 DEF Controllers
<1>6. d \in Controllers
  <2>1. d = [c EXCEPT !.pending = q, !.recreate = @ \/ p.sug # l.sug \/ p.excl # l.excl,
                      !.pendingDict = l.dict, !.staged = TRUE, !.needsReload = FALSE]
    BY DEF Stage
  <2> HIDE DEF p, q, d
  <2> QED BY <1>2, <2>1, Samples DEF Controllers
<1>7. OfOne(q, l.dict)
  <2> HIDE DEF q
  <2> QED BY <1>2 DEF OfOne
<1> HIDE DEF q, d
<1>8. DictIsStaged(d) /\ LexiconOnlyStaged(d) /\ FromActive(d) /\ SettingsAreReal(d)
  BY <1>1, <1>2, <1>5 DEF DictIsStaged, LexiconOnlyStaged, FromActive, SettingsAreReal, Sound
<1>9. NextIsWhole(d)
  BY <1>3, <1>5, <1>7, Samples DEF NextIsWhole, NextCfg, NextDict
<1>10. Scheduled(d)
  BY <1>1, <1>4, <1>5 DEF Scheduled, Sound, NextCfg
<1>11. SameUse(c, d)
  BY <1>5 DEF SameUse
<1> QED BY <1>5, <1>6, <1>8, <1>9, <1>10, <1>11 DEF Sound, d

\* A new generation asks for a reload; it never drops a staged dictionary.
LEMMA GenerationKeeps ==
  ASSUME ParamAssumption, NEW c \in Controllers, Sound(c), NEW g \in Nat
  PROVE  Sound(NoteGeneration(c, g)) /\ SameUse(c, NoteGeneration(c, g))
         /\ NoteGeneration(c, g).busy = c.busy
<1> DEFINE d == NoteGeneration(c, g)
<1>1. /\ d.pending = c.pending /\ d.pendingDict = c.pendingDict /\ d.staged = c.staged
      /\ d.active = c.active /\ d.engine = c.engine /\ d.activeDict = c.activeDict
      /\ d.busy = c.busy /\ d.recreate = c.recreate
  BY DEF NoteGeneration, Controllers, Sound, DictIsStaged
<1>2. d \in Controllers
  BY Samples DEF NoteGeneration, Controllers
<1> HIDE DEF d
<1>3. Sound(d)
  BY <1>1, <1>2 DEF Sound, DictIsStaged, NextIsWhole, NextCfg, NextDict, LexiconOnlyStaged, Scheduled,
                    FromActive, SettingsAreReal
<1> QED BY <1>1, <1>3 DEF SameUse, d

\* Whatever the read finds: the wire, the disk, the cached identity or nothing.
LEMMA ReadKeeps ==
  ASSUME ParamAssumption, EnvTypes, NEW c \in Controllers, Sound(c), NEW allowDisk, NEW x
  PROVE  Sound(ReadLexicon(c, allowDisk, x)) /\ SameUse(c, ReadLexicon(c, allowDisk, x))
         /\ ReadLexicon(c, allowDisk, x).busy = c.busy
<1> DEFINE same(d) == Sound(d) /\ SameUse(c, d) /\ d.busy = c.busy
           b == [c EXCEPT !.wireActive = TRUE, !.cached = wire.id]
<1>1. ASSUME NEW u \in BOOLEAN, NEW n \in BOOLEAN, NEW k \in Nat, NEW d,
             d = [c EXCEPT !.wireActive = u, !.needsReload = n, !.cached = k]
      PROVE  same(d)
  <2>1. /\ d.pending = c.pending /\ d.pendingDict = c.pendingDict /\ d.staged = c.staged
        /\ d.active = c.active /\ d.engine = c.engine /\ d.activeDict = c.activeDict
        /\ d.busy = c.busy /\ d.recreate = c.recreate
    BY <1>1 DEF Controllers
  <2>2. d \in Controllers
    BY <1>1 DEF Controllers
  <2>3. Sound(d)
    BY <2>1, <2>2 DEF Sound, DictIsStaged, NextIsWhole, NextCfg, NextDict, LexiconOnlyStaged, Scheduled,
                      FromActive, SettingsAreReal
  <2> QED BY <2>1, <2>3 DEF SameUse
<1>2. disk \in Lexicons /\ wire.lex \in Lexicons /\ wire.id \in Nat
  BY DEF EnvTypes
<1>3. [c EXCEPT !.wireActive = TRUE, !.needsReload = FALSE]
        = [c EXCEPT !.wireActive = TRUE, !.needsReload = FALSE, !.cached = c.cached]
      /\ [c EXCEPT !.wireActive = TRUE, !.cached = 0]
        = [c EXCEPT !.wireActive = TRUE, !.needsReload = c.needsReload, !.cached = 0]
      /\ b = [c EXCEPT !.wireActive = TRUE, !.needsReload = c.needsReload, !.cached = wire.id]
      /\ c.cached \in Nat /\ c.needsReload \in BOOLEAN
  BY DEF Controllers
<1>4. same([c EXCEPT !.wireActive = TRUE, !.needsReload = FALSE])
  <2> HIDE DEF same
  <2> QED BY <1>1, <1>3
<1>5. same([c EXCEPT !.wireActive = TRUE, !.cached = 0])
  <2> HIDE DEF same
  <2> QED BY <1>1, <1>3
<1>6. same(b)
  <2> HIDE DEF same, b
  <2> QED BY <1>1, <1>2, <1>3
<1>7. same(Stage(b, wire.lex))
  <2> HIDE DEF b
  <2>1. b \in Controllers /\ Sound(b) /\ SameUse(c, b) /\ b.busy = c.busy
    BY <1>6 DEF Sound
  <2>2. Sound(Stage(b, wire.lex)) /\ SameUse(b, Stage(b, wire.lex)) /\ Stage(b, wire.lex).busy = b.busy
    BY <1>2, <2>1, StageKeeps
  <2> QED BY <2>1, <2>2 DEF SameUse
<1>8. same(Stage(c, disk))
  BY <1>2, StageKeeps
<1>9. same(c)
  BY DEF SameUse
<1>10. same(ReadLexicon(c, allowDisk, x))
  <2> HIDE DEF same
  <2> QED BY <1>4, <1>5, <1>7, <1>8, <1>9 DEF ReadLexicon
<1> QED BY <1>10

\* Both together.
LEMMA RefreshKeeps ==
  ASSUME ParamAssumption, EnvTypes, NEW c \in Controllers, Sound(c), NEW g \in Nat, NEW allowDisk, NEW x
  PROVE  Sound(Refresh(c, g, allowDisk, x)) /\ SameUse(c, Refresh(c, g, allowDisk, x))
         /\ Refresh(c, g, allowDisk, x).busy = c.busy
<1> DEFINE m == NoteGeneration(c, g)
           d == ReadLexicon(m, allowDisk, x)
<1>1. m \in Controllers /\ Sound(m) /\ SameUse(c, m) /\ m.busy = c.busy
  BY GenerationKeeps DEF Sound
<1> HIDE DEF m
<1>2. Sound(d) /\ SameUse(m, d) /\ d.busy = m.busy
  BY <1>1, ReadKeeps
<1>3. Refresh(c, g, allowDisk, x) = d
  BY RefreshIs DEF m
<1> HIDE DEF d
<1> QED BY <1>1, <1>2, <1>3 DEF SameUse

\* The dictionary goes into the engine in service only between words; if that
\* engine is not of its lexicon, a new one is due and may be built at once.
LEMMA AttachKeeps ==
  ASSUME ParamAssumption, NEW c \in Controllers, Sound(c)
  PROVE  LET d == TryAttach(c)
         IN /\ Sound(d) /\ d.pending = c.pending /\ d.active = c.active /\ d.recreate = c.recreate
            /\ EngineIsWhole(c) => (EngineIsWhole(d) \/ (c.recreate /\ CanPromote(d)))
            /\ Holds(c, d)
<1> DEFINE d == TryAttach(c)
           idle == c.engine = NoEngine \/ ~CanPromote(c) \/ c.pendingDict = None \/ ~c.active.sug
                     \/ c.engine.dead
<1>1. CASE idle
  <2>1. c.active.sug /\ c.engine # NoEngine => c.engine.cfg.sug
    BY DEF Sound, FromActive
  <2>2. d = c
    BY <1>1, <2>1 DEF TryAttach
  <2> HIDE DEF d
  <2> QED BY <2>2 DEF Holds, d
<1>2. CASE ~idle
  <2>1. c.engine # NoEngine /\ CanPromote(c) /\ c.pendingDict # None /\ c.active.sug /\ ~c.engine.dead
    BY <1>2
  <2>2. c.engine.cfg = c.active /\ ~c.engine.miscast /\ c.engine.cfg.sug /\ ~c.busy
    BY <2>1 DEF Sound, FromActive, CanPromote
  <2>3. d = [c EXCEPT !.engine.dict = c.pendingDict, !.activeDict = c.pendingDict, !.pendingDict = None,
                      !.staged = @ /\ (c.pending # NoConfig \/ c.needsReload)]
    BY <2>1, <2>2 DEF TryAttach
  <2> DEFINE e == [c.engine EXCEPT !.dict = c.pendingDict]
  <2>4. e \in EngineRec /\ e.cfg = c.engine.cfg /\ e.dead = c.engine.dead /\ e.miscast = c.engine.miscast
        /\ e.dict = c.pendingDict
    BY DEF Controllers, EngineRec
  <2>5. d = [c EXCEPT !.engine = e, !.activeDict = c.pendingDict, !.pendingDict = None,
                      !.staged = @ /\ (c.pending # NoConfig \/ c.needsReload)]
    BY <2>3
  <2>6. None \in Dict /\ c.pendingDict \in Dict
    BY Samples DEF Controllers
  <2> HIDE DEF d, e
  <2>7. /\ d.pending = c.pending /\ d.active = c.active /\ d.recreate = c.recreate /\ d.engine = e
        /\ d.activeDict = c.pendingDict /\ d.pendingDict = None /\ d.busy = c.busy
    BY <2>5 DEF Controllers
  <2>8. d.staged = (c.staged /\ (c.pending # NoConfig \/ c.needsReload))
    BY <2>5 DEF Controllers
  <2>9. d \in Controllers
    BY <2>4, <2>5, <2>6 DEF Controllers
  <2>10. DictIsStaged(d) /\ LexiconOnlyStaged(d) /\ Scheduled(d) /\ SettingsAreReal(d)
    BY <2>7, <2>8 DEF Sound, DictIsStaged, LexiconOnlyStaged, Scheduled, SettingsAreReal
  <2>11. FromActive(d)
    BY <2>2, <2>4, <2>7 DEF FromActive
  <2>12. NextCfg(d) = NextCfg(c) /\ NextDict(d) = c.pendingDict /\ NextDict(c) = c.pendingDict
    BY <2>1, <2>7 DEF NextCfg, NextDict
  <2>13. NextIsWhole(d)
    BY <2>12 DEF NextIsWhole, Sound
  <2>14. ~c.recreate => NextCfg(c) = c.active
    BY DEF Sound, Scheduled, NextCfg
  <2>15. ~c.recreate => EngineIsWhole(d)
    BY <2>1, <2>4, <2>7, <2>12, <2>14 DEF Sound, NextIsWhole, EngineIsWhole
  <2>16. CanPromote(d)
    BY <2>2, <2>7 DEF CanPromote
  <2>17. Holds(c, d)
    BY <2>1, <2>7 DEF Holds
  <2> QED BY <2>7, <2>9, <2>10, <2>11, <2>13, <2>15, <2>16, <2>17 DEF Sound, d
<1> QED BY <1>1, <1>2

\* A promotion that builds a new engine, also one without a handle.
LEMMA RecreateKeeps ==
  ASSUME ParamAssumption, NEW c \in Controllers, Sound(c), CanPromote(c), NEW x
  PROVE  Steady(Cleared(Recreate(Moved(c), x))) /\ Cleared(Recreate(Moved(c), x)).busy = c.busy
<1> DEFINE m == Moved(c)
           snapshot == NextDict(c)
           attached == m.active.sug /\ x # "create" /\ snapshot # None
           moved == c.pendingDict # None /\ (attached \/ ~m.active.sug)
           e == [cfg |-> m.active, dict |-> IF attached THEN snapshot ELSE None,
                 dead |-> m.active.sug /\ x = "create", miscast |-> FALSE]
           r == Recreate(m, x)
           d == Cleared(r)
<1>1. /\ m.active = NextCfg(c) /\ m.pending = NoConfig /\ m.pendingDict = c.pendingDict
      /\ m.activeDict = c.activeDict /\ m.busy = c.busy /\ m.staged = c.staged /\ m \in Controllers
  BY Samples DEF Moved, Controllers, NextCfg
<1>2. m.active.other >= 0 /\ m.active \in Config /\ m.active.sug \in BOOLEAN
  BY <1>1, Samples DEF Sound, SettingsAreReal, NextCfg, Config
<1>3. snapshot \in Dict /\ c.pendingDict \in Dict /\ c.activeDict \in Dict /\ None \in Dict
  BY Samples DEF NextDict, Controllers
<1> HIDE DEF m, snapshot
<1>4. e \in EngineRec
  BY <1>2, <1>3 DEF EngineRec
<1>5. e.cfg = m.active /\ e.miscast = FALSE /\ e.dict = (IF attached THEN snapshot ELSE None)
      /\ e.dead = (m.active.sug /\ x = "create")
  OBVIOUS
<1>6. r = [m EXCEPT !.recreate = FALSE, !.engine = e,
                    !.activeDict = IF moved THEN c.pendingDict ELSE @,
                    !.pendingDict = IF moved THEN None ELSE @]
  BY <1>1 DEF Recreate, NextDict, snapshot
<1> HIDE DEF e, attached, moved, r
<1>7. /\ r.active = m.active /\ r.pending = NoConfig /\ r.engine = e /\ r.busy = c.busy
      /\ r.activeDict = (IF moved THEN c.pendingDict ELSE c.activeDict)
      /\ r.pendingDict = (IF moved THEN None ELSE c.pendingDict)
      /\ r.staged = c.staged /\ r \in Controllers
  <2>1. moved \in BOOLEAN
    BY DEF moved
  <2> QED BY <1>1, <1>3, <1>4, <1>6, <2>1 DEF Controllers
<1>8. /\ d.active = m.active /\ d.pending = NoConfig /\ d.engine = e /\ d.busy = c.busy
      /\ d.activeDict = r.activeDict /\ d.pendingDict = r.pendingDict /\ d \in Controllers
  BY <1>7 DEF Cleared, Controllers
<1>9. d.staged = (c.staged /\ (r.pendingDict # None \/ r.needsReload))
  BY <1>7 DEF Cleared, Controllers
<1> HIDE DEF d
<1>10. DictIsStaged(d)
  BY <1>7, <1>8, <1>9 DEF Sound, DictIsStaged
<1>11. NextCfg(d) = NextCfg(c) /\ NextDict(d) = NextDict(c)
  BY <1>1, <1>7, <1>8 DEF NextCfg, NextDict, moved
<1>12. NextIsWhole(d)
  BY <1>11 DEF NextIsWhole, Sound
<1>13. LexiconOnlyStaged(d) /\ Scheduled(d) /\ SettingsAreReal(d) /\ FromActive(d)
  BY <1>2, <1>5, <1>8 DEF LexiconOnlyStaged, Scheduled, SettingsAreReal, FromActive
<1>14. EngineIsWhole(d)
  <2>1. ASSUME m.active.sug PROVE OfOne(m.active, snapshot) /\ snapshot # None
    BY <1>1, <2>1 DEF Sound, NextIsWhole, snapshot, OfOne, ParamAssumption
  <2> QED BY <1>5, <1>8, <2>1 DEF EngineIsWhole, attached
<1> QED BY <1>8, <1>10, <1>12, <1>13, <1>14 DEF Steady, Sound, d, r, m

\* Every promotion, the blocked one included.
LEMMA PromoteKeeps ==
  ASSUME ParamAssumption, NEW c, Ready(c), NEW x
  PROVE  Steady(TryPromote(c, x)) /\ Holds(c, TryPromote(c, x))
<1>1. c \in Controllers /\ Sound(c)
  BY DEF Ready, Sound
<1>2. CASE Blocked(c)
  <2>1. EngineIsWhole(c)
    BY <1>2 DEF Blocked, Ready
  <2> QED BY <1>1, <1>2, <2>1, PromoteIs DEF Steady, Holds
<1>3. CASE ~Blocked(c) /\ (c.recreate \/ c.engine = NoEngine)
  <2>1. CanPromote(c)
    BY <1>3 DEF Blocked
  <2>2. TryPromote(c, x) = Cleared(Recreate(Moved(c), x))
    BY <1>3, PromoteIs DEF EngineOf
  <2> QED BY <1>1, <2>1, <2>2, RecreateKeeps DEF Holds
<1>4. CASE ~Blocked(c) /\ ~c.recreate /\ c.engine # NoEngine
  <2> DEFINE m == Moved(c)
             t == TryAttach(m)
             d == Cleared(t)
  <2>1. CanPromote(c) /\ TryPromote(c, x) = d /\ EngineIsWhole(c)
    BY <1>4, PromoteIs DEF EngineOf, Blocked, Ready
  <2>2. /\ m.active = NextCfg(c) /\ m.pending = NoConfig /\ m.pendingDict = c.pendingDict
        /\ m.activeDict = c.activeDict /\ m.busy = c.busy /\ m.staged = c.staged /\ m \in Controllers
        /\ m.engine = c.engine /\ m.recreate = c.recreate
    BY <1>1, Samples DEF Moved, Controllers, NextCfg
  <2>3. NextCfg(c) = c.active
    BY <1>1, <1>4 DEF Sound, Scheduled, NextCfg
  <2> HIDE DEF m
  <2>4. NextCfg(m) = NextCfg(c) /\ NextDict(m) = NextDict(c)
    BY <2>2 DEF NextCfg, NextDict
  <2>5. Sound(m)
    BY <1>1, <2>2, <2>3, <2>4 DEF Sound, DictIsStaged, NextIsWhole, LexiconOnlyStaged, Scheduled,
                FromActive, SettingsAreReal
  <2>6. EngineIsWhole(m)
    BY <2>1, <2>2, <2>3 DEF EngineIsWhole
  <2>7. Sound(t) /\ t.pending = NoConfig /\ t.recreate = c.recreate /\ t.busy = c.busy /\ EngineIsWhole(t)
    BY <1>4, <2>2, <2>5, <2>6, AttachKeeps DEF Holds
  <2> HIDE DEF t
  <2>8. /\ d.active = t.active /\ d.pending = NoConfig /\ d.engine = t.engine /\ d.busy = c.busy
        /\ d.activeDict = t.activeDict /\ d.pendingDict = t.pendingDict /\ d \in Controllers
        /\ d.recreate = t.recreate
    BY <2>7 DEF Cleared, Controllers, Sound
  <2>9. d.staged = (t.staged /\ (t.pendingDict # None \/ t.needsReload))
    BY <2>7 DEF Cleared, Controllers, Sound
  <2> HIDE DEF d
  <2>10. NextCfg(d) = NextCfg(t) /\ NextDict(d) = NextDict(t)
    BY <2>7, <2>8 DEF NextCfg, NextDict
  <2>11. Sound(d)
    BY <2>7, <2>8, <2>9, <2>10 DEF Sound, DictIsStaged, NextIsWhole, LexiconOnlyStaged, Scheduled,
                FromActive, SettingsAreReal
  <2>12. EngineIsWhole(d)
    BY <2>7, <2>8 DEF EngineIsWhole
  <2> QED BY <2>1, <2>8, <2>11, <2>12 DEF Steady, Holds
<1> QED BY <1>2, <1>3, <1>4

\* New settings never split the lexicon: they take its fields from the staged
\* lexicon if there is one.
LEMMA ApplyKeeps ==
  ASSUME ParamAssumption, EnvTypes, NEW c, Steady(c), NEW allowDisk, NEW x
  PROVE  Steady(ApplySharedState(c, allowDisk, x)) /\ Holds(c, ApplySharedState(c, allowDisk, x))
<1> DEFINE lex == IF c.pending # NoConfig /\ c.staged THEN c.pending ELSE c.active
           p == [excl |-> lex.excl, sug |-> lex.sug, other |-> shared.other]
           t == Taken(c)
           r == Refresh(t, shared.cgen, allowDisk, x)
<1>1. c \in Controllers /\ Sound(c)
  BY DEF Steady, Sound
<1>2. shared.other \in Nat /\ shared.cgen \in Nat /\ shared.enabled \in BOOLEAN
  BY DEF EnvTypes
<1>3. lex \in Config
  BY <1>1, Samples
<1>4. p \in Config /\ p.other >= 0 /\ p # NoConfig /\ p.excl = lex.excl /\ p.sug = lex.sug
  <2> HIDE DEF lex
  <2> QED BY <1>2, <1>3 DEF Config, NoConfig
<1>5. t = [c EXCEPT !.enabled = shared.enabled, !.recreate = TRUE, !.pending = p]
  BY DEF Taken
<1> HIDE DEF p, t
<1>6. /\ t.active = c.active /\ t.pending = p /\ t.pendingDict = c.pendingDict /\ t.engine = c.engine
      /\ t.activeDict = c.activeDict /\ t.busy = c.busy /\ t.staged = c.staged /\ t.recreate
      /\ t \in Controllers
  BY <1>1, <1>2, <1>4, <1>5 DEF Controllers
<1>7. NextCfg(t).excl = NextCfg(c).excl /\ NextCfg(t).sug = NextCfg(c).sug /\ NextDict(t) = NextDict(c)
  BY <1>1, <1>4, <1>6 DEF NextCfg, NextDict, Sound, LexiconOnlyStaged
<1>8. NextIsWhole(t)
  BY <1>1, <1>7 DEF Sound, NextIsWhole, OfOne
<1>9. LexiconOnlyStaged(t)
  BY <1>4, <1>6 DEF LexiconOnlyStaged
<1>10. Sound(t)
  BY <1>1, <1>4, <1>6, <1>8, <1>9 DEF Sound, DictIsStaged, Scheduled, FromActive, SettingsAreReal
<1>11. Sound(r) /\ SameUse(t, r) /\ r.busy = c.busy
  BY <1>2, <1>6, <1>10, RefreshKeeps
<1> HIDE DEF r
<1>12. Ready(r) /\ r.engine = c.engine
  BY <1>6, <1>11 DEF Steady, SameUse, Ready, EngineIsWhole
<1>13. Steady(TryPromote(r, x)) /\ Holds(r, TryPromote(r, x))
  BY <1>12, PromoteKeeps
<1> QED BY <1>11, <1>12, <1>13, ApplyIs DEF Holds, CanPromote, r, t

\* CheckConfigEvent as a whole.
LEMMA CheckKeeps ==
  ASSUME ParamAssumption, EnvTypes, NEW c, Steady(c), NEW allowDisk, NEW x
  PROVE  Steady(CheckConfig(c, allowDisk, x)) /\ Holds(c, CheckConfig(c, allowDisk, x))
<1> DEFINE m == TryPromote(c, x)
           r == Reloaded(m, allowDisk, x)
           a == TryAttach(r)
           s == [m EXCEPT !.lastEpoch = shared.epoch]
<1>1. Steady(m) /\ Holds(c, m) /\ m \in Controllers /\ Sound(m)
  BY PromoteKeeps DEF Steady, Sound, Ready
<1> HIDE DEF m
<1>2. m.gen \in Nat /\ shared.epoch \in Nat
  BY <1>1 DEF Controllers, EnvTypes
<1>3. Sound(r) /\ r.engine = m.engine /\ r.active = m.active /\ r.busy = m.busy
  BY <1>1, <1>2, RefreshKeeps DEF Reloaded, SameUse
<1> HIDE DEF r
<1>4. EngineIsWhole(r) /\ r \in Controllers
  BY <1>1, <1>3 DEF Steady, EngineIsWhole, Sound
<1>5. Ready(a) /\ Holds(r, a)
  BY <1>3, <1>4, AttachKeeps DEF Ready
<1> HIDE DEF a
<1>6. Steady(TryPromote(a, x)) /\ Holds(a, TryPromote(a, x))
  BY <1>5, PromoteKeeps
<1>7. Holds(m, TryPromote(a, x))
  BY <1>3, <1>5, <1>6 DEF Holds, CanPromote
<1>8. /\ s.active = m.active /\ s.pending = m.pending /\ s.pendingDict = m.pendingDict
      /\ s.engine = m.engine /\ s.activeDict = m.activeDict /\ s.busy = m.busy /\ s.staged = m.staged
      /\ s.recreate = m.recreate /\ s \in Controllers
  BY <1>1, <1>2 DEF Controllers
<1> HIDE DEF s
<1>9. Steady(s)
  BY <1>1, <1>8 DEF Steady, Sound, DictIsStaged, NextIsWhole, NextCfg, NextDict, LexiconOnlyStaged,
                    Scheduled, FromActive, SettingsAreReal, EngineIsWhole
<1>10. Steady(ApplySharedState(s, allowDisk, x)) /\ Holds(s, ApplySharedState(s, allowDisk, x))
  BY <1>9, ApplyKeeps
<1>11. Holds(m, ApplySharedState(s, allowDisk, x))
  BY <1>8, <1>10 DEF Holds, CanPromote
<1>12. Steady(Checked(m, allowDisk, x)) /\ Holds(m, Checked(m, allowDisk, x))
  <2>1. Holds(m, m)
    BY DEF Holds
  <2> QED BY <1>1, <1>6, <1>7, <1>10, <1>11, <2>1 DEF Checked, a, r, s
<1>13. CheckConfig(c, allowDisk, x) = Checked(m, allowDisk, x)
  BY CheckIs DEF m
<1> QED BY <1>1, <1>12, <1>13 DEF Holds, CanPromote

\* RefreshFlags, which may apply SharedState again.
LEMMA FlagsKeep ==
  ASSUME ParamAssumption, EnvTypes, NEW c, Steady(c), NEW x
  PROVE  Steady(RefreshFlags(c, x)) /\ Holds(c, RefreshFlags(c, x))
<1>1. c \in Controllers
  BY DEF Steady, Sound
<1>2. ASSUME NEW b \in BOOLEAN, NEW d, d = [c EXCEPT !.enabled = b]
      PROVE  Steady(d) /\ Holds(c, d)
  <2>1. /\ d.active = c.active /\ d.pending = c.pending /\ d.pendingDict = c.pendingDict
        /\ d.engine = c.engine /\ d.activeDict = c.activeDict /\ d.busy = c.busy /\ d.staged = c.staged
        /\ d.recreate = c.recreate /\ d \in Controllers
    BY <1>1, <1>2 DEF Controllers
  <2>2. Steady(d)
    BY <2>1 DEF Steady, Sound, DictIsStaged, NextIsWhole, NextCfg, NextDict, LexiconOnlyStaged,
                Scheduled, FromActive, SettingsAreReal, EngineIsWhole
  <2> QED BY <2>1, <2>2 DEF Holds
<1>3. shared.enabled \in BOOLEAN
  BY DEF EnvTypes
<1> QED BY <1>2, <1>3, ApplyKeeps DEF RefreshFlags

\* The members' initializers.
LEMMA Start ==
  ASSUME ParamAssumption
  PROVE  Steady(Fresh) /\ ~Fresh.busy
<1>1. NoEngine \in EngineRec
  BY Samples DEF NoEngine, EngineRec
<1>2. Fresh \in Controllers
  BY <1>1, Samples DEF Fresh, Controllers
<1>3. DictIsStaged(Fresh) /\ NextIsWhole(Fresh) /\ LexiconOnlyStaged(Fresh) /\ Scheduled(Fresh)
      /\ SettingsAreReal(Fresh)
  BY DEF Fresh, DictIsStaged, NextIsWhole, NextCfg, LexiconOnlyStaged, Scheduled, SettingsAreReal, Defaults
<1>4. FromActive(Fresh) /\ EngineIsWhole(Fresh)
  BY DEF Fresh, FromActive, EngineIsWhole, NoEngine, NoConfig
<1> QED BY <1>2, <1>3, <1>4 DEF Steady, Sound, Fresh

\* The constructor, whether SharedState could be read or not.
LEMMA ConstructedIsSteady ==
  ASSUME ParamAssumption, EnvTypes, NEW x
  PROVE  Steady(Constructed(x))
<1> DEFINE a == ApplySharedState(Fresh, TRUE, x)
           e == [NoEngine EXCEPT !.cfg = Defaults]
           f == [Fresh EXCEPT !.engine = e]
<1>1. ASSUME NEW c, Steady(c), NEW n \in Nat, NEW u \in BOOLEAN, NEW d,
             d = [c EXCEPT !.lastEpoch = n, !.wireActive = u]
      PROVE  Steady(d)
  <2>1. c \in Controllers
    BY <1>1 DEF Steady, Sound
  <2>2. /\ d.active = c.active /\ d.pending = c.pending /\ d.pendingDict = c.pendingDict
        /\ d.engine = c.engine /\ d.activeDict = c.activeDict /\ d.staged = c.staged
        /\ d.recreate = c.recreate /\ d \in Controllers
    BY <1>1, <2>1 DEF Controllers
  <2> QED BY <1>1, <2>2 DEF Steady, Sound, DictIsStaged, NextIsWhole, NextCfg, NextDict, LexiconOnlyStaged,
                            Scheduled, FromActive, SettingsAreReal, EngineIsWhole
<1>2. Steady(a) /\ a \in Controllers
  BY Start, ApplyKeeps DEF Steady, Sound
<1>3. e \in EngineRec /\ e.cfg = Defaults /\ e.miscast = FALSE
  BY Samples DEF NoEngine, EngineRec
<1>4. Fresh \in Controllers /\ Steady(Fresh)
  BY Start DEF Steady, Sound
<1> HIDE DEF e
<1>5. /\ f.active = Defaults /\ f.pending = NoConfig /\ f.pendingDict = None /\ f.engine = e
      /\ f.activeDict = None /\ f \in Controllers
  BY <1>3, <1>4 DEF Controllers, Fresh
<1>6. Steady(f) /\ f \in Controllers
  BY <1>3, <1>5 DEF Steady, Sound, DictIsStaged, NextIsWhole, NextCfg, LexiconOnlyStaged,
                    Scheduled, FromActive, SettingsAreReal, EngineIsWhole, Defaults
<1>7. Constructed(x) = IF x = "shared" THEN [f EXCEPT !.wireActive = @ \/ wire.id > 0]
                       ELSE [[a EXCEPT !.lastEpoch = shared.epoch] EXCEPT !.wireActive = @ \/ wire.id > 0]
  BY DEF Constructed, e
<1> HIDE DEF a, f
<1>8. /\ [f EXCEPT !.wireActive = @ \/ wire.id > 0]
           = [f EXCEPT !.lastEpoch = f.lastEpoch, !.wireActive = f.wireActive \/ wire.id > 0]
      /\ f.lastEpoch \in Nat /\ (f.wireActive \/ wire.id > 0) \in BOOLEAN
  BY <1>6 DEF Controllers
<1>9. /\ [[a EXCEPT !.lastEpoch = shared.epoch] EXCEPT !.wireActive = @ \/ wire.id > 0]
           = [a EXCEPT !.lastEpoch = shared.epoch, !.wireActive = a.wireActive \/ wire.id > 0]
      /\ shared.epoch \in Nat /\ (a.wireActive \/ wire.id > 0) \in BOOLEAN
  BY <1>2 DEF Controllers, EnvTypes
<1>10. Steady([f EXCEPT !.wireActive = @ \/ wire.id > 0])
  BY <1>1, <1>6, <1>8
<1>11. Steady([[a EXCEPT !.lastEpoch = shared.epoch] EXCEPT !.wireActive = @ \/ wire.id > 0])
  BY <1>1, <1>2, <1>9
<1> QED BY <1>7, <1>10, <1>11

-----------------------------------------------------------------------------
(* The behaviours.                                                          *)

\* The inductive invariant.
IInv == EnvTypes /\ Steady(ctl)

\* The word in progress keeps the engine it has.
Kept == ctl.busy /\ ctl'.busy /\ ctl.engine # NoEngine => ctl'.engine = ctl.engine

\* It holds before the constructor.
LEMMA InvStart == ASSUME ParamAssumption, Init PROVE IInv
<1>1. EnvTypes
  <2>1. wire \in [id : Nat, lex : Lexicons]
    BY DEF Init
  <2>2. shared \in [epoch : Nat, cgen : Nat, other : Nat, enabled : BOOLEAN]
    BY DEF Init
  <2> QED BY <2>1, <2>2 DEF Init, EnvTypes
<1> QED BY <1>1, Start DEF Init, IInv

\* Every call of the typing thread and every step of the main process keeps it.
LEMMA InvNext ==
  ASSUME ParamAssumption, IInv, [Next]_vars
  PROVE  IInv' /\ Kept
<1>1. EnvTypes /\ Steady(ctl) /\ ctl \in Controllers
  BY DEF IInv, Steady, Sound
<1>2. ASSUME UNCHANGED env PROVE EnvTypes'
  BY <1>1, <1>2 DEF env, EnvTypes
<1>3. ASSUME NEW b \in BOOLEAN, NEW c, Steady(c), NEW d, d = [c EXCEPT !.busy = b]
      PROVE  Steady(d) /\ d.engine = c.engine /\ d.busy = b
  <2>1. c \in Controllers
    BY <1>3 DEF Steady, Sound
  <2>2. /\ d.active = c.active /\ d.pending = c.pending /\ d.pendingDict = c.pendingDict
        /\ d.engine = c.engine /\ d.activeDict = c.activeDict /\ d.staged = c.staged
        /\ d.recreate = c.recreate /\ d \in Controllers /\ d.busy = b
    BY <1>3, <2>1 DEF Controllers
  <2> QED BY <1>3, <2>2 DEF Steady, Sound, DictIsStaged, NextIsWhole, NextCfg, NextDict, LexiconOnlyStaged,
                            Scheduled, FromActive, SettingsAreReal, EngineIsWhole
<1>4. ASSUME Holds(ctl, ctl') PROVE Kept
  BY <1>4 DEF Holds, CanPromote, Kept
<1>5. ASSUME NEW x, Construct(x) PROVE IInv' /\ Kept
  <2>1. ~ctl.busy /\ ctl' = Constructed(x) /\ UNCHANGED env
    BY <1>5, Start DEF Construct
  <2> QED BY <1>1, <1>2, <2>1, ConstructedIsSteady DEF IInv, Kept
<1>6. ASSUME NEW x, Key(x) PROVE IInv' /\ Kept
  <2>1. ctl' = CheckConfig(ctl, FALSE, x) /\ UNCHANGED env
    BY <1>6 DEF Key
  <2> QED BY <1>1, <1>2, <1>4, <2>1, CheckKeeps DEF IInv
<1>7. ASSUME NEW x, StartWord(x) PROVE IInv' /\ Kept
  <2>1. ~ctl.busy /\ ctl' = [CheckConfig(ctl, FALSE, x) EXCEPT !.busy = TRUE] /\ UNCHANGED env
    BY <1>7 DEF StartWord
  <2> QED BY <1>1, <1>2, <1>3, <2>1, CheckKeeps DEF IInv, Kept
<1>8. ASSUME NEW x, EndWord(x) PROVE IInv' /\ Kept
  <2> DEFINE c == CheckConfig(ctl, FALSE, x)
             d == [c EXCEPT !.busy = FALSE]
  <2>1. ctl' = TryPromote(d, x) /\ UNCHANGED env
    BY <1>8 DEF EndWord
  <2>2. Steady(c)
    BY <1>1, CheckKeeps
  <2>3. Steady(d) /\ d.busy = FALSE
    <3> HIDE DEF c
    <3> QED BY <1>3, <2>2
  <2> HIDE DEF d
  <2>4. Steady(ctl') /\ ctl'.busy = FALSE
    BY <2>1, <2>3, PromoteKeeps DEF Ready, Steady, Holds
  <2> QED BY <1>2, <2>1, <2>4 DEF IInv, Kept
<1>9. CASE Unblock
  <2>1. ctl' = [ctl EXCEPT !.busy = FALSE] /\ UNCHANGED env
    BY <1>9 DEF Unblock
  <2>2. Steady(ctl') /\ ctl'.busy = FALSE
    BY <1>1, <1>3, <2>1
  <2> QED BY <1>2, <2>1, <2>2 DEF IInv, Kept
<1>10. ASSUME NEW x, Focus(x) PROVE IInv' /\ Kept
  <2>1. PICK y, z \in {x, "nothing"} :
          LET Read(c) == RefreshFlags(c, z) IN ctl' = Then(CheckConfig(ctl, TRUE, y), Read)
    BY <1>10 DEF Focus
  <2> DEFINE m == CheckConfig(ctl, TRUE, y)
             F(c) == RefreshFlags(c, z)
  <2>2. ctl' = Then(m, F) /\ UNCHANGED env
    BY <1>10, <2>1 DEF Focus
  <2>3. {F(e) : e \in {m}} = {F(m)}
    <3> HIDE DEF F, m
    <3> QED OBVIOUS
  <2>4. Then(m, F) = F(m)
    <3> HIDE DEF F, m
    <3> QED BY <2>3, OnlyOne DEF Then
  <2>5. Steady(m) /\ Holds(ctl, m)
    BY <1>1, CheckKeeps
  <2> HIDE DEF m
  <2>6. Steady(F(m)) /\ Holds(m, F(m))
    BY <1>1, <2>5, FlagsKeep
  <2>7. Steady(ctl') /\ Holds(ctl, ctl')
    <3> HIDE DEF F
    <3> QED BY <2>2, <2>4, <2>5, <2>6 DEF Holds, CanPromote
  <2> QED BY <1>2, <1>4, <2>2, <2>7 DEF IInv
<1>11. ASSUME ctl' = ctl, EnvTypes' PROVE IInv' /\ Kept
  BY <1>1, <1>11 DEF IInv, Kept
<1>12. ASSUME NEW l \in Lexicons, ChangeLexicon(l) PROVE IInv' /\ Kept
  <2>1. ctl' = ctl /\ EnvTypes'
    BY <1>1, <1>12 DEF ChangeLexicon, EnvTypes
  <2> QED BY <1>11, <2>1
<1>13. CASE PublishLexicon
  <2>1. ctl' = ctl /\ EnvTypes'
    BY <1>1, <1>13 DEF PublishLexicon, EnvTypes
  <2> QED BY <1>11, <2>1
<1>14. CASE PublishGeneration
  <2>1. shared' \in [epoch : Nat, cgen : Nat, other : Nat, enabled : BOOLEAN]
    <3>1. shared' = [shared EXCEPT !.epoch = @ + 2, !.cgen = @ + 1]
      BY <1>14 DEF PublishGeneration
    <3>2. shared \in [epoch : Nat, cgen : Nat, other : Nat, enabled : BOOLEAN]
      BY <1>1 DEF EnvTypes
    <3>3. shared.epoch + 2 \in Nat /\ shared.cgen + 1 \in Nat
      BY <3>2
    <3> QED BY <3>1, <3>2, <3>3
  <2>2. announced' = TRUE /\ UNCHANGED <<disk, wire, ctl>>
    BY <1>14 DEF PublishGeneration
  <2>3. EnvTypes'
    BY <1>1, <2>1, <2>2 DEF EnvTypes
  <2> QED BY <1>11, <2>2, <2>3
<1>15. ASSUME NEW s \in {0, 1}, NEW g \in {0, 1}, NEW e \in BOOLEAN, WriteSharedState(s, g, e)
       PROVE  IInv' /\ Kept
  <2>1. ctl' = ctl /\ EnvTypes'
    BY <1>1, <1>15 DEF WriteSharedState, EnvTypes
  <2> QED BY <1>11, <2>1
<1>16. CASE UNCHANGED vars
  BY <1>2, <1>11, <1>16 DEF vars
<1> QED BY <1>5, <1>6, <1>7, <1>8, <1>9, <1>10, <1>12, <1>13, <1>14, <1>15, <1>16 DEF Next

\* It gives the invariants of the runs.
LEMMA InvImplies ==
  ASSUME ParamAssumption, IInv
  PROVE  EngineAsConfigured /\ OneLexicon
<1>1. ctl \in Controllers /\ Sound(ctl) /\ EngineIsWhole(ctl) /\ EnvTypes
  BY DEF IInv, Steady, Sound
<1>2. TypeOK
  BY <1>1 DEF TypeOK, EnvTypes, Controllers, EngineRec
<1>3. ctl.engine = NoEngine => ~ctl.engine.cfg.sug /\ ~ctl.engine.miscast
  BY DEF NoEngine, NoConfig
<1>4. CastIsSafe
  BY <1>1, <1>3 DEF Sound, FromActive, CastIsSafe
<1>5. OneLexicon
  BY <1>1, <1>3 DEF Sound, FromActive, EngineIsWhole, OneLexicon, OfOne
<1> QED BY <1>1, <1>2, <1>4, <1>5 DEF EngineAsConfigured, PendingIsScheduled, Sound, Scheduled

\* The invariant holds in every state of a typing thread: what the next
\* promotion makes active is whole, and so is what is in service.
THEOREM TheNextLexiconIsWhole == Spec => []IInv
<1>1. Init => IInv
  BY InvStart, ParamAssumption
<1>2. IInv /\ [Next]_vars => IInv'
  BY InvNext, ParamAssumption
<1> QED BY <1>1, <1>2, PTL DEF Spec

\* The engine is what activeConfig_ says, so that TryAttachUserDictionary never
\* casts a TypingEngine to the Rust engine, and a configuration that differs from
\* the active one is on its way into a new engine (TryPromotePendingConfig).
THEOREM TheEngineIsAsConfigured == Spec => []EngineAsConfigured
<1>1. IInv => EngineAsConfigured
  BY InvImplies, ParamAssumption
<1> QED BY <1>1, TheNextLexiconIsWhole, PTL

\* A Rust engine at work has exclusions and dictionary of one lexicon, whatever
\* order the wire, the disk and SharedState bring the parts of a change in, and
\* whichever read, compilation or creation fails (RefreshUserDictionarySnapshot,
\* ApplySharedState, EngineFactory::Create).
THEOREM TheLexiconIsOne == Spec => []OneLexicon
<1>1. IInv => OneLexicon
  BY InvImplies, ParamAssumption
<1> QED BY <1>1, TheNextLexiconIsWhole, PTL

\* No step replaces the engine, or its dictionary, while a word is in progress
\* (CanPromoteTsfConfig), be it a key, a change of focus or an update.
THEOREM NoWordSwapsItsEngine == Spec => NoMidWordSwap
<1>1. IInv /\ [Next]_vars => [ctl.busy /\ ctl'.busy /\ ctl.engine # NoEngine => ctl'.engine = ctl.engine]_vars
  BY InvNext, ParamAssumption DEF Kept
<1> QED BY <1>1, TheNextLexiconIsWhole, PTL DEF Spec, NoMidWordSwap

-----------------------------------------------------------------------------
(***************************************************************************)
(* The fields of an application (TsfComposition): what is typed in a field *)
(* for a password stays the application's own.                             *)
(***************************************************************************)

(* The fields of the record that word and document are in.  Beside: only others
   have changed.  SameShown, SameWord: the engine has not, and neither has
   whether there is a composition.  Joined: a word under way has one. *)
TextParts == {"text", "caret", "sel", "on", "eng", "secret", "seen", "scope", "blocked",
              "grant", "replaced"}
Wide(d)         == TextParts \subseteq DOMAIN d
SameWord(d, c)  == Wide(c) /\ c.eng = d.eng /\ c.secret = d.secret
SameShown(d, c) == SameWord(d, c) /\ c.on = d.on
Beside(d, c) ==
  /\ SameShown(d, c) /\ c.grant = d.grant
  /\ c.text = d.text /\ c.caret = d.caret /\ c.sel = d.sel
  /\ c.seen = d.seen /\ c.scope = d.scope /\ c.blocked = d.blocked
Joined(d)       == Wide(d) /\ (Buffer(d) => d.on)
Onward(d, c)    == Joined(c) /\ c.secret = d.secret

\* Two steps beside word and document are one.
LEMMA BesideAgain ==
  ASSUME NEW d, NEW c, NEW e, Beside(d, c), Beside(c, e)
  PROVE  Beside(d, e)
BY DEF Beside, SameShown, SameWord

\* Two steps that keep a word with its composition are one.
LEMMA OnwardAgain ==
  ASSUME NEW d, NEW c, NEW e, Onward(d, c), Onward(c, e)
  PROVE  Onward(d, e)
BY DEF Onward

\* What happens beside the word leaves it with its composition.
LEMMA BesideJoined ==
  ASSUME NEW d, NEW c, Joined(d), Beside(d, c)
  PROVE  Onward(d, c)
BY DEF Beside, SameShown, SameWord, Joined, Onward, Buffer

\* Macro tracking and the two undo records keep their own fields.
LEMMA TrackersBeside ==
  ASSUME NEW d, Wide(d)
  PROVE  /\ Beside(d, ResetMacroUndo(d)) /\ Beside(d, ClearMacroTracking(d))
         /\ Beside(d, TrackMacroBackspace(d)) /\ Beside(d, ResetCommitUndo(d))
         /\ \A c : Beside(d, TrackMacroCharacter(d, c))
         /\ Beside(d, OnNonRestoreKey(d)) /\ Beside(d, TransitionUndoReadyToPrimed(d))
         /\ \A t, r, b : Beside(d, RecordCommitSnapshot(d, t, r, b))
<1>1. ASSUME NEW c, Wide(c) PROVE Beside(c, ResetMacroUndo(c))
  BY <1>1 DEF ResetMacroUndo, Beside, SameShown, SameWord, Wide, TextParts
<1>2. ASSUME NEW c, Wide(c) PROVE Beside(c, [c EXCEPT !.moff = FALSE, !.mbuf = <<>>, !.cross = FALSE])
  BY <1>2 DEF Beside, SameShown, SameWord, Wide, TextParts
<1>3. Beside(d, ResetMacroUndo(d)) /\ Beside(d, ClearMacroTracking(d))
  <2> DEFINE c == ResetMacroUndo(d)
  <2>1. Beside(d, c) /\ Wide(c)
    BY <1>1 DEF Beside, SameShown, SameWord
  <2> HIDE DEF c
  <2>2. Beside(d, [c EXCEPT !.moff = FALSE, !.mbuf = <<>>, !.cross = FALSE])
    BY <2>1, <1>2, BesideAgain
  <2> QED BY <2>1, <2>2 DEF c, ClearMacroTracking
<1>4. Beside(d, TrackMacroBackspace(d))
  <2>1. Beside(d, d) /\ Beside(d, [d EXCEPT !.mbuf = Front(@)])
    BY DEF Beside, SameShown, SameWord, Wide, TextParts
  <2> QED BY <2>1, <1>3 DEF TrackMacroBackspace
<1>5. Beside(d, ResetCommitUndo(d))
  BY DEF ResetCommitUndo, Beside, SameShown, SameWord, Wide, TextParts
<1>6. ASSUME NEW c PROVE Beside(d, TrackMacroCharacter(d, c))
  BY DEF TrackMacroCharacter, Beside, SameShown, SameWord, Wide, TextParts
<1>7. Beside(d, OnNonRestoreKey(d))
  BY <1>1, <1>5, BesideAgain DEF OnNonRestoreKey, Beside, SameShown, SameWord
<1>8. Beside(d, TransitionUndoReadyToPrimed(d))
  BY DEF TransitionUndoReadyToPrimed, Beside, SameShown, SameWord, Wide, TextParts
<1>9. ASSUME NEW t, NEW r, NEW b PROVE Beside(d, RecordCommitSnapshot(d, t, r, b))
  BY DEF RecordCommitSnapshot, Beside, SameShown, SameWord, Wide, TextParts
<1> QED BY <1>3, <1>4, <1>5, <1>6, <1>7, <1>8, <1>9

\* So do the notes one callback leaves for the next.
LEMMA SinkBeside ==
  ASSUME NEW d, Wide(d)
  PROVE  /\ Beside(d, Eat(d)) /\ Beside(d, Pass(d))
         /\ Beside(d, RefreshKeyRouting(d)) /\ Beside(d, RefreshFeatureFlags(d))
         /\ \A k, want : Beside(d, Remember(d, k, want))
         /\ Beside(d, ClearInactiveKeyState(d))
         /\ \A k, again : Beside(d, RememberClaimedSpaceKeyDown(d, k, again))
         /\ \A k : Beside(d, OtherKeyDropsClaim(d, k)) /\ Beside(d, MacroOutcome(d, k))
<1>1. Beside(d, Eat(d)) /\ Beside(d, Pass(d))
  BY DEF Eat, Pass, Beside, SameShown, SameWord, Wide, TextParts
<1>2. Beside(d, RefreshKeyRouting(d)) /\ Beside(d, RefreshFeatureFlags(d))
  <2>1. ASSUME NEW c, Wide(c), NEW x PROVE Beside(c, [c EXCEPT !.cache = x])
    BY <2>1 DEF Beside, SameShown, SameWord, Wide, TextParts
  <2>2. Beside(d, ClearMacroTracking(d)) /\ Wide(ClearMacroTracking(d)) /\ Beside(d, d)
    BY TrackersBeside DEF Beside, SameShown, SameWord
  <2>3. \A x : Beside(d, [ClearMacroTracking(d) EXCEPT !.cache = x])
    BY <2>1, <2>2, BesideAgain
  <2> QED BY <2>2, <2>3 DEF RefreshKeyRouting, RefreshFeatureFlags
<1>3. ASSUME NEW k, NEW want PROVE Beside(d, Remember(d, k, want))
  BY DEF Remember, Beside, SameShown, SameWord, Wide, TextParts
<1>4. Beside(d, ClearInactiveKeyState(d))
  <2> DEFINE r == Remember(d, "", FALSE)
             c == ClearMacroTracking(r)
  <2>1. Beside(d, r) /\ Wide(r)
    BY <1>3 DEF Beside, SameShown, SameWord
  <2>2. Beside(d, c) /\ Wide(c)
    <3> HIDE DEF r
    <3>1. Beside(r, c)
      BY <2>1, TrackersBeside
    <3> QED BY <2>1, <3>1, BesideAgain DEF Beside, SameShown, SameWord
  <2>3. Beside(c, [c EXCEPT !.obs = "", !.mh = "", !.mhEat = FALSE])
    <3> HIDE DEF c
    <3> QED BY <2>2 DEF Beside, SameShown, SameWord, Wide, TextParts
  <2> QED BY <2>2, <2>3, BesideAgain DEF ClearInactiveKeyState
<1>5. ASSUME NEW k, NEW again PROVE Beside(d, RememberClaimedSpaceKeyDown(d, k, again))
  BY DEF RememberClaimedSpaceKeyDown, Beside, SameShown, SameWord, Wide, TextParts
<1>6. ASSUME NEW k PROVE Beside(d, OtherKeyDropsClaim(d, k)) /\ Beside(d, MacroOutcome(d, k))
  BY DEF OtherKeyDropsClaim, MacroOutcome, Beside, SameShown, SameWord, Wide, TextParts
<1> QED BY <1>1, <1>2, <1>3, <1>4, <1>5, <1>6

\* What an edit does to the range of the composition changes no engine.
LEMMA SessionsKeepTheWord ==
  ASSUME NEW d, Wide(d)
  PROVE  /\ \A at, n, new : SameShown(d, SetText(d, at, n, new))
         /\ SameWord(d, EndComposition(d)) /\ ~EndComposition(d).on
         /\ \A at, len, t : /\ SameWord(d, BeginCompositionOnRange(d, at, len, t))
                            /\ BeginCompositionOnRange(d, at, len, t).on
         /\ \A t : SameShown(d, SetCompositionText(d, t))
<1>1. ASSUME NEW at, NEW n, NEW new PROVE SameShown(d, SetText(d, at, n, new))
  BY DEF SetText, SameShown, SameWord, Wide, TextParts
<1>2. SameWord(d, EndComposition(d)) /\ ~EndComposition(d).on
  BY DEF EndComposition, SameWord, Wide, TextParts
<1>3. ASSUME NEW at, NEW len, NEW t
      PROVE  /\ SameWord(d, BeginCompositionOnRange(d, at, len, t))
             /\ BeginCompositionOnRange(d, at, len, t).on
  BY DEF BeginCompositionOnRange, SameWord, Wide, TextParts
<1>4. ASSUME NEW t PROVE SameShown(d, SetCompositionText(d, t))
  <2>1. ASSUME NEW c, SameShown(d, c), NEW x PROVE SameShown(d, [c EXCEPT !.comp = x])
    BY <2>1 DEF SameShown, SameWord, Wide, TextParts
  <2> QED BY <1>1, <2>1 DEF SetCompositionText
<1> QED BY <1>1, <1>2, <1>3, <1>4

\* A composition that could not be started leaves the engine too.
LEMMA StartKeepsTheWord ==
  ASSUME NEW d, Wide(d), NEW t
  PROVE  SameWord(d, StartComposition(d, t))
<1> DEFINE c == IF d.on THEN EndComposition(d) ELSE d
           i == SetText(c, d.caret, Selected(d), t)
<1>1. SameWord(d, c)
  BY SessionsKeepTheWord DEF SameWord
<1>2. SameWord(d, i)
  <2>1. Wide(c)
    BY <1>1 DEF SameWord
  <2> HIDE DEF c
  <2>2. SameShown(c, i)
    BY <2>1, SessionsKeepTheWord
  <2> QED BY <1>1, <2>2 DEF SameShown, SameWord
<1>3. /\ SameWord(d, SetText(i, d.caret, Len(t), <<>>))
      /\ SameWord(d, BeginCompositionOnRange(i, d.caret, Len(t), t))
  <2> HIDE DEF i
  <2>1. Wide(i)
    BY <1>2 DEF SameWord
  <2>2. /\ SameShown(i, SetText(i, d.caret, Len(t), <<>>))
        /\ SameWord(i, BeginCompositionOnRange(i, d.caret, Len(t), t))
    BY <2>1, SessionsKeepTheWord
  <2> QED BY <1>2, <2>2 DEF SameShown, SameWord
<1>4. StartComposition(d, t) = (IF d.grant = "nostart" THEN SetText(i, d.caret, Len(t), <<>>)
                                ELSE BeginCompositionOnRange(i, d.caret, Len(t), t))
  BY DEF StartComposition
<1> HIDE DEF i
<1> QED BY <1>3, <1>4

\* The sessions that start, update and end a composition; an update ends none.
LEMMA CommitSessionKeepsTheWord ==
  ASSUME NEW d, Wide(d), NEW t
  PROVE  /\ SameWord(d, CommitEditSession(d, t))
         /\ SameWord(d, UpdateCompositionEditSession(d, t))
         /\ d.on => UpdateCompositionEditSession(d, t).on
         /\ SameWord(d, StartCompositionEditSession(d, t))
<1>1. SameWord(d, d) /\ SameWord(d, StartComposition(d, t)) /\ SameShown(d, SetCompositionText(d, t))
  BY StartKeepsTheWord, SessionsKeepTheWord DEF SameWord
<1>2. SameWord(d, CommitEditSession(d, t))
  <2> DEFINE c == IF d.comp.word = t THEN d ELSE SetCompositionText(d, t)
  <2>1. SameWord(d, c) /\ Wide(c)
    BY <1>1 DEF SameShown, SameWord
  <2> HIDE DEF c
  <2>2. SameWord(d, EndComposition(c))
    BY <2>1, SessionsKeepTheWord DEF SameWord
  <2> QED BY <2>2, <1>1 DEF CommitEditSession, c
<1>3. SameWord(d, UpdateCompositionEditSession(d, t))
  BY <1>1 DEF UpdateCompositionEditSession, SameShown
<1>4. d.on => UpdateCompositionEditSession(d, t).on
  BY <1>1 DEF UpdateCompositionEditSession, SameShown
<1>5. SameWord(d, StartCompositionEditSession(d, t))
  BY <1>1 DEF StartCompositionEditSession
<1> QED BY <1>2, <1>3, <1>4, <1>5

\* Replacing what stands before the caret is not the composition's business.
LEMMA ReplaceKeepsTheWord ==
  ASSUME NEW d, Wide(d)
  PROVE  /\ \A n, new, x : SameShown(d, ReplacePrecedingText(d, n, new, x))
         /\ \A t, r : SameShown(d, EscRestoreLastCommitSession(d, t, r))
<1>1. ASSUME NEW c, SameShown(d, c), NEW x PROVE SameShown(d, [c EXCEPT !.replaced = x])
  BY <1>1 DEF SameShown, SameWord, Wide, TextParts
<1>2. SameShown(d, d)
  BY DEF SameShown, SameWord
<1>3. ASSUME NEW n, NEW new, NEW x PROVE SameShown(d, ReplacePrecedingText(d, n, new, x))
  BY <1>1, <1>2, SessionsKeepTheWord DEF ReplacePrecedingText
<1>4. ASSUME NEW t, NEW r PROVE SameShown(d, EscRestoreLastCommitSession(d, t, r))
  BY <1>1, <1>2, SessionsKeepTheWord DEF EscRestoreLastCommitSession
<1> QED BY <1>3, <1>4

\* With an empty engine nothing is asked of the composition: a commit may be refused.
LEMMA EmptyIsJoined ==
  ASSUME NEW d, NEW c, Wide(c), c.secret = d.secret
  PROVE  Onward(d, EngineReset(c))
BY DEF EngineReset, EmptyEngine, Onward, Joined, Buffer, Wide, TextParts

\* Each way a word ends leaves the engine empty, be the session granted or not.
LEMMA CommitJoined ==
  ASSUME NEW d, Wide(d)
  PROVE  /\ Onward(d, Commit(d)) /\ Onward(d, CommitRawAndEnd(d)) /\ Onward(d, Reset(d))
         /\ Onward(d, EndCompositionVerbatim(d)) /\ \A c : Onward(d, CommitWithChar(d, c))
<1>1. ASSUME NEW t PROVE Onward(d, EngineReset(CommitEditSession(d, t)))
  BY CommitSessionKeepsTheWord, EmptyIsJoined DEF SameWord
<1>2. ASSUME NEW c, Onward(d, c)
      PROVE  /\ Onward(d, ClearMacroTracking(c)) /\ Onward(d, ResetCommitUndo(c))
             /\ \A t, r, b : Onward(d, RecordCommitSnapshot(c, t, r, b))
  <2>1. Joined(c) /\ Wide(c)
    BY <1>2 DEF Onward, Joined
  <2>2. /\ Onward(c, ClearMacroTracking(c)) /\ Onward(c, ResetCommitUndo(c))
        /\ \A t, r, b : Onward(c, RecordCommitSnapshot(c, t, r, b))
    BY <2>1, TrackersBeside, BesideJoined
  <2> QED BY <1>2, <2>2, OnwardAgain
<1>3. ASSUME NEW t PROVE Onward(d, ClearMacroTracking(EngineReset(CommitEditSession(d, t))))
  BY <1>1, <1>2
<1>4. Onward(d, Commit(d))
  BY <1>3, <1>2 DEF Commit
<1>5. Onward(d, CommitRawAndEnd(d))
  BY <1>3 DEF CommitRawAndEnd
<1>6. Onward(d, EndCompositionVerbatim(d))
  BY <1>3, <1>2 DEF EndCompositionVerbatim
<1>7. ASSUME NEW c PROVE Onward(d, CommitWithChar(d, c))
  <2> DEFINE e == EngineReset(CommitEditSession(d, Append(d.eng.text, c)))
             f == IF e.cross THEN e ELSE ClearMacroTracking(e)
  <2>1. Onward(d, f)
    BY <1>1, <1>3
  <2>2. CommitWithChar(d, c) = RecordCommitSnapshot(f, Append(d.eng.text, c), d.eng.raw, TRUE)
    BY DEF CommitWithChar
  <2> HIDE DEF f
  <2> QED BY <2>1, <2>2, <1>2
<1>8. Onward(d, Reset(d))
  <2> DEFINE c == ClearMacroTracking(d)
             e == EngineReset(c)
  <2>1. SameWord(d, c)
    BY TrackersBeside DEF Beside, SameShown
  <2>2. Wide(e) /\ ~Buffer(e) /\ e.secret = d.secret
    <3> HIDE DEF c
    <3> QED BY <2>1 DEF EngineReset, EmptyEngine, SameWord, Buffer, Wide, TextParts
  <2>3. SameWord(e, EndComposition(e))
    <3> HIDE DEF e
    <3> QED BY <2>2, SessionsKeepTheWord
  <2> HIDE DEF e
  <2> QED BY <2>2, <2>3 DEF Reset, e, c, SameWord, Onward, Joined, Buffer
<1> QED BY <1>4, <1>5, <1>6, <1>7, <1>8

\* A word revived by a Backspace or by a letter has a composition, or no engine.
LEMMA RevivedJoined ==
  ASSUME NEW d, Joined(d)
  PROVE  /\ Onward(d, ReviveCompositionEditSession(d))
         /\ \A word, c : Onward(d, ReviveAndTypeEditSession(d, word, c))
<1>1. Onward(d, d) /\ Wide(d) /\ SameWord(d, d)
  BY DEF Onward, Joined, SameWord
<1>2. ASSUME NEW c, SameWord(d, c), NEW at, NEW len, NEW t, NEW u, NEW e
      PROVE  Onward(d, [SetCompositionText(BeginCompositionOnRange(c, at, len, t), u) EXCEPT !.eng = e])
  <2> DEFINE a == BeginCompositionOnRange(c, at, len, t)
             s == SetCompositionText(a, u)
  <2>1. SameWord(d, a) /\ a.on
    BY <1>2, SessionsKeepTheWord DEF SameWord
  <2>2. SameWord(d, s) /\ s.on
    <3> HIDE DEF a
    <3> QED BY <2>1, SessionsKeepTheWord DEF SameShown, SameWord
  <2> HIDE DEF s
  <2>3. Onward(d, [s EXCEPT !.eng = e])
    BY <2>2 DEF SameWord, Onward, Joined, Buffer, Wide, TextParts
  <2> QED BY <2>3 DEF s
<1>3. ASSUME NEW c, SameWord(d, c) PROVE Onward(d, [c EXCEPT !.eng = EmptyEngine])
  BY <1>3, EmptyIsJoined DEF EngineReset, SameWord
<1>4. Onward(d, ReviveCompositionEditSession(d))
  <2> DEFINE c == IF d.on THEN EndComposition(d) ELSE d
             e == EngineBackspace(SeedRevivedWord(d.rev.word,
                                    MatchingRawForCommittedWord(d, d.rev.word)))
             s == SetText(c, d.rev.at, d.rev.len, e.text)
             b == [SetCompositionText(BeginCompositionOnRange(c, d.rev.at, d.rev.len, d.rev.word),
                                      e.text) EXCEPT !.eng = e]
  <2>1. SameWord(d, c) /\ Wide(c)
    BY <1>1, SessionsKeepTheWord DEF SameWord
  <2> HIDE DEF c, e
  <2>2. SameWord(d, s)
    BY <2>1, SessionsKeepTheWord DEF SameShown, SameWord
  <2>3. Onward(d, b)
    BY <2>1, <1>2
  <2>4. Onward(d, [s EXCEPT !.eng = EmptyEngine])
    BY <2>2, <1>3
  <2> HIDE DEF s, b
  <2>5. b.eng.text = <<>> => Onward(d, EndComposition(b))
    <3>1. Wide(b)
      BY <2>3 DEF Onward, Joined
    <3> QED BY <2>3, <3>1, SessionsKeepTheWord DEF SameWord, Onward, Joined, Buffer
  <2>6. ReviveCompositionEditSession(d) =
          IF ~Granted(d) THEN d
          ELSE IF d.grant = "nostart" THEN [s EXCEPT !.eng = EmptyEngine]
          ELSE IF b.eng.text = <<>> THEN EndComposition(b) ELSE b
    BY DEF ReviveCompositionEditSession, s, b, c, e
  <2> QED BY <1>1, <2>3, <2>4, <2>5, <2>6
<1>5. ASSUME NEW word, NEW k PROVE Onward(d, ReviveAndTypeEditSession(d, word, k))
  <2> DEFINE e == PushKey(SeedRevivedWord(word, MatchingRawForCommittedWord(d, word)), k)
             b == [SetCompositionText(BeginCompositionOnRange(d, d.caret - Len(word), Len(word), word),
                                      e.text) EXCEPT !.eng = e]
  <2>1. ASSUME NEW c, Onward(d, c), NEW x PROVE Onward(d, [c EXCEPT !.replaced = x])
    BY <2>1 DEF Onward, Joined, Buffer, Wide, TextParts
  <2> HIDE DEF e
  <2>2. Onward(d, b)
    BY <1>1, <1>2
  <2>3. Onward(d, [d EXCEPT !.eng = EmptyEngine])
    BY <1>1, <1>3
  <2> HIDE DEF b
  <2>4. /\ Onward(d, [b EXCEPT !.replaced = TRUE]) /\ Onward(d, [d EXCEPT !.replaced = FALSE])
        /\ Onward(d, [[d EXCEPT !.eng = EmptyEngine] EXCEPT !.replaced = FALSE])
    BY <1>1, <2>1, <2>2, <2>3
  <2>5. ReviveAndTypeEditSession(d, word, k) =
          IF ~Granted(d) THEN [d EXCEPT !.replaced = FALSE]
          ELSE IF d.grant = "nostart" THEN [[d EXCEPT !.eng = EmptyEngine] EXCEPT !.replaced = FALSE]
          ELSE [b EXCEPT !.replaced = TRUE]
    BY DEF ReviveAndTypeEditSession, b, e
  <2> QED BY <2>4, <2>5
<1> QED BY <1>4, <1>5

\* What a callback notes down for the next has no part in the word.
LEMMA NotesOnward ==
  ASSUME NEW d, NEW c, Onward(d, c), NEW x, NEW y, NEW z
  PROVE  /\ Onward(d, [c EXCEPT !.out = x]) /\ Onward(d, [c EXCEPT !.res = x])
         /\ Onward(d, [c EXCEPT !.want = x]) /\ Onward(d, [c EXCEPT !.vk = x])
         /\ Onward(d, [c EXCEPT !.obs = x]) /\ Onward(d, [c EXCEPT !.rev = x])
         /\ Onward(d, [c EXCEPT !.obs = x, !.mh = y]) /\ Onward(d, [c EXCEPT !.obs = x, !.vk = y])
         /\ Onward(d, [c EXCEPT !.vk = x, !.obs = y]) /\ Onward(d, [c EXCEPT !.rev = x, !.out = y])
         /\ Onward(d, [c EXCEPT !.mh = x, !.mhEat = y, !.obs = z])
         /\ Onward(d, [c EXCEPT !.repost = x, !.timers = y])
         /\ Onward(d, [c EXCEPT !.mbuf = x, !.cross = y])
         /\ Onward(d, [c EXCEPT !.repost = x, !.timers = @ - 1])
BY DEF Onward, Joined, Buffer, Wide, TextParts

\* The same for the operators of the key event sink and the trackers.
LEMMA NotesOfTheSink ==
  ASSUME NEW d, NEW c, Onward(d, c), NEW k, NEW x
  PROVE  /\ Onward(d, Eat(c)) /\ Onward(d, Pass(c)) /\ Onward(d, ByReplaced(c))
         /\ Onward(d, Remember(c, k, x)) /\ Onward(d, MacroOutcome(c, k))
         /\ Onward(d, RememberClaimedSpaceKeyDown(c, k, x)) /\ Onward(d, OtherKeyDropsClaim(c, k))
         /\ Onward(d, ClearInactiveKeyState(c)) /\ Onward(d, RefreshKeyRouting(c))
         /\ Onward(d, ResetMacroUndo(c)) /\ Onward(d, ClearMacroTracking(c))
         /\ Onward(d, TrackMacroBackspace(c)) /\ Onward(d, TrackMacroCharacter(c, k))
         /\ Onward(d, ResetCommitUndo(c)) /\ Onward(d, OnNonRestoreKey(c))
         /\ Onward(d, TransitionUndoReadyToPrimed(c))
<1>1. Joined(c) /\ Wide(c)
  BY DEF Onward, Joined
<1>2. /\ Onward(c, Eat(c)) /\ Onward(c, Pass(c))
      /\ Onward(c, Remember(c, k, x)) /\ Onward(c, MacroOutcome(c, k))
      /\ Onward(c, RememberClaimedSpaceKeyDown(c, k, x)) /\ Onward(c, OtherKeyDropsClaim(c, k))
      /\ Onward(c, ClearInactiveKeyState(c)) /\ Onward(c, RefreshKeyRouting(c))
  BY <1>1, SinkBeside, BesideJoined
<1>3. /\ Onward(c, ResetMacroUndo(c)) /\ Onward(c, ClearMacroTracking(c))
      /\ Onward(c, TrackMacroBackspace(c)) /\ Onward(c, TrackMacroCharacter(c, k))
      /\ Onward(c, ResetCommitUndo(c)) /\ Onward(c, OnNonRestoreKey(c))
      /\ Onward(c, TransitionUndoReadyToPrimed(c))
  BY <1>1, TrackersBeside, BesideJoined
<1>4. Onward(d, ByReplaced(c))
  BY NotesOnward DEF ByReplaced
<1> QED BY <1>2, <1>3, <1>4, OnwardAgain

\* The lemmas on ending and reviving a word, inside a callback.
LEMMA AllJoined ==
  ASSUME NEW d, NEW c, Onward(d, c)
  PROVE  /\ Wide(c) /\ Joined(c)
         /\ Onward(d, Commit(c)) /\ Onward(d, CommitRawAndEnd(c)) /\ Onward(d, Reset(c))
         /\ Onward(d, EndCompositionVerbatim(c)) /\ \A x : Onward(d, CommitWithChar(c, x))
         /\ Onward(d, ReviveCompositionEditSession(c))
         /\ \A t, x : Onward(d, ReviveAndTypeEditSession(c, t, x))
<1>1. Joined(c) /\ Wide(c)
  BY DEF Onward, Joined
<1>2. /\ Onward(c, Commit(c)) /\ Onward(c, CommitRawAndEnd(c)) /\ Onward(c, Reset(c))
      /\ Onward(c, EndCompositionVerbatim(c)) /\ \A x : Onward(c, CommitWithChar(c, x))
  BY <1>1, CommitJoined
<1>3. /\ Onward(c, ReviveCompositionEditSession(c))
      /\ \A t, x : Onward(c, ReviveAndTypeEditSession(c, t, x))
  BY <1>1, RevivedJoined
<1> QED BY <1>1, <1>2, <1>3, OnwardAgain

\* An expansion commits a composition, or empties the engine, or leaves both.
LEMMA ExpandJoined ==
  ASSUME NEW d, Joined(d), NEW k, NEW plan
  PROVE  Onward(d, ExpandMacro(d, k, plan))
<1> DEFINE own  == k \in {" ", "."}
           text == IF plan.part \/ ~own THEN Expansion ELSE Append(Expansion, k)
           c == CommitEditSession(d, IF plan.cross THEN d.eng.text ELSE text)
           r == ReplacePrecedingText(IF d.on THEN EngineReset(c) ELSE d, plan.n, text, <<"any">>)
           p == IF plan.cross \/ ~d.on THEN r ELSE [c EXCEPT !.replaced = ~c.on]
           e == ResetCommitUndo(ClearMacroTracking(EngineReset(p)))
           q == [e EXCEPT !.res = IF plan.part \/ own THEN "eat" ELSE "pass",
                          !.grown = TRUE,
                          !.mundo = IF desk.undo /\ own THEN plan.shortcut ELSE <<>>,
                          !.mwas  = IF desk.undo /\ own THEN text ELSE <<>>,
                          !.mlate = FALSE]
           n == [ClearMacroTracking(p) EXCEPT !.res = "none"]
<1>1. SameWord(d, c) /\ Wide(d) /\ Onward(d, d) /\ SameShown(d, d)
  BY CommitSessionKeepsTheWord DEF Joined, Onward, SameShown, SameWord
<1> HIDE DEF text, c
<1>2. Onward(d, r)
  <2> DEFINE b == IF d.on THEN EngineReset(c) ELSE d
  <2>1. Onward(d, b) /\ Wide(b)
    BY <1>1, EmptyIsJoined DEF SameWord, Onward, Joined
  <2> HIDE DEF b
  <2>2. SameShown(b, r)
    BY <2>1, ReplaceKeepsTheWord DEF b
  <2> HIDE DEF r
  <2> QED BY <2>1, <2>2 DEF SameShown, SameWord, Onward, Joined, Buffer
<1>3. Wide(p) /\ p.secret = d.secret /\ (~p.replaced => Onward(d, p))
  <2> HIDE DEF r
  <2>1. CASE plan.cross \/ ~d.on
    BY <1>2, <2>1 DEF Onward, Joined
  <2>2. CASE ~(plan.cross \/ ~d.on)
    <3>1. p = [c EXCEPT !.replaced = ~c.on]
      BY <2>2
    <3> HIDE DEF p
    <3> QED BY <1>1, <3>1 DEF SameWord, Onward, Joined, Wide, TextParts
  <2> QED BY <2>1, <2>2
<1> HIDE DEF p
<1>4. Onward(d, EngineReset(p))
  BY <1>3, EmptyIsJoined
<1>5. Onward(d, e)
  BY <1>4, NotesOfTheSink
<1>6. Onward(d, q)
  <2> HIDE DEF e
  <2> QED BY <1>5 DEF Onward, Joined, Buffer, Wide, TextParts
<1>7. ~p.replaced => Onward(d, n)
  BY <1>3, NotesOfTheSink, NotesOnward
<1>8. ExpandMacro(d, k, plan) = IF ~p.replaced THEN n ELSE q
  BY DEF ExpandMacro, p, r, c, text
<1> HIDE DEF q, n
<1> QED BY <1>6, <1>7, <1>8

\* A trigger, matched or not.
LEMMA TriggerJoined ==
  ASSUME NEW d, NEW b, Onward(b, d), NEW k
  PROVE  Onward(b, HandleMacroTrigger(d, k))
<1> DEFINE none == [d EXCEPT !.res = "none"]
<1>1. Onward(b, none)
  BY NotesOnward
<1>2. /\ Onward(b, ClearMacroTracking(none))
      /\ \A x : Onward(b, [none EXCEPT !.mbuf = x, !.cross = TRUE])
      /\ Onward(b, [none EXCEPT !.mbuf = Append(@, " "), !.cross = TRUE])
  <2> HIDE DEF none
  <2> QED BY <1>1, NotesOnward, NotesOfTheSink
<1>3. \A plan : Onward(b, ExpandMacro(d, k, plan))
  BY AllJoined, ExpandJoined, OnwardAgain
<1> QED BY <1>2, <1>3 DEF HandleMacroTrigger

\* Taking an expansion back.
LEMMA UndoJoined ==
  ASSUME NEW d, NEW b, Onward(b, d)
  PROVE  Onward(b, UndoMacro(d))
<1> DEFINE c == ResetMacroUndo(d)
           r == ReplacePrecedingText(c, Len(d.mwas), d.mundo, d.mwas)
<1>1. Onward(b, c) /\ Wide(c)
  BY NotesOfTheSink DEF Onward, Joined
<1> HIDE DEF c
<1>2. SameShown(c, r)
  BY <1>1, ReplaceKeepsTheWord
<1> HIDE DEF r
<1>3. Onward(b, r)
  BY <1>1, <1>2 DEF SameShown, SameWord, Onward, Joined, Buffer
<1>4. \A s : Onward(b, MacroUndone(r, s))
  BY <1>3 DEF MacroUndone, Onward, Joined, Buffer, Wide, TextParts
<1> QED BY <1>4 DEF UndoMacro, r, c

\* A letter that has no composition to go to leaves no engine.
LEMMA PushJoined ==
  ASSUME NEW d, NEW b, Onward(b, d), NEW c
  PROVE  Onward(b, PushEngineKey(d, c))
<1> DEFINE e == PushKey(d.eng, c)
           s == IF d.on THEN UpdateCompositionEditSession(d, e.text)
                ELSE StartCompositionEditSession(d, e.text)
<1>1. SameWord(d, s)
  BY AllJoined, CommitSessionKeepsTheWord
<1>2. PushEngineKey(d, c) = IF s.on THEN [s EXCEPT !.eng = e, !.out = "eat"]
                            ELSE [s EXCEPT !.eng = EmptyEngine, !.out = "pass"]
  BY DEF PushEngineKey
<1> HIDE DEF s, e
<1> QED BY <1>1, <1>2 DEF SameWord, Onward, Joined, Buffer, EmptyEngine, Wide, TextParts

\* A letter, at the end of a committed word too.
LEMMA TypeJoined ==
  ASSUME NEW d, NEW b, Onward(b, d), NEW c
  PROVE  Onward(b, TypeLetter(d, c))
<1>1. ASSUME NEW r, Onward(b, r)
      PROVE  Onward(b, PushEngineKey(TrackMacroCharacter(r, c), c)) /\ Onward(b, [r EXCEPT !.out = "eat"])
  BY <1>1, NotesOnward, NotesOfTheSink, PushJoined
<1>2. \A word : Onward(b, ReviveAndTypeEditSession(d, word, c))
  BY AllJoined
<1> QED BY <1>1, <1>2 DEF TypeLetter

\* Backspace leaves a letter only in a word of two, which has its composition.
LEMMA BackspaceJoined ==
  ASSUME NEW d, NEW b, Onward(b, d)
  PROVE  Onward(b, ProcessBackspace(d))
<1> DEFINE e == EngineBackspace(d.eng)
           m == TrackMacroBackspace(d)
           t == [m EXCEPT !.eng = e]
<1>1. Beside(d, m)
  BY AllJoined, TrackersBeside
<1>2. Wide(t) /\ t.on = d.on /\ t.eng = e /\ t.secret = b.secret
  <2> HIDE DEF m, e
  <2> QED BY <1>1 DEF Beside, SameShown, SameWord, Onward, Wide, TextParts
<1>3. e.text # <<>> => d.on
  BY DEF EngineBackspace, EmptyEngine, Onward, Joined, Buffer
<1>4. ProcessBackspace(d) = IF e.text # <<>> THEN UpdateCompositionEditSession(t, e.text)
                            ELSE CommitEditSession(t, <<>>)
  BY DEF ProcessBackspace
<1> HIDE DEF e, t
<1>5. CASE e.text # <<>>
  BY <1>2, <1>3, <1>4, <1>5, CommitSessionKeepsTheWord DEF SameWord, Onward, Joined, Buffer
<1>6. CASE e.text = <<>>
  BY <1>2, <1>4, <1>6, CommitSessionKeepsTheWord DEF SameWord, Onward, Joined, Buffer
<1> QED BY <1>5, <1>6

\* The keys of a word together.
LEMMA HandleKeyJoined ==
  ASSUME NEW d, NEW b, Onward(b, d), NEW k
  PROVE  Onward(b, HandleKey(d, k))
<1>1. Onward(b, ByReplaced(UndoMacro(d)))
  BY UndoJoined, NotesOfTheSink
<1>2. Onward(b, [ReviveCompositionEditSession(d) EXCEPT !.rev = NoRange, !.out = "eat"])
  BY AllJoined, NotesOnward
<1>3. Onward(b, [ProcessBackspace(d) EXCEPT !.out = "eat"])
  BY BackspaceJoined, NotesOnward
<1>4. Onward(b, [CommitWithChar(d, " ") EXCEPT !.out = "eat"])
  BY AllJoined, NotesOnward
<1>5. Onward(b, TypeLetter(d, k))
  BY TypeJoined
<1> QED BY <1>1, <1>2, <1>3, <1>4, <1>5 DEF HandleKey

\* Desync recovery, chords and Esc.
LEMMA SyncJoined ==
  ASSUME NEW d, NEW b, Onward(b, d)
  PROVE  Onward(b, Resync(d)) /\ Onward(b, Chord(d)) /\ Onward(b, Escape(d))
<1>1. Onward(b, Resync(d))
  BY AllJoined DEF Resync
<1>2. Onward(b, Chord(d))
  <2> DEFINE u == ResetMacroUndo(d)
             c == IF Buffer(u) THEN Commit(u) ELSE u
  <2>1. Onward(b, u)
    BY NotesOfTheSink
  <2> HIDE DEF u
  <2>2. Onward(b, c)
    BY <2>1, AllJoined
  <2> HIDE DEF c
  <2>3. Onward(b, Pass(c))
    BY <2>2, NotesOfTheSink
  <2> QED BY <2>3 DEF Chord, c, u
<1>3. Onward(b, Escape(d))
  <2> DEFINE v == [d EXCEPT !.vk = ""]
  <2>1. Onward(b, v)
    BY NotesOnward
  <2>2. Escape(d) =
          CASE desk.esc /\ Buffer(v) /\ v.eng.raw # <<>> -> Eat(CommitRawAndEnd(v))
            [] Buffer(v) /\ ~(desk.esc /\ v.eng.raw # <<>>) -> Pass(EndCompositionVerbatim(v))
            [] desk.esc /\ ~Buffer(v) /\ v.undo = "Primed" /\ WithinUndoWindow(v) ->
                 ByReplaced(TryRestoreLastCommitRaw(v))
            [] OTHER -> Pass(v)
    BY DEF Escape
  <2> HIDE DEF v
  <2>3. Onward(b, Eat(CommitRawAndEnd(v))) /\ Onward(b, Pass(EndCompositionVerbatim(v))) /\ Onward(b, Pass(v))
    BY <2>1, AllJoined, NotesOfTheSink
  <2>4. Onward(b, ByReplaced(TryRestoreLastCommitRaw(v)))
    <3> DEFINE r == EscRestoreLastCommitSession(v, CommittedWord(v.last), v.last.raw)
    <3>1. SameShown(v, r)
      BY <2>1, AllJoined, ReplaceKeepsTheWord
    <3> HIDE DEF r
    <3>2. Onward(b, r)
      BY <2>1, <3>1 DEF SameShown, SameWord, Onward, Joined, Buffer
    <3> QED BY <3>2, NotesOfTheSink DEF TryRestoreLastCommitRaw, r
  <2> QED BY <2>2, <2>3, <2>4
<1> QED BY <1>1, <1>2, <1>3

\* OnTestKeyDown in a field that is not blocked.
LEMMA TestRoutedJoined ==
  ASSUME NEW d, NEW b, Onward(b, d), NEW k
  PROVE  Onward(b, TestRouted(d, k))
<1>1. ASSUME NEW c, Onward(b, c) PROVE Onward(b, TestEnglish(c, k))
  BY <1>1, NotesOnward, NotesOfTheSink, TriggerJoined DEF TestEnglish
<1>2. ASSUME NEW c, Onward(b, c), NEW want PROVE Onward(b, TestBackspace(c, want))
  <2>1. Onward(b, Eat(Remember(c, "bk", TRUE)))
        /\ Onward(b, Pass(Remember(TransitionUndoReadyToPrimed(c), "bk", FALSE)))
    BY <1>2, NotesOfTheSink
  <2>2. Onward(b, ResetCommitUndo(c))
    BY <1>2, NotesOfTheSink
  <2>3. \A a : Onward(b, a) => Onward(b, PrepareBackspaceRevive(a))
    BY NotesOnward DEF PrepareBackspaceRevive
  <2>4. \A a, x : Onward(b, a) => Onward(b, [a EXCEPT !.want = x])
    BY NotesOnward
  <2> QED BY <1>2, <2>1, <2>2, <2>3, <2>4 DEF TestBackspace
<1>3. ASSUME NEW c, Onward(b, c) PROVE Onward(b, TestRest(c, k))
  <2> DEFINE want == WantKey(c, k) /\ ~(k = "bk" /\ desk.keep /\ HasNonEmptySelection(c))
             t == IF k = "bk" /\ ~Buffer(c) THEN TestBackspace(c, want) ELSE [c EXCEPT !.want = want]
             r == Remember(t, k, t.want)
             m == IF /\ ~r.want /\ ~IsEnglishMacroTrackingActive(r)
                     /\ HasMacroCandidate(r) /\ IsCommitTrigger(k)
                  THEN HandleMacroTrigger(r, k) ELSE [r EXCEPT !.res = "none"]
             v == IF ~m.want /\ Buffer(m) THEN Pass(Commit(m))
                  ELSE IF m.want THEN Eat(m) ELSE Pass(m)
  <2>1. Onward(b, t)
    <3> HIDE DEF want
    <3> QED BY <1>2, <1>3, NotesOnward
  <2>2. TestRest(c, k) = IF t.out # "go" THEN t ELSE IF m.res # "none" THEN MacroOutcome(m, k) ELSE v
    BY DEF TestRest
  <2> HIDE DEF t
  <2>3. Onward(b, r)
    BY <2>1, NotesOfTheSink
  <2> HIDE DEF r
  <2>4. Onward(b, m)
    BY <2>3, TriggerJoined, NotesOnward
  <2> HIDE DEF m
  <2>5. Onward(b, v) /\ Onward(b, MacroOutcome(m, k))
    BY <2>4, AllJoined, NotesOfTheSink
  <2> HIDE DEF v
  <2> QED BY <2>1, <2>2, <2>5
<1>4. Onward(b, Pass(Remember(Commit(d), k, FALSE)))
  BY AllJoined, NotesOfTheSink
<1>5. ASSUME NEW a, Onward(b, a)
      PROVE  /\ Onward(b, Chord(a)) /\ Onward(b, Escape(a)) /\ Onward(b, Eat(Remember(a, k, TRUE)))
             /\ Onward(b, TestEnglish(a, k)) /\ Onward(b, TestRest(TestEnglish(a, k), k))
  BY <1>5, <1>1, <1>3, SyncJoined, NotesOfTheSink
<1>6. Onward(b, Resync(d)) /\ Onward(b, Resync(OnNonRestoreKey(d)))
  BY SyncJoined, NotesOfTheSink
<1> QED BY <1>4, <1>5, <1>6 DEF TestRouted

\* OnKeyDown in a field that is not blocked.
LEMMA KeyDownRoutedJoined ==
  ASSUME NEW d, NEW b, Onward(b, d), NEW k, NEW again
  PROVE  Onward(b, KeyDownRouted(d, k, again))
<1>1. ASSUME NEW m, Onward(b, m) PROVE Onward(b, ByMacro(m, k, again))
  BY <1>1, NotesOfTheSink DEF ByMacro
<1>2. Onward(b, KeyDownEnglish(d, k, again))
  <2> DEFINE o == [d EXCEPT !.obs = "", !.vk = ""]
  <2>1. Onward(b, o)
    BY NotesOnward
  <2>2. KeyDownEnglish(d, k, again) =
          CASE k = d.obs                     -> Pass(o)
            [] k # d.obs /\ k \in Letters    -> Pass(TrackMacroCharacter(o, k))
            [] k # d.obs /\ k = "bk"         -> Pass(TrackMacroBackspace(o))
            [] OTHER -> ByMacro(HandleMacroTrigger(o, k), k, again)
    BY DEF KeyDownEnglish
  <2> HIDE DEF o
  <2> QED BY <1>1, <2>1, <2>2, NotesOfTheSink, TriggerJoined
<1>3. Onward(b, KeyDownRest(d, k, again))
  <2> DEFINE m == IF HasMacroCandidate(d) /\ IsCommitTrigger(k)
                  THEN HandleMacroTrigger(d, k) ELSE [d EXCEPT !.res = "none"]
             v == [m EXCEPT !.vk = ""]
  <2>1. Onward(b, m)
    BY NotesOnward, TriggerJoined
  <2> HIDE DEF m
  <2>2. Onward(b, v)
    BY <2>1, NotesOnward
  <2> HIDE DEF v
  <2>3. Onward(b, Eat(CommitWithChar(v, k))) /\ Onward(b, Pass(v)) /\ Onward(b, HandleKey(v, k))
    BY <2>2, AllJoined, NotesOfTheSink, HandleKeyJoined
  <2>4. Onward(b, RememberClaimedSpaceKeyDown(HandleKey(v, k), k, again))
    BY <2>3, NotesOfTheSink
  <2>5. Onward(b, CommitAndPassOn(v, k))
    <3>1. Onward(b, Commit(v))
      BY <2>2, AllJoined
    <3>2. \A c : Onward(b, c) => Onward(b, Eat([c EXCEPT !.repost = TRUE, !.timers = @ + 1]))
      <4>1. \A c : Onward(b, c) => Onward(b, [c EXCEPT !.repost = TRUE, !.timers = @ + 1])
        BY NotesOnward
      <4> QED BY <4>1, NotesOfTheSink
    <3> QED BY <3>1, <3>2, NotesOfTheSink DEF CommitAndPassOn
  <2>6. Onward(b, ByMacro(m, k, again))
    BY <2>1, <1>1
  <2> QED BY <2>3, <2>4, <2>5, <2>6 DEF KeyDownRest, m, v
<1>4. Onward(b, Chord(d)) /\ Onward(b, Escape(d))
  BY SyncJoined
<1>5. Onward(b, Pass([Commit(d) EXCEPT !.vk = ""]))
  BY AllJoined, NotesOnward, NotesOfTheSink
<1>6. Onward(b, ByReplaced(UndoMacro([d EXCEPT !.vk = "", !.obs = ""])))
  BY NotesOnward, UndoJoined, NotesOfTheSink
<1>7. \A x : LET c == [RememberClaimedSpaceKeyDown(d, k, x) EXCEPT !.mh = "", !.mhEat = FALSE, !.obs = ""]
             IN Onward(b, Eat(c)) /\ Onward(b, Pass(c))
  <2>1. \A x : Onward(b, RememberClaimedSpaceKeyDown(d, k, x))
    BY NotesOfTheSink
  <2>2. \A x : Onward(b, [RememberClaimedSpaceKeyDown(d, k, x) EXCEPT !.mh = "", !.mhEat = FALSE, !.obs = ""])
    BY <2>1, NotesOnward
  <2> QED BY <2>2, NotesOfTheSink
<1> QED BY <1>2, <1>3, <1>4, <1>5, <1>6, <1>7 DEF KeyDownRouted

\* What a callback does before it looks at the field.
LEMMA FrontBeside ==
  ASSUME NEW d, Wide(d), NEW k, NEW c,
         c \in {RefreshKeyRouting([d EXCEPT !.out = "go"])}
  PROVE  /\ Beside(d, OtherKeyDropsClaim([c EXCEPT !.obs = "", !.mh = ""], k))
         /\ Beside(d, OtherKeyDropsClaim([ResetMacroUndo(c) EXCEPT !.obs = "", !.mh = ""], k))
         /\ Beside(d, OtherKeyDropsClaim(ResetMacroUndo(c), k)) /\ Beside(d, OtherKeyDropsClaim(c, k))
<1>1. ASSUME NEW a, Beside(d, a)
      PROVE  /\ Beside(d, OtherKeyDropsClaim(a, k)) /\ Beside(d, [a EXCEPT !.obs = "", !.mh = ""])
             /\ Beside(d, ResetMacroUndo(a)) /\ Beside(d, RefreshKeyRouting(a))
  <2>1. Wide(a)
    BY <1>1 DEF Beside, SameShown, SameWord
  <2>2. Beside(a, [a EXCEPT !.obs = "", !.mh = ""])
    BY <2>1 DEF Beside, SameShown, SameWord, Wide, TextParts
  <2> QED BY <1>1, <2>1, <2>2, TrackersBeside, SinkBeside, BesideAgain
<1>2. Beside(d, [d EXCEPT !.out = "go"])
  BY DEF Beside, SameShown, SameWord, Wide, TextParts
<1>3. Beside(d, c)
  BY <1>1, <1>2
<1> QED BY <1>1, <1>3

\* The scope of a field for a password blocks it, if it can be read or has been.
LEMMA CheckedField ==
  ASSUME NEW d, Wide(d), NEW c, c = CheckContextBlocked(d)
  PROVE  /\ SameShown(d, c) /\ c.grant = d.grant /\ c.text = d.text /\ c.caret = d.caret
         /\ d.secret /\ (d.seen => d.scope) /\ (Granted(d) \/ d.seen) => c.scope /\ c.blocked
BY DEF CheckContextBlocked, SameShown, SameWord, Wide, TextParts

\* A callback keeps a word with its composition, in any field.
LEMMA CallbacksJoined ==
  ASSUME NEW d, Joined(d), NEW k, NEW again
  PROVE  Onward(d, OnTestKeyDown(d, k, again)) /\ Onward(d, OnKeyDown(d, k, again))
<1> DEFINE c == RefreshKeyRouting([d EXCEPT !.out = "go"])
<1>1. ASSUME NEW r, Beside(d, r)
      PROVE  Onward(d, r) /\ Onward(d, CheckContextBlocked(r))
  <2>1. Onward(d, r)
    BY <1>1, BesideJoined
  <2>2. SameShown(r, CheckContextBlocked(r))
    BY <2>1, AllJoined, CheckedField
  <2> QED BY <2>1, <2>2 DEF SameShown, SameWord, Onward, Joined, Buffer
<1>2. ASSUME NEW r, Onward(d, r)
      PROVE  /\ Onward(d, Pass(ClearMacroTracking(r))) /\ Onward(d, Eat(r))
             /\ Onward(d, Pass(ClearInactiveKeyState(r))) /\ Onward(d, TestRouted(r, k))
             /\ Onward(d, KeyDownRouted(Resync(r), k, again))
             /\ Onward(d, Pass(CommitBeforeInactiveBypass(r)))
  <2>1. Onward(d, Pass(CommitBeforeInactiveBypass(r)))
    BY <1>2, AllJoined, NotesOfTheSink DEF CommitBeforeInactiveBypass
  <2>2. Onward(d, KeyDownRouted(Resync(r), k, again))
    BY <1>2, SyncJoined, KeyDownRoutedJoined
  <2> QED BY <1>2, <2>1, <2>2, TestRoutedJoined, NotesOfTheSink
<1>3. /\ Beside(d, OtherKeyDropsClaim([c EXCEPT !.obs = "", !.mh = ""], k))
      /\ Beside(d, OtherKeyDropsClaim([ResetMacroUndo(c) EXCEPT !.obs = "", !.mh = ""], k))
      /\ Beside(d, OtherKeyDropsClaim(ResetMacroUndo(c), k)) /\ Beside(d, OtherKeyDropsClaim(c, k))
  BY FrontBeside DEF Joined
<1>4. Onward(d, OnTestKeyDown(d, k, again))
  <2> DEFINE f == [IF k # "bk" THEN ResetMacroUndo(c) ELSE c EXCEPT !.obs = "", !.mh = ""]
             r == OtherKeyDropsClaim(f, k)
             e == CheckContextBlocked(r)
  <2>1. Beside(d, r)
    BY <1>3
  <2>2. OnTestKeyDown(d, k, again) =
          IF ShouldSuppressClaimedKeyDown(r, k, again) THEN Eat(r)
          ELSE IF ~Routed(r) THEN Pass(ClearInactiveKeyState(r))
          ELSE IF e.blocked THEN Pass(ClearMacroTracking(e)) ELSE TestRouted(e, k)
    BY DEF OnTestKeyDown
  <2> HIDE DEF r
  <2>3. Onward(d, r) /\ Onward(d, e)
    BY <2>1, <1>1
  <2> HIDE DEF e
  <2> QED BY <1>2, <2>2, <2>3
<1>5. Onward(d, OnKeyDown(d, k, again))
  <2> DEFINE f == IF k # "bk" /\ k # c.mh THEN ResetMacroUndo(c) ELSE c
             r == OtherKeyDropsClaim(f, k)
             e == CheckContextBlocked(r)
  <2>1. Beside(d, r)
    BY <1>3
  <2>2. OnKeyDown(d, k, again) =
          IF ShouldSuppressClaimedKeyDown(r, k, again) THEN Eat(r)
          ELSE IF ~Routed(r) THEN Pass(CommitBeforeInactiveBypass(r))
          ELSE IF e.blocked THEN Pass(ClearMacroTracking(e)) ELSE KeyDownRouted(Resync(e), k, again)
    BY DEF OnKeyDown
  <2> HIDE DEF r
  <2>3. Onward(d, r) /\ Onward(d, e)
    BY <2>1, <1>1
  <2> HIDE DEF e
  <2> QED BY <1>2, <2>2, <2>3
<1> QED BY <1>4, <1>5

(* In a field for a password the document is what the application writes itself,
   and the scope, once read, says so. *)
PlainText == {"a", "s", " ", ".", "ret"}
Mute(d) ==
  /\ ~d.on /\ ~Buffer(d)
  /\ d.text \in Seq(PlainText) /\ d.caret \in 0..Len(d.text)
Sealed(d) == d.secret => Mute(d) /\ (d.seen => d.scope)
ScopeRead(d) == Granted(d) \/ d.seen

(* The inductive invariant.  A key finds a field for a password blocked, or blocks
   it before it does anything else; what still could touch the text is a word
   from before, so there must be none when a field is entered, and an engine with
   letters only where a composition is that leaving the field ends (Joined). *)
FieldsInv ==
  /\ Joined(w) /\ w.grant = "ok"
  /\ "unread" \notin upsets => Sealed(w)

\* A callback in a sealed field leaves the document alone.
LEMMA CallbacksSealed ==
  ASSUME NEW d, Joined(d), Sealed(d), ScopeRead(d), d.secret, NEW k, NEW again
  PROVE  /\ Mute(OnTestKeyDown(d, k, again)) /\ Sealed(OnTestKeyDown(d, k, again))
         /\ Mute(OnKeyDown(d, k, again)) /\ Sealed(OnKeyDown(d, k, again))
<1> DEFINE c == RefreshKeyRouting([d EXCEPT !.out = "go"])
           Still(r) == /\ Wide(r) /\ r.secret = d.secret /\ Mute(r) /\ Sealed(r)
<1>1. ASSUME NEW r, Still(r), NEW a, Beside(r, a) PROVE Still(a)
  BY <1>1 DEF Beside, SameShown, SameWord, Mute, Sealed, Buffer
<1>2. Still(d) /\ Wide(d)
  BY DEF Joined, Sealed
<1>3. ASSUME NEW r, Beside(d, r)
      PROVE  Still(r) /\ Still(CheckContextBlocked(r)) /\ CheckContextBlocked(r).blocked
  <2> DEFINE e == CheckContextBlocked(r)
  <2>1. Still(r) /\ ScopeRead(r)
    BY <1>1, <1>2, <1>3 DEF Beside, ScopeRead, Granted
  <2>2. SameShown(r, e) /\ e.text = r.text /\ e.caret = r.caret /\ e.scope /\ e.blocked
    <3>1. r.secret /\ (r.seen => r.scope)
      BY <2>1 DEF Sealed
    <3> HIDE DEF e
    <3> QED BY <2>1, <3>1, CheckedField DEF ScopeRead, e
  <2> HIDE DEF e
  <2>3. Still(e)
    BY <2>1, <2>2 DEF SameShown, SameWord, Mute, Sealed, Buffer
  <2> QED BY <2>1, <2>2, <2>3 DEF e
<1>4. ASSUME NEW r, Still(r)
      PROVE  /\ Still(Pass(ClearMacroTracking(r))) /\ Still(Eat(r))
             /\ Still(Pass(ClearInactiveKeyState(r))) /\ Still(Pass(CommitBeforeInactiveBypass(r)))
  <2>1. Still(ClearMacroTracking(r)) /\ Still(ClearInactiveKeyState(r)) /\ Still(Eat(r))
    BY <1>1, <1>4, TrackersBeside, SinkBeside
  <2>2. CommitBeforeInactiveBypass(r) = ClearInactiveKeyState(r)
    BY <1>4 DEF CommitBeforeInactiveBypass, Mute
  <2>3. \A a : Still(a) => Still(Pass(a))
    BY <1>1, SinkBeside
  <2> QED BY <2>1, <2>2, <2>3
<1>5. /\ Beside(d, OtherKeyDropsClaim([c EXCEPT !.obs = "", !.mh = ""], k))
      /\ Beside(d, OtherKeyDropsClaim([ResetMacroUndo(c) EXCEPT !.obs = "", !.mh = ""], k))
      /\ Beside(d, OtherKeyDropsClaim(ResetMacroUndo(c), k)) /\ Beside(d, OtherKeyDropsClaim(c, k))
  BY <1>2, FrontBeside
<1>6. Still(OnTestKeyDown(d, k, again))
  <2> DEFINE f == [IF k # "bk" THEN ResetMacroUndo(c) ELSE c EXCEPT !.obs = "", !.mh = ""]
             r == OtherKeyDropsClaim(f, k)
             e == CheckContextBlocked(r)
  <2>1. Beside(d, r)
    BY <1>5
  <2>2. OnTestKeyDown(d, k, again) =
          IF ShouldSuppressClaimedKeyDown(r, k, again) THEN Eat(r)
          ELSE IF ~Routed(r) THEN Pass(ClearInactiveKeyState(r))
          ELSE IF e.blocked THEN Pass(ClearMacroTracking(e)) ELSE TestRouted(e, k)
    BY DEF OnTestKeyDown
  <2> HIDE DEF r
  <2>3. Still(r) /\ Still(e) /\ e.blocked
    BY <2>1, <1>3
  <2> HIDE DEF e
  <2>4. Still(Eat(r)) /\ Still(Pass(ClearInactiveKeyState(r))) /\ Still(Pass(ClearMacroTracking(e)))
    BY <1>4, <2>3
  <2> HIDE DEF Still
  <2> QED BY <2>2, <2>3, <2>4
<1>7. Still(OnKeyDown(d, k, again))
  <2> DEFINE f == IF k # "bk" /\ k # c.mh THEN ResetMacroUndo(c) ELSE c
             r == OtherKeyDropsClaim(f, k)
             e == CheckContextBlocked(r)
  <2>1. Beside(d, r)
    BY <1>5
  <2>2. OnKeyDown(d, k, again) =
          IF ShouldSuppressClaimedKeyDown(r, k, again) THEN Eat(r)
          ELSE IF ~Routed(r) THEN Pass(CommitBeforeInactiveBypass(r))
          ELSE IF e.blocked THEN Pass(ClearMacroTracking(e)) ELSE KeyDownRouted(Resync(e), k, again)
    BY DEF OnKeyDown
  <2> HIDE DEF r
  <2>3. Still(r) /\ Still(e) /\ e.blocked
    BY <2>1, <1>3
  <2> HIDE DEF e
  <2>4. Still(Eat(r)) /\ Still(Pass(CommitBeforeInactiveBypass(r))) /\ Still(Pass(ClearMacroTracking(e)))
    BY <1>4, <2>3
  <2> HIDE DEF Still
  <2> QED BY <2>2, <2>3, <2>4
<1> QED BY <1>6, <1>7

\* The application's own handling of a key: plain text stays plain.
LEMMA HostKeyKeeps ==
  ASSUME NEW d, Joined(d), NEW k
  PROVE  /\ Onward(d, HostKey(d, k))
         /\ d.secret /\ Mute(d) /\ Sealed(d) => Mute(HostKey(d, k)) /\ Sealed(HostKey(d, k))
<1> DEFINE typed == k \in {"a", "s", " ", ".", "ret"}
           from  == IF k = "bk" /\ ~d.sel /\ d.caret > 0 THEN d.caret - 1 ELSE d.caret
           n     == d.caret - from + Selected(d)
           new   == IF typed THEN <<k>> ELSE <<>>
           s     == SetText(d, from, n, new)
           h     == HostKey(d, k)
<1>1. Wide(d)
  BY DEF Joined
<1>2. \/ h = s \/ h = d
      \/ h = [d EXCEPT !.sel = FALSE]
      \/ h = [d EXCEPT !.caret = IF @ > 0 THEN @ - 1 ELSE 0]
      \/ h = [d EXCEPT !.escs = TRUE]
  BY DEF HostKey
<1> HIDE DEF h
<1>3. SameShown(d, s) /\ s.seen = d.seen /\ s.scope = d.scope
  <2>1. SameShown(d, s)
    BY <1>1, SessionsKeepTheWord
  <2>2. s.seen = d.seen /\ s.scope = d.scope
    <3> HIDE DEF from, n, new
    <3> QED BY <1>1 DEF SetText, Wide, TextParts
  <2> QED BY <2>1, <2>2
<1>4. Onward(d, h) /\ h.seen = d.seen /\ h.scope = d.scope /\ h.eng = d.eng /\ h.on = d.on
  <2> HIDE DEF s
  <2>1. CASE h = s
    BY <1>3, <2>1 DEF SameShown, SameWord, Onward, Joined, Buffer
  <2>2. CASE h = d \/ h = [d EXCEPT !.sel = FALSE]
             \/ h = [d EXCEPT !.caret = IF @ > 0 THEN @ - 1 ELSE 0]
             \/ h = [d EXCEPT !.escs = TRUE]
    BY <1>1, <2>2 DEF Onward, Joined, Buffer, Wide, TextParts
  <2> QED BY <1>2, <2>1, <2>2
<1>5. ASSUME Mute(d) PROVE h.text \in Seq(PlainText) /\ h.caret \in 0..Len(h.text)
  <2>1. CASE h = s
    <3>1. /\ d.text \in Seq(PlainText) /\ d.caret \in 0..Len(d.text)
          /\ from \in 0..Len(d.text) /\ n \in Nat /\ new \in Seq(PlainText)
      <4>1. Selected(d) \in {0, 1}
        BY DEF Selected
      <4>2. new \in Seq(PlainText)
        <5>1. ASSUME NEW c \in PlainText PROVE <<c>> \in Seq(PlainText)
          OBVIOUS
        <5>2. <<>> \in Seq(PlainText)
          OBVIOUS
        <5> QED BY <5>1, <5>2 DEF PlainText
      <4>3. /\ d.text \in Seq(PlainText) /\ Len(d.text) \in Nat /\ d.caret \in 0..Len(d.text)
        BY <1>5 DEF Mute
      <4>4. from \in {d.caret, d.caret - 1} /\ from \in 0..Len(d.text) /\ from <= d.caret
        BY <4>3
      <4> HIDE DEF from, new
      <4> QED BY <4>1, <4>2, <4>3, <4>4
    <3> DEFINE a == SubSeq(d.text, 1, from)
               b == SubSeq(d.text, from + n + 1, Len(d.text))
    <3> HIDE DEF from, n, new
    <3>2. s.text = a \o new \o b /\ s.caret = from + Len(new)
      BY <1>1 DEF SetText, Wide, TextParts
    <3>3. a \in Seq(PlainText) /\ b \in Seq(PlainText) /\ Len(a) = from
      <4>1. \A i \in 1..Len(d.text) : d.text[i] \in PlainText
        BY <3>1
      <4>2. a \in Seq(PlainText) /\ Len(a) = IF 1 <= from THEN from - 1 + 1 ELSE 0
        BY <3>1, <4>1, SubSeqProperties
      <4>3. b \in Seq(PlainText)
        BY <3>1, <4>1, SubSeqProperties
      <4> QED BY <3>1, <4>2, <4>3
    <3> HIDE DEF a, b, s
    <3> QED BY <2>1, <3>1, <3>2, <3>3
  <2>2. CASE h = d \/ h = [d EXCEPT !.sel = FALSE]
             \/ h = [d EXCEPT !.caret = IF @ > 0 THEN @ - 1 ELSE 0]
             \/ h = [d EXCEPT !.escs = TRUE]
    BY <1>1, <1>5, <2>2 DEF Mute, Wide, TextParts
  <2> QED BY <1>2, <2>1, <2>2
<1> QED BY <1>4, <1>5 DEF h, Onward, Mute, Sealed, Buffer

\* The end of a callback.
LEMMA SettledKeeps ==
  ASSUME NEW c, Joined(c)
  PROVE  /\ Onward(c, Settled(c)) /\ Settled(c).grant = "ok"
         /\ Sealed(c) => Sealed(Settled(c))
<1> DEFINE s == Settled(c)
<1>1. /\ Wide(s) /\ s.text = c.text /\ s.caret = c.caret /\ s.on = c.on /\ s.eng = c.eng
      /\ s.secret = c.secret /\ s.seen = c.seen /\ s.scope = c.scope /\ s.grant = "ok"
  BY DEF Settled, Joined, Wide, TextParts
<1> HIDE DEF s
<1>2. Onward(c, s) /\ (Sealed(c) => Sealed(s))
  BY <1>1 DEF Onward, Joined, Buffer, Sealed, Mute
<1> QED BY <1>1, <1>2 DEF s

\* A callback, with the application's handling of a key it has passed.
LEMMA PhaseKeeps ==
  ASSUME NEW d, Joined(d), NEW k, NEW again, FirstPhase(d, k, again) \/ KeyPhase(d, k, again)
  PROVE  /\ Onward(d, w') /\ w'.grant = "ok"
         /\ Sealed(d) /\ (d.secret => ScopeRead(d)) => Sealed(w')
<1> DEFINE t == OnTestKeyDown(d, k, again)
           c == OnKeyDown(d, k, again)
           h == IF c.out = "pass" THEN HostKey(c, k) ELSE c
<1>1. Onward(d, t) /\ Onward(d, c)
  BY CallbacksJoined
<1>2. /\ Sealed(d) /\ (d.secret => ScopeRead(d)) => Sealed(t) /\ Sealed(c)
      /\ Sealed(d) /\ ScopeRead(d) /\ d.secret => Mute(c)
  BY <1>1, CallbacksSealed DEF Onward, Sealed
<1>3. w' = Settled(t) \/ w' = Settled(h)
  BY DEF FirstPhase, TestPhase, KeyPhase, Applied
<1> HIDE DEF t, c
<1>4. Onward(d, h) /\ (Sealed(d) /\ (d.secret => ScopeRead(d)) => Sealed(h))
  <2>1. Onward(c, HostKey(c, k)) /\ (c.secret /\ Mute(c) /\ Sealed(c) => Sealed(HostKey(c, k)))
    BY <1>1, HostKeyKeeps DEF Onward
  <2>2. Onward(d, HostKey(c, k))
    BY <1>1, <2>1, OnwardAgain
  <2>3. ~d.secret => Sealed(HostKey(c, k))
    BY <2>2 DEF Onward, Sealed
  <2>4. d.secret /\ Sealed(d) /\ ScopeRead(d) => Sealed(HostKey(c, k))
    BY <1>1, <1>2, <2>1 DEF Onward
  <2> QED BY <1>1, <1>2, <2>2, <2>3, <2>4
<1> HIDE DEF h
<1>5. ASSUME NEW a, Onward(d, a), Sealed(d) /\ (d.secret => ScopeRead(d)) => Sealed(a), w' = Settled(a)
      PROVE  /\ Onward(d, w') /\ w'.grant = "ok"
             /\ Sealed(d) /\ (d.secret => ScopeRead(d)) => Sealed(w')
  <2>1. Joined(a)
    BY <1>5 DEF Onward
  <2> QED BY <1>5, <2>1, SettledKeeps, OnwardAgain
<1> QED BY <1>1, <1>2, <1>3, <1>4, <1>5

\* A callback out of w, whatever the answer to its sessions.
LEMMA EventKeeps ==
  ASSUME FieldsInv, NEW g, NEW d, NEW k, NEW again, FirstPhase(d, k, again) \/ KeyPhase(d, k, again),
         SameShown(w, d), d.grant = g, d.text = w.text, d.caret = w.caret,
         d.seen = w.seen, d.scope = w.scope,
         "unread" \in upsets \/ "unread" \in UpsetsAfter(g, w, w') => "unread" \in upsets'
  PROVE  FieldsInv'
<1>1. Joined(d) /\ (Sealed(w) => Sealed(d))
  BY DEF FieldsInv, Joined, SameShown, SameWord, Sealed, Mute, Buffer
<1>2. /\ Onward(d, w') /\ w'.grant = "ok"
      /\ Sealed(d) /\ (d.secret => ScopeRead(d)) => Sealed(w')
  BY <1>1, PhaseKeeps
<1>3. "unread" \notin upsets' => "unread" \notin upsets /\ (w.secret => ScopeRead(d))
  BY DEF UpsetsAfter, ScopeRead, Granted
<1>4. d.secret = w.secret
  BY DEF SameShown, SameWord
<1> QED BY <1>1, <1>2, <1>3, <1>4 DEF FieldsInv, Onward

\* What happens beside the word and the document.
LEMMA AsideKeeps ==
  ASSUME FieldsInv, Beside(w, w'), "unread" \in upsets => "unread" \in upsets'
  PROVE  FieldsInv'
BY DEF FieldsInv, Beside, SameShown, SameWord, Joined, Buffer, Sealed, Mute

\* The application ends the composition: the engine is emptied with it.
LEMMA TerminatedKeeps ==
  ASSUME NEW d, Joined(d), NEW t, t = OnCompositionTerminated(d)
  PROVE  /\ Onward(d, t) /\ t.grant = d.grant /\ ~t.on /\ ~Buffer(t)
         /\ t.text = d.text /\ t.caret = d.caret /\ t.seen = d.seen /\ t.scope = d.scope
<1> DEFINE e == EndComposition(d)
           c == ClearMacroTracking(e)
           r == EngineReset(c)
           m == EndComposition(r)
<1>1. ASSUME NEW a, Wide(a)
      PROVE  LET x == EndComposition(a)
             IN /\ Wide(x) /\ ~x.on /\ x.eng = a.eng /\ x.secret = a.secret /\ x.grant = a.grant
                /\ x.text = a.text /\ x.caret = a.caret /\ x.seen = a.seen /\ x.scope = a.scope
  BY <1>1 DEF EndComposition, Wide, TextParts
<1>2. /\ Wide(e) /\ e.secret = d.secret /\ e.grant = d.grant
      /\ e.text = d.text /\ e.caret = d.caret /\ e.seen = d.seen /\ e.scope = d.scope
  BY <1>1 DEF Joined
<1> HIDE DEF e
<1>3. /\ Wide(c) /\ c.secret = d.secret /\ c.grant = d.grant
      /\ c.text = d.text /\ c.caret = d.caret /\ c.seen = d.seen /\ c.scope = d.scope
  BY <1>2, TrackersBeside DEF Beside, SameShown, SameWord
<1> HIDE DEF c
<1>4. /\ Wide(r) /\ r.secret = d.secret /\ r.grant = d.grant /\ r.eng = EmptyEngine
      /\ r.text = d.text /\ r.caret = d.caret /\ r.seen = d.seen /\ r.scope = d.scope
  BY <1>3 DEF EngineReset, Wide, TextParts
<1> HIDE DEF r
<1>5. /\ Wide(m) /\ m.secret = d.secret /\ m.grant = d.grant /\ m.eng = EmptyEngine /\ ~m.on
      /\ m.text = d.text /\ m.caret = d.caret /\ m.seen = d.seen /\ m.scope = d.scope
  BY <1>1, <1>4
<1>6. t = IF d.on THEN m ELSE d
  BY DEF OnCompositionTerminated, Reset, m, r, c, e
<1> HIDE DEF m
<1> QED BY <1>5, <1>6 DEF Onward, Joined, Buffer, EmptyEngine

\* A new context.
LEMMA FieldsStart ==
  ASSUME TInit
  PROVE  FieldsInv
BY DEF TInit, NewText, EmptyEngine, FieldsInv, Joined, Sealed, Buffer, Wide, TextParts

\* Every step of the text service and of what is around it.
LEMMA FieldsNext ==
  ASSUME FieldsInv, [TNext]_tvars
  PROVE  FieldsInv'
<1>1. Joined(w) /\ Wide(w) /\ w.grant = "ok" /\ SameShown(w, w) /\ Onward(w, w)
  BY DEF FieldsInv, Joined, SameShown, SameWord, Onward
<1>2. ASSUME NEW k, Press(k) PROVE FieldsInv'
  <2>1. PICK g \in Grants :
          /\ FirstPhase([w EXCEPT !.grant = g, !.grown = FALSE, !.undone = FALSE, !.escs = FALSE], k, FALSE)
          /\ upsets' = (upsets \ {"refused", "nostart", "between"}) \cup UpsetsAfter(g, w, w')
    BY <1>2 DEF Press
  <2> DEFINE d == [w EXCEPT !.grant = g, !.grown = FALSE, !.undone = FALSE, !.escs = FALSE]
  <2>2. SameShown(w, d) /\ d.grant = g /\ d.text = w.text /\ d.caret = w.caret
        /\ d.seen = w.seen /\ d.scope = w.scope
    BY <1>1 DEF SameShown, SameWord, Wide, TextParts
  <2>3. "unread" \in upsets \/ "unread" \in UpsetsAfter(g, w, w') => "unread" \in upsets'
    BY <2>1
  <2>4. FirstPhase(d, k, FALSE)
    BY <2>1
  <2> HIDE DEF d
  <2> QED BY <2>2, <2>3, <2>4, EventKeeps
<1>3. CASE KeyDown
  <2>1. CASE w' = Settled(HostKey(w, phase.key)) /\ upsets' = upsets
    <3> DEFINE h == HostKey(w, phase.key)
    <3>1. Onward(w, h) /\ (Sealed(w) => Sealed(h))
      BY <1>1, HostKeyKeeps DEF Sealed, Onward
    <3> HIDE DEF h
    <3>2. Joined(h) /\ w' = Settled(h)
      BY <2>1, <3>1 DEF h, Onward
    <3>3. Onward(h, w') /\ w'.grant = "ok" /\ (Sealed(h) => Sealed(w'))
      BY <3>2, SettledKeeps
    <3> QED BY <2>1, <3>1, <3>3 DEF FieldsInv, Onward
  <2>2. ASSUME NEW g, KeyPhase([w EXCEPT !.grant = g], phase.key, phase.again), Answered(g)
        PROVE  FieldsInv'
    <3> DEFINE d == [w EXCEPT !.grant = g]
    <3>1. SameShown(w, d) /\ d.grant = g /\ d.text = w.text /\ d.caret = w.caret
          /\ d.seen = w.seen /\ d.scope = w.scope
      BY <1>1 DEF SameShown, SameWord, Wide, TextParts
    <3>2. "unread" \in upsets \/ "unread" \in UpsetsAfter(g, w, w') => "unread" \in upsets'
      BY <2>2 DEF Answered
    <3>3. KeyPhase(d, phase.key, phase.again)
      BY <2>2
    <3> HIDE DEF d
    <3> QED BY <3>1, <3>2, <3>3, EventKeeps
  <2> QED BY <1>3, <2>1, <2>2 DEF KeyDown
<1>4. CASE Repeat
  <2> DEFINE d == [w EXCEPT !.grown = FALSE, !.undone = FALSE, !.escs = FALSE]
  <2>1. SameShown(w, d) /\ d.grant = "ok" /\ d.text = w.text /\ d.caret = w.caret
        /\ d.seen = w.seen /\ d.scope = w.scope
    BY <1>1 DEF SameShown, SameWord, Wide, TextParts
  <2>2. FirstPhase(d, " ", TRUE)
        /\ upsets' = (upsets \ {"refused", "nostart", "between"}) \cup UpsetsAfter("ok", w, w')
    BY <1>4 DEF Repeat
  <2>3. "unread" \notin UpsetsAfter("ok", w, w')
    BY DEF UpsetsAfter
  <2> HIDE DEF d
  <2> QED BY <2>1, <2>2, <2>3, EventKeeps
<1>5. CASE Redispatch
  <2>1. FirstPhase(w, " ", FALSE) /\ upsets' = upsets
    BY <1>5 DEF Redispatch
  <2>2. "unread" \notin UpsetsAfter("ok", w, w')
    BY DEF UpsetsAfter
  <2> QED BY <1>1, <2>1, <2>2, EventKeeps
<1>6. CASE SpaceUp
  <2>1. Beside(w, w')
    <3>1. Beside(w, [w EXCEPT !.space = FALSE])
      BY <1>1 DEF Beside, SameShown, SameWord, Wide, TextParts
    <3> QED BY <1>1, <1>6, <3>1, SinkBeside DEF SpaceUp, OnKeyUp
  <2> QED BY <1>6, <2>1, AsideKeeps DEF SpaceUp
<1>7. CASE EnterTimer
  <2> DEFINE d == [w EXCEPT !.timers = @ - 1, !.repost = FALSE, !.grown = FALSE, !.undone = FALSE, !.escs = FALSE]
  <2>1. SameShown(w, d) /\ d.grant = "ok" /\ d.text = w.text /\ d.caret = w.caret
        /\ d.seen = w.seen /\ d.scope = w.scope /\ Beside(w, d)
    BY <1>1 DEF Beside, SameShown, SameWord, Wide, TextParts
  <2>2. w' = (IF w.repost THEN Applied(OnKeyDown(d, "ret", FALSE), "ret") ELSE d)
        /\ upsets' = upsets \cup UpsetsAfter("ok", w, w') /\ phase' = phase /\ phase = NoKey
    BY <1>7 DEF EnterTimer
  <2> HIDE DEF d
  <2>3. CASE w.repost
    <3>1. KeyPhase(d, "ret", FALSE)
      BY <2>2, <2>3 DEF KeyPhase
    <3>2. "unread" \in upsets \/ "unread" \in UpsetsAfter("ok", w, w') => "unread" \in upsets'
      BY <2>2
    <3> QED BY <2>1, <3>1, <3>2, EventKeeps
  <2>4. CASE ~w.repost
    BY <2>1, <2>2, <2>4, AsideKeeps
  <2> QED BY <2>3, <2>4
<1>8. /\ Onward(w, OnCompositionTerminated(w))
      /\ OnCompositionTerminated(w).grant = "ok"
      /\ ~OnCompositionTerminated(w).on /\ ~Buffer(OnCompositionTerminated(w))
      /\ OnCompositionTerminated(w).text = w.text /\ OnCompositionTerminated(w).caret = w.caret
      /\ OnCompositionTerminated(w).seen = w.seen /\ OnCompositionTerminated(w).scope = w.scope
  BY <1>1, TerminatedKeeps
<1>9. CASE Terminate
  <2>1. w' = OnCompositionTerminated(w) /\ ("unread" \in upsets => "unread" \in upsets')
    BY <1>9 DEF Terminate
  <2> QED BY <1>8, <2>1 DEF FieldsInv, Onward, Sealed, Mute
<1>10. CASE Wait
  <2>1. Beside(w, w')
    BY <1>1, <1>10 DEF Wait, Beside, SameShown, SameWord, Wide, TextParts
  <2> QED BY <1>10, <2>1, AsideKeeps DEF Wait
<1>11. CASE Click
  <2>1. PICK c \in 0..Len(w.text), sel \in BOOLEAN :
          w' = [OnCompositionTerminated(w) EXCEPT !.caret = c, !.sel = sel]
    BY <1>11 DEF Click
  <2> DEFINE t == OnCompositionTerminated(w)
  <2> HIDE DEF t
  <2>2. /\ Wide(w') /\ w'.on = t.on /\ w'.eng = t.eng /\ w'.secret = t.secret /\ w'.grant = t.grant
        /\ w'.text = t.text /\ w'.caret = c /\ w'.seen = t.seen /\ w'.scope = t.scope
    BY <1>8, <2>1 DEF t, Onward, Joined, Wide, TextParts
  <2>3. upsets' = upsets
    BY <1>11 DEF Click
  <2> QED BY <1>8, <2>2, <2>3 DEF t, FieldsInv, Onward, Joined, Sealed, Mute, Buffer
<1>12. CASE OtherField
  <2> DEFINE t == OnCompositionTerminated(w)
  <2>1. w' = [t EXCEPT !.text = <<>>, !.caret = 0, !.sel = FALSE, !.rev = NoRange,
                       !.seen = FALSE, !.secret = ~@]
    BY <1>12 DEF OtherField
  <2>2. Wide(t) /\ ~t.on /\ ~Buffer(t) /\ t.grant = "ok"
    BY <1>8 DEF Onward, Joined
  <2> HIDE DEF t
  <2>3. /\ Wide(w') /\ w'.on = t.on /\ w'.eng = t.eng /\ w'.grant = "ok"
        /\ w'.text = <<>> /\ w'.caret = 0 /\ ~w'.seen
    BY <2>1, <2>2 DEF Wide, TextParts
  <2>4. Mute(w')
    BY <2>2, <2>3, EmptySeq DEF Mute, Buffer
  <2> QED BY <2>3, <2>4 DEF FieldsInv, Joined, Sealed, Mute
<1>13. CASE SetFocus
  <2> DEFINE t == OnCompositionTerminated(w)
             r == RefreshFeatureFlags(t)
             c == ClearMacroTracking(r)
             u == ResetCommitUndo(c)
             m == ResetMacroUndo(u)
  <2>1. w' = [m EXCEPT !.space = FALSE] /\ upsets' = upsets
    BY <1>13 DEF SetFocus, OnSetFocus
  <2>2. Wide(t)
    BY <1>8 DEF Onward, Joined
  <2> HIDE DEF t
  <2>3. Beside(t, r) /\ Wide(r)
    BY <2>2, SinkBeside DEF Beside, SameShown, SameWord
  <2> HIDE DEF r
  <2>4. Beside(r, c) /\ Wide(c)
    BY <2>3, TrackersBeside DEF Beside, SameShown, SameWord
  <2> HIDE DEF c
  <2>5. Beside(c, u) /\ Wide(u)
    BY <2>4, TrackersBeside DEF Beside, SameShown, SameWord
  <2> HIDE DEF u
  <2>6. Beside(u, m) /\ Wide(m)
    BY <2>5, TrackersBeside DEF Beside, SameShown, SameWord
  <2> HIDE DEF m
  <2>7. Beside(m, w')
    BY <2>1, <2>6 DEF Beside, SameShown, SameWord, Wide, TextParts
  <2>8. Beside(t, w')
    BY <2>3, <2>4, <2>5, <2>6, <2>7, BesideAgain
  <2> QED BY <1>8, <2>1, <2>8 DEF t, Beside, SameShown, SameWord, FieldsInv, Onward, Joined, Sealed, Mute, Buffer
<1>14. CASE ToggleVietnameseMode
  <2> DEFINE c == ClearMacroTracking(w)
  <2>1. PICK vn : w' = [c EXCEPT !.shared.vn = vn, !.cache.vn = vn]
    BY <1>14 DEF ToggleVietnameseMode
  <2>2. Beside(w, c)
    BY <1>1, TrackersBeside
  <2> HIDE DEF c
  <2>3. Beside(w, w')
    BY <2>1, <2>2 DEF Beside, SameShown, SameWord, Wide, TextParts
  <2> QED BY <1>14, <2>3, AsideKeeps DEF ToggleVietnameseMode
<1>15. ASSUME NEW f, Toggle(f) PROVE FieldsInv'
  <2>1. Beside(w, w')
    BY <1>1, <1>15 DEF Toggle, Beside, SameShown, SameWord, Wide, TextParts
  <2>2. "unread" \in upsets => "unread" \in upsets'
    BY <1>15 DEF Toggle
  <2> QED BY <2>1, <2>2, AsideKeeps
<1>16. CASE OnPreservedKey
  <2> DEFINE c == CheckContextBlocked(w)
  <2>1. upsets' = upsets /\ (w' = w \/ w' = c \/ (w' = Settled(Commit(c)) /\ Buffer(c)))
    BY <1>16 DEF OnPreservedKey
  <2>2. /\ SameShown(w, c) /\ c.grant = "ok" /\ c.text = w.text /\ c.caret = w.caret
        /\ w.secret /\ (w.seen => w.scope) => c.scope /\ c.blocked
    BY <1>1, CheckedField DEF Granted
  <2> HIDE DEF c
  <2>3. Onward(w, c) /\ (Sealed(w) => Sealed(c))
    BY <1>1, <2>2 DEF SameShown, SameWord, Onward, Joined, Buffer, Sealed, Mute
  <2>4. CASE w' = w \/ w' = c
    BY <2>1, <2>2, <2>3, <2>4 DEF FieldsInv, Onward
  <2>5. CASE w' = Settled(Commit(c)) /\ Buffer(c)
    <3>1. Onward(w, Commit(c))
      BY <2>3, AllJoined
    <3>2. Onward(Commit(c), w') /\ w'.grant = "ok"
      BY <2>5, <3>1, SettledKeeps DEF Onward
    <3>3. ~(w.secret /\ Sealed(w))
      BY <2>2, <2>5 DEF Sealed, Mute, Buffer, SameShown, SameWord
    <3> QED BY <2>1, <3>1, <3>2, <3>3 DEF FieldsInv, Onward, Sealed
  <2> QED BY <2>1, <2>4, <2>5
<1>17. CASE UNCHANGED tvars
  BY <1>17 DEF tvars, FieldsInv
<1> QED BY <1>2, <1>3, <1>4, <1>5, <1>6, <1>7, <1>9, <1>10, <1>11, <1>12, <1>13, <1>14, <1>15, <1>16, <1>17
        DEF TNext, Outside

\* The invariant holds for any scenarios: in every state a word under way has a
\* composition, and a field for a password, the scope of which could be read, has
\* neither, only plain text, and is known for what it is once a key has come.
THEOREM FieldsAreSealed == TSpec => []FieldsInv
<1>1. TInit => FieldsInv
  BY FieldsStart
<1>2. FieldsInv /\ [TNext]_tvars => FieldsInv'
  BY FieldsNext
<1> QED BY <1>1, <1>2, PTL DEF TSpec

\* No composition, no mark and no expansion in a field for a password, whatever
\* keys, sessions, flags, clicks and changes of field come in which order, in hosts
\* of all three kinds, as long as its scope could be read (CheckContextBlocked).
THEOREM SecretFieldsAreUntouched == TSpec => []SecretFieldUntouched
<1>1. ASSUME FieldsInv PROVE SecretFieldUntouched
  <2> SUFFICES ASSUME w.secret /\ "unread" \notin upsets
               PROVE  /\ ~w.on /\ ~Buffer(w)
                      /\ Range(w.text) \cap ({"A"} \cup Range(Expansion)) = {}
    BY DEF SecretFieldUntouched
  <2>1. Mute(w)
    BY <1>1 DEF FieldsInv, Sealed
  <2>2. Range(w.text) \subseteq PlainText
    BY <2>1, RangeOfSeq DEF Mute
  <2>3. Range(Expansion) = {"E", "F"}
    BY DEF Range, Expansion
  <2> QED BY <2>1, <2>2, <2>3 DEF Mute, PlainText
<1> QED BY <1>1, FieldsAreSealed, PTL

(***************************************************************************)
(* The word on the screen.                                                 *)
(***************************************************************************)

Texts == Seq(Chars)
Spans == [word : Texts, at : Nat, len : Nat]

\* A set of numbers from 0 to N has a greatest one.
LEMMA Greatest ==
  ASSUME NEW N \in Nat, NEW S, S \subseteq 0..N, S # {}
  PROVE  Max(S) \in S /\ \A y \in S : y <= Max(S)
<1> DEFINE R == OpToRel(<, Nat)
           T == {n \in Nat : N - n \in S}
<1>1. IsWellFoundedOn(R, Nat)
  BY NatLessThanWellFounded
<1>2. \A a, b \in Nat : a < b => <<a, b>> \in R
  BY DEF OpToRel
<1>3. T \subseteq Nat /\ T # {}
  <2>1. PICK x \in S : TRUE
    OBVIOUS
  <2>2. N - x \in Nat /\ N - (N - x) = x
    BY <2>1
  <2>3. N - x \in T
    BY <2>1, <2>2
  <2> QED BY <2>3
<1>4. \A x \in S : N - x \in T
  <2> TAKE x \in S
  <2>1. N - x \in Nat /\ N - (N - x) = x
    OBVIOUS
  <2> QED BY <2>1
<1>5. \A t \in T : t \in Nat /\ N - t \in S
  OBVIOUS
<1> HIDE DEF R, T
<1>6. PICK t \in T : \A u \in T : ~(<<u, t>> \in R)
  BY <1>1, <1>3, WFMin
<1>7. \A u \in T : t <= u
  <2> TAKE u \in T
  <2>1. u \in Nat /\ t \in Nat
    BY <1>5
  <2>2. ~(u < t)
    BY <1>2, <1>6, <2>1
  <2> QED BY <2>1, <2>2
<1>8. N - t \in S /\ \A y \in S : N - t >= y
  <2>1. t \in Nat /\ N - t \in S
    BY <1>5
  <2>2. ASSUME NEW y \in S PROVE N - t >= y
    <3>1. N - y \in T /\ t <= N - y
      BY <1>4, <1>7
    <3>2. y \in Nat /\ y <= N
      OBVIOUS
    <3> QED BY <3>1, <3>2, <2>1
  <2> QED BY <2>1, <2>2
<1> QED BY <1>8 DEF Max

\* What stands after the first a characters.
LEMMA Cut ==
  ASSUME NEW t \in Texts, NEW new \in Texts, NEW a \in Nat, a + Len(new) <= Len(t),
         \A j \in 1..Len(new) : t[a + j] = new[j]
  PROVE  SubSeq(t, a + 1, a + Len(new)) = new
<1>1. Len(t) \in Nat /\ Len(new) \in Nat
  BY LenProperties DEF Texts
<1> DEFINE b == a + Len(new)
<1>2. a + 1 \in Int /\ b \in Int /\ b <= Len(t) /\ b - (a + 1) + 1 = Len(new)
  BY <1>1
<1>3. \A i \in a + 1 .. b : t[i] \in Chars
  BY <1>1, <1>2, ElementOfSeq DEF Texts
<1> HIDE DEF b
<1>4. /\ SubSeq(t, a + 1, b) \in Seq(Chars)
      /\ Len(SubSeq(t, a + 1, b)) = IF a + 1 <= b THEN b - (a + 1) + 1 ELSE 0
      /\ \A i \in 1 .. b - (a + 1) + 1 : SubSeq(t, a + 1, b)[i] = t[a + 1 + i - 1]
  <2>1. a + 1 \in Int /\ b \in Int
    BY <1>2
  <2> QED BY <2>1, <1>3, SubSeqProperties
<1>5. Len(SubSeq(t, a + 1, b)) = Len(new)
  BY <1>1, <1>2, <1>4 DEF b
<1>6. \A i \in 1..Len(new) : SubSeq(t, a + 1, b)[i] = new[i]
  <2> TAKE i \in 1..Len(new)
  <2>1. i \in 1 .. b - (a + 1) + 1 /\ a + 1 + i - 1 = a + i
    BY <1>1, <1>2
  <2>2. SubSeq(t, a + 1, b)[i] = t[a + 1 + i - 1]
    BY <1>4, <2>1
  <2> QED BY <2>1, <2>2
<1>7. SubSeq(t, a + 1, b) = new
  BY <1>4, <1>5, <1>6, SeqEqual DEF Texts
<1> QED BY <1>7 DEF b

(* Text in the place of n characters after the first at. *)
Spliced(s, at, n, new) == SubSeq(s, 1, at) \o new \o SubSeq(s, at + n + 1, Len(s))

\* It is there, and the rest is as long as it was.
LEMMA Splice ==
  ASSUME NEW s \in Texts, NEW at \in 0..Len(s), NEW n \in Nat, NEW new \in Texts
  PROVE  /\ Spliced(s, at, n, new) \in Texts
         /\ Len(Spliced(s, at, n, new)) = at + Len(new) + (IF at + n < Len(s) THEN Len(s) - at - n ELSE 0)
         /\ SubSeq(Spliced(s, at, n, new), at + 1, at + Len(new)) = new
<1> DEFINE t == Spliced(s, at, n, new)
<1> DEFINE p == SubSeq(s, 1, at)
           q == SubSeq(s, at + n + 1, Len(s))
           pn == p \o new
<1>1. Len(s) \in Nat /\ Len(new) \in Nat
  BY LenProperties DEF Texts
<1>2. \A i \in 1..Len(s) : s[i] \in Chars
  BY ElementOfSeq DEF Texts
<1>3. p \in Texts /\ Len(p) = at
  <2>1. \A i \in 1..at : s[i] \in Chars
    BY <1>1, <1>2
  <2>2. p \in Seq(Chars) /\ Len(p) = IF 1 <= at THEN at - 1 + 1 ELSE 0
    BY <1>1, <2>1, SubSeqProperties
  <2> QED BY <1>1, <2>2 DEF Texts
<1>4. q \in Texts /\ Len(q) = IF at + n < Len(s) THEN Len(s) - at - n ELSE 0
  <2>1. \A i \in at + n + 1 .. Len(s) : s[i] \in Chars
    BY <1>1, <1>2
  <2>2. q \in Seq(Chars) /\ Len(q) = IF at + n + 1 <= Len(s) THEN Len(s) - (at + n + 1) + 1 ELSE 0
    <3> HIDE DEF q
    <3>1. at + n + 1 \in Int /\ Len(s) \in Int
      BY <1>1
    <3> QED BY <3>1, <2>1, SubSeqProperties DEF q
  <2> QED BY <1>1, <2>2 DEF Texts
<1> HIDE DEF p, q
<1>5. pn \in Texts /\ Len(pn) = at + Len(new) /\ \A i \in 1..at + Len(new) : pn[i] = IF i <= at THEN p[i] ELSE new[i - at]
  BY <1>3, ConcatProperties DEF Texts
<1> HIDE DEF pn
<1>6. /\ t \in Texts /\ Len(t) = Len(pn) + Len(q)
      /\ \A i \in 1..Len(pn) + Len(q) : t[i] = IF i <= Len(pn) THEN pn[i] ELSE q[i - Len(pn)]
  BY <1>4, <1>5, ConcatProperties DEF Texts, p, q, pn, Spliced
<1> HIDE DEF t
<1>7. \A j \in 1..Len(new) : t[at + j] = new[j]
  <2> TAKE j \in 1..Len(new)
  <2> HIDE DEF Texts
  <2>1. j \in Nat /\ 1 <= j /\ j <= Len(new) /\ Len(q) \in Nat /\ Len(pn) \in Nat /\ at \in Nat
    BY <1>1, <1>4, <1>5
  <2>2. at + j \in 1..at + Len(new) /\ at + j \in 1..Len(pn) + Len(q) /\ at + j <= Len(pn)
        /\ ~(at + j <= at) /\ at + j - at = j
    BY <1>1, <1>5, <2>1
  <2>3. t[at + j] = pn[at + j]
    BY <1>6, <2>2
  <2>4. pn[at + j] = new[at + j - at]
    BY <1>5, <2>2
  <2> QED BY <2>2, <2>3, <2>4
<1>8. at + Len(new) <= Len(t) /\ at \in Nat
  <2>1. Len(q) \in Nat /\ at \in Nat /\ Len(pn) = at + Len(new)
    BY <1>1, <1>4, <1>5
  <2>2. Len(t) = Len(pn) + Len(q)
    BY <1>6
  <2> QED BY <1>1, <2>1, <2>2
<1> QED BY <1>4, <1>5, <1>6, <1>7, <1>8, Cut DEF t

\* A range stays in the text.
LEMMA Shifts ==
  ASSUME NEW r \in Spans, NEW L \in Nat, NEW at \in 0..L, NEW n \in Nat, NEW m \in Nat, r.at <= L
  PROVE  /\ Shifted(r, at, n, m) \in Spans
         /\ Shifted(r, at, n, m).at <= at + m + (IF at + n < L THEN L - at - n ELSE 0)
<1> DEFINE End(p) == IF p <= at THEN p ELSE IF p >= at + n THEN p + m - n ELSE at
           start == IF r.at >= at + n THEN r.at + m - n ELSE IF r.at <= at THEN r.at ELSE at
           stop  == End(r.at + r.len)
           len   == IF stop > start THEN stop - start ELSE 0
<1>1. r.at \in Nat /\ r.len \in Nat
  BY DEF Spans
<1>2. start \in Nat /\ start <= at + m + (IF at + n < L THEN L - at - n ELSE 0)
  BY <1>1
<1>3. stop \in Int
  BY <1>1
<1>4. Shifted(r, at, n, m) = [r EXCEPT !.at = start, !.len = len]
  BY DEF Shifted
<1> HIDE DEF start, stop
<1>5. len \in Nat
  BY <1>2, <1>3
<1> HIDE DEF len
<1> QED BY <1>2, <1>4, <1>5 DEF Spans

(* Where everything is: the texts are texts, and the caret, the composition and
   the word to recall begin in the document. *)
AllParts == {"text", "caret", "sel", "on", "comp", "rev", "eng", "last", "mbuf", "mundo", "mwas",
             "mlate", "cache", "shared", "seen", "scope", "blocked", "grant", "replaced", "mh",
             "space", "out", "res"}
Placed(d) ==
  /\ AllParts \subseteq DOMAIN d
  /\ d.on \in BOOLEAN
  /\ d.text \in Texts /\ d.caret \in 0..Len(d.text)
  /\ d.comp \in Spans /\ (d.on => d.comp.at <= Len(d.text))
  /\ d.rev \in Spans /\ d.rev.at <= Len(d.text)
  /\ d.eng.text \in Texts /\ d.eng.raw \in Texts
  /\ d.last.text \in Texts /\ d.last.raw \in Texts
  /\ d.mbuf \in Texts /\ d.mundo \in Texts /\ d.mwas \in Texts

(* What only the callbacks themselves change. *)
Around(d, c) ==
  /\ c.grant = d.grant /\ c.cache = d.cache /\ c.shared = d.shared
  /\ c.seen = d.seen /\ c.scope = d.scope /\ c.blocked = d.blocked
  /\ c.mh = d.mh /\ c.space = d.space

(* A Backspace that takes an expansion back now. *)
UndoDue(d) ==
  /\ d.mundo # <<>> /\ ~d.mlate /\ desk.macros # {}
  /\ d.cache.en /\ d.cache.tsf /\ (d.cache.vn \/ desk.english)

(* The composition shows the text, on its own range. *)
Shows(d, t) ==
  /\ d.comp.word = t /\ d.comp.len = Len(t)
  /\ SubSeq(d.text, d.comp.at + 1, d.comp.at + Len(t)) = t

(* Keeps: no expansion has become one to take back.  Leaves: nor has a composition
   been started, and one that goes on still has its engine, sessions granted. *)
SameUndo(d, c) == (c.mundo = d.mundo /\ c.mlate = d.mlate) \/ c.mundo = <<>>
Keeps(d, c)    == Placed(c) /\ Around(d, c) /\ SameUndo(d, c)
Leaves(d, c)   ==
  /\ Placed(c) /\ Around(d, c)
  /\ c.on => d.on /\ (d.grant = "ok" => c.eng = d.eng) /\ SameUndo(d, c)

\* Two steps in a row.
LEMMA InARow ==
  ASSUME NEW d, NEW c, NEW e
  PROVE  /\ Leaves(d, c) /\ Leaves(c, e) => Leaves(d, e)
         /\ Keeps(d, c) /\ Keeps(c, e) => Keeps(d, e)
         /\ Placed(d) => Leaves(d, d) /\ Keeps(d, d)
BY DEF Leaves, Keeps, Around, SameUndo

\* What a callback notes down has no part in the word.
LEMMA NotesLeave ==
  ASSUME NEW d, NEW c, Leaves(d, c), NEW x, NEW y, NEW z
  PROVE  /\ Leaves(d, [c EXCEPT !.out = x]) /\ Leaves(d, [c EXCEPT !.res = x])
         /\ Leaves(d, [c EXCEPT !.want = x]) /\ Leaves(d, [c EXCEPT !.vk = x])
         /\ Leaves(d, [c EXCEPT !.obs = x]) /\ Leaves(d, [c EXCEPT !.replaced = x])
         /\ Leaves(d, [c EXCEPT !.obs = x, !.vk = y]) /\ Leaves(d, [c EXCEPT !.vk = x, !.obs = y])
         /\ Leaves(d, [c EXCEPT !.vk = x, !.want = y]) /\ Leaves(d, [c EXCEPT !.undo = x])
         /\ Leaves(d, [c EXCEPT !.repost = x, !.timers = y])
         /\ \A t \in Texts : /\ Leaves(d, [c EXCEPT !.mbuf = t, !.cross = y])
                             /\ Leaves(d, [c EXCEPT !.mbuf = t])
         /\ \A t \in Texts : Leaves(d, [c EXCEPT !.mbuf = t, !.cross = y, !.moff = x, !.undone = z])
         /\ Leaves(d, [c EXCEPT !.rev = NoRange])
<1>1. Placed(c)
  BY DEF Leaves
<1>2. NoRange \in Spans /\ NoRange.at = 0
  BY EmptySeq DEF NoRange, Spans, Texts
<1>3. Leaves(d, [c EXCEPT !.rev = NoRange])
  BY <1>1, <1>2 DEF Leaves, Placed, Around, SameUndo, AllParts
<1>4. \A t \in Texts : /\ Leaves(d, [c EXCEPT !.mbuf = t, !.cross = y])
                       /\ Leaves(d, [c EXCEPT !.mbuf = t])
                       /\ Leaves(d, [c EXCEPT !.mbuf = t, !.cross = y, !.moff = x, !.undone = z])
  BY <1>1 DEF Leaves, Placed, Around, SameUndo, AllParts
<1>5. /\ Leaves(d, [c EXCEPT !.out = x]) /\ Leaves(d, [c EXCEPT !.res = x])
      /\ Leaves(d, [c EXCEPT !.want = x]) /\ Leaves(d, [c EXCEPT !.vk = x])
      /\ Leaves(d, [c EXCEPT !.obs = x]) /\ Leaves(d, [c EXCEPT !.replaced = x])
  BY <1>1 DEF Leaves, Placed, Around, SameUndo, AllParts
<1>6. /\ Leaves(d, [c EXCEPT !.obs = x, !.vk = y]) /\ Leaves(d, [c EXCEPT !.vk = x, !.obs = y])
      /\ Leaves(d, [c EXCEPT !.vk = x, !.want = y]) /\ Leaves(d, [c EXCEPT !.undo = x])
      /\ Leaves(d, [c EXCEPT !.repost = x, !.timers = y])
  BY <1>1 DEF Leaves, Placed, Around, SameUndo, AllParts
<1> QED BY <1>3, <1>4, <1>5, <1>6

\* The last character of a text, and the rest.
LEMMA FrontsAreTexts ==
  ASSUME NEW t \in Texts
  PROVE  /\ <<>> \in Texts /\ Len(t) \in Nat
         /\ \A c \in Chars : Append(t, c) \in Texts /\ Append(t, c) # <<>> /\ <<c>> \in Texts
         /\ t # <<>> => Front(t) \in Texts /\ Last(t) \in Chars
<1>1. <<>> \in Texts /\ Len(t) \in Nat
  BY EmptySeq, LenProperties DEF Texts
<1>2. ASSUME NEW c \in Chars PROVE Append(t, c) \in Texts /\ Append(t, c) # <<>> /\ <<c>> \in Texts
  <2>1. Append(t, c) \in Texts /\ Append(t, c) # <<>>
    BY AppendProperties DEF Texts
  <2>2. <<c>> \in Seq(Chars)
    <3>1. ASSUME NEW S, NEW x \in S PROVE <<x>> \in Seq(S)
      OBVIOUS
    <3> QED BY <3>1
  <2> QED BY <2>1, <2>2 DEF Texts
<1>3. ASSUME t # <<>> PROVE Front(t) \in Texts /\ Last(t) \in Chars
  <2>1. Len(t) > 0
    BY <1>1, <1>3, EmptySeq DEF Texts
  <2>2. \A i \in 1..Len(t) - 1 : t[i] \in Chars
    BY <1>1, ElementOfSeq DEF Texts
  <2>3. Len(t) - 1 \in Int
    BY <1>1
  <2>4. SubSeq(t, 1, Len(t) - 1) \in Texts
    BY <2>2, <2>3, SubSeqProperties DEF Texts
  <2>5. t[Len(t)] \in Chars
    BY <2>1, <1>1, ElementOfSeq DEF Texts
  <2> QED BY <2>4, <2>5 DEF Front, Last
<1> QED BY <1>1, <1>2, <1>3

\* Macro tracking and the two undo records.
LEMMA TrackersLeave ==
  ASSUME NEW d, NEW c, Leaves(d, c)
  PROVE  /\ Leaves(d, ResetMacroUndo(c)) /\ Leaves(d, ClearMacroTracking(c))
         /\ Leaves(d, TrackMacroBackspace(c)) /\ \A k \in Chars : Leaves(d, TrackMacroCharacter(c, k))
         /\ Leaves(d, ResetCommitUndo(c)) /\ Leaves(d, OnNonRestoreKey(c))
         /\ \A t, r \in Texts : \A b : Leaves(d, RecordCommitSnapshot(c, t, r, b))
         /\ Leaves(d, TransitionUndoReadyToPrimed(c))
<1>1. Placed(c) /\ c.mbuf \in Texts /\ <<>> \in Texts
  BY FrontsAreTexts DEF Leaves, Placed
<1>2. ASSUME NEW a, Leaves(d, a) PROVE Leaves(d, ResetMacroUndo(a))
  <2>1. Placed(a)
    BY <1>2 DEF Leaves
  <2> QED BY <1>1, <1>2, <2>1 DEF ResetMacroUndo, Leaves, Placed, Around, SameUndo, AllParts
<1>3. Leaves(d, ClearMacroTracking(c))
  <2> DEFINE r == ResetMacroUndo(c)
  <2>1. Leaves(d, r) /\ Placed(r)
    BY <1>2 DEF Leaves
  <2>2. ClearMacroTracking(c) = [r EXCEPT !.moff = FALSE, !.mbuf = <<>>, !.cross = FALSE]
    BY DEF ClearMacroTracking
  <2> HIDE DEF r
  <2> QED BY <1>1, <2>1, <2>2 DEF Leaves, Placed, Around, SameUndo, AllParts
<1>4. Leaves(d, TrackMacroBackspace(c))
  <2>1. c.mbuf # <<>> => Front(c.mbuf) \in Texts
    BY <1>1, FrontsAreTexts
  <2>2. c.mbuf # <<>> => Leaves(d, [c EXCEPT !.mbuf = Front(@)])
    <3>1. [c EXCEPT !.mbuf = Front(@)] = [c EXCEPT !.mbuf = Front(c.mbuf)]
      OBVIOUS
    <3> QED BY <2>1, <3>1, NotesLeave
  <2> QED BY <1>3, <2>2 DEF TrackMacroBackspace
<1>5. ASSUME NEW k \in Chars PROVE Leaves(d, TrackMacroCharacter(c, k))
  <2>1. Append(c.mbuf, k) \in Texts
    BY <1>1, FrontsAreTexts
  <2>2. Leaves(d, [c EXCEPT !.mbuf = Append(@, k)])
    <3>1. [c EXCEPT !.mbuf = Append(@, k)] = [c EXCEPT !.mbuf = Append(c.mbuf, k)]
      OBVIOUS
    <3> QED BY <2>1, <3>1, NotesLeave
  <2> QED BY <2>2 DEF TrackMacroCharacter
<1>6. Leaves(d, ResetCommitUndo(c))
  <2>1. NoCommit.text \in Texts /\ NoCommit.raw \in Texts
    BY <1>1 DEF NoCommit
  <2>2. Leaves(d, [c EXCEPT !.undo = "Idle", !.last = NoCommit])
    BY <1>1, <2>1 DEF Leaves, Placed, Around, SameUndo, AllParts
  <2> QED BY <2>2 DEF ResetCommitUndo
<1>7. ASSUME NEW t \in Texts, NEW r \in Texts, NEW b PROVE Leaves(d, RecordCommitSnapshot(c, t, r, b))
  <2>1. NoCommit.text \in Texts /\ NoCommit.raw \in Texts
    BY <1>1 DEF NoCommit
  <2>2. Leaves(d, [c EXCEPT !.undo = "Idle", !.last = NoCommit])
    BY <1>1, <2>1 DEF Leaves, Placed, Around, SameUndo, AllParts
  <2> DEFINE l == [text |-> t, raw |-> r, trail |-> b]
             u == IF b THEN "Ready" ELSE "Idle"
  <2>3. l.text \in Texts /\ l.raw \in Texts
    OBVIOUS
  <2>4. RecordCommitSnapshot(c, t, r, b) =
          IF t = <<>> \/ r = <<>> THEN [c EXCEPT !.undo = "Idle", !.last = NoCommit]
          ELSE [c EXCEPT !.undo = u, !.last = l, !.late = FALSE]
    BY DEF RecordCommitSnapshot
  <2> HIDE DEF l, u
  <2>5. Leaves(d, [c EXCEPT !.undo = u, !.last = l, !.late = FALSE])
    BY <1>1, <2>3 DEF Leaves, Placed, Around, SameUndo, AllParts
  <2> QED BY <2>2, <2>4, <2>5
<1>8. Leaves(d, OnNonRestoreKey(c))
  BY <1>2, <1>6 DEF OnNonRestoreKey
<1>9. Leaves(d, TransitionUndoReadyToPrimed(c))
  BY NotesLeave DEF TransitionUndoReadyToPrimed
<1> QED BY <1>2, <1>3, <1>4, <1>5, <1>6, <1>7, <1>8, <1>9

\* A change of the text keeps everything in it.
LEMMA SetTextLeaves ==
  ASSUME NEW d, Placed(d), NEW at \in 0..Len(d.text), NEW n \in Nat, NEW new \in Texts
  PROVE  LET c == SetText(d, at, n, new)
         IN /\ Leaves(d, c) /\ Keeps(d, c) /\ c.on = d.on /\ c.eng = d.eng /\ c.rev.word = d.rev.word
            /\ c.caret = at + Len(new) /\ at + Len(new) <= Len(c.text)
            /\ SubSeq(c.text, at + 1, at + Len(new)) = new
<1> DEFINE c == SetText(d, at, n, new)
           t == Spliced(d.text, at, n, new)
           comp == IF d.on THEN Shifted(d.comp, at, n, Len(new)) ELSE d.comp
           rev  == IF d.rev = NoRange THEN d.rev ELSE Shifted(d.rev, at, n, Len(new))
           len  == at + Len(new) + (IF at + n < Len(d.text) THEN Len(d.text) - at - n ELSE 0)
<1>1. d.text \in Texts /\ Len(d.text) \in Nat /\ Len(new) \in Nat
  BY LenProperties DEF Placed, Texts
<1>2. t \in Texts /\ Len(t) = len /\ SubSeq(t, at + 1, at + Len(new)) = new
  BY <1>1, Splice
<1>3. len \in Nat /\ at + Len(new) <= len
  <2>1. \A l, m \in Nat : at <= l =>
          LET x == at + m + (IF at + n < l THEN l - at - n ELSE 0) IN x \in Nat /\ at + m <= x
    BY <1>1
  <2>2. at <= Len(d.text)
    BY <1>1
  <2> HIDE DEF t
  <2> QED BY <1>1, <2>1, <2>2
<1>4. comp \in Spans /\ (d.on => comp.at <= len)
  BY <1>1, Shifts DEF Placed
<1>5. rev \in Spans /\ rev.at <= len /\ rev.word = d.rev.word
  <2>1. CASE d.rev = NoRange
    <3>1. rev = d.rev /\ rev.at = 0
      BY <2>1 DEF NoRange
    <3> QED BY <3>1, <1>3 DEF Placed
  <2>2. CASE d.rev # NoRange
    <3>1. Shifted(d.rev, at, n, Len(new)).word = d.rev.word
      BY DEF Shifted, Spans, Placed
    <3> QED BY <2>2, <3>1, <1>1, Shifts DEF Placed
  <2> QED BY <2>1, <2>2
<1>6. c = [d EXCEPT !.text = t, !.caret = at + Len(new), !.sel = FALSE, !.comp = comp, !.rev = rev]
  BY DEF SetText, Spliced
<1> HIDE DEF c, t, comp, rev, len
<1>7. /\ AllParts \subseteq DOMAIN c
      /\ c.text = t /\ c.caret = at + Len(new) /\ c.comp = comp /\ c.rev = rev
      /\ c.on = d.on /\ c.eng = d.eng /\ c.last = d.last /\ c.mbuf = d.mbuf /\ c.mundo = d.mundo
      /\ c.mwas = d.mwas /\ c.mlate = d.mlate /\ Around(d, c)
  BY <1>6 DEF Placed, Around, AllParts
<1>8. Placed(c)
  <2>1. c.caret \in 0..Len(c.text)
    BY <1>1, <1>2, <1>3, <1>7
  <2> QED BY <1>2, <1>4, <1>5, <1>7, <2>1 DEF Placed
<1> QED BY <1>2, <1>3, <1>5, <1>7, <1>8 DEF Leaves, Keeps, SameUndo, c

\* The composition ends, begins on a range, or takes another text.
LEMMA CompositionPlaces ==
  ASSUME NEW d, Placed(d)
  PROVE  /\ Leaves(d, EndComposition(d)) /\ Keeps(d, EndComposition(d)) /\ ~EndComposition(d).on
         /\ EndComposition(d).text = d.text /\ EndComposition(d).caret = d.caret
         /\ EndComposition(d).rev = d.rev /\ EndComposition(d).eng = d.eng
         /\ \A at \in 0..Len(d.text), len \in Nat, t \in Texts :
              LET b == BeginCompositionOnRange(d, at, len, t)
              IN Keeps(d, b) /\ b.on /\ b.eng = d.eng /\ b.comp = [word |-> t, at |-> at, len |-> len]
                 /\ b.text = d.text
         /\ d.on => \A t \in Texts :
              LET s == SetCompositionText(d, t)
              IN Leaves(d, s) /\ Keeps(d, s) /\ s.on /\ s.eng = d.eng /\ Shows(s, t)
<1>1. NoRange \in Spans
  BY FrontsAreTexts, EmptySeq DEF NoRange, Spans, Texts
<1>2. /\ Leaves(d, EndComposition(d)) /\ Keeps(d, EndComposition(d)) /\ ~EndComposition(d).on
      /\ EndComposition(d).text = d.text /\ EndComposition(d).caret = d.caret
      /\ EndComposition(d).rev = d.rev /\ EndComposition(d).eng = d.eng
  BY <1>1 DEF EndComposition, Leaves, Keeps, Placed, Around, SameUndo, AllParts
<1>3. ASSUME NEW at \in 0..Len(d.text), NEW len \in Nat, NEW t \in Texts
      PROVE  LET b == BeginCompositionOnRange(d, at, len, t)
             IN Keeps(d, b) /\ b.on /\ b.eng = d.eng /\ b.comp = [word |-> t, at |-> at, len |-> len]
                /\ b.text = d.text
  <2> DEFINE x == [word |-> t, at |-> at, len |-> len]
             b == [d EXCEPT !.on = TRUE, !.comp = x]
  <2>1. Len(d.text) \in Nat
    BY LenProperties DEF Placed, Texts
  <2>2. x \in Spans /\ x.at <= Len(d.text)
    BY <2>1 DEF Spans
  <2>3. BeginCompositionOnRange(d, at, len, t) = b
    BY DEF BeginCompositionOnRange
  <2> HIDE DEF x
  <2>4. Keeps(d, b) /\ b.on /\ b.eng = d.eng /\ b.comp = x /\ b.text = d.text
    BY <2>2 DEF Keeps, Placed, Around, SameUndo, AllParts
  <2> QED BY <2>3, <2>4 DEF x
<1>4. ASSUME d.on, NEW t \in Texts
      PROVE  LET s == SetCompositionText(d, t)
             IN Leaves(d, s) /\ Keeps(d, s) /\ s.on /\ s.eng = d.eng /\ Shows(s, t)
  <2> DEFINE c == SetText(d, d.comp.at, d.comp.len, t)
             x == [word |-> t, at |-> d.comp.at, len |-> Len(t)]
             s == [c EXCEPT !.comp = x]
  <2>1. d.comp.at \in 0..Len(d.text) /\ d.comp.len \in Nat /\ Len(t) \in Nat /\ Len(d.text) \in Nat
    <3>1. Len(d.text) \in Nat /\ Len(t) \in Nat
      BY LenProperties DEF Placed, Texts
    <3> QED BY <1>4, <3>1 DEF Placed, Spans
  <2>2. /\ Leaves(d, c) /\ Keeps(d, c) /\ c.on = d.on /\ c.eng = d.eng
        /\ d.comp.at + Len(t) <= Len(c.text)
        /\ SubSeq(c.text, d.comp.at + 1, d.comp.at + Len(t)) = t
    <3> DEFINE p == d.comp.at
               n == d.comp.len
    <3>1. p \in 0..Len(d.text) /\ n \in Nat /\ c = SetText(d, p, n, t)
      BY <2>1
    <3> HIDE DEF p, n, c
    <3>2. /\ Leaves(d, c) /\ Keeps(d, c) /\ c.on = d.on /\ c.eng = d.eng
          /\ p + Len(t) <= Len(c.text) /\ SubSeq(c.text, p + 1, p + Len(t)) = t
      BY <3>1, SetTextLeaves
    <3> QED BY <3>2 DEF p
  <2>3. x \in Spans /\ x.at <= Len(c.text) /\ x.at = d.comp.at /\ x.word = t /\ x.len = Len(t)
    <3>1. Len(c.text) \in Nat
      BY <2>2, LenProperties DEF Keeps, Placed, Texts
    <3> QED BY <2>1, <2>2, <3>1 DEF Spans
  <2>4. SetCompositionText(d, t) = s
    BY DEF SetCompositionText
  <2> HIDE DEF c, x
  <2>5. /\ s.on /\ s.eng = d.eng /\ s.comp = x /\ s.text = c.text
        /\ Leaves(d, s) /\ Keeps(d, s)
    BY <1>4, <2>2, <2>3 DEF Leaves, Keeps, Placed, Around, SameUndo, AllParts
  <2> QED BY <2>2, <2>3, <2>4, <2>5 DEF Shows
<1> QED BY <1>2, <1>3, <1>4

\* A composition is started on a text that is inserted, if it can be started.
LEMMA StartPlaces ==
  ASSUME NEW d, Placed(d), NEW t \in Texts
  PROVE  LET s == StartComposition(d, t)
         IN Keeps(d, s) /\ s.eng = d.eng /\ (d.grant = "ok" => s.on /\ Shows(s, t))
<1> DEFINE e == IF d.on THEN EndComposition(d) ELSE d
           i == SetText(e, d.caret, Selected(d), t)
           n == SetText(i, d.caret, Len(t), <<>>)
           b == BeginCompositionOnRange(i, d.caret, Len(t), t)
<1>1. d.caret \in 0..Len(d.text) /\ Selected(d) \in Nat /\ Len(t) \in Nat /\ Len(d.text) \in Nat /\ <<>> \in Texts
  BY FrontsAreTexts, LenProperties DEF Placed, Selected, Texts
<1>2. Keeps(d, e) /\ Placed(e) /\ e.text = d.text /\ e.eng = d.eng
  BY CompositionPlaces, InARow DEF Keeps
<1> HIDE DEF e
<1>3. /\ Keeps(e, i) /\ Placed(i) /\ i.eng = d.eng /\ d.caret + Len(t) <= Len(i.text) /\ Len(i.text) \in Nat
      /\ SubSeq(i.text, d.caret + 1, d.caret + Len(t)) = t
  <2>1. /\ Keeps(e, i) /\ i.eng = e.eng /\ d.caret + Len(t) <= Len(i.text)
        /\ SubSeq(i.text, d.caret + 1, d.caret + Len(t)) = t
    <3> DEFINE p == d.caret
               l == Selected(d)
    <3>1. p \in 0..Len(e.text) /\ l \in Nat /\ i = SetText(e, p, l, t)
      BY <1>1, <1>2
    <3> HIDE DEF p, l, i
    <3>2. /\ Keeps(e, i) /\ i.eng = e.eng
          /\ p + Len(t) <= Len(i.text) /\ SubSeq(i.text, p + 1, p + Len(t)) = t
      BY <1>2, <3>1, SetTextLeaves
    <3> QED BY <3>2 DEF p
  <2> QED BY <1>2, <2>1, LenProperties DEF Keeps, Placed, Texts
<1> HIDE DEF i
<1>4. d.caret \in 0..Len(i.text)
  BY <1>1, <1>3
<1>5. Keeps(i, n) /\ n.eng = d.eng
  BY <1>1, <1>3, <1>4, SetTextLeaves
<1>6. Keeps(i, b) /\ b.eng = d.eng /\ b.on /\ b.comp = [word |-> t, at |-> d.caret, len |-> Len(t)] /\ b.text = i.text
  BY <1>1, <1>3, <1>4, CompositionPlaces
<1>7. i.grant = d.grant
  BY <1>2, <1>3 DEF Keeps, Around
<1>8. StartComposition(d, t) = IF d.grant = "nostart" THEN n ELSE b
  BY <1>7 DEF StartComposition, n, b, i, e
<1>9. Shows(b, t)
  BY <1>3, <1>6 DEF Shows
<1> HIDE DEF n, b
<1> QED BY <1>2, <1>3, <1>5, <1>6, <1>8, <1>9, InARow

(* A word on the screen. *)
Shown(d) == d.on /\ Buffer(d) /\ Shows(d, d.eng.text)

\* The engine holds texts, and is not empty after a key.
LEMMA EngineTexts ==
  ASSUME NEW e, e.text \in Texts, e.raw \in Texts
  PROVE  /\ \A c \in Chars : /\ PushKey(e, c).text \in Texts /\ PushKey(e, c).text # <<>>
                             /\ PushKey(e, c).raw \in Texts
         /\ EngineBackspace(e).text \in Texts /\ EngineBackspace(e).raw \in Texts
<1>1. <<>> \in Texts /\ <<"A">> \in Texts
  <2>1. <<>> \in Texts
    BY EmptySeq DEF Texts
  <2>2. "A" \in Chars
    BY DEF Chars
  <2> QED BY <2>1, <2>2, FrontsAreTexts
<1>2. ASSUME NEW c \in Chars
      PROVE  PushKey(e, c).text \in Texts /\ PushKey(e, c).text # <<>> /\ PushKey(e, c).raw \in Texts
  <2>1. e.text # <<>> => Front(e.text) \o <<"A">> \in Texts /\ Front(e.text) \o <<"A">> # <<>>
    <3>1. SUFFICES ASSUME e.text # <<>>
                   PROVE  Front(e.text) \o <<"A">> \in Texts /\ Front(e.text) \o <<"A">> # <<>>
      OBVIOUS
    <3>2. Front(e.text) \in Texts
      BY <3>1, FrontsAreTexts
    <3>3. Front(e.text) \o <<"A">> \in Texts /\ (Front(e.text) \o <<"A">> = <<>> => <<"A">> = <<>>)
      <4> DEFINE f == Front(e.text)
                 a == <<"A">>
      <4>1. f \in Texts /\ a \in Texts
        BY <3>2, <1>1
      <4> HIDE DEF f, a
      <4>2. f \o a \in Texts /\ (f \o a = <<>> => a = <<>>)
        BY <4>1, ConcatProperties, ConcatEqualIffEmpty DEF Texts
      <4> QED BY <4>2 DEF f, a
    <3>4. <<"A">> # <<>>
      OBVIOUS
    <3> QED BY <3>3, <3>4
  <2>2. Append(e.text, c) \in Texts /\ Append(e.text, c) # <<>> /\ Append(e.raw, c) \in Texts
    BY FrontsAreTexts
  <2> QED BY <2>1, <2>2 DEF PushKey
<1>3. EngineBackspace(e).text \in Texts /\ EngineBackspace(e).raw \in Texts
  <2>1. e.raw # <<>> => Front(e.raw) \in Texts
    BY FrontsAreTexts
  <2>2. e.text # <<>> => Front(e.text) \in Texts
    BY FrontsAreTexts
  <2>3. ~(Len(e.text) <= 1) => e.text # <<>>
    BY EmptySeq DEF Texts
  <2> QED BY <1>1, <2>1, <2>2, <2>3 DEF EngineBackspace, EmptyEngine
<1> QED BY <1>2, <1>3

\* The word a revival seeds the engine with is the word on the screen.
LEMMA Seeds ==
  ASSUME NEW d, Placed(d), NEW word \in Texts
  PROVE  LET e == SeedRevivedWord(word, MatchingRawForCommittedWord(d, word))
         IN e.text = word /\ e.raw \in Texts
<1>1. MatchingRawForCommittedWord(d, word) \in Texts /\ <<>> \in Texts
  BY FrontsAreTexts DEF Placed, MatchingRawForCommittedWord
<1>2. ASSUME NEW raw \in Texts
      PROVE  SeedRevivedWord(word, raw).text = word /\ SeedRevivedWord(word, raw).raw \in Texts
  <2> DEFINE Seeded(again) == [text |-> word, raw |-> IF again.text = word THEN raw ELSE <<>>]
  <2>1. \A again : Seeded(again).text = word /\ Seeded(again).raw \in Texts
    BY <1>1
  <2>2. PICK again : SeedRevivedWord(word, raw) = Seeded(again)
    BY DEF SeedRevivedWord
  <2> QED BY <2>1, <2>2
<1> QED BY <1>1, <1>2

\* The letters before the caret.
LEMMA WordBefore ==
  ASSUME NEW d, Placed(d)
  PROVE  PrecedingWord(d) \in Texts /\ Len(PrecedingWord(d)) <= d.caret
<1> DEFINE lens == {n \in 0..d.caret : \A i \in d.caret - n + 1 .. d.caret : d.text[i] \in Word}
           m == Max(lens)
           s == SubSeq(d.text, d.caret - m + 1, d.caret)
<1>1. d.caret \in Nat /\ d.caret <= Len(d.text) /\ Len(d.text) \in Nat /\ d.text \in Texts
  BY LenProperties DEF Placed, Texts
<1>2. m \in 0..d.caret
  <2>1. 0 \in lens
    BY <1>1
  <2>2. lens \subseteq 0..d.caret /\ lens # {}
    BY <2>1
  <2> HIDE DEF lens
  <2> QED BY <1>1, <2>2, Greatest
<1> HIDE DEF m
<1>3. s \in Texts /\ Len(s) <= d.caret
  <2>1. \A i \in d.caret - m + 1 .. d.caret : d.text[i] \in Chars
    BY <1>1, <1>2, ElementOfSeq DEF Texts
  <2> DEFINE a == d.caret - m + 1
  <2>2. a \in Int /\ d.caret \in Int /\ (a <= d.caret => d.caret - a + 1 <= d.caret)
    BY <1>1, <1>2
  <2>3. \A i \in a .. d.caret : d.text[i] \in Chars
    BY <2>1
  <2> HIDE DEF a
  <2>4. SubSeq(d.text, a, d.caret) \in Seq(Chars)
        /\ Len(SubSeq(d.text, a, d.caret)) = IF a <= d.caret THEN d.caret - a + 1 ELSE 0
    BY <2>2, <2>3, SubSeqProperties
  <2> QED BY <1>1, <2>2, <2>4 DEF a, Texts
<1>4. <<>> \in Texts /\ Len(<<>>) = 0
  BY EmptySeq DEF Texts
<1>5. PrecedingWord(d) = IF d.sel THEN <<>> ELSE s
  BY DEF PrecedingWord, m
<1> HIDE DEF s
<1> QED BY <1>1, <1>3, <1>4, <1>5

\* The sessions that start, update and end a composition.
LEMMA SessionsLeave ==
  ASSUME NEW d, Placed(d), NEW t \in Texts
  PROVE  /\ Leaves(d, CommitEditSession(d, t)) /\ (Granted(d) => ~CommitEditSession(d, t).on)
         /\ LET u == UpdateCompositionEditSession(d, t)
            IN Keeps(d, u) /\ u.eng = d.eng /\ (d.grant = "ok" /\ (d.on \/ t # <<>>) => u.on /\ Shows(u, t))
         /\ LET s == StartCompositionEditSession(d, t)
            IN Keeps(d, s) /\ s.eng = d.eng /\ (d.grant = "ok" => s.on /\ Shows(s, t))
<1>1. Leaves(d, d) /\ Keeps(d, d)
  BY InARow
<1>2. Leaves(d, CommitEditSession(d, t)) /\ (Granted(d) => ~CommitEditSession(d, t).on)
  <2> DEFINE c == IF d.comp.word = t THEN d ELSE SetCompositionText(d, t)
  <2>1. d.on => Leaves(d, c) /\ Placed(c)
    BY <1>1, CompositionPlaces DEF Leaves
  <2> HIDE DEF c
  <2>2. d.on => Leaves(d, EndComposition(c)) /\ ~EndComposition(c).on
    BY <2>1, CompositionPlaces, InARow
  <2> QED BY <1>1, <2>2 DEF CommitEditSession, c
<1>3. LET u == UpdateCompositionEditSession(d, t)
      IN Keeps(d, u) /\ u.eng = d.eng /\ (d.grant = "ok" /\ (d.on \/ t # <<>>) => u.on /\ Shows(u, t))
  BY <1>1, CompositionPlaces, StartPlaces DEF UpdateCompositionEditSession, Granted
<1>4. LET s == StartCompositionEditSession(d, t)
      IN Keeps(d, s) /\ s.eng = d.eng /\ (d.grant = "ok" => s.on /\ Shows(s, t))
  BY <1>1, StartPlaces DEF StartCompositionEditSession, Granted
<1> QED BY <1>2, <1>3, <1>4

\* The sessions that put text before the caret.
LEMMA ReplacesLeave ==
  ASSUME NEW d, Placed(d), NEW new \in Texts
  PROVE  /\ \A n \in Nat : \A x :
              LET r == ReplacePrecedingText(d, n, new, x)
              IN Leaves(d, r) /\ r.on = d.on /\ r.eng = d.eng /\ (r.replaced => Granted(d))
         /\ \A word \in Texts : Leaves(d, EscRestoreLastCommitSession(d, word, new))
<1>1. /\ d.caret \in Nat /\ d.caret <= Len(d.text) /\ Len(d.text) \in Nat /\ Selected(d) \in Nat
  BY LenProperties DEF Placed, Texts, Selected
<1>2. ASSUME NEW c, Leaves(d, c), c.on = d.on, c.eng = d.eng, NEW y
      PROVE  LET e == [c EXCEPT !.replaced = y]
             IN Leaves(d, e) /\ e.on = d.on /\ e.eng = d.eng /\ e.replaced = y
  <2>1. Leaves(d, [c EXCEPT !.replaced = y])
    BY <1>2, NotesLeave
  <2> QED BY <1>2, <2>1 DEF Leaves, Placed, AllParts
<1>3. ASSUME NEW m \in Nat, m <= d.caret, NEW l \in Nat
      PROVE  LET s == SetText(d, d.caret - m, l, new) IN Leaves(d, s) /\ s.on = d.on /\ s.eng = d.eng
  <2>1. d.caret - m \in 0..Len(d.text)
    BY <1>1, <1>3
  <2> QED BY <2>1, SetTextLeaves
<1>4. Leaves(d, d)
  BY InARow
<1>5. ASSUME NEW n \in Nat, NEW x
      PROVE  LET r == ReplacePrecedingText(d, n, new, x)
             IN Leaves(d, r) /\ r.on = d.on /\ r.eng = d.eng /\ (r.replaced => Granted(d))
  <2> DEFINE s == SetText(d, d.caret - n, n, new)
  <2>1. n <= d.caret => Leaves(d, s) /\ s.on = d.on /\ s.eng = d.eng
    BY <1>3
  <2> HIDE DEF s
  <2>2. CASE ReplacePrecedingText(d, n, new, x) = [d EXCEPT !.replaced = FALSE]
    BY <1>2, <1>4, <2>2
  <2>3. CASE ReplacePrecedingText(d, n, new, x) = [s EXCEPT !.replaced = TRUE] /\ Granted(d) /\ n <= d.caret
    BY <1>2, <2>1, <2>3
  <2> QED BY <2>2, <2>3 DEF ReplacePrecedingText, s
<1>6. ASSUME NEW word \in Texts
      PROVE  Leaves(d, EscRestoreLastCommitSession(d, word, new))
  <2> DEFINE l == Len(word) + Selected(d)
             s == SetText(d, d.caret - Len(word), l, new)
  <2>0. l \in Nat /\ Len(word) \in Nat
    BY <1>1, LenProperties DEF Texts
  <2>1. Len(word) <= d.caret => Leaves(d, s)
    <3> HIDE DEF l
    <3> QED BY <1>1, <1>3, <2>0
  <2> HIDE DEF s
  <2>2. \/ EscRestoreLastCommitSession(d, word, new) = [d EXCEPT !.replaced = FALSE]
        \/ EscRestoreLastCommitSession(d, word, new) = [s EXCEPT !.replaced = TRUE] /\ Len(word) <= d.caret
    BY DEF EscRestoreLastCommitSession, s
  <2>3. Leaves(d, [d EXCEPT !.replaced = FALSE])
    BY <1>4, NotesLeave
  <2>4. Len(word) <= d.caret => Leaves(d, [s EXCEPT !.replaced = TRUE])
    BY <2>1, NotesLeave
  <2> QED BY <2>2, <2>3, <2>4
<1> QED BY <1>5, <1>6

\* A new engine, and the fields that go with it.
LEMMA NewEngine ==
  ASSUME NEW d, NEW c, Keeps(d, c), NEW e, e.text \in Texts, e.raw \in Texts
  PROVE  /\ LET n == [c EXCEPT !.eng = e]
            IN Keeps(d, n) /\ n.eng = e /\ (n.on <=> c.on) /\ n.comp = c.comp /\ n.text = c.text
         /\ \A x : LET n == [c EXCEPT !.eng = e, !.out = x]
                  IN Keeps(d, n) /\ n.eng = e /\ (n.on <=> c.on) /\ n.comp = c.comp
                     /\ n.text = c.text /\ n.out = x
         /\ \A x : LET n == [c EXCEPT !.eng = e, !.replaced = x]
                  IN Keeps(d, n) /\ n.eng = e /\ (n.on <=> c.on) /\ n.comp = c.comp
                     /\ n.text = c.text /\ n.replaced = x
BY DEF Keeps, Placed, Around, SameUndo, AllParts

\* A word before the caret becomes a composition again.
LEMMA RevivalsShow ==
  ASSUME NEW d, Placed(d)
  PROVE  /\ LET r == ReviveCompositionEditSession(d)
            IN Keeps(d, r) /\ (d.grant = "ok" /\ r.on => Shown(r))
         /\ \A word \in Texts, c \in Chars : Len(word) <= d.caret =>
              LET r == ReviveAndTypeEditSession(d, word, c)
              IN Keeps(d, r) /\ (d.grant = "ok" => Shown(r) /\ r.replaced)
<1>1. EmptyEngine.text \in Texts /\ EmptyEngine.raw \in Texts
  BY FrontsAreTexts, EmptySeq DEF EmptyEngine, Texts
<1>2. Keeps(d, d) /\ d.text \in Texts /\ Len(d.text) \in Nat /\ d.caret \in Nat /\ d.caret <= Len(d.text)
  <2>1. Keeps(d, d)
    BY InARow
  <2> QED BY <2>1, LenProperties DEF Placed, Texts
<1>3. ASSUME NEW c, Keeps(d, c), NEW at \in 0..Len(c.text), NEW len \in Nat, NEW word \in Texts,
             NEW e, e.text \in Texts, e.raw \in Texts
      PROVE  LET s == SetCompositionText(BeginCompositionOnRange(c, at, len, word), e.text)
             IN Keeps(d, s) /\ s.on /\ Shows(s, e.text)
  <2> DEFINE b == BeginCompositionOnRange(c, at, len, word)
             s == SetCompositionText(b, e.text)
  <2>1. Keeps(c, b) /\ b.on
    BY <1>3, CompositionPlaces DEF Keeps
  <2> HIDE DEF b
  <2>2. Keeps(b, s) /\ s.on /\ Shows(s, e.text)
    BY <1>3, <2>1, CompositionPlaces DEF Keeps
  <2> HIDE DEF s
  <2>3. Keeps(d, s)
    BY <1>3, <2>1, <2>2, InARow
  <2> QED BY <2>2, <2>3 DEF s, b
<1>4. LET r == ReviveCompositionEditSession(d)
      IN Keeps(d, r) /\ (d.grant = "ok" /\ r.on => Shown(r))
  <2> DEFINE c == IF d.on THEN EndComposition(d) ELSE d
             e == EngineBackspace(SeedRevivedWord(d.rev.word,
                                    MatchingRawForCommittedWord(d, d.rev.word)))
             s == SetText(c, d.rev.at, d.rev.len, e.text)
             o == [s EXCEPT !.eng = EmptyEngine]
             f == SetCompositionText(BeginCompositionOnRange(c, d.rev.at, d.rev.len, d.rev.word), e.text)
             b == [f EXCEPT !.eng = e]
  <2>1. Keeps(d, c) /\ c.text = d.text
    BY <1>2, CompositionPlaces
  <2>2. e.text \in Texts /\ e.raw \in Texts /\ d.rev.word \in Texts
    <3>1. d.rev.word \in Texts
      BY DEF Placed, Spans
    <3>2. LET x == SeedRevivedWord(d.rev.word, MatchingRawForCommittedWord(d, d.rev.word))
          IN x.text \in Texts /\ x.raw \in Texts
      BY <3>1, Seeds
    <3> QED BY <3>1, <3>2, EngineTexts
  <2>3. d.rev.at \in 0..Len(d.text) /\ d.rev.len \in Nat
    BY <1>2 DEF Placed, Spans
  <2> HIDE DEF c, e
  <2>4. Keeps(d, s)
    <3> DEFINE at == d.rev.at
               len == d.rev.len
    <3>1. at \in 0..Len(c.text) /\ len \in Nat /\ s = SetText(c, at, len, e.text)
      BY <2>1, <2>3
    <3> HIDE DEF at, len, s
    <3>2. Keeps(c, s)
      BY <2>1, <2>2, <3>1, SetTextLeaves DEF Keeps
    <3> QED BY <2>1, <3>2, InARow
  <2>5. Keeps(d, f) /\ f.on /\ Shows(f, e.text)
    <3> DEFINE at == d.rev.at
               len == d.rev.len
    <3>1. at \in 0..Len(c.text) /\ len \in Nat
      BY <2>1, <2>3
    <3> HIDE DEF at, len
    <3>2. LET x == SetCompositionText(BeginCompositionOnRange(c, at, len, d.rev.word), e.text)
          IN Keeps(d, x) /\ x.on /\ Shows(x, e.text)
      BY <1>3, <2>1, <2>2, <3>1
    <3> QED BY <3>2 DEF at, len
  <2> HIDE DEF s, f
  <2>6. Keeps(d, o)
    BY <1>1, <2>4, NewEngine
  <2>7. Keeps(d, b) /\ b.eng = e /\ b.on /\ b.comp = f.comp /\ b.text = f.text
    <3>1. Keeps(d, f) /\ e.text \in Texts /\ e.raw \in Texts
      BY <2>2, <2>5
    <3>2. LET n == [f EXCEPT !.eng = e]
          IN Keeps(d, n) /\ n.eng = e /\ (n.on <=> f.on) /\ n.comp = f.comp /\ n.text = f.text
      BY <3>1 DEF Keeps, Placed, Around, SameUndo, AllParts
    <3> QED BY <2>5, <3>2
  <2>8. b.eng.text # <<>> => Shown(b)
    BY <2>5, <2>7 DEF Shown, Shows, Buffer
  <2>9. Keeps(d, EndComposition(b)) /\ ~EndComposition(b).on
    <3>1. Keeps(b, EndComposition(b)) /\ ~EndComposition(b).on
      BY <2>7, CompositionPlaces DEF Keeps
    <3> QED BY <2>7, <3>1, InARow
  <2>10. c.grant = d.grant
    BY <2>1 DEF Keeps, Around
  <2>11. ReviveCompositionEditSession(d) =
           IF ~Granted(d) THEN d
           ELSE IF d.grant = "nostart" THEN o
           ELSE IF b.eng.text = <<>> THEN EndComposition(b) ELSE b
    BY DEF ReviveCompositionEditSession, o, b, c, e, s, f
  <2> HIDE DEF o, b
  <2> QED BY <1>2, <2>6, <2>7, <2>8, <2>9, <2>11 DEF Granted
<1>5. ASSUME NEW word \in Texts, NEW k \in Chars, Len(word) <= d.caret
      PROVE  LET r == ReviveAndTypeEditSession(d, word, k)
             IN Keeps(d, r) /\ (d.grant = "ok" => Shown(r) /\ r.replaced)
  <2> DEFINE e == PushKey(SeedRevivedWord(word, MatchingRawForCommittedWord(d, word)), k)
             f == SetCompositionText(BeginCompositionOnRange(d, d.caret - Len(word), Len(word), word), e.text)
             b == [f EXCEPT !.eng = e, !.replaced = TRUE]
             o == [d EXCEPT !.eng = EmptyEngine, !.replaced = FALSE]
             n == [d EXCEPT !.replaced = FALSE]
  <2>1. e.text \in Texts /\ e.raw \in Texts /\ e.text # <<>>
    <3>1. LET x == SeedRevivedWord(word, MatchingRawForCommittedWord(d, word))
          IN x.text \in Texts /\ x.raw \in Texts
      BY Seeds
    <3> QED BY <3>1, EngineTexts
  <2> HIDE DEF e
  <2>2. Len(word) \in Nat /\ d.caret - Len(word) \in 0..Len(d.text)
    <3>1. Len(word) \in Nat
      BY LenProperties DEF Texts
    <3> QED BY <1>2, <1>5, <3>1
  <2>3. Keeps(d, f) /\ f.on /\ Shows(f, e.text)
    <3> DEFINE at == d.caret - Len(word)
    <3>1. at \in 0..Len(d.text)
      BY <2>2
    <3> HIDE DEF at
    <3>2. LET x == SetCompositionText(BeginCompositionOnRange(d, at, Len(word), word), e.text)
          IN Keeps(d, x) /\ x.on /\ Shows(x, e.text)
      BY <1>2, <1>3, <2>1, <2>2, <3>1
    <3> QED BY <3>2 DEF at
  <2> HIDE DEF f
  <2>4. Keeps(d, b) /\ b.eng = e /\ b.on /\ b.comp = f.comp /\ b.text = f.text /\ b.replaced
    <3>1. Keeps(d, f) /\ e.text \in Texts /\ e.raw \in Texts
      BY <2>1, <2>3
    <3>2. LET u == [f EXCEPT !.eng = e, !.replaced = TRUE]
          IN Keeps(d, u) /\ u.eng = e /\ (u.on <=> f.on) /\ u.comp = f.comp /\ u.text = f.text /\ u.replaced = TRUE
      BY <3>1 DEF Keeps, Placed, Around, SameUndo, AllParts
    <3> QED BY <2>3, <3>2
  <2>5. Keeps(d, o)
    BY <1>1, <1>2, NewEngine
  <2>6. Keeps(d, n)
    BY <1>2 DEF Keeps, Placed, Around, SameUndo, AllParts
  <2>7. Shown(b)
    BY <2>1, <2>3, <2>4 DEF Shown, Shows, Buffer
  <2>8. ReviveAndTypeEditSession(d, word, k) =
          IF ~Granted(d) THEN n ELSE IF d.grant = "nostart" THEN o ELSE b
    BY DEF ReviveAndTypeEditSession, n, o, b, f, e
  <2> HIDE DEF o, b, n
  <2> QED BY <2>4, <2>5, <2>6, <2>7, <2>8 DEF Granted
<1> QED BY <1>4, <1>5

\* Macro tracking as a key goes on.
LEMMA TrackersKeep ==
  ASSUME NEW d, Placed(d)
  PROVE  /\ Keeps(d, TrackMacroBackspace(d)) /\ TrackMacroBackspace(d).on = d.on
         /\ \A c \in Chars : Keeps(d, TrackMacroCharacter(d, c))
<1>1. d.mbuf \in Texts /\ <<>> \in Texts /\ Keeps(d, d)
  BY FrontsAreTexts, InARow DEF Placed
<1>2. ASSUME NEW t \in Texts PROVE Keeps(d, [d EXCEPT !.mbuf = t]) /\ [d EXCEPT !.mbuf = t].on = d.on
  BY DEF Keeps, Placed, Around, SameUndo, AllParts
<1>3. Keeps(d, ClearMacroTracking(d)) /\ ClearMacroTracking(d).on = d.on
  <2> DEFINE r == ResetMacroUndo(d)
  <2>1. Keeps(d, r) /\ r.on = d.on
    BY <1>1 DEF ResetMacroUndo, Keeps, Placed, Around, SameUndo, AllParts
  <2> HIDE DEF r
  <2>2. LET c == [r EXCEPT !.moff = FALSE, !.mbuf = <<>>, !.cross = FALSE]
        IN Keeps(d, c) /\ c.on = r.on
    BY <1>1, <2>1 DEF Keeps, Placed, Around, SameUndo, AllParts
  <2> QED BY <2>1, <2>2 DEF ClearMacroTracking, r
<1>4. Keeps(d, TrackMacroBackspace(d)) /\ TrackMacroBackspace(d).on = d.on
  <2>1. d.mbuf # <<>> => Front(d.mbuf) \in Texts
    BY <1>1, FrontsAreTexts
  <2> DEFINE f == [d EXCEPT !.mbuf = Front(d.mbuf)]
  <2>2. d.mbuf # <<>> => Keeps(d, f) /\ f.on = d.on
    BY <1>2, <2>1
  <2>3. \/ TrackMacroBackspace(d) = d \/ TrackMacroBackspace(d) = ClearMacroTracking(d)
        \/ TrackMacroBackspace(d) = f /\ d.mbuf # <<>>
    BY DEF TrackMacroBackspace
  <2> HIDE DEF f
  <2> QED BY <1>1, <1>3, <2>2, <2>3
<1>5. ASSUME NEW c \in Chars PROVE Keeps(d, TrackMacroCharacter(d, c))
  <2>1. Append(d.mbuf, c) \in Texts
    BY <1>1, FrontsAreTexts
  <2> DEFINE f == [d EXCEPT !.mbuf = Append(d.mbuf, c)]
  <2>2. Keeps(d, f)
    BY <1>2, <2>1
  <2>3. TrackMacroCharacter(d, c) = d \/ TrackMacroCharacter(d, c) = f
    BY DEF TrackMacroCharacter
  <2> HIDE DEF f
  <2> QED BY <1>1, <2>2, <2>3
<1> QED BY <1>4, <1>5

\* The engine is emptied; a composition that is left then is one that could not be ended.
LEMMA ResetsLeave ==
  ASSUME NEW d, NEW c, Leaves(d, c)
  PROVE  /\ (c.on => d.grant # "ok") => Leaves(d, EngineReset(c)) /\ EngineReset(c).on = c.on
         /\ Leaves(d, Reset(c)) /\ ~Reset(c).on
<1>1. EmptyEngine.text \in Texts /\ EmptyEngine.raw \in Texts /\ Placed(c)
  BY FrontsAreTexts, EmptySeq DEF EmptyEngine, Texts, Leaves
<1>2. ASSUME NEW a, Placed(a)
      PROVE  LET e == EngineReset(a) IN Placed(e) /\ Around(a, e) /\ SameUndo(a, e) /\ e.on = a.on
  BY <1>1, <1>2 DEF EngineReset, Placed, Around, SameUndo, AllParts
<1>3. (c.on => d.grant # "ok") => Leaves(d, EngineReset(c)) /\ EngineReset(c).on = c.on
  BY <1>1, <1>2 DEF Leaves, Around, SameUndo
<1>4. Leaves(d, Reset(c)) /\ ~Reset(c).on
  <2> DEFINE m == ClearMacroTracking(c)
             e == EngineReset(m)
             o == EndComposition(e)
  <2>1. Leaves(d, m)
    BY TrackersLeave
  <2> HIDE DEF m
  <2>2. Placed(e) /\ Around(d, e)
    BY <2>1, <1>2 DEF Leaves, Around
  <2> HIDE DEF e
  <2>3. Placed(o) /\ Around(d, o) /\ ~o.on
    BY <2>2, CompositionPlaces DEF Keeps, Around
  <2> QED BY <2>3 DEF Reset, Leaves, o, e, m
<1> QED BY <1>3, <1>4

\* Each way a word ends.
LEMMA EndsLeave ==
  ASSUME NEW d, NEW c, Leaves(d, c)
  PROVE  /\ Leaves(d, Commit(c)) /\ (Granted(d) => ~Commit(c).on)
         /\ \A k \in Chars : Leaves(d, CommitWithChar(c, k)) /\ (Granted(d) => ~CommitWithChar(c, k).on)
         /\ Leaves(d, CommitRawAndEnd(c)) /\ (Granted(d) => ~CommitRawAndEnd(c).on)
         /\ Leaves(d, EndCompositionVerbatim(c)) /\ (Granted(d) => ~EndCompositionVerbatim(c).on)
         /\ Leaves(d, TryRestoreLastCommitRaw(c))
<1>1. /\ Placed(c) /\ c.grant = d.grant /\ c.eng.text \in Texts /\ c.eng.raw \in Texts
      /\ c.last.text \in Texts /\ c.last.raw \in Texts
  BY DEF Leaves, Around, Placed
<1>2. ASSUME NEW t \in Texts
      PROVE  LET e == EngineReset(CommitEditSession(c, t)) IN Leaves(d, e) /\ (Granted(d) => ~e.on)
  <2> DEFINE s == CommitEditSession(c, t)
  <2>1. Leaves(c, s) /\ (Granted(d) => ~s.on)
    BY <1>1, SessionsLeave DEF Granted
  <2>2. Leaves(d, s)
    BY <2>1, InARow
  <2> HIDE DEF s
  <2>3. s.on => d.grant # "ok"
    BY <2>1 DEF Granted
  <2> QED BY <2>1, <2>2, <2>3, ResetsLeave DEF s
<1>3. ASSUME NEW a, Leaves(d, a), Granted(d) => ~a.on
      PROVE  /\ Leaves(d, ClearMacroTracking(a)) /\ (Granted(d) => ~ClearMacroTracking(a).on)
             /\ Leaves(d, ResetCommitUndo(a)) /\ (Granted(d) => ~ResetCommitUndo(a).on)
             /\ \A b, t, r : t \in Texts /\ r \in Texts =>
                  /\ Leaves(d, RecordCommitSnapshot(a, t, r, b))
                  /\ Granted(d) => ~RecordCommitSnapshot(a, t, r, b).on
  <2>1. Leaves(a, a)
    BY <1>3, InARow DEF Leaves
  <2>2. /\ Leaves(a, ClearMacroTracking(a)) /\ Leaves(a, ResetCommitUndo(a))
        /\ \A t, r \in Texts : \A b : Leaves(a, RecordCommitSnapshot(a, t, r, b))
    BY <2>1, TrackersLeave
  <2>3. \A e : Leaves(a, e) => Leaves(d, e) /\ (Granted(d) => ~e.on)
    BY <1>3, InARow DEF Leaves
  <2> QED BY <2>2, <2>3
<1>4. Leaves(d, Commit(c)) /\ (Granted(d) => ~Commit(c).on)
  <2> DEFINE e == EngineReset(CommitEditSession(c, c.eng.text))
             m == ClearMacroTracking(e)
  <2>1. Leaves(d, e) /\ (Granted(d) => ~e.on)
    BY <1>1, <1>2
  <2> HIDE DEF e
  <2>2. Leaves(d, m) /\ (Granted(d) => ~m.on)
    BY <1>3, <2>1
  <2> HIDE DEF m
  <2>3. Commit(c) = RecordCommitSnapshot(m, c.eng.text, c.eng.raw, FALSE)
    BY DEF Commit, m, e
  <2> QED BY <1>1, <1>3, <2>2, <2>3
<1>5. ASSUME NEW k \in Chars
      PROVE  Leaves(d, CommitWithChar(c, k)) /\ (Granted(d) => ~CommitWithChar(c, k).on)
  <2> DEFINE f == Append(c.eng.text, k)
             e == EngineReset(CommitEditSession(c, f))
             m == IF e.cross THEN e ELSE ClearMacroTracking(e)
  <2>0. f \in Texts
    BY <1>1, FrontsAreTexts
  <2> HIDE DEF f
  <2>1. Leaves(d, e) /\ (Granted(d) => ~e.on)
    BY <1>2, <2>0
  <2> HIDE DEF e
  <2>2. Leaves(d, m) /\ (Granted(d) => ~m.on)
    BY <1>3, <2>1
  <2> HIDE DEF m
  <2>3. CommitWithChar(c, k) = RecordCommitSnapshot(m, f, c.eng.raw, TRUE)
    BY DEF CommitWithChar, m, e, f
  <2> QED BY <1>1, <1>3, <2>0, <2>2, <2>3
<1>6. Leaves(d, CommitRawAndEnd(c)) /\ (Granted(d) => ~CommitRawAndEnd(c).on)
  BY <1>1, <1>2, <1>3 DEF CommitRawAndEnd
<1>7. Leaves(d, EndCompositionVerbatim(c)) /\ (Granted(d) => ~EndCompositionVerbatim(c).on)
  <2> DEFINE e == EngineReset(CommitEditSession(c, c.eng.text))
             m == ClearMacroTracking(e)
  <2>1. Leaves(d, e) /\ (Granted(d) => ~e.on)
    BY <1>1, <1>2
  <2> HIDE DEF e
  <2>2. Leaves(d, m) /\ (Granted(d) => ~m.on)
    BY <1>3, <2>1
  <2> HIDE DEF m
  <2>3. EndCompositionVerbatim(c) = ResetCommitUndo(m)
    BY DEF EndCompositionVerbatim, m, e
  <2> QED BY <1>3, <2>2, <2>3
<1>8. Leaves(d, TryRestoreLastCommitRaw(c))
  <2> DEFINE word == CommittedWord(c.last)
             s == EscRestoreLastCommitSession(c, word, c.last.raw)
  <2>1. word \in Texts
    BY <1>1, FrontsAreTexts DEF CommittedWord
  <2> HIDE DEF word
  <2>2. Leaves(c, s)
    BY <1>1, <2>1, ReplacesLeave
  <2> HIDE DEF s
  <2>3. Leaves(d, s)
    BY <2>2, InARow
  <2>4. TryRestoreLastCommitRaw(c) = ResetCommitUndo(s)
    BY DEF TryRestoreLastCommitRaw, s, word
  <2> QED BY <2>3, <2>4, TrackersLeave
<1> QED BY <1>4, <1>5, <1>6, <1>7, <1>8

\* With the word ended there is no expansion to take back.
LEMMA NoUndoLeft ==
  ASSUME NEW c, Placed(c)
  PROVE  /\ ResetMacroUndo(c).mundo = <<>> /\ ClearMacroTracking(c).mundo = <<>>
         /\ OnNonRestoreKey(c).mundo = <<>>
         /\ Commit(c).mundo = <<>> /\ Reset(c).mundo = <<>>
<1>1. ASSUME NEW a, Placed(a) PROVE ResetMacroUndo(a).mundo = <<>> /\ ClearMacroTracking(a).mundo = <<>>
  BY <1>1 DEF ResetMacroUndo, ClearMacroTracking, Placed, AllParts
<1>2. Leaves(c, c)
  BY InARow
<1>3. OnNonRestoreKey(c).mundo = <<>>
  <2>1. Placed(ResetCommitUndo(c))
    BY <1>2, TrackersLeave DEF Leaves
  <2> QED BY <1>1, <2>1 DEF OnNonRestoreKey
<1>4. Commit(c).mundo = <<>>
  <2> DEFINE e == EngineReset(CommitEditSession(c, c.eng.text))
             m == ClearMacroTracking(e)
  <2>1. Placed(e)
    <3> DEFINE s == CommitEditSession(c, c.eng.text)
    <3>1. Placed(s)
      BY SessionsLeave DEF Placed, Leaves
    <3> HIDE DEF s
    <3>2. EmptyEngine.text \in Texts /\ EmptyEngine.raw \in Texts
      BY <1>2, FrontsAreTexts, EmptySeq DEF EmptyEngine, Texts
    <3> QED BY <3>1, <3>2 DEF EngineReset, Placed, AllParts, s
  <2> HIDE DEF e
  <2>2. m.mundo = <<>> /\ AllParts \subseteq DOMAIN m
    <3>1. Leaves(e, e)
      BY <2>1, InARow
    <3>2. Leaves(e, m)
      BY <3>1, TrackersLeave
    <3> QED BY <1>1, <2>1, <3>2 DEF Leaves, Placed
  <2> HIDE DEF m
  <2>3. Commit(c) = RecordCommitSnapshot(m, c.eng.text, c.eng.raw, FALSE)
    BY DEF Commit, m, e
  <2> QED BY <2>2, <2>3 DEF RecordCommitSnapshot, AllParts
<1>5. Reset(c).mundo = <<>>
  <2> DEFINE m == ClearMacroTracking(c)
  <2>1. m.mundo = <<>> /\ AllParts \subseteq DOMAIN m
    <3>1. Leaves(c, m)
      BY <1>2, TrackersLeave
    <3> QED BY <1>1, <3>1 DEF Leaves, Placed
  <2> HIDE DEF m
  <2> QED BY <2>1 DEF Reset, EndComposition, EngineReset, AllParts, m
<1> QED BY <1>1, <1>3, <1>4, <1>5

PlanOk(p) == p.n \in Nat /\ p.shortcut \in Texts

\* A plan is to replace a number of characters, and remembers a text.
LEMMA PlansAreTexts ==
  ASSUME NEW d, Placed(d), NEW k \in Chars
  PROVE  /\ Candidate(d, k) \in Texts
         /\ \A buf, prev \in Texts : \A cross : PlanOk(Plan(buf, prev, k, cross))
         /\ PlanOk(NoPlan) /\ PlanOk(LookupMacroInContext(d, k))
<1>1. <<>> \in Texts /\ PlanOk(NoPlan)
  BY EmptySeq DEF PlanOk, NoPlan, Texts
<1>2. Candidate(d, k) \in Texts
  BY FrontsAreTexts DEF Candidate, Placed
<1>3. ASSUME NEW buf \in Texts, NEW prev \in Texts, NEW cross
      PROVE  PlanOk(Plan(buf, prev, k, cross))
  <2> DEFINE glyph == IsPunctuationKey(k)
             Sh(found) == CASE found = "exact" -> buf
                            [] found = "cut"   -> Front(buf)
                            [] found = "with"  -> Append(prev, k)
                            [] OTHER           -> prev
             N(found) == IF found \in {"with", "alone"} \/ (~cross /\ prev # <<>>) THEN Len(prev)
                         ELSE Len(buf) - (IF glyph /\ buf # <<>> THEN 1 ELSE 0)
             By(found) == [matched  |-> found # "none",
                           part     |-> found = "with" \/ (found = "exact" /\ glyph),
                           shortcut |-> Sh(found), n |-> N(found), cross |-> cross]
  <2>1. /\ Len(buf) \in Nat /\ Len(prev) \in Nat /\ (buf # <<>> => Len(buf) >= 1)
        /\ Append(prev, k) \in Texts /\ (buf # <<>> => Front(buf) \in Texts)
    <3>1. buf # <<>> => Len(buf) >= 1
      BY EmptySeq DEF Texts
    <3> QED BY <3>1, FrontsAreTexts
  <2>2. \A found : N(found) \in Nat
    BY <2>1
  <2>3. \A found : (found = "cut" => buf # <<>>) => Sh(found) \in Texts
    BY <2>1
  <2> HIDE DEF Sh, N
  <2>4. \A found : (found = "cut" => buf # <<>>) => PlanOk(By(found))
    BY <2>2, <2>3 DEF PlanOk
  <2> HIDE DEF By
  <2>5. Len(buf) > 1 => buf # <<>>
    BY EmptySeq DEF Texts
  <2> DEFINE F == IF buf \in desk.macros THEN "exact"
                  ELSE IF glyph /\ Len(buf) > 1 /\ Last(buf) = k /\ Front(buf) \in desk.macros THEN "cut"
                  ELSE IF prev # <<>> /\ glyph /\ Append(prev, k) \in desk.macros THEN "with"
                  ELSE IF prev # <<>> /\ prev \in desk.macros THEN "alone" ELSE "none"
  <2>6. F = "cut" => Len(buf) > 1
    OBVIOUS
  <2> HIDE DEF F
  <2>7. Plan(buf, prev, k, cross) = By(F)
    BY DEF Plan, By, Sh, N, F
  <2> QED BY <2>4, <2>5, <2>6, <2>7
<1>4. PlanOk(LookupMacroInContext(d, k))
  <2> DEFINE tail(n) == SubSeq(d.text, d.caret - n + 1, d.caret)
                          \o (IF IsPunctuationKey(k) THEN <<k>> ELSE <<>>)
             starts == {n \in 1..d.caret :
                          /\ \E m \in desk.macros : Len(tail(n)) <= Len(m)
                          /\ n < d.caret => d.text[d.caret - n] \in {" ", ".", "ret"}}
             P(n)  == [Plan(tail(n), <<>>, k, TRUE) EXCEPT !.n = n]
             plans == {p \in {P(n) : n \in starts} : p.matched}
             best  == {p \in plans : \A q \in plans : q.n <= p.n}
  <2>1. d.caret \in Nat /\ d.caret <= Len(d.text) /\ Len(d.text) \in Nat
    BY LenProperties DEF Placed, Texts
  <2>2. \A n \in 1..d.caret : tail(n) \in Texts
    <3> TAKE n \in 1..d.caret
    <3> DEFINE a == d.caret - n + 1
               s == SubSeq(d.text, a, d.caret)
               t == IF IsPunctuationKey(k) THEN <<k>> ELSE <<>>
    <3>1. a \in Int /\ d.caret \in Int /\ a >= 1
      BY <2>1
    <3>2. \A i \in a .. d.caret : d.text[i] \in Chars
      <4> HIDE DEF a
      <4> TAKE i \in a .. d.caret
      <4>1. i \in 1..Len(d.text)
        BY <2>1, <3>1
      <4> QED BY <4>1, ElementOfSeq DEF Placed, Texts
    <3> HIDE DEF a
    <3>3. s \in Texts
      BY <3>1, <3>2, SubSeqProperties DEF Texts
    <3>4. t \in Texts
      BY <1>1, FrontsAreTexts
    <3> HIDE DEF s, t
    <3>5. s \o t \in Texts
      BY <3>3, <3>4, ConcatProperties DEF Texts
    <3> QED BY <3>5 DEF s, t, a
  <2> HIDE DEF tail
  <2>3. \A n \in 1..d.caret : PlanOk(P(n))
    <3> TAKE n \in 1..d.caret
    <3>1. n \in Nat /\ tail(n) \in Texts
      BY <2>1, <2>2
    <3>2. PlanOk(Plan(tail(n), <<>>, k, TRUE))
      BY <1>1, <1>3, <3>1
    <3>3. {"n", "shortcut"} \subseteq DOMAIN Plan(tail(n), <<>>, k, TRUE)
      BY DEF Plan
    <3> QED BY <3>1, <3>2, <3>3 DEF PlanOk
  <2> HIDE DEF P
  <2>4. \A p \in best : PlanOk(p)
    BY <2>3
  <2> HIDE DEF best
  <2>5. PlanOk(IF best = {} THEN NoPlan ELSE CHOOSE p \in best : TRUE)
    BY <1>1, <2>4
  <2>6. \/ LookupMacroInContext(d, k) = NoPlan
        \/ LookupMacroInContext(d, k) = IF best = {} THEN NoPlan ELSE CHOOSE p \in best : TRUE
    BY DEF LookupMacroInContext, best, P, tail
  <2> QED BY <1>1, <2>5, <2>6
<1> QED BY <1>1, <1>2, <1>3, <1>4

(* A trigger that did something has ended the word. *)
Tried(d, m) ==
  /\ Leaves(d, m) /\ m.res \in {"none", "eat", "pass"}
  /\ (m.on => m.res = "none") /\ (m.res = "none" => SameUndo(d, m))

\* An expansion ends the word, or leaves it, or could not be made.
LEMMA ExpandTries ==
  ASSUME NEW d, Placed(d), NEW k, NEW plan, PlanOk(plan),
         Expansion \in Texts, k \in {" ", "."} => Append(Expansion, k) \in Texts
  PROVE  Tried(d, ExpandMacro(d, k, plan))
<1> DEFINE own  == k \in {" ", "."}
           text == IF plan.part \/ ~own THEN Expansion ELSE Append(Expansion, k)
           word == IF plan.cross THEN d.eng.text ELSE text
           c == CommitEditSession(d, word)
           b == IF d.on THEN EngineReset(c) ELSE d
           r == ReplacePrecedingText(b, plan.n, text, <<"any">>)
           p == IF plan.cross \/ ~d.on THEN r ELSE [c EXCEPT !.replaced = ~c.on]
           e == ResetCommitUndo(ClearMacroTracking(EngineReset(p)))
           res == IF plan.part \/ own THEN "eat" ELSE "pass"
           mundo == IF desk.undo /\ own THEN plan.shortcut ELSE <<>>
           mwas  == IF desk.undo /\ own THEN text ELSE <<>>
           q == [e EXCEPT !.res = res, !.grown = TRUE, !.mundo = mundo, !.mwas = mwas, !.mlate = FALSE]
           n == [ClearMacroTracking(p) EXCEPT !.res = "none"]
<1>1. text \in Texts /\ word \in Texts /\ <<>> \in Texts /\ Leaves(d, d)
  BY FrontsAreTexts, InARow DEF Placed
<1> HIDE DEF text
<1>2. Leaves(d, c) /\ (Granted(d) => ~c.on)
  <2> HIDE DEF word
  <2> QED BY <1>1, SessionsLeave
<1> HIDE DEF word, c
<1>3. Leaves(d, b) /\ (Granted(d) => ~b.on) /\ Placed(b) /\ b.grant = d.grant
  <2>1. c.on => d.grant # "ok"
    BY <1>2 DEF Granted
  <2>2. Leaves(d, EngineReset(c)) /\ EngineReset(c).on = c.on
    BY <1>2, <2>1, ResetsLeave
  <2> QED BY <1>1, <1>2, <2>2 DEF Leaves, Around
<1> HIDE DEF b
<1>4. Leaves(d, r) /\ (r.replaced => ~r.on)
  <2>1. Leaves(b, r) /\ r.on = b.on /\ (r.replaced => Granted(b))
    <3> DEFINE m == plan.n
               x == <<"any">>
    <3>1. m \in Nat
      BY DEF PlanOk
    <3> HIDE DEF m, x
    <3>2. \A i \in Nat : \A y : LET s == ReplacePrecedingText(b, i, text, y)
                                IN Leaves(b, s) /\ s.on = b.on /\ s.eng = b.eng /\ (s.replaced => Granted(b))
      BY <1>1, <1>3, ReplacesLeave
    <3> QED BY <3>1, <3>2 DEF m, x
  <2> HIDE DEF r
  <2> QED BY <1>3, <2>1, InARow DEF Granted
<1>5. Leaves(d, p) /\ (p.replaced => ~p.on)
  <2>1. LET x == [c EXCEPT !.replaced = ~c.on] IN Leaves(d, x) /\ (x.replaced => ~x.on)
    <3>1. Leaves(d, [c EXCEPT !.replaced = ~c.on])
      BY <1>2, NotesLeave
    <3>2. AllParts \subseteq DOMAIN c
      BY <1>2 DEF Leaves, Placed
    <3> QED BY <3>1, <3>2 DEF AllParts
  <2> HIDE DEF r
  <2> QED BY <1>4, <2>1
<1> HIDE DEF p
<1>6. Tried(d, n)
  <2>1. Leaves(d, ClearMacroTracking(p))
    BY <1>5, TrackersLeave
  <2> DEFINE m == ClearMacroTracking(p)
  <2> HIDE DEF m
  <2>2. Leaves(d, [m EXCEPT !.res = "none"])
    BY <2>1, NotesLeave DEF m
  <2>3. [m EXCEPT !.res = "none"].res = "none"
    <3>1. AllParts \subseteq DOMAIN m
      BY <2>1 DEF m, Leaves, Placed
    <3> QED BY <3>1 DEF AllParts
  <2>4. [m EXCEPT !.res = "none"].mundo = <<>>
    <3>1. m.mundo = <<>> /\ AllParts \subseteq DOMAIN m
      BY <1>5, <2>1, NoUndoLeft DEF m, Leaves, Placed
    <3> QED BY <3>1 DEF AllParts
  <2> QED BY <2>2, <2>3, <2>4 DEF Tried, SameUndo, m
<1>7. p.replaced => Tried(d, q)
  <2> SUFFICES ASSUME p.replaced PROVE Tried(d, q)
    OBVIOUS
  <2>1. Leaves(p, p) /\ ~p.on
    BY <1>5, InARow DEF Leaves
  <2>2. Leaves(p, EngineReset(p))
    BY <2>1, ResetsLeave
  <2>3. Leaves(p, e)
    BY <2>2, TrackersLeave
  <2>4. mundo \in Texts /\ mwas \in Texts
    BY <1>1 DEF PlanOk
  <2>5. Leaves(d, e) /\ ~e.on
    <3> HIDE DEF e
    <3> QED BY <1>5, <2>1, <2>3, InARow DEF Leaves
  <2>6. res \in {"eat", "pass"}
    OBVIOUS
  <2> HIDE DEF e, mundo, mwas, res
  <2>7. Placed(q) /\ Around(d, q) /\ ~q.on /\ q.res \in {"eat", "pass"}
    BY <2>4, <2>5, <2>6 DEF Leaves, Placed, Around, AllParts
  <2> QED BY <2>7 DEF Tried, Leaves
<1>8. ExpandMacro(d, k, plan) = IF ~p.replaced THEN n ELSE q
  BY DEF ExpandMacro, p, r, b, c, word, text
<1> HIDE DEF q, n
<1> QED BY <1>6, <1>7, <1>8

\* A trigger, matched or not.
LEMMA TriggersTry ==
  ASSUME NEW d, Placed(d), NEW k \in Chars
  PROVE  Tried(d, HandleMacroTrigger(d, k))
<1> DEFINE none == [d EXCEPT !.res = "none"]
           buf  == Candidate(d, k)
<1>1. /\ <<>> \in Texts /\ buf \in Texts /\ d.mbuf \in Texts /\ Append(d.mbuf, " ") \in Texts
      /\ Expansion \in Texts /\ \A c \in Chars : Append(Expansion, c) \in Texts
      /\ d.eng.text \in Texts
  <2>1. <<>> \in Texts /\ d.mbuf \in Texts /\ d.eng.text \in Texts
    BY EmptySeq DEF Placed, Texts
  <2>2. " " \in Chars /\ "E" \in Chars /\ "F" \in Chars
    BY DEF Chars, Keys
  <2>3. ASSUME NEW S, NEW x \in S, NEW y \in S PROVE <<x, y>> \in Seq(S)
    OBVIOUS
  <2>4. Expansion \in Texts
    BY <2>2, <2>3 DEF Expansion, Texts
  <2> QED BY <2>1, <2>2, <2>4, FrontsAreTexts, PlansAreTexts
<1> HIDE DEF buf
<1>2. ASSUME NEW x, NEW t \in Texts
      PROVE  /\ Tried(d, none) /\ Tried(d, ClearMacroTracking(none))
             /\ Tried(d, [none EXCEPT !.mbuf = t, !.cross = x])
  <2>1. Leaves(d, none) /\ none.res = "none"
    BY InARow, NotesLeave DEF Placed, AllParts
  <2> HIDE DEF none
  <2>2. Leaves(d, ClearMacroTracking(none)) /\ Leaves(d, [none EXCEPT !.mbuf = t, !.cross = x])
    BY <2>1, TrackersLeave, NotesLeave
  <2>3. ClearMacroTracking(none).res = "none" /\ [none EXCEPT !.mbuf = t, !.cross = x].res = "none"
    <3>1. AllParts \subseteq DOMAIN none
      BY <2>1 DEF Leaves, Placed
    <3> QED BY <2>1, <3>1 DEF ClearMacroTracking, ResetMacroUndo, AllParts
  <2>4. SameUndo(d, none) /\ SameUndo(d, ClearMacroTracking(none))
        /\ SameUndo(d, [none EXCEPT !.mbuf = t, !.cross = x])
    <3>1. ClearMacroTracking(none).mundo = <<>>
      BY <2>1, NoUndoLeft DEF Leaves
    <3>2. AllParts \subseteq DOMAIN none /\ none.mundo = d.mundo /\ none.mlate = d.mlate
      BY DEF Placed, AllParts, none
    <3> QED BY <3>1, <3>2 DEF SameUndo, AllParts
  <2> QED BY <2>1, <2>2, <2>3, <2>4 DEF Tried
<1>3. \A plan : PlanOk(plan) => Tried(d, ExpandMacro(d, k, plan))
  BY <1>1, ExpandTries
<1>4. Tried(d, [none EXCEPT !.mbuf = Append(@, " "), !.cross = TRUE])
  <2>1. none.mbuf = d.mbuf
    BY DEF Placed, AllParts
  <2>2. [none EXCEPT !.mbuf = Append(@, " "), !.cross = TRUE]
          = [none EXCEPT !.mbuf = Append(d.mbuf, " "), !.cross = TRUE]
    BY <2>1
  <2> QED BY <1>1, <1>2, <2>2
<1>5. Tried(d, [none EXCEPT !.mbuf = buf, !.cross = TRUE]) /\ Tried(d, ClearMacroTracking(none))
  BY <1>1, <1>2
<1>6. /\ PlanOk(NoPlan) /\ PlanOk(LookupMacroInContext(d, k))
      /\ PlanOk(Plan(buf, d.eng.text, k, d.cross))
  BY <1>1, PlansAreTexts
<1> HIDE DEF none
<1> QED BY <1>3, <1>4, <1>5, <1>6 DEF HandleMacroTrigger, buf, none

\* Taking an expansion back.
LEMMA UndoLeaves ==
  ASSUME NEW d, NEW c, Leaves(d, c)
  PROVE  Leaves(d, UndoMacro(c))
<1> DEFINE m == ResetMacroUndo(c)
           n == Len(c.mwas)
           r == ReplacePrecedingText(m, n, c.mundo, c.mwas)
<1>1. Leaves(d, m) /\ Placed(m) /\ n \in Nat /\ c.mundo \in Texts
  BY TrackersLeave, LenProperties DEF Leaves, Placed, Texts
<1> HIDE DEF m, n
<1>2. Leaves(m, r)
  BY <1>1, ReplacesLeave
<1> HIDE DEF r
<1>3. Leaves(d, r)
  BY <1>1, <1>2, InARow
<1>4. Leaves(d, [r EXCEPT !.mbuf = c.mundo, !.cross = TRUE, !.moff = TRUE, !.undone = TRUE])
  BY <1>1, <1>3, NotesLeave
<1> QED BY <1>3, <1>4 DEF UndoMacro, MacroUndone, r, m, n

(* A key the engine takes: in the composition that goes on, all shows. *)
Goes(d, c)     == Placed(c) /\ Around(d, c) /\ (c.on => SameUndo(d, c))
Typed(d, k, r) == Goes(d, r) /\ (d.grant = "ok" /\ r.on => Shown(r) /\ k # " " /\ r.out = "eat")

\* A letter for the engine.
LEMMA PushesShow ==
  ASSUME NEW d, Placed(d), NEW c \in Chars
  PROVE  LET r == PushEngineKey(d, c)
         IN Keeps(d, r) /\ (d.grant = "ok" => Shown(r) /\ r.out = "eat")
<1> DEFINE e == PushKey(d.eng, c)
           s == IF d.on THEN UpdateCompositionEditSession(d, e.text)
                ELSE StartCompositionEditSession(d, e.text)
           full  == [s EXCEPT !.eng = e, !.out = "eat"]
           empty == [s EXCEPT !.eng = EmptyEngine, !.out = "pass"]
<1>1. e.text \in Texts /\ e.text # <<>> /\ e.raw \in Texts
  BY EngineTexts DEF Placed
<1>2. EmptyEngine.text \in Texts /\ EmptyEngine.raw \in Texts
  BY <1>1, FrontsAreTexts DEF EmptyEngine
<1>3. PushEngineKey(d, c) = IF s.on THEN full ELSE empty
  BY DEF PushEngineKey
<1> HIDE DEF e
<1>4. Keeps(d, s) /\ (d.grant = "ok" => s.on /\ Shows(s, e.text))
  BY <1>1, SessionsLeave
<1> HIDE DEF s
<1>5. Keeps(d, full) /\ full.eng = e /\ full.on = s.on /\ full.comp = s.comp /\ full.text = s.text
      /\ full.out = "eat"
  BY <1>1, <1>4 DEF Keeps, Placed, Around, SameUndo, AllParts
<1>6. Keeps(d, empty)
  BY <1>2, <1>4, NewEngine
<1> HIDE DEF full, empty
<1>7. d.grant = "ok" => Shown(full)
  BY <1>1, <1>4, <1>5 DEF Shown, Shows, Buffer
<1> QED BY <1>3, <1>4, <1>5, <1>6, <1>7

\* A letter, at the end of a word or not.
LEMMA LettersShow ==
  ASSUME NEW d, Placed(d), NEW c \in Chars
  PROVE  LET r == TypeLetter(d, c)
         IN Keeps(d, r) /\ (d.grant = "ok" => Shown(r) /\ r.out = "eat")
<1> DEFINE Good(r) == Keeps(d, r) /\ (d.grant = "ok" => Shown(r) /\ r.out = "eat")
           Push(r) == PushEngineKey(TrackMacroCharacter(r, c), c)
           Again(word) == ReviveAndTypeEditSession(d, word, c)
           eat(r) == [r EXCEPT !.out = "eat"]
           before0 == IF Granted(d) THEN PrecedingWord(d) ELSE <<>>
<1>1. ASSUME NEW r, Keeps(d, r) PROVE Good(Push(r))
  <2> DEFINE t == TrackMacroCharacter(r, c)
             p == PushEngineKey(t, c)
  <2>1. Keeps(r, t) /\ Placed(t)
    BY <1>1, TrackersKeep DEF Keeps
  <2>2. t.grant = d.grant
    BY <1>1, <2>1 DEF Keeps, Around
  <2> HIDE DEF t
  <2>3. Keeps(t, p) /\ (t.grant = "ok" => Shown(p) /\ p.out = "eat")
    BY <2>1, PushesShow
  <2> HIDE DEF p
  <2>4. Keeps(d, p)
    BY <1>1, <2>1, <2>3, InARow
  <2>5. Good(p)
    BY <2>2, <2>3, <2>4
  <2> QED BY <2>5 DEF p, t
<1>2. before0 \in Texts /\ Len(before0) <= d.caret
  <2>1. <<>> \in Texts /\ Len(<<>>) = 0 /\ d.caret \in Nat /\ 0 <= d.caret
    BY FrontsAreTexts, EmptySeq, LenProperties DEF Placed, Texts
  <2> QED BY <2>1, WordBefore
<1> HIDE DEF before0
<1>3. /\ Keeps(d, Again(before0))
      /\ d.grant = "ok" => Shown(Again(before0)) /\ Again(before0).replaced
  BY <1>2, RevivalsShow
<1>4. ASSUME NEW r, Keeps(d, r), d.grant = "ok" => Shown(r) PROVE Good(eat(r))
  <2>1. /\ Keeps(d, eat(r)) /\ eat(r).on = r.on /\ eat(r).eng = r.eng /\ eat(r).comp = r.comp
        /\ eat(r).text = r.text /\ eat(r).out = "eat"
    BY <1>4 DEF Keeps, Placed, Around, SameUndo, AllParts
  <2> HIDE DEF eat
  <2> QED BY <1>4, <2>1 DEF Shown, Shows, Buffer
<1>5. Keeps(d, d)
  BY InARow
<1>6. TypeLetter(d, c) \in {Push(d), Push(Again(before0)), eat(Again(before0))}
  BY DEF TypeLetter, before0
<1>7. Good(Push(d)) /\ Good(Push(Again(before0))) /\ Good(eat(Again(before0)))
  <2> HIDE DEF Good, Push, Again, eat
  <2>1. \A r : Keeps(d, r) => Good(Push(r))
    BY <1>1
  <2>2. \A r : Keeps(d, r) /\ (d.grant = "ok" => Shown(r)) => Good(eat(r))
    BY <1>4
  <2>3. Keeps(d, Again(before0)) /\ (d.grant = "ok" => Shown(Again(before0)))
    BY <1>3 DEF Again
  <2> QED BY <1>5, <2>1, <2>2, <2>3
<1> HIDE DEF Push, Again, eat, Good
<1>8. Good(TypeLetter(d, c))
  BY <1>6, <1>7
<1> QED BY <1>8 DEF Good

\* A Backspace in a word.
LEMMA BackspacesShow ==
  ASSUME NEW d, Placed(d)
  PROVE  LET r == ProcessBackspace(d)
         IN Goes(d, r) /\ (d.grant = "ok" /\ r.on => Shown(r))
<1> DEFINE e == EngineBackspace(d.eng)
           m == TrackMacroBackspace(d)
           t == [m EXCEPT !.eng = e]
           u == UpdateCompositionEditSession(t, e.text)
           c == CommitEditSession(t, <<>>)
<1>1. e.text \in Texts /\ e.raw \in Texts /\ <<>> \in Texts
  BY EngineTexts, FrontsAreTexts DEF Placed
<1>2. ProcessBackspace(d) = IF e.text # <<>> THEN u ELSE c
  BY DEF ProcessBackspace
<1> HIDE DEF e
<1>3. Keeps(d, m)
  BY TrackersKeep
<1> HIDE DEF m
<1>4. Keeps(d, t) /\ t.eng = e /\ Placed(t) /\ t.grant = d.grant
  <2>1. Keeps(d, t) /\ t.eng = e
    BY <1>1, <1>3 DEF Keeps, Placed, Around, SameUndo, AllParts
  <2> QED BY <2>1 DEF Keeps, Around
<1> HIDE DEF t
<1>5. /\ Keeps(t, u) /\ u.eng = t.eng /\ (t.grant = "ok" /\ (t.on \/ e.text # <<>>) => u.on /\ Shows(u, e.text))
      /\ Leaves(t, c) /\ (Granted(t) => ~c.on)
  BY <1>1, <1>4, SessionsLeave
<1> HIDE DEF u, c
<1>6. e.text # <<>> => Goes(d, u) /\ (d.grant = "ok" => Shown(u))
  <2>1. Keeps(d, u)
    BY <1>4, <1>5, InARow
  <2> QED BY <2>1, <1>4, <1>5 DEF Goes, Keeps, Shown, Buffer
<1>7. Goes(d, c) /\ (d.grant = "ok" => ~c.on)
  BY <1>4, <1>5 DEF Goes, Keeps, Leaves, Around, SameUndo, Granted
<1> QED BY <1>2, <1>6, <1>7

(* The flags the callback goes by are the ones the service has taken over. *)
Fits(d) == Routed(d) => d.cache.en /\ d.cache.tsf /\ (d.cache.vn <=> d.shared.vn)

\* HandleKey, with no expansion to take back.
LEMMA HandleKeyShows ==
  ASSUME NEW d, Placed(d), Fits(d), ~UndoDue(d), NEW k \in Chars
  PROVE  Typed(d, k, HandleKey(d, k))
<1>1. ~HasMacroUndo(d)
  BY DEF HasMacroUndo, IsMacroTrackingEnabled, UndoDue, Fits, Routed, Flags
<1>2. ASSUME NEW r, Goes(d, r), d.grant = "ok" /\ r.on => Shown(r), k # " "
      PROVE  LET e == [r EXCEPT !.out = "eat"]
             IN Typed(d, k, e)
  <2> DEFINE e == [r EXCEPT !.out = "eat"]
  <2>1. /\ Goes(d, e) /\ e.on = r.on /\ e.eng = r.eng /\ e.comp = r.comp
        /\ e.text = r.text /\ e.out = "eat"
    BY <1>2 DEF Goes, Placed, Around, SameUndo, AllParts
  <2> HIDE DEF e
  <2>2. Typed(d, k, e)
    BY <1>2, <2>1 DEF Typed, Shown, Shows, Buffer
  <2> QED BY <2>2 DEF e
<1>3. CASE k = "bk" /\ d.rev # NoRange
  <2> DEFINE r == ReviveCompositionEditSession(d)
             n == [r EXCEPT !.rev = NoRange]
             e == [n EXCEPT !.out = "eat"]
  <2>1. Keeps(d, r) /\ (d.grant = "ok" /\ r.on => Shown(r))
    BY RevivalsShow
  <2>2. HandleKey(d, k) = [r EXCEPT !.rev = NoRange, !.out = "eat"]
    BY <1>1, <1>3 DEF HandleKey
  <2> HIDE DEF r
  <2>3. HandleKey(d, k) = e
    BY <2>2
  <2>4. NoRange \in Spans /\ NoRange.at = 0
    BY EmptySeq DEF NoRange, Spans, Texts
  <2>5. /\ Goes(d, n) /\ n.on = r.on /\ n.eng = r.eng /\ n.comp = r.comp /\ n.text = r.text
    BY <2>1, <2>4 DEF Keeps, Goes, Placed, Around, SameUndo, AllParts
  <2> HIDE DEF n
  <2>6. Goes(d, n) /\ (d.grant = "ok" /\ n.on => Shown(n)) /\ k # " "
    BY <2>1, <2>5, <1>3 DEF Shown, Shows, Buffer
  <2> QED BY <2>3, <2>6, <1>2
<1>4. CASE k = "bk" /\ d.rev = NoRange
  <2> DEFINE r == ProcessBackspace(d)
  <2>1. Goes(d, r) /\ (d.grant = "ok" /\ r.on => Shown(r))
    BY BackspacesShow
  <2>2. HandleKey(d, k) = [r EXCEPT !.out = "eat"]
    BY <1>1, <1>4 DEF HandleKey
  <2> HIDE DEF r
  <2> QED BY <2>1, <2>2, <1>2, <1>4
<1>5. CASE k = " "
  <2> DEFINE r == CommitWithChar(d, " ")
  <2>1. " " \in Chars /\ Leaves(d, d)
    BY InARow DEF Chars, Keys
  <2>2. Leaves(d, r) /\ (Granted(d) => ~r.on)
    BY <2>1, EndsLeave
  <2>3. HandleKey(d, k) = [r EXCEPT !.out = "eat"]
    BY <1>5 DEF HandleKey
  <2> HIDE DEF r
  <2>4. Leaves(d, [r EXCEPT !.out = "eat"]) /\ [r EXCEPT !.out = "eat"].on = r.on
    <3>1. Leaves(d, [r EXCEPT !.out = "eat"])
      BY <2>2, NotesLeave
    <3> QED BY <2>2, <3>1 DEF Leaves, Placed, AllParts
  <2> QED BY <2>2, <2>3, <2>4 DEF Typed, Goes, Leaves, Granted
<1>6. CASE k # "bk" /\ k # " "
  <2>1. HandleKey(d, k) = TypeLetter(d, k)
    BY <1>6 DEF HandleKey
  <2>2. LET r == TypeLetter(d, k) IN Keeps(d, r) /\ (d.grant = "ok" => Shown(r) /\ r.out = "eat")
    BY LettersShow
  <2> QED BY <1>6, <2>1, <2>2 DEF Typed, Goes, Keeps
<1> QED BY <1>3, <1>4, <1>5, <1>6

(* The answer to the application is not touched. *)
Hushed(d, c) == AllParts \subseteq DOMAIN c /\ c.out = d.out

\* None of these answers for the callback.
LEMMA TrackersHush ==
  ASSUME NEW d, NEW c, Hushed(d, c)
  PROVE  /\ Hushed(d, ResetMacroUndo(c)) /\ Hushed(d, ClearMacroTracking(c))
         /\ Hushed(d, TrackMacroBackspace(c)) /\ \A k : Hushed(d, TrackMacroCharacter(c, k))
         /\ Hushed(d, ResetCommitUndo(c)) /\ Hushed(d, OnNonRestoreKey(c))
         /\ \A t, r, b : Hushed(d, RecordCommitSnapshot(c, t, r, b))
         /\ Hushed(d, EngineReset(c)) /\ Hushed(d, EndComposition(c)) /\ Hushed(d, Reset(c))
         /\ \A at, n, new : Hushed(d, SetText(c, at, n, new))
         /\ \A t : Hushed(d, SetCompositionText(c, t)) /\ Hushed(d, CommitEditSession(c, t))
         /\ \A n, new, x : Hushed(d, ReplacePrecedingText(c, n, new, x))
         /\ \A x : Hushed(d, [c EXCEPT !.obs = x]) /\ Hushed(d, [c EXCEPT !.res = x])
         /\ \A x : Hushed(d, [c EXCEPT !.replaced = x]) /\ Hushed(d, [c EXCEPT !.want = x])
         /\ \A x, y : Hushed(d, [c EXCEPT !.mbuf = x, !.cross = y])
<1>1. ASSUME NEW a, Hushed(d, a)
      PROVE  /\ Hushed(d, ResetMacroUndo(a)) /\ Hushed(d, ClearMacroTracking(a))
             /\ Hushed(d, ResetCommitUndo(a)) /\ Hushed(d, EngineReset(a)) /\ Hushed(d, EndComposition(a))
  BY <1>1 DEF Hushed, AllParts, ResetMacroUndo, ClearMacroTracking, ResetCommitUndo, EngineReset, EndComposition
<1>2. Hushed(d, TrackMacroBackspace(c)) /\ \A k : Hushed(d, TrackMacroCharacter(c, k))
  <2>1. Hushed(d, [c EXCEPT !.mbuf = Front(@)]) /\ \A k : Hushed(d, [c EXCEPT !.mbuf = Append(@, k)])
    BY DEF Hushed, AllParts
  <2> QED BY <1>1, <2>1 DEF TrackMacroBackspace, TrackMacroCharacter
<1>3. Hushed(d, OnNonRestoreKey(c)) /\ Hushed(d, Reset(c))
  BY <1>1 DEF OnNonRestoreKey, Reset
<1>4. \A t, r, b : Hushed(d, RecordCommitSnapshot(c, t, r, b))
  BY DEF Hushed, AllParts, RecordCommitSnapshot
<1>5. \A at, n, new : Hushed(d, SetText(c, at, n, new))
  BY DEF Hushed, AllParts, SetText
<1>6. \A t : Hushed(d, SetCompositionText(c, t))
  <2> TAKE t
  <2> DEFINE s == SetText(c, c.comp.at, c.comp.len, t)
  <2>1. Hushed(d, s)
    BY <1>5
  <2>2. SetCompositionText(c, t) = [s EXCEPT !.comp = [word |-> t, at |-> c.comp.at, len |-> Len(t)]]
    BY DEF SetCompositionText
  <2> HIDE DEF s
  <2> QED BY <2>1, <2>2 DEF Hushed, AllParts
<1>7. \A t : Hushed(d, CommitEditSession(c, t))
  BY <1>1, <1>6 DEF CommitEditSession
<1>8. /\ \A x : Hushed(d, [c EXCEPT !.obs = x]) /\ Hushed(d, [c EXCEPT !.res = x])
      /\ \A x : Hushed(d, [c EXCEPT !.replaced = x]) /\ Hushed(d, [c EXCEPT !.want = x])
      /\ \A x, y : Hushed(d, [c EXCEPT !.mbuf = x, !.cross = y])
  BY DEF Hushed, AllParts
<1>9. \A n, new, x : Hushed(d, ReplacePrecedingText(c, n, new, x))
  <2> TAKE n, new, x
  <2> DEFINE s == SetText(c, c.caret - n, n, new)
  <2>1. Hushed(d, s)
    BY <1>5
  <2> HIDE DEF s
  <2>2. Hushed(d, [s EXCEPT !.replaced = TRUE])
    BY <2>1 DEF Hushed, AllParts
  <2> QED BY <1>8, <2>2 DEF ReplacePrecedingText, s
<1> QED BY <1>1, <1>2, <1>3, <1>4, <1>5, <1>6, <1>7, <1>8, <1>9

\* Nor does a trigger that did nothing, nor bringing engine and composition together.
LEMMA TriggersHush ==
  ASSUME NEW d, NEW c, Hushed(d, c)
  PROVE  Hushed(d, Resync(c)) /\ \A k : Hushed(d, HandleMacroTrigger(c, k))
<1>1. Hushed(d, Resync(c))
  <2> DEFINE s == CommitEditSession(c, c.eng.text)
             m == ClearMacroTracking(EngineReset(s))
  <2>1. Hushed(d, s)
    BY TrackersHush
  <2>2. Commit(c) = RecordCommitSnapshot(m, c.eng.text, c.eng.raw, FALSE)
    BY DEF Commit
  <2> HIDE DEF s
  <2>3. Hushed(d, EngineReset(s))
    BY <2>1, TrackersHush
  <2>4. Hushed(d, m)
    BY <2>3, TrackersHush
  <2> HIDE DEF m
  <2>5. \A t, r, b : Hushed(d, RecordCommitSnapshot(m, t, r, b))
    BY <2>4, TrackersHush
  <2>6. Hushed(d, Reset(c))
    BY TrackersHush
  <2> QED BY <2>2, <2>5, <2>6 DEF Resync
<1>2. ASSUME NEW k, NEW plan, NEW a, Hushed(d, a) PROVE Hushed(d, ExpandMacro(a, k, plan))
  <2> DEFINE own  == k \in {" ", "."}
             text == IF plan.part \/ ~own THEN Expansion ELSE Append(Expansion, k)
             word == IF plan.cross THEN a.eng.text ELSE text
             s == CommitEditSession(a, word)
             b == IF a.on THEN EngineReset(s) ELSE a
             r == ReplacePrecedingText(b, plan.n, text, <<"any">>)
             p == IF plan.cross \/ ~a.on THEN r ELSE [s EXCEPT !.replaced = ~s.on]
             e == ResetCommitUndo(ClearMacroTracking(EngineReset(p)))
             res == IF plan.part \/ own THEN "eat" ELSE "pass"
             mundo == IF desk.undo /\ own THEN plan.shortcut ELSE <<>>
             mwas  == IF desk.undo /\ own THEN text ELSE <<>>
  <2> HIDE DEF text, word
  <2>1. Hushed(d, s)
    BY <1>2, TrackersHush
  <2> HIDE DEF s
  <2>2. Hushed(d, b)
    BY <1>2, <2>1, TrackersHush
  <2> HIDE DEF b
  <2>3. Hushed(d, r)
    BY <2>2, TrackersHush
  <2> HIDE DEF r
  <2>4. Hushed(d, p)
    BY <2>1, <2>3, TrackersHush
  <2> HIDE DEF p
  <2>5. Hushed(d, EngineReset(p)) /\ Hushed(d, ClearMacroTracking(p))
    BY <2>4, TrackersHush
  <2>6. Hushed(d, ClearMacroTracking(EngineReset(p)))
    BY <2>5, TrackersHush
  <2>7. Hushed(d, e)
    BY <2>6, TrackersHush
  <2> HIDE DEF e, res, mundo, mwas
  <2>8. Hushed(d, [e EXCEPT !.res = res, !.grown = TRUE, !.mundo = mundo, !.mwas = mwas, !.mlate = FALSE])
    BY <2>7 DEF Hushed, AllParts
  <2>9. Hushed(d, [ClearMacroTracking(p) EXCEPT !.res = "none"])
    BY <2>5, TrackersHush
  <2> QED BY <2>8, <2>9 DEF ExpandMacro, e, res, mundo, mwas, p, r, b, s, word, text
<1>3. ASSUME NEW k PROVE Hushed(d, HandleMacroTrigger(c, k))
  <2> DEFINE none == [c EXCEPT !.res = "none"]
  <2>1. Hushed(d, none)
    BY TrackersHush
  <2> HIDE DEF none
  <2>2. /\ Hushed(d, ClearMacroTracking(none))
        /\ \A t : Hushed(d, [none EXCEPT !.mbuf = t, !.cross = TRUE])
    BY <2>1, TrackersHush
  <2>3. Hushed(d, [none EXCEPT !.mbuf = Append(@, " "), !.cross = TRUE])
    BY <2>1 DEF Hushed, AllParts
  <2>4. \A plan : Hushed(d, ExpandMacro(c, k, plan))
    BY <1>2
  <2> QED BY <2>2, <2>3, <2>4 DEF HandleMacroTrigger, none
<1> QED BY <1>1, <1>3

\* The answers themselves.
LEMMA AnswersLeave ==
  ASSUME NEW d, NEW c, Leaves(d, c)
  PROVE  /\ LET e == Eat(c)  IN Leaves(d, e) /\ e.on = c.on /\ e.out = "eat"
         /\ LET e == Pass(c) IN Leaves(d, e) /\ e.on = c.on /\ e.out = "pass"
         /\ LET e == ByReplaced(c) IN Leaves(d, e) /\ e.on = c.on
         /\ \A k, want : LET e == Remember(c, k, want) IN Leaves(d, e) /\ e.on = c.on
<1>1. \A x : LET e == [c EXCEPT !.out = x] IN Leaves(d, e) /\ e.on = c.on /\ e.out = x
  <2> TAKE x
  <2>1. Leaves(d, [c EXCEPT !.out = x])
    BY NotesLeave
  <2> QED BY <2>1 DEF Leaves, Placed, AllParts
<1>2. \A k, want : LET e == Remember(c, k, want) IN Leaves(d, e) /\ e.on = c.on
  <2> TAKE k, want
  <2>1. Leaves(d, [c EXCEPT !.vk = k, !.want = want])
    BY NotesLeave
  <2> QED BY <2>1 DEF Remember, Leaves, Placed, AllParts
<1> QED BY <1>1, <1>2 DEF Eat, Pass, ByReplaced

(* Engine and composition are together, as far as the sessions were granted. *)
Synced(d) == d.grant = "ok" /\ d.on => Buffer(d)

\* Engine and composition are brought together, and a chord or Esc ends the word.
LEMMA SyncLeaves ==
  ASSUME NEW d, Placed(d)
  PROVE  /\ LET r == Resync(d) IN Leaves(d, r) /\ SameUndo(d, r) /\ Synced(r)
         /\ LET r == Chord(d)  IN Leaves(d, r) /\ (d.grant = "ok" /\ Synced(d) => ~r.on)
         /\ LET r == Escape(d) IN Leaves(d, r) /\ (d.grant = "ok" /\ Synced(d) => ~r.on)
<1>1. Leaves(d, d)
  BY InARow
<1>2. LET r == Resync(d) IN Leaves(d, r) /\ SameUndo(d, r) /\ Synced(r)
  <2>1. Leaves(d, Commit(d)) /\ (Granted(d) => ~Commit(d).on) /\ Leaves(d, Reset(d)) /\ ~Reset(d).on
    BY <1>1, EndsLeave, ResetsLeave
  <2>2. Commit(d).mundo = <<>> /\ Reset(d).mundo = <<>>
    BY NoUndoLeft
  <2> QED BY <1>1, <2>1, <2>2 DEF Resync, Synced, SameUndo, Leaves, Around, Granted
<1>3. LET r == Chord(d) IN Leaves(d, r) /\ (d.grant = "ok" /\ Synced(d) => ~r.on)
  <2> DEFINE u == ResetMacroUndo(d)
             c == IF Buffer(u) THEN Commit(u) ELSE u
  <2>1. Leaves(d, u)
    BY <1>1, TrackersLeave
  <2> HIDE DEF u
  <2>2. Leaves(d, Commit(u)) /\ (Granted(d) => ~Commit(u).on)
    BY <2>1, EndsLeave
  <2>3. Leaves(d, c) /\ (d.grant = "ok" /\ Synced(d) => ~c.on)
    BY <2>1, <2>2 DEF Leaves, Synced, Buffer, Granted
  <2> HIDE DEF c
  <2>4. Leaves(d, Pass(c)) /\ Pass(c).on = c.on
    BY <2>3, AnswersLeave
  <2> QED BY <2>3, <2>4 DEF Chord, c, u
<1>4. LET r == Escape(d) IN Leaves(d, r) /\ (d.grant = "ok" /\ Synced(d) => ~r.on)
  <2> DEFINE v == [d EXCEPT !.vk = ""]
  <2>1. Leaves(d, v)
    BY <1>1, NotesLeave
  <2>2. Leaves(v, v)
    BY <2>1, InARow DEF Leaves
  <2>3. Escape(d) =
          CASE desk.esc /\ Buffer(v) /\ v.eng.raw # <<>> -> Eat(CommitRawAndEnd(v))
            [] Buffer(v) /\ ~(desk.esc /\ v.eng.raw # <<>>) -> Pass(EndCompositionVerbatim(v))
            [] desk.esc /\ ~Buffer(v) /\ v.undo = "Primed" /\ WithinUndoWindow(v) ->
                 ByReplaced(TryRestoreLastCommitRaw(v))
            [] OTHER -> Pass(v)
    BY DEF Escape
  <2> HIDE DEF v
  <2>4. /\ Leaves(v, CommitRawAndEnd(v)) /\ (Granted(v) => ~CommitRawAndEnd(v).on)
        /\ Leaves(v, EndCompositionVerbatim(v)) /\ (Granted(v) => ~EndCompositionVerbatim(v).on)
        /\ Leaves(v, TryRestoreLastCommitRaw(v))
    BY <2>2, EndsLeave
  <2>5. /\ Leaves(v, Eat(CommitRawAndEnd(v))) /\ (Granted(v) => ~Eat(CommitRawAndEnd(v)).on)
        /\ Leaves(v, Pass(EndCompositionVerbatim(v))) /\ (Granted(v) => ~Pass(EndCompositionVerbatim(v)).on)
        /\ Leaves(v, ByReplaced(TryRestoreLastCommitRaw(v))) /\ Leaves(v, Pass(v))
    <3>1. ASSUME NEW c, Leaves(v, c)
          PROVE  /\ Leaves(v, Eat(c)) /\ Eat(c).on = c.on /\ Leaves(v, Pass(c)) /\ Pass(c).on = c.on
                 /\ Leaves(v, ByReplaced(c))
      BY <3>1, AnswersLeave
    <3> QED BY <2>2, <2>4, <3>1
  <2>6. Leaves(v, Escape(d)) /\ (Granted(v) => ~Escape(d).on \/ ~Buffer(v))
    BY <2>3, <2>5
  <2>7. Leaves(d, Escape(d))
    BY <2>1, <2>6, InARow
  <2>8. d.grant = "ok" /\ Synced(d) => ~Escape(d).on
    BY <2>1, <2>6 DEF Leaves, Around, Synced, Buffer, Granted
  <2> QED BY <2>7, <2>8
<1> QED BY <1>2, <1>3, <1>4

(* What the first callback leaves: no composition that was not there, and with its
   sessions granted one only where it has claimed the key. *)
Tests(d, k, t) ==
  /\ Placed(t) /\ t.grant = d.grant /\ t.cache = d.cache /\ t.shared = d.shared
  /\ t.seen = d.seen /\ t.scope = d.scope /\ t.blocked = d.blocked /\ t.space = d.space
  /\ t.mh \in {d.mh, k}
  /\ t.on => d.on /\ SameUndo(d, t) /\ t.mh = d.mh
  /\ d.grant = "ok" /\ t.on => t.out = "eat"

\* What keeps to the word, and a trigger that has ended it.
LEMMA LeavesTest ==
  ASSUME NEW d, NEW c, Leaves(d, c), NEW k
  PROVE  /\ (d.grant = "ok" /\ c.on => c.out = "eat") => Tests(d, k, c)
         /\ ~c.on => Tests(d, k, MacroOutcome(c, k))
<1>1. (d.grant = "ok" /\ c.on => c.out = "eat") => Tests(d, k, c)
  BY DEF Leaves, Around, Tests
<1>2. ASSUME ~c.on PROVE Tests(d, k, MacroOutcome(c, k))
  <2> DEFINE o == MacroOutcome(c, k)
  <2>1. Placed(o) /\ ~o.on /\ o.mh = k /\ o.grant = c.grant /\ o.cache = c.cache /\ o.shared = c.shared
        /\ o.seen = c.seen /\ o.scope = c.scope /\ o.blocked = c.blocked /\ o.space = c.space
    BY <1>2 DEF MacroOutcome, Leaves, Placed, AllParts
  <2> HIDE DEF o
  <2>2. Tests(d, k, o)
    BY <2>1 DEF Leaves, Around, Tests
  <2> QED BY <2>2 DEF o
<1> QED BY <1>1, <1>2

\* A Backspace with no word under way.
LEMMA BackspaceTests ==
  ASSUME NEW d, Placed(d), NEW want
  PROVE  Leaves(d, TestBackspace(d, want))
<1>1. Leaves(d, d)
  BY InARow
<1>2. Leaves(d, Eat(Remember(d, "bk", TRUE)))
  <2>1. Leaves(d, Remember(d, "bk", TRUE))
    BY <1>1, AnswersLeave
  <2> QED BY <2>1, AnswersLeave
<1>3. Leaves(d, Pass(Remember(TransitionUndoReadyToPrimed(d), "bk", FALSE)))
  <2> DEFINE u == TransitionUndoReadyToPrimed(d)
  <2>1. Leaves(d, u)
    BY <1>1, TrackersLeave
  <2> HIDE DEF u
  <2>2. Leaves(d, Remember(u, "bk", FALSE))
    BY <2>1, AnswersLeave
  <2> QED BY <2>2, AnswersLeave DEF u
<1>4. ASSUME NEW c, Leaves(d, c), NEW x
      PROVE  Leaves(d, [PrepareBackspaceRevive(c) EXCEPT !.want = x])
  <2> DEFINE word == PrecedingWord(c)
             ready == /\ Routed(c) /\ c.cache.vn /\ ~Buffer(c) /\ ~desk.scintilla
                      /\ Granted(c) /\ word # <<>>
             rev == IF ready THEN [word |-> word, at |-> c.caret - Len(word), len |-> Len(word)]
                    ELSE NoRange
  <2>1. Placed(c) /\ c.caret \in Nat /\ c.caret <= Len(c.text) /\ Len(c.text) \in Nat
    BY <1>4, LenProperties DEF Leaves, Placed, Texts
  <2>2. word \in Texts /\ Len(word) <= c.caret
    BY <2>1, WordBefore
  <2>3. PrepareBackspaceRevive(c) = [c EXCEPT !.rev = rev]
    BY DEF PrepareBackspaceRevive
  <2> HIDE DEF word, ready
  <2>4. Len(word) \in Nat
    BY <2>2, LenProperties DEF Texts
  <2>5. rev \in Spans /\ rev.at <= Len(c.text)
    <3>1. NoRange \in Spans /\ NoRange.at = 0
      BY EmptySeq DEF NoRange, Spans, Texts
    <3>2. c.caret - Len(word) \in Nat /\ c.caret - Len(word) <= Len(c.text)
      BY <2>1, <2>2, <2>4
    <3> DEFINE r == [word |-> word, at |-> c.caret - Len(word), len |-> Len(word)]
    <3>3. r \in Spans /\ r.at <= Len(c.text)
      BY <2>2, <2>4, <3>2 DEF Spans
    <3> HIDE DEF r
    <3> QED BY <2>1, <3>1, <3>3 DEF r
  <2> HIDE DEF rev
  <2>6. Leaves(d, [c EXCEPT !.rev = rev])
    BY <1>4, <2>1, <2>5 DEF Leaves, Placed, Around, SameUndo, AllParts
  <2> QED BY <2>3, <2>6, NotesLeave
<1>5. ASSUME NEW c, Leaves(d, c), NEW x PROVE Leaves(d, [c EXCEPT !.want = x])
  BY <1>5, NotesLeave
<1>6. Leaves(d, ResetCommitUndo(d))
  BY <1>1, TrackersLeave
<1> QED BY <1>1, <1>2, <1>3, <1>4, <1>5, <1>6 DEF TestBackspace

\* The keys watched in English.
LEMMA TestEnglishTests ==
  ASSUME NEW d, Placed(d), d.out = "go", NEW k \in Chars
  PROVE  LET e == TestEnglish(d, k)
         IN (Leaves(d, e) /\ e.out \in {"go", "eat"}) \/ (e.out # "go" /\ Tests(d, k, e))
<1> DEFINE m == HandleMacroTrigger(d, k)
           o == [m EXCEPT !.obs = k]
           E(e) == (Leaves(d, e) /\ e.out \in {"go", "eat"}) \/ (e.out # "go" /\ Tests(d, k, e))
<1>1. Leaves(d, d) /\ Hushed(d, d)
  BY InARow DEF Hushed, Placed
<1>2. \A c, x : Leaves(d, c) /\ Hushed(d, c) => E([c EXCEPT !.obs = x])
  <2> TAKE c, x
  <2>1. Leaves(d, c) /\ Hushed(d, c) => Leaves(d, [c EXCEPT !.obs = x]) /\ Hushed(d, [c EXCEPT !.obs = x])
    BY NotesLeave, TrackersHush
  <2> QED BY <2>1 DEF Hushed
<1>3. E([TrackMacroCharacter(d, k) EXCEPT !.obs = k])
  <2>1. Leaves(d, TrackMacroCharacter(d, k)) /\ Hushed(d, TrackMacroCharacter(d, k))
    BY <1>1, TrackersLeave, TrackersHush
  <2> HIDE DEF E
  <2> QED BY <1>2, <2>1
<1>4. E([TrackMacroBackspace(d) EXCEPT !.obs = k])
  <2>1. Leaves(d, TrackMacroBackspace(d)) /\ Hushed(d, TrackMacroBackspace(d))
    BY <1>1, TrackersLeave, TrackersHush
  <2> HIDE DEF E
  <2> QED BY <1>2, <2>1
<1>5. E(Eat(Remember(d, k, TRUE)))
  <2>1. Leaves(d, Remember(d, k, TRUE))
    BY <1>1, AnswersLeave
  <2>2. LET e == Eat(Remember(d, k, TRUE)) IN Leaves(d, e) /\ e.out = "eat"
    BY <2>1, AnswersLeave
  <2> QED BY <2>2
<1>6. E(IF o.res = "none" THEN o ELSE MacroOutcome(o, k))
  <2>1. Leaves(d, m) /\ (m.on => m.res = "none") /\ m.res # "go" /\ Hushed(d, m)
    BY <1>1, TriggersTry, TriggersHush DEF Tried
  <2> HIDE DEF m
  <2>2. Leaves(d, o) /\ E(o) /\ o.res = m.res /\ o.on = m.on /\ AllParts \subseteq DOMAIN o
    <3>1. Leaves(d, o)
      BY <2>1, NotesLeave
    <3>2. E(o)
      BY <1>2, <2>1
    <3>3. o.res = m.res /\ o.on = m.on /\ AllParts \subseteq DOMAIN o
      BY <2>1 DEF Hushed, AllParts
    <3> HIDE DEF E, o
    <3> QED BY <3>1, <3>2, <3>3
  <2>3. \/ o.res = "none"
        \/ Tests(d, k, MacroOutcome(o, k)) /\ MacroOutcome(o, k).out # "go"
    <3> HIDE DEF o
    <3>1. ~o.on => Tests(d, k, MacroOutcome(o, k))
      BY <2>2, LeavesTest
    <3>2. MacroOutcome(o, k).out = o.res
      BY <2>2 DEF MacroOutcome, AllParts
    <3> QED BY <2>1, <2>2, <3>1, <3>2
  <2> HIDE DEF o
  <2>4. CASE o.res = "none"
    BY <2>2, <2>4
  <2>5. CASE o.res # "none"
    BY <2>3, <2>5
  <2> HIDE DEF E
  <2> QED BY <2>4, <2>5
<1>7. E(d)
  BY <1>1
<1> DEFINE x == IF o.res = "none" THEN o ELSE MacroOutcome(o, k)
<1>8. TestEnglish(d, k) \in {d, [TrackMacroCharacter(d, k) EXCEPT !.obs = k],
                             [TrackMacroBackspace(d) EXCEPT !.obs = k], Eat(Remember(d, k, TRUE)), x}
  BY DEF TestEnglish
<1>9. E(x)
  BY <1>6
<1> HIDE DEF E, x
<1>10. E(TestEnglish(d, k))
  BY <1>3, <1>4, <1>5, <1>7, <1>8, <1>9
<1> QED BY <1>10 DEF E

\* The rest of the first callback.
LEMMA TestRestTests ==
  ASSUME NEW d, Placed(d), Synced(d), d.out = "go", NEW k \in Chars
  PROVE  Tests(d, k, TestRest(d, k))
<1> DEFINE want == WantKey(d, k) /\ ~(k = "bk" /\ desk.keep /\ HasNonEmptySelection(d))
           t == IF k = "bk" /\ ~Buffer(d) THEN TestBackspace(d, want) ELSE [d EXCEPT !.want = want]
           r == Remember(t, k, t.want)
           m == IF /\ ~r.want /\ ~IsEnglishMacroTrackingActive(r)
                   /\ HasMacroCandidate(r) /\ IsCommitTrigger(k)
                THEN HandleMacroTrigger(r, k) ELSE [r EXCEPT !.res = "none"]
           v == IF ~m.want /\ Buffer(m) THEN Pass(Commit(m))
                ELSE IF m.want THEN Eat(m) ELSE Pass(m)
<1>1. Leaves(d, d)
  BY InARow
<1> HIDE DEF want
<1>2. Leaves(d, t) /\ (t.out = "go" \/ (d.grant = "ok" => ~t.on))
  <2>1. Leaves(d, TestBackspace(d, want))
    BY BackspaceTests
  <2>2. Leaves(d, [d EXCEPT !.want = want]) /\ [d EXCEPT !.want = want].out = d.out
    <3>1. Leaves(d, [d EXCEPT !.want = want])
      BY <1>1, NotesLeave
    <3> QED BY <3>1 DEF Placed, AllParts
  <2> QED BY <2>1, <2>2 DEF Leaves, Synced
<1>3. TestRest(d, k) = IF t.out # "go" THEN t ELSE IF m.res # "none" THEN MacroOutcome(m, k) ELSE v
  BY DEF TestRest, want
<1> HIDE DEF t
<1>4. Leaves(d, r) /\ Placed(r)
  <2>1. Leaves(d, r)
    BY <1>2, AnswersLeave
  <2> HIDE DEF r
  <2> QED BY <2>1 DEF Leaves
<1> HIDE DEF r
<1>5. Leaves(d, m) /\ (m.on => m.res = "none")
  <2>1. Leaves(r, HandleMacroTrigger(r, k))
        /\ (HandleMacroTrigger(r, k).on => HandleMacroTrigger(r, k).res = "none")
    BY <1>4, TriggersTry DEF Tried
  <2>2. Leaves(d, HandleMacroTrigger(r, k))
    BY <1>4, <2>1, InARow
  <2>3. Leaves(d, [r EXCEPT !.res = "none"]) /\ [r EXCEPT !.res = "none"].res = "none"
    <3>1. Leaves(d, [r EXCEPT !.res = "none"])
      BY <1>4, NotesLeave
    <3> QED BY <1>4, <3>1 DEF Placed, AllParts
  <2> QED BY <2>1, <2>2, <2>3
<1> HIDE DEF m
<1>6. Tests(d, k, t) \/ t.out = "go"
  BY <1>2, LeavesTest
<1>7. m.res # "none" => Tests(d, k, MacroOutcome(m, k))
  BY <1>5, LeavesTest
<1>8. Tests(d, k, v)
  <2>1. Leaves(d, Commit(m)) /\ (Granted(d) => ~Commit(m).on)
    BY <1>5, EndsLeave
  <2>2. CASE ~m.want /\ Buffer(m)
    <3>1. LET e == Pass(Commit(m)) IN Leaves(d, e) /\ e.on = Commit(m).on
      BY <2>1, AnswersLeave
    <3>2. v = Pass(Commit(m))
      BY <2>2
    <3> QED BY <2>1, <3>1, <3>2, LeavesTest DEF Granted
  <2>3. CASE m.want
    <3>1. LET e == Eat(m) IN Leaves(d, e) /\ e.on = m.on /\ e.out = "eat"
      BY <1>5, AnswersLeave
    <3>2. v = Eat(m)
      BY <2>3
    <3> QED BY <3>1, <3>2, LeavesTest
  <2>4. CASE ~m.want /\ ~Buffer(m)
    <3>1. LET e == Pass(m) IN Leaves(d, e) /\ e.on = m.on
      BY <1>5, AnswersLeave
    <3>2. v = Pass(m)
      BY <2>4
    <3>3. d.grant = "ok" => ~m.on
      BY <1>5, <2>4 DEF Leaves, Synced, Buffer
    <3> QED BY <3>1, <3>2, <3>3, LeavesTest
  <2> QED BY <2>2, <2>3, <2>4
<1> QED BY <1>3, <1>6, <1>7, <1>8

\* OnTestKeyDown in a field that is not blocked.
LEMMA TestRoutedTests ==
  ASSUME NEW d, Placed(d), d.out = "go", NEW k \in Chars
  PROVE  Tests(d, k, TestRouted(d, k))
<1>1. Leaves(d, d) /\ Hushed(d, d)
  BY InARow DEF Hushed, Placed
<1>2. ASSUME NEW c, Leaves(d, c), NEW t, Tests(c, k, t) PROVE Tests(d, k, t)
  BY <1>2 DEF Leaves, Around, Tests, SameUndo
<1>3. Tests(d, k, Pass(Remember(Commit(d), k, FALSE)))
  <2> DEFINE c == Commit(d)
             no == FALSE
             r == Remember(c, k, no)
  <2>1. Leaves(d, c) /\ (Granted(d) => ~c.on)
    BY <1>1, EndsLeave
  <2> HIDE DEF c, no
  <2>2. Leaves(d, r) /\ r.on = c.on
    BY <2>1, AnswersLeave
  <2> HIDE DEF r
  <2>3. Leaves(d, Pass(r)) /\ Pass(r).on = r.on
    BY <2>2, AnswersLeave
  <2> QED BY <2>1, <2>2, <2>3, LeavesTest DEF Granted, r, c, no
<1>4. ASSUME NEW c, Leaves(d, c), Hushed(d, c) PROVE Leaves(d, Resync(c)) /\ Hushed(d, Resync(c)) /\ Synced(Resync(c))
  <2>1. Leaves(c, Resync(c)) /\ Synced(Resync(c))
    BY <1>4, SyncLeaves DEF Leaves
  <2>2. Hushed(d, Resync(c))
    BY <1>4, TriggersHush
  <2>3. Leaves(d, Resync(c))
    BY <1>4, <2>1, InARow
  <2> QED BY <2>1, <2>2, <2>3
<1>5. Leaves(d, OnNonRestoreKey(d)) /\ Hushed(d, OnNonRestoreKey(d))
  BY <1>1, TrackersLeave, TrackersHush
<1>6. ASSUME NEW a, Leaves(d, a), Hushed(d, a), Synced(a)
      PROVE  /\ Tests(d, k, Chord(a)) /\ Tests(d, k, Escape(a)) /\ Tests(d, k, Eat(Remember(a, k, TRUE)))
             /\ LET e == TestEnglish(a, k) IN Tests(d, k, IF e.out = "go" THEN TestRest(e, k) ELSE e)
  <2>1. Placed(a) /\ a.out = "go" /\ a.grant = d.grant
    BY <1>6 DEF Leaves, Around, Hushed
  <2>2. Tests(d, k, Chord(a)) /\ Tests(d, k, Escape(a))
    <3>1. /\ Leaves(a, Chord(a)) /\ (a.grant = "ok" => ~Chord(a).on)
          /\ Leaves(a, Escape(a)) /\ (a.grant = "ok" => ~Escape(a).on)
      BY <1>6, <2>1, SyncLeaves
    <3>2. Tests(a, k, Chord(a)) /\ Tests(a, k, Escape(a))
      BY <3>1, LeavesTest
    <3> QED BY <1>2, <1>6, <3>2
  <2>3. Tests(d, k, Eat(Remember(a, k, TRUE)))
    <3> DEFINE r == Remember(a, k, TRUE)
    <3>1. Leaves(d, r)
      BY <1>6, AnswersLeave
    <3> HIDE DEF r
    <3>2. Leaves(d, Eat(r)) /\ Eat(r).out = "eat"
      BY <3>1, AnswersLeave
    <3> QED BY <3>2, LeavesTest DEF r
  <2>4. LET e == TestEnglish(a, k) IN Tests(d, k, IF e.out = "go" THEN TestRest(e, k) ELSE e)
    <3> DEFINE e == TestEnglish(a, k)
    <3>1. (Leaves(a, e) /\ e.out \in {"go", "eat"}) \/ (e.out # "go" /\ Tests(a, k, e))
      BY <2>1, TestEnglishTests
    <3> HIDE DEF e
    <3>2. CASE Leaves(a, e) /\ e.out = "go"
      <4>1. Placed(e) /\ Synced(e)
        BY <1>6, <3>2 DEF Leaves, Around, Synced, Buffer
      <4>2. Tests(e, k, TestRest(e, k))
        BY <4>1, <3>2, TestRestTests
      <4>3. Leaves(d, e)
        BY <1>6, <3>2, InARow
      <4>4. Tests(d, k, TestRest(e, k))
        BY <1>2, <4>2, <4>3
      <4> QED BY <3>2, <4>4 DEF e
    <3>3. CASE Leaves(a, e) /\ e.out = "eat"
      <4>1. Tests(a, k, e)
        BY <3>3, LeavesTest
      <4>2. Tests(d, k, e)
        BY <1>2, <1>6, <4>1
      <4> QED BY <3>3, <4>2 DEF e
    <3>4. CASE e.out # "go" /\ Tests(a, k, e)
      <4>1. Tests(d, k, e)
        BY <1>2, <1>6, <3>4
      <4> QED BY <3>4, <4>1 DEF e
    <3> QED BY <3>1, <3>2, <3>3, <3>4
  <2> QED BY <2>2, <2>3, <2>4
<1>7. /\ Leaves(d, Resync(d)) /\ Hushed(d, Resync(d)) /\ Synced(Resync(d))
      /\ LET n == OnNonRestoreKey(d)
         IN Leaves(d, Resync(n)) /\ Hushed(d, Resync(n)) /\ Synced(Resync(n))
  BY <1>1, <1>4, <1>5
<1> DEFINE S(a) == CASE k = "ctrl" -> Chord(a)
                     [] k = "esc"  -> Escape(a)
                     [] IsPunctuationKey(k) /\ Buffer(a) -> Eat(Remember(a, k, TRUE))
                     [] OTHER -> LET e == TestEnglish(a, k) IN IF e.out = "go" THEN TestRest(e, k) ELSE e
<1>8. \A a : Leaves(d, a) /\ Hushed(d, a) /\ Synced(a) => Tests(d, k, S(a))
  BY <1>6
<1>9. TestRouted(d, k) = IF k = "bk" /\ Buffer(d) /\ desk.keep /\ HasNonEmptySelection(d)
                         THEN Pass(Remember(Commit(d), k, FALSE))
                         ELSE S(Resync(IF k \in {"bk", "esc"} THEN d ELSE OnNonRestoreKey(d)))
  BY DEF TestRouted, S
<1> HIDE DEF S
<1>10. Tests(d, k, S(Resync(d))) /\ Tests(d, k, S(Resync(OnNonRestoreKey(d))))
  BY <1>7, <1>8
<1> QED BY <1>3, <1>9, <1>10

(* No expansion is waiting to be taken back while a word is under way. *)
Quiet(d) == d.on => ~UndoDue(d)

(* What the second callback leaves: with its sessions granted a composition only
   where it has eaten a key that is not the space, or where it watches the keys. *)
Down(d, k, r) ==
  /\ Placed(r) /\ Quiet(r) /\ r.grant = d.grant /\ r.cache = d.cache /\ r.shared = d.shared
  /\ r.seen = d.seen /\ r.scope = d.scope /\ r.blocked = d.blocked
  /\ d.mh = "" => r.mh = ""
  /\ r.space => d.space \/ k = " "
  /\ d.grant = "ok" /\ (k = d.mh => ~d.on) /\ r.on =>
       \/ IsEnglishMacroTrackingActive(r)
       \/ Shown(r) /\ k # " " /\ r.out = "eat"

\* What keeps to the word, or ends it.
LEMMA LeavesDown ==
  ASSUME NEW d, NEW c, Leaves(d, c), NEW k
  PROVE  /\ Quiet(d) => Quiet(c)
         /\ Quiet(d) /\ (d.grant = "ok" => ~c.on \/ IsEnglishMacroTrackingActive(c)) => Down(d, k, c)
<1>1. Quiet(d) => Quiet(c)
  BY DEF Leaves, Around, SameUndo, Quiet, UndoDue
<1> QED BY <1>1 DEF Leaves, Around, Down

\* The claim on the space bar.
LEMMA ClaimsDown ==
  ASSUME NEW d, NEW k, NEW r, Down(d, k, r), NEW again
  PROVE  Down(d, k, RememberClaimedSpaceKeyDown(r, k, again))
<1> DEFINE c == [r EXCEPT !.space = TRUE]
<1>1. CASE k = " "
  <2>1. /\ Placed(c) /\ c.on = r.on /\ c.grant = r.grant /\ c.cache = r.cache /\ c.shared = r.shared
        /\ c.seen = r.seen /\ c.scope = r.scope /\ c.blocked = r.blocked /\ c.mh = r.mh
        /\ c.mundo = r.mundo /\ c.mlate = r.mlate
    BY DEF Down, Placed, AllParts
  <2> HIDE DEF c
  <2>2. Down(d, k, c)
    BY <1>1, <2>1 DEF Down, Quiet, UndoDue, IsEnglishMacroTrackingActive, Routed, Flags
  <2> QED BY <2>2 DEF RememberClaimedSpaceKeyDown, c
<1>2. CASE k # " "
  BY <1>2 DEF RememberClaimedSpaceKeyDown
<1> QED BY <1>1, <1>2

\* A trigger in the second callback, and what comes after it.
LEMMA MacrosDown ==
  ASSUME NEW d, Placed(d), Quiet(d), NEW m, Leaves(d, m), NEW k, NEW again,
         ~m.on \/ IsEnglishMacroTrackingActive(d)
  PROVE  Down(d, k, ByMacro(m, k, again))
<1>1. Down(d, k, m) /\ (~m.on \/ IsEnglishMacroTrackingActive(m))
  <2>1. ~m.on \/ IsEnglishMacroTrackingActive(m)
    BY DEF Leaves, Around, IsEnglishMacroTrackingActive, Routed, Flags
  <2> QED BY <2>1, LeavesDown
<1> DEFINE r == RememberClaimedSpaceKeyDown(m, k, again)
<1>2. Down(d, k, r) /\ (~r.on \/ IsEnglishMacroTrackingActive(r))
  <2>1. Down(d, k, r)
    BY <1>1, ClaimsDown
  <2>2. ~r.on \/ IsEnglishMacroTrackingActive(r)
    <3>1. AllParts \subseteq DOMAIN m
      BY DEF Leaves, Placed
    <3> QED BY <1>1, <3>1 DEF RememberClaimedSpaceKeyDown, IsEnglishMacroTrackingActive, Routed, Flags, AllParts
  <2> QED BY <2>1, <2>2
<1>3. ASSUME NEW c, Down(d, k, c), ~c.on \/ IsEnglishMacroTrackingActive(c), NEW x
      PROVE  Down(d, k, [c EXCEPT !.out = x])
  <2> DEFINE e == [c EXCEPT !.out = x]
  <2>1. /\ Placed(e) /\ e.on = c.on /\ e.grant = c.grant /\ e.cache = c.cache /\ e.shared = c.shared
        /\ e.seen = c.seen /\ e.scope = c.scope /\ e.blocked = c.blocked /\ e.mh = c.mh
        /\ e.mundo = c.mundo /\ e.mlate = c.mlate /\ e.space = c.space
    BY <1>3 DEF Down, Placed, AllParts
  <2> HIDE DEF e
  <2>2. Down(d, k, e)
    BY <1>3, <2>1 DEF Down, Quiet, UndoDue, IsEnglishMacroTrackingActive, Routed, Flags
  <2> QED BY <2>2 DEF e
<1> HIDE DEF r
<1>4. Down(d, k, Eat(r)) /\ Down(d, k, Pass(m))
  BY <1>1, <1>2, <1>3 DEF Eat, Pass
<1> QED BY <1>4 DEF ByMacro, r

\* The second callback, where the keys are not only watched.
LEMMA KeyDownRestDown ==
  ASSUME NEW d, Placed(d), Fits(d), Synced(d), ~UndoDue(d), NEW k \in Chars, NEW again
  PROVE  Down(d, k, KeyDownRest(d, k, again))
<1> DEFINE m == IF HasMacroCandidate(d) /\ IsCommitTrigger(k)
                THEN HandleMacroTrigger(d, k) ELSE [d EXCEPT !.res = "none"]
           v == [m EXCEPT !.vk = ""]
           h == HandleKey(v, k)
           handled == IF h.out = "eat" THEN RememberClaimedSpaceKeyDown(h, k, again) ELSE h
           other == IF Buffer(v) THEN CommitAndPassOn(v, k) ELSE Pass(v)
           typed == Eat(CommitWithChar(v, k))
<1>1. Leaves(d, d) /\ Quiet(d)
  BY InARow DEF Quiet
<1>2. Leaves(d, m) /\ (m.on => m.res = "none") /\ (m.res = "none" => SameUndo(d, m))
  <2>1. Tried(d, HandleMacroTrigger(d, k))
    BY TriggersTry
  <2>2. LET n == [d EXCEPT !.res = "none"] IN Leaves(d, n) /\ n.res = "none" /\ SameUndo(d, n)
    <3>1. Leaves(d, [d EXCEPT !.res = "none"])
      BY <1>1, NotesLeave
    <3> QED BY <3>1 DEF Placed, AllParts, SameUndo
  <2> QED BY <2>1, <2>2 DEF Tried
<1>3. \/ m.res # "none" /\ KeyDownRest(d, k, again) = ByMacro(m, k, again)
      \/ m.res = "none" /\ KeyDownRest(d, k, again) \in {typed, handled, other}
  BY DEF KeyDownRest
<1> HIDE DEF m
<1>4. CASE m.res # "none"
  <2>1. ~m.on
    BY <1>2, <1>4
  <2>2. Down(d, k, ByMacro(m, k, again))
    BY <1>1, <1>2, <2>1, MacrosDown
  <2> QED BY <1>3, <1>4, <2>2
<1>5. CASE m.res = "none"
  <2>1. Leaves(d, v) /\ SameUndo(d, v) /\ Placed(v)
    <3>1. Leaves(d, v)
      BY <1>2, NotesLeave
    <3>2. v.mundo = m.mundo /\ v.mlate = m.mlate
      BY <1>2 DEF Leaves, Placed, AllParts
    <3> QED BY <1>2, <1>5, <3>1, <3>2 DEF SameUndo, Leaves
  <2> HIDE DEF v
  <2>2. Down(d, k, typed)
    <3>1. Leaves(d, CommitWithChar(v, k)) /\ (Granted(d) => ~CommitWithChar(v, k).on)
      BY <2>1, EndsLeave
    <3> DEFINE c == CommitWithChar(v, k)
    <3> HIDE DEF c
    <3>2. Leaves(d, Eat(c)) /\ Eat(c).on = c.on
      BY <3>1, AnswersLeave DEF c
    <3> QED BY <1>1, <3>1, <3>2, LeavesDown DEF Granted, c
  <2>3. Down(d, k, h)
    <3>1. Fits(v) /\ ~UndoDue(v)
      BY <2>1 DEF Leaves, Around, SameUndo, Fits, UndoDue, Routed, Flags
    <3>2. Typed(v, k, h)
      BY <2>1, <3>1, HandleKeyShows
    <3> HIDE DEF h
    <3> QED BY <2>1, <3>1, <3>2 DEF Typed, Goes, Leaves, Around, Down, Quiet, UndoDue, SameUndo
  <2>4. Down(d, k, handled)
    <3> HIDE DEF h
    <3> QED BY <2>3, ClaimsDown
  <2>5. Down(d, k, other)
    <3>1. CASE Buffer(v)
      <4> DEFINE c == Commit(v)
                 n == [c EXCEPT !.repost = TRUE, !.timers = @ + 1]
      <4>1. Leaves(d, c) /\ (Granted(d) => ~c.on)
        BY <2>1, EndsLeave
      <4>2. CommitAndPassOn(v, k) = IF k = "ret" THEN Eat(n) ELSE Pass(c)
        BY DEF CommitAndPassOn
      <4> HIDE DEF c
      <4>3. Leaves(d, n) /\ n.on = c.on
        <5> DEFINE y == c.timers + 1
        <5>1. n = [c EXCEPT !.repost = TRUE, !.timers = y]
          OBVIOUS
        <5> HIDE DEF y, n
        <5>2. Leaves(d, n)
          BY <4>1, <5>1, NotesLeave
        <5>3. n.on = c.on
          BY <4>1, <5>1 DEF Leaves, Placed, AllParts
        <5> QED BY <5>2, <5>3
      <4> HIDE DEF n
      <4>4. Leaves(d, Eat(n)) /\ Eat(n).on = n.on /\ Leaves(d, Pass(c)) /\ Pass(c).on = c.on
        BY <4>1, <4>3, AnswersLeave
      <4>5. Down(d, k, Eat(n)) /\ Down(d, k, Pass(c))
        BY <1>1, <4>1, <4>3, <4>4, LeavesDown DEF Granted
      <4> QED BY <3>1, <4>2, <4>5
    <3>2. CASE ~Buffer(v)
      <4>1. Leaves(d, Pass(v)) /\ Pass(v).on = v.on
        BY <2>1, AnswersLeave
      <4>2. d.grant = "ok" => ~v.on
        BY <2>1, <3>2 DEF Leaves, Synced, Buffer
      <4>3. Down(d, k, Pass(v))
        BY <1>1, <4>1, <4>2, LeavesDown
      <4> QED BY <3>2, <4>3
    <3> QED BY <3>1, <3>2
  <2> HIDE DEF typed, handled, other
  <2> QED BY <1>3, <1>5, <2>2, <2>4, <2>5
<1> QED BY <1>4, <1>5

\* The second callback in English.
LEMMA KeyDownEnglishDown ==
  ASSUME NEW d, Placed(d), Quiet(d), IsEnglishMacroTrackingActive(d), NEW k \in Chars, NEW again
  PROVE  Down(d, k, KeyDownEnglish(d, k, again))
<1> DEFINE o == [d EXCEPT !.obs = "", !.vk = ""]
           m == HandleMacroTrigger(o, k)
<1>1. Leaves(d, o) /\ Placed(o)
  <2>1. Leaves(d, o)
    BY InARow, NotesLeave
  <2> QED BY <2>1 DEF Leaves
<1>2. KeyDownEnglish(d, k, again) \in
        {Pass(o), Pass(TrackMacroCharacter(o, k)), Pass(TrackMacroBackspace(o)), ByMacro(m, k, again)}
  BY DEF KeyDownEnglish
<1> HIDE DEF o
<1>3. ASSUME NEW c, Leaves(d, c) PROVE Down(d, k, Pass(c))
  <2>1. Leaves(d, Pass(c))
    BY <1>3, AnswersLeave
  <2>2. IsEnglishMacroTrackingActive(Pass(c))
    BY <2>1 DEF Leaves, Around, IsEnglishMacroTrackingActive, Routed, Flags
  <2> QED BY <2>1, <2>2, LeavesDown
<1>4. Leaves(d, TrackMacroCharacter(o, k)) /\ Leaves(d, TrackMacroBackspace(o))
  BY <1>1, TrackersLeave
<1>5. Leaves(d, m)
  <2>1. Leaves(o, m)
    BY <1>1, TriggersTry DEF Tried
  <2> HIDE DEF m
  <2> QED BY <1>1, <2>1, InARow
<1> HIDE DEF m
<1>6. Down(d, k, ByMacro(m, k, again))
  BY <1>5, MacrosDown
<1>7. Down(d, k, Pass(o)) /\ Down(d, k, Pass(TrackMacroCharacter(o, k)))
      /\ Down(d, k, Pass(TrackMacroBackspace(o)))
  BY <1>1, <1>3, <1>4
<1> QED BY <1>2, <1>6, <1>7

\* OnKeyDown in a field that is not blocked.
LEMMA KeyDownRoutedDown ==
  ASSUME NEW d, Placed(d), Fits(d), Routed(d), ~d.blocked, Synced(d), Quiet(d), NEW k \in Chars,
         k # "bk" /\ k # d.mh => d.mundo = <<>>, NEW again
  PROVE  Down(d, k, KeyDownRouted(d, k, again))
<1>1. Leaves(d, d)
  BY InARow
<1>2. Down(d, k, Chord(d)) /\ Down(d, k, Escape(d))
  BY SyncLeaves, LeavesDown
<1>3. ASSUME k = d.mh, NEW x
      PROVE  LET c == [RememberClaimedSpaceKeyDown(d, k, x) EXCEPT !.mh = "", !.mhEat = FALSE, !.obs = ""]
             IN Down(d, k, Eat(c)) /\ Down(d, k, Pass(c))
  <2> DEFINE r == RememberClaimedSpaceKeyDown(d, k, x)
             c == [r EXCEPT !.mh = "", !.mhEat = FALSE, !.obs = ""]
  <2>1. /\ Placed(r) /\ r.on = d.on /\ r.grant = d.grant /\ r.cache = d.cache /\ r.shared = d.shared
        /\ r.seen = d.seen /\ r.scope = d.scope /\ r.blocked = d.blocked
        /\ r.mundo = d.mundo /\ r.mlate = d.mlate /\ (r.space => d.space \/ k = " ")
    BY DEF RememberClaimedSpaceKeyDown, Placed, AllParts
  <2> HIDE DEF r
  <2>2. ASSUME NEW y, NEW e, e = [c EXCEPT !.out = y] PROVE Down(d, k, e)
    <3>1. /\ Placed(e) /\ e.on = r.on /\ e.grant = r.grant /\ e.cache = r.cache /\ e.shared = r.shared
          /\ e.seen = r.seen /\ e.scope = r.scope /\ e.blocked = r.blocked
          /\ e.mundo = r.mundo /\ e.mlate = r.mlate /\ e.space = r.space /\ e.mh = ""
      BY <2>1, <2>2 DEF Placed, AllParts
    <3> QED BY <1>3, <2>1, <3>1 DEF Down, Quiet, UndoDue
  <2> HIDE DEF c
  <2>3. Down(d, k, Eat(c)) /\ Down(d, k, Pass(c))
    BY <2>2 DEF Eat, Pass
  <2> QED BY <2>3 DEF c, r
<1>4. UndoDue(d) <=> HasMacroUndo(d)
  BY DEF HasMacroUndo, IsMacroTrackingEnabled, UndoDue, Fits, Routed, Flags
<1>5. HasMacroUndo(d) => Down(d, k, ByReplaced(UndoMacro([d EXCEPT !.vk = "", !.obs = ""])))
  <2> DEFINE o == [d EXCEPT !.vk = "", !.obs = ""]
             u == UndoMacro(o)
  <2>1. Leaves(d, o)
    BY <1>1, NotesLeave
  <2> HIDE DEF o
  <2>2. Leaves(d, u)
    BY <2>1, UndoLeaves
  <2> HIDE DEF u
  <2>3. Leaves(d, ByReplaced(u))
    BY <2>2, AnswersLeave
  <2>4. HasMacroUndo(d) => ~ByReplaced(u).on
    BY <1>4, <2>3 DEF Leaves, Quiet
  <2>5. HasMacroUndo(d) => Down(d, k, ByReplaced(u))
    BY <2>3, <2>4, LeavesDown
  <2> QED BY <2>5 DEF u, o
<1>6. IsEnglishMacroTrackingActive(d) => Down(d, k, KeyDownEnglish(d, k, again))
  BY KeyDownEnglishDown
<1>7. Down(d, k, Pass([Commit(d) EXCEPT !.vk = ""]))
  <2> DEFINE c == Commit(d)
             n == [c EXCEPT !.vk = ""]
  <2>1. Leaves(d, c) /\ (Granted(d) => ~c.on)
    BY <1>1, EndsLeave
  <2> HIDE DEF c
  <2>2. Leaves(d, n) /\ n.on = c.on
    <3>1. Leaves(d, n)
      BY <2>1, NotesLeave
    <3> QED BY <2>1, <3>1 DEF Leaves, Placed, AllParts
  <2> HIDE DEF n
  <2>3. Leaves(d, Pass(n)) /\ Pass(n).on = n.on
    BY <2>2, AnswersLeave
  <2>4. Down(d, k, Pass(n))
    BY <2>1, <2>2, <2>3, LeavesDown DEF Granted
  <2> QED BY <2>4 DEF n, c
<1>8. ~(k = "bk" /\ HasMacroUndo(d)) /\ k # d.mh => Down(d, k, KeyDownRest(d, k, again))
  <2>1. ~(k = "bk" /\ HasMacroUndo(d)) /\ k # d.mh => ~UndoDue(d)
    BY <1>4 DEF UndoDue
  <2> QED BY <2>1, KeyDownRestDown
<1> DEFINE claimed == [RememberClaimedSpaceKeyDown(d, k, again \/ ~d.mhEat)
                         EXCEPT !.mh = "", !.mhEat = FALSE, !.obs = ""]
<1>9. k = d.mh => Down(d, k, Eat(claimed)) /\ Down(d, k, Pass(claimed))
  BY <1>3
<1>10. \/ KeyDownRouted(d, k, again) \in {Chord(d), Escape(d), Pass([Commit(d) EXCEPT !.vk = ""])}
       \/ k = d.mh /\ KeyDownRouted(d, k, again) \in {Eat(claimed), Pass(claimed)}
       \/ HasMacroUndo(d)
          /\ KeyDownRouted(d, k, again) = ByReplaced(UndoMacro([d EXCEPT !.vk = "", !.obs = ""]))
       \/ IsEnglishMacroTrackingActive(d) /\ KeyDownRouted(d, k, again) = KeyDownEnglish(d, k, again)
       \/ ~(k = "bk" /\ HasMacroUndo(d)) /\ k # d.mh /\ KeyDownRouted(d, k, again) = KeyDownRest(d, k, again)
  BY DEF KeyDownRouted
<1> HIDE DEF claimed
<1> QED BY <1>2, <1>5, <1>6, <1>7, <1>8, <1>9, <1>10

\* The flags are taken over: new ones end what was tracked.
LEMMA RefreshesReady ==
  ASSUME NEW d, Placed(d)
  PROVE  LET b == RefreshKeyRouting(d)
         IN /\ Placed(b) /\ b.out = d.out /\ b.on = d.on /\ b.eng = d.eng /\ b.comp = d.comp /\ b.text = d.text
            /\ b.grant = d.grant /\ b.seen = d.seen /\ b.scope = d.scope
            /\ b.mh = d.mh /\ b.space = d.space
            /\ b = d \/ b.mundo = <<>>
            /\ Fits(b) /\ (~Routed(b) => ~(b.cache.en /\ b.cache.tsf))
<1> DEFINE f == d.shared
           new == [en  |-> f.en,
                   tsf |-> IF f.en THEN f.tsf ELSE d.cache.tsf,
                   vn  |-> IF f.en /\ f.tsf THEN f.vn ELSE d.cache.vn]
           m == ClearMacroTracking(d)
           c == [m EXCEPT !.cache = new]
           Good(b) ==
             /\ Placed(b) /\ b.out = d.out /\ b.on = d.on /\ b.eng = d.eng /\ b.comp = d.comp /\ b.text = d.text
             /\ b.grant = d.grant /\ b.seen = d.seen /\ b.scope = d.scope
             /\ b.mh = d.mh /\ b.space = d.space
             /\ b = d \/ b.mundo = <<>>
             /\ Fits(b) /\ (~Routed(b) => ~(b.cache.en /\ b.cache.tsf))
<1>1. \A b : b.cache = new /\ b.shared = f => Fits(b) /\ (~Routed(b) => ~(b.cache.en /\ b.cache.tsf))
  BY DEF Fits, Routed, Flags
<1>2. RefreshKeyRouting(d) = IF new = d.cache THEN d ELSE c
  BY DEF RefreshKeyRouting
<1> HIDE DEF new
<1>3. /\ Placed(m) /\ m.out = d.out /\ m.on = d.on /\ m.eng = d.eng /\ m.comp = d.comp /\ m.text = d.text
      /\ m.grant = d.grant /\ m.seen = d.seen /\ m.scope = d.scope /\ m.shared = d.shared
      /\ m.mh = d.mh /\ m.space = d.space /\ m.mundo = <<>>
  <2>1. Placed(m) /\ m.mundo = <<>>
    <3>1. Leaves(d, d)
      BY InARow
    <3>2. Leaves(d, m)
      BY <3>1, TrackersLeave
    <3> QED BY <3>2, NoUndoLeft DEF Leaves
  <2>2. AllParts \subseteq DOMAIN d
    BY DEF Placed
  <2> QED BY <2>1, <2>2 DEF ClearMacroTracking, ResetMacroUndo, AllParts
<1> HIDE DEF m
<1>4. Good(c)
  <2>1. /\ Placed(c) /\ c.out = m.out /\ c.on = m.on /\ c.eng = m.eng /\ c.comp = m.comp /\ c.text = m.text
        /\ c.grant = m.grant /\ c.seen = m.seen /\ c.scope = m.scope /\ c.shared = m.shared
        /\ c.mh = m.mh /\ c.space = m.space /\ c.mundo = m.mundo /\ c.cache = new
    BY <1>3 DEF Placed, AllParts
  <2> HIDE DEF c
  <2> QED BY <1>1, <1>3, <2>1
<1>5. new = d.cache => Good(d)
  BY <1>1
<1> HIDE DEF c, Good
<1>6. Good(RefreshKeyRouting(d))
  BY <1>2, <1>4, <1>5
<1> QED BY <1>6 DEF Good

LEMMA FlagsReady ==
  ASSUME NEW d, Placed(d)
  PROVE  LET b == RefreshFeatureFlags(d) IN Placed(b) /\ b.on = d.on /\ b.mh = d.mh
<1> DEFINE m == ClearMacroTracking(d)
           c == [m EXCEPT !.cache = d.shared]
<1>1. Placed(m) /\ m.on = d.on /\ m.mh = d.mh
  <2>1. Leaves(d, d)
    BY InARow
  <2>2. Leaves(d, m)
    BY <2>1, TrackersLeave
  <2>3. AllParts \subseteq DOMAIN d
    BY DEF Placed
  <2>4. m.on = d.on /\ m.mh = d.mh
    BY <2>3 DEF ClearMacroTracking, ResetMacroUndo, AllParts
  <2> QED BY <2>2, <2>4 DEF Leaves
<1>2. RefreshFeatureFlags(d) = IF d.shared = d.cache THEN d ELSE c
  BY DEF RefreshFeatureFlags
<1> HIDE DEF m
<1>3. Placed(c) /\ c.on = m.on /\ c.mh = m.mh
  BY <1>1 DEF Placed, AllParts
<1> HIDE DEF c
<1> QED BY <1>1, <1>2, <1>3

(* The field a composition is in has been read, and is not one to keep out of. *)
Open(d) == d.on => d.seen /\ ~d.scope

(* The callback knows the flags and has dropped what the key ends. *)
Begun(d, k, c) ==
  /\ Placed(c) /\ c.out = "go" /\ c.on = d.on /\ c.grant = d.grant
  /\ c.seen = d.seen /\ c.scope = d.scope
  /\ Quiet(c) /\ Open(c) /\ Fits(c) /\ (~Routed(c) => ~(c.cache.en /\ c.cache.tsf))
  /\ (c.space => d.space /\ k = " ") /\ (d.space /\ k = " " => c.space)

\* What both callbacks do first.
LEMMA FrontsReady ==
  ASSUME NEW d, Placed(d), Quiet(d), Open(d), NEW k
  PROVE  LET c == RefreshKeyRouting([d EXCEPT !.out = "go"])
         IN /\ LET r == OtherKeyDropsClaim([IF k # "bk" THEN ResetMacroUndo(c) ELSE c EXCEPT !.obs = "", !.mh = ""], k)
               IN Begun(d, k, r) /\ r.mh = ""
            /\ LET r == OtherKeyDropsClaim(IF k # "bk" /\ k # c.mh THEN ResetMacroUndo(c) ELSE c, k)
               IN Begun(d, k, r) /\ r.mh = d.mh /\ (k # "bk" /\ k # r.mh => r.mundo = <<>>)
<1> DEFINE a == [d EXCEPT !.out = "go"]
           c == RefreshKeyRouting(a)
           n == ResetMacroUndo(c)
           Near(b) == /\ Placed(b) /\ b.out = "go" /\ b.on = d.on /\ b.grant = d.grant
                      /\ b.seen = d.seen /\ b.scope = d.scope
                      /\ Quiet(b) /\ Fits(b) /\ (~Routed(b) => ~(b.cache.en /\ b.cache.tsf))
                      /\ b.space = d.space
<1>1. /\ Placed(a) /\ a.on = d.on /\ a.grant = d.grant /\ a.seen = d.seen /\ a.scope = d.scope
      /\ a.out = "go" /\ a.mh = d.mh /\ a.space = d.space
      /\ a.mundo = d.mundo /\ a.mlate = d.mlate /\ a.cache = d.cache
  BY DEF Placed, AllParts
<1> HIDE DEF a
<1>2. Near(c) /\ c.mh = d.mh
  <2>1. /\ Placed(c) /\ c.out = a.out /\ c.on = a.on
        /\ c.grant = a.grant /\ c.seen = a.seen /\ c.scope = a.scope
        /\ c.mh = a.mh /\ c.space = a.space /\ (c = a \/ c.mundo = <<>>)
        /\ Fits(c) /\ (~Routed(c) => ~(c.cache.en /\ c.cache.tsf))
    BY <1>1, RefreshesReady
  <2> HIDE DEF c
  <2>2. Quiet(c)
    BY <1>1, <2>1 DEF Quiet, UndoDue
  <2> QED BY <1>1, <2>1, <2>2
<1> HIDE DEF c
<1>3. Near(n) /\ n.mh = c.mh /\ n.mundo = <<>>
  <2>1. Leaves(c, c)
    BY <1>2, InARow
  <2>2. Leaves(c, n) /\ n.mundo = <<>> /\ Placed(n)
    BY <1>2, <2>1, TrackersLeave, NoUndoLeft DEF Leaves
  <2>3. n.out = c.out /\ n.on = c.on
    <3>1. AllParts \subseteq DOMAIN c
      BY <1>2 DEF Placed
    <3> QED BY <3>1 DEF ResetMacroUndo, AllParts
  <2> HIDE DEF n
  <2> QED BY <1>2, <2>2, <2>3 DEF Leaves, Around, Quiet, UndoDue, Fits, Routed, Flags
<1> HIDE DEF n
<1>4. ASSUME NEW b, Near(b)
      PROVE  LET o == OtherKeyDropsClaim(b, k)
             IN Begun(d, k, o) /\ o.mh = b.mh /\ o.mundo = b.mundo
  <2> DEFINE o == OtherKeyDropsClaim(b, k)
  <2>1. /\ Placed(o) /\ o.out = b.out /\ o.on = b.on /\ o.grant = b.grant /\ o.seen = b.seen /\ o.scope = b.scope
        /\ o.mundo = b.mundo /\ o.mlate = b.mlate /\ o.cache = b.cache /\ o.shared = b.shared /\ o.mh = b.mh
        /\ o.space = IF k = " " THEN b.space ELSE FALSE
    BY <1>4 DEF OtherKeyDropsClaim, Placed, AllParts
  <2> HIDE DEF o
  <2>2. Begun(d, k, o)
    BY <1>4, <2>1 DEF Begun, Quiet, Open, UndoDue, Fits, Routed, Flags
  <2> QED BY <2>1, <2>2 DEF o
<1>5. ASSUME NEW b, Near(b)
      PROVE  LET o == [b EXCEPT !.obs = "", !.mh = ""]
             IN Near(o) /\ o.mh = ""
  <2> DEFINE o == [b EXCEPT !.obs = "", !.mh = ""]
  <2>1. /\ Placed(o) /\ o.out = b.out /\ o.on = b.on /\ o.grant = b.grant /\ o.seen = b.seen /\ o.scope = b.scope
        /\ o.mundo = b.mundo /\ o.mlate = b.mlate /\ o.cache = b.cache /\ o.shared = b.shared
        /\ o.space = b.space /\ o.mh = ""
    BY <1>5 DEF Placed, AllParts
  <2> HIDE DEF o
  <2>2. Near(o)
    BY <1>5, <2>1 DEF Quiet, UndoDue, Fits, Routed, Flags
  <2> HIDE DEF Near
  <2> QED BY <2>1, <2>2 DEF o
<1> HIDE DEF Near
<1> DEFINE p == IF k # "bk" THEN n ELSE c
           q == IF k # "bk" /\ k # c.mh THEN n ELSE c
           e == [p EXCEPT !.obs = "", !.mh = ""]
<1>6. Near(p) /\ Near(q) /\ q.mh = d.mh /\ (k # "bk" /\ k # q.mh => q.mundo = <<>>)
  BY <1>2, <1>3
<1> HIDE DEF p, q
<1>7. Near(e) /\ e.mh = ""
  BY <1>5, <1>6
<1> HIDE DEF e
<1>8. /\ LET r == OtherKeyDropsClaim(e, k) IN Begun(d, k, r) /\ r.mh = ""
      /\ LET r == OtherKeyDropsClaim(q, k)
         IN Begun(d, k, r) /\ r.mh = d.mh /\ (k # "bk" /\ k # r.mh => r.mundo = <<>>)
  BY <1>4, <1>6, <1>7
<1> QED BY <1>8 DEF e, p, q, n, c, a

\* The field is read, and one to keep out of has no composition.
LEMMA FieldsReady ==
  ASSUME NEW d, NEW k, NEW c, Begun(d, k, c)
  PROVE  LET e == CheckContextBlocked(c)
         IN /\ Placed(e) /\ e.out = "go" /\ e.on = d.on /\ e.grant = d.grant /\ e.mh = c.mh
            /\ e.mundo = c.mundo /\ e.shared = c.shared /\ e.space = c.space
            /\ e.seen /\ e.scope = e.blocked /\ Quiet(e) /\ Open(e) /\ Fits(e)
            /\ e.blocked => ~e.on
<1> DEFINE scope == IF c.seen THEN c.scope ELSE Granted(c) /\ c.secret
           e == [c EXCEPT !.seen = TRUE, !.scope = scope, !.blocked = scope]
<1>1. CheckContextBlocked(c) = e
  BY DEF CheckContextBlocked
<1>2. c.on => ~scope
  BY DEF Begun, Open
<1> HIDE DEF scope
<1>3. /\ Placed(e) /\ e.out = c.out /\ e.on = c.on /\ e.grant = c.grant /\ e.mh = c.mh
      /\ e.mundo = c.mundo /\ e.mlate = c.mlate /\ e.cache = c.cache /\ e.shared = c.shared /\ e.space = c.space
      /\ e.seen = TRUE /\ e.scope = scope /\ e.blocked = scope
  BY DEF Begun, Placed, AllParts
<1> HIDE DEF e
<1>4. /\ Placed(e) /\ e.out = "go" /\ e.on = d.on /\ e.grant = d.grant /\ e.mh = c.mh
      /\ e.mundo = c.mundo /\ e.shared = c.shared /\ e.space = c.space
      /\ e.seen /\ e.scope = e.blocked /\ Quiet(e) /\ Open(e) /\ Fits(e)
      /\ e.blocked => ~e.on
  BY <1>2, <1>3 DEF Begun, Quiet, Open, UndoDue, Fits, Routed, Flags
<1> QED BY <1>1, <1>4

(* What the two callbacks leave behind. *)
Tested(d, k, t) ==
  /\ Placed(t) /\ Quiet(t) /\ Open(t) /\ t.grant = d.grant
  /\ t.mh \in {"", k} /\ (t.on => d.on /\ t.mh = "")
  /\ t.space => d.space /\ k = " "
  /\ d.grant = "ok" /\ t.on /\ t.out # "eat" => ~(t.cache.en /\ t.cache.tsf)
Pressed(d, k, again, r) ==
  /\ Placed(r) /\ Quiet(r) /\ Open(r) /\ r.grant = d.grant
  /\ d.mh = "" => r.mh = ""
  /\ r.space => k = " "
  /\ d.space /\ k = " " /\ ~again => (r.on <=> d.on)
  /\ /\ d.grant = "ok" /\ r.on
     /\ k = d.mh => ~d.on
     /\ d.space /\ k = " " /\ ~again => ~d.on
     => \/ IsEnglishMacroTrackingActive(r)
        \/ Shown(r) /\ k # " " /\ r.out = "eat" /\ r.cache.en /\ r.cache.tsf

\* Where the keys do not come here.
LEMMA InactiveIs ==
  ASSUME NEW c, Placed(c), Quiet(c)
  PROVE  LET o == Pass(ClearInactiveKeyState(c))
         IN /\ Placed(o) /\ Quiet(o) /\ o.on = c.on /\ o.grant = c.grant /\ o.mh = ""
            /\ o.cache = c.cache /\ o.seen = c.seen /\ o.scope = c.scope /\ o.space = c.space
<1> DEFINE r == Remember(c, "", FALSE)
           m == ClearMacroTracking(r)
           n == [m EXCEPT !.obs = "", !.mh = "", !.mhEat = FALSE]
           o == [n EXCEPT !.out = "pass"]
<1>1. /\ Placed(r) /\ r.on = c.on /\ r.grant = c.grant
      /\ r.cache = c.cache /\ r.seen = c.seen /\ r.scope = c.scope /\ r.space = c.space
  BY DEF Remember, Placed, AllParts
<1> HIDE DEF r
<1>2. /\ Placed(m) /\ m.on = r.on /\ m.grant = r.grant /\ m.mundo = <<>>
      /\ m.cache = r.cache /\ m.seen = r.seen /\ m.scope = r.scope /\ m.space = r.space
  <2>1. Leaves(r, r)
    BY <1>1, InARow
  <2>2. Leaves(r, m) /\ m.mundo = <<>>
    BY <1>1, <2>1, TrackersLeave, NoUndoLeft
  <2>3. m.on = r.on
    <3>1. AllParts \subseteq DOMAIN r
      BY <1>1 DEF Placed
    <3> QED BY <3>1 DEF ClearMacroTracking, ResetMacroUndo, AllParts
  <2> HIDE DEF m
  <2> QED BY <2>2, <2>3 DEF Leaves, Around
<1> HIDE DEF m
<1>3. /\ Placed(n) /\ n.on = m.on /\ n.grant = m.grant /\ n.mundo = m.mundo /\ n.mh = ""
      /\ n.cache = m.cache /\ n.seen = m.seen /\ n.scope = m.scope /\ n.space = m.space
  BY <1>2 DEF Placed, AllParts
<1> HIDE DEF n
<1>4. /\ Placed(o) /\ o.on = n.on /\ o.grant = n.grant /\ o.mundo = n.mundo /\ o.mh = n.mh
      /\ o.cache = n.cache /\ o.seen = n.seen /\ o.scope = n.scope /\ o.space = n.space
  BY <1>3 DEF Placed, AllParts
<1>5. Pass(ClearInactiveKeyState(c)) = o
  BY DEF Pass, ClearInactiveKeyState, n, m, r
<1> HIDE DEF o
<1> QED BY <1>1, <1>2, <1>3, <1>4, <1>5 DEF Quiet, UndoDue

\* The first callback.
LEMMA TestCallback ==
  ASSUME NEW d, Placed(d), Quiet(d), Open(d), NEW k \in Chars, NEW again
  PROVE  Tested(d, k, OnTestKeyDown(d, k, again))
<1> DEFINE c == RefreshKeyRouting([d EXCEPT !.out = "go"])
           f == [IF k # "bk" THEN ResetMacroUndo(c) ELSE c EXCEPT !.obs = "", !.mh = ""]
           r == OtherKeyDropsClaim(f, k)
           e == CheckContextBlocked(r)
           in == Pass(ClearInactiveKeyState(r))
           bl == Pass(ClearMacroTracking(e))
           t == TestRouted(e, k)
<1>1. OnTestKeyDown(d, k, again) =
        IF ShouldSuppressClaimedKeyDown(r, k, again) THEN Eat(r)
        ELSE IF ~Routed(r) THEN in ELSE IF e.blocked THEN bl ELSE t
  BY DEF OnTestKeyDown
<1>2. Begun(d, k, r) /\ r.mh = ""
  BY FrontsReady
<1> HIDE DEF r
<1>3. /\ Placed(e) /\ e.out = "go" /\ e.on = d.on /\ e.grant = d.grant /\ e.mh = ""
      /\ e.space = r.space /\ Quiet(e) /\ Open(e) /\ (e.blocked => ~e.on)
  BY <1>2, FieldsReady
<1> HIDE DEF e
<1>4. Tested(d, k, Eat(r))
  <2>1. Leaves(r, r)
    BY <1>2, InARow DEF Begun
  <2>2. Leaves(r, Eat(r)) /\ Eat(r).on = r.on /\ Eat(r).out = "eat"
    BY <2>1, AnswersLeave
  <2>3. Quiet(Eat(r))
    BY <1>2, <2>2, LeavesDown DEF Begun
  <2> QED BY <1>2, <2>2, <2>3 DEF Tested, Begun, Leaves, Around, Open
<1>5. ~Routed(r) => Tested(d, k, in)
  <2>1. /\ Placed(in) /\ Quiet(in) /\ in.on = r.on /\ in.grant = r.grant /\ in.mh = ""
        /\ in.cache = r.cache /\ in.seen = r.seen /\ in.scope = r.scope /\ in.space = r.space
    BY <1>2, InactiveIs DEF Begun
  <2> HIDE DEF in
  <2> QED BY <1>2, <2>1 DEF Tested, Begun, Open
<1>6. e.blocked => Tested(d, k, bl)
  <2>1. Leaves(e, e)
    BY <1>3, InARow
  <2> DEFINE m == ClearMacroTracking(e)
  <2>2. Leaves(e, m)
    BY <2>1, TrackersLeave
  <2> HIDE DEF m
  <2>3. Leaves(e, Pass(m))
    BY <2>2, AnswersLeave
  <2>4. Leaves(e, bl)
    BY <2>3 DEF m
  <2> HIDE DEF bl
  <2> QED BY <1>2, <1>3, <2>4 DEF Tested, Begun, Leaves, Around, Open, Quiet
<1>7. Tested(d, k, t)
  <2>1. Tests(e, k, t)
    BY <1>3, TestRoutedTests
  <2> HIDE DEF t
  <2> QED BY <1>2, <1>3, <2>1 DEF Tested, Tests, Begun, Open, Quiet, UndoDue, SameUndo
<1> HIDE DEF in, bl, t
<1> QED BY <1>1, <1>4, <1>5, <1>6, <1>7

\* The second callback.
LEMMA DownCallback ==
  ASSUME NEW d, Placed(d), Quiet(d), Open(d), NEW k \in Chars, NEW again
  PROVE  Pressed(d, k, again, OnKeyDown(d, k, again))
<1> DEFINE c == RefreshKeyRouting([d EXCEPT !.out = "go"])
           f == IF k # "bk" /\ k # c.mh THEN ResetMacroUndo(c) ELSE c
           r == OtherKeyDropsClaim(f, k)
           e == CheckContextBlocked(r)
           in == Pass(CommitBeforeInactiveBypass(r))
           bl == Pass(ClearMacroTracking(e))
           s == Resync(e)
           t == KeyDownRouted(s, k, again)
<1>1. OnKeyDown(d, k, again) =
        IF ShouldSuppressClaimedKeyDown(r, k, again) THEN Eat(r)
        ELSE IF ~Routed(r) THEN in ELSE IF e.blocked THEN bl ELSE t
  BY DEF OnKeyDown
<1>2. Begun(d, k, r) /\ r.mh = d.mh /\ (k # "bk" /\ k # r.mh => r.mundo = <<>>)
  BY FrontsReady
<1> HIDE DEF r
<1>3. /\ Placed(e) /\ e.out = "go" /\ e.on = d.on /\ e.grant = d.grant /\ e.mh = d.mh
      /\ e.mundo = r.mundo /\ e.shared = r.shared
      /\ e.space = r.space /\ Quiet(e) /\ Open(e) /\ Fits(e) /\ e.seen /\ e.scope = e.blocked
      /\ (e.blocked => ~e.on)
  BY <1>2, FieldsReady
<1> HIDE DEF e
<1>4. ShouldSuppressClaimedKeyDown(r, k, again) <=> r.space /\ k = " " /\ ~again
  BY DEF ShouldSuppressClaimedKeyDown
<1>5. d.space /\ k = " " /\ ~again => ShouldSuppressClaimedKeyDown(r, k, again)
  BY <1>2, <1>4 DEF Begun
<1>6. r.space /\ k = " " /\ ~again => Pressed(d, k, again, Eat(r))
  <2>1. Leaves(r, r)
    BY <1>2, InARow DEF Begun
  <2>2. Leaves(r, Eat(r)) /\ Eat(r).on = r.on
    BY <2>1, AnswersLeave
  <2>3. Quiet(Eat(r))
    BY <1>2, <2>2, LeavesDown DEF Begun
  <2> QED BY <1>2, <2>2, <2>3 DEF Pressed, Begun, Leaves, Around, Open
<1>7. ~(d.space /\ k = " " /\ ~again) /\ ~Routed(r) => Pressed(d, k, again, in)
  <2> DEFINE n == IF r.on \/ Buffer(r) THEN Commit(r) ELSE r
  <2>1. Leaves(r, r) /\ Quiet(r) /\ r.grant = d.grant
    BY <1>2, InARow DEF Begun
  <2>2. Leaves(r, n) /\ (Granted(r) => ~n.on)
    <3>1. Leaves(r, Commit(r)) /\ (Granted(r) => ~Commit(r).on)
      BY <2>1, EndsLeave
    <3> QED BY <2>1, <3>1
  <2>3. in = Pass(ClearInactiveKeyState(n))
    BY DEF CommitBeforeInactiveBypass
  <2> HIDE DEF n, in
  <2>4. Placed(n) /\ Quiet(n)
    BY <2>1, <2>2, LeavesDown DEF Leaves
  <2>5. /\ Placed(in) /\ Quiet(in) /\ in.on = n.on /\ in.grant = n.grant /\ in.mh = ""
        /\ in.cache = n.cache /\ in.seen = n.seen /\ in.scope = n.scope /\ in.space = n.space
    BY <2>3, <2>4, InactiveIs
  <2> QED BY <1>2, <2>1, <2>2, <2>5 DEF Pressed, Begun, Leaves, Around, Open, Granted
<1>8. ~(d.space /\ k = " " /\ ~again) /\ e.blocked => Pressed(d, k, again, bl)
  <2>1. Leaves(e, e)
    BY <1>3, InARow
  <2> DEFINE m == ClearMacroTracking(e)
  <2>2. Leaves(e, m)
    BY <2>1, TrackersLeave
  <2> HIDE DEF m
  <2>3. Leaves(e, Pass(m))
    BY <2>2, AnswersLeave
  <2>4. Leaves(e, bl)
    BY <2>3 DEF m
  <2> HIDE DEF bl
  <2> QED BY <1>2, <1>3, <2>4 DEF Pressed, Begun, Leaves, Around, Open, Quiet
<1>9. ~(d.space /\ k = " " /\ ~again) /\ Routed(r) /\ ~e.blocked => Pressed(d, k, again, t)
  <2> SUFFICES ASSUME ~(d.space /\ k = " " /\ ~again), Routed(r), ~e.blocked
               PROVE  Pressed(d, k, again, t)
    OBVIOUS
  <2>1. Leaves(e, s) /\ SameUndo(e, s) /\ Synced(s)
    BY <1>3, SyncLeaves
  <2> HIDE DEF s
  <2>2. Placed(s) /\ Quiet(s)
    BY <1>3, <2>1, LeavesDown DEF Leaves
  <2>3. Routed(s) /\ Fits(s) /\ ~s.blocked /\ (k # "bk" /\ k # s.mh => s.mundo = <<>>)
    BY <1>2, <1>3, <2>1 DEF Leaves, Around, SameUndo, Fits, Routed, Flags
  <2>4. Down(s, k, t)
    BY <2>1, <2>2, <2>3, KeyDownRoutedDown
  <2> HIDE DEF t
  <2>5. /\ s.grant = d.grant /\ s.mh = d.mh /\ s.cache.en /\ s.cache.tsf /\ (s.on => d.on)
        /\ s.seen /\ ~s.scope /\ s.space = e.space
    BY <1>2, <1>3, <2>1, <2>3 DEF Leaves, Around, Fits
  <2> QED BY <1>2, <1>3, <2>4, <2>5 DEF Pressed, Down, Begun, Open
<1> HIDE DEF in, bl, t
<1> QED BY <1>1, <1>4, <1>5, <1>6, <1>7, <1>8, <1>9

\* A key of the application's own.
LEMMA HostKeyLeaves ==
  ASSUME NEW d, Placed(d), NEW k
  PROVE  LET c == HostKey(d, k) IN Leaves(d, c) /\ c.on = d.on
<1> DEFINE typed == k \in {"a", "s", " ", ".", "ret"}
           from == IF k = "bk" /\ ~d.sel /\ d.caret > 0 THEN d.caret - 1 ELSE d.caret
           n == d.caret - from + Selected(d)
           new == IF typed THEN <<k>> ELSE <<>>
           s == SetText(d, from, n, new)
           left == IF d.sel THEN [d EXCEPT !.sel = FALSE]
                   ELSE [d EXCEPT !.caret = IF d.caret > 0 THEN d.caret - 1 ELSE 0]
           esc == [d EXCEPT !.escs = TRUE]
<1>1. d.caret \in Nat /\ d.caret <= Len(d.text) /\ Len(d.text) \in Nat /\ Selected(d) \in Nat /\ d.text \in Texts
  BY LenProperties DEF Placed, Texts, Selected
<1>2. from \in 0..Len(d.text) /\ n \in Nat
  <2>1. from \in 0..Len(d.text) /\ d.caret - from \in Nat
    BY <1>1
  <2> HIDE DEF from
  <2> QED BY <1>1, <2>1
<1>3. new \in Texts
  <2>1. \A c \in Chars : <<c>> \in Texts
    BY <1>1, FrontsAreTexts
  <2>2. typed => k \in Chars
    BY DEF Chars, Keys
  <2> QED BY <1>1, <2>1, <2>2, FrontsAreTexts
<1> HIDE DEF from, n, new
<1>4. Leaves(d, s) /\ s.on = d.on
  BY <1>2, <1>3, SetTextLeaves
<1>5. Leaves(d, left) /\ left.on = d.on
  BY <1>1 DEF Leaves, Placed, Around, SameUndo, AllParts
<1>6. Leaves(d, esc) /\ esc.on = d.on
  BY DEF Leaves, Placed, Around, SameUndo, AllParts
<1>7. Leaves(d, d)
  BY InARow
<1>8. HostKey(d, k) \in {s, left, esc, d}
  BY DEF HostKey, s, new, n, from
<1> HIDE DEF s, left, esc
<1> QED BY <1>4, <1>5, <1>6, <1>7, <1>8

(* The same word, in the same place. *)
SameScreen(d, c) ==
  /\ c.on = d.on /\ c.comp = d.comp /\ c.text = d.text /\ c.eng = d.eng
  /\ c.cache = d.cache /\ c.shared = d.shared /\ c.blocked = d.blocked /\ c.seen = d.seen /\ c.scope = d.scope
  /\ c.mundo = d.mundo /\ c.mlate = d.mlate /\ c.mh = d.mh /\ c.space = d.space

\* Between two callbacks the answers are as new.
LEMMA SettledLeaves ==
  ASSUME NEW d, Placed(d)
  PROVE  LET s == Settled(d) IN Placed(s) /\ SameScreen(d, s) /\ s.grant = "ok"
BY DEF Settled, Placed, SameScreen, AllParts

(* A key that has been through its second callback. *)
Through(d, k, again, a) ==
  /\ Placed(a) /\ Quiet(a) /\ Open(a)
  /\ d.mh = "" => a.mh = ""
  /\ a.space => k = " "
  /\ d.space /\ k = " " /\ ~again => (a.on <=> d.on)
  /\ /\ d.grant = "ok" /\ a.on
     /\ k = d.mh => ~d.on
     /\ d.space /\ k = " " /\ ~again => ~d.on
     => \/ IsEnglishMacroTrackingActive(a)
        \/ Shown(a) /\ k # " " /\ a.cache.en /\ a.cache.tsf

\* The second callback, and the application where it has not eaten the key.
LEMMA KeyGoesThrough ==
  ASSUME NEW d, Placed(d), Quiet(d), Open(d), NEW k \in Chars, NEW again
  PROVE  Through(d, k, again, Applied(OnKeyDown(d, k, again), k))
<1> DEFINE r == OnKeyDown(d, k, again)
           h == HostKey(r, k)
           b == IF r.out = "pass" THEN h ELSE r
           a == Settled(b)
<1>1. Pressed(d, k, again, r)
  BY DownCallback
<1> HIDE DEF r
<1>2. Leaves(r, h) /\ h.on = r.on
  BY <1>1, HostKeyLeaves DEF Pressed
<1> HIDE DEF h
<1>3. Leaves(r, b) /\ b.on = r.on /\ (r.out = "eat" => b = r)
  <2>1. Leaves(r, r)
    BY <1>1, InARow DEF Pressed
  <2> QED BY <1>2, <2>1
<1> HIDE DEF b
<1>4. Placed(b) /\ Quiet(b)
  BY <1>1, <1>3, LeavesDown DEF Leaves, Pressed
<1>5. Placed(a) /\ SameScreen(b, a)
  BY <1>4, SettledLeaves
<1> HIDE DEF a
<1>6. Quiet(a)
  BY <1>4, <1>5 DEF SameScreen, Quiet, UndoDue
<1>7. /\ a.on = r.on /\ a.mh = r.mh /\ a.space = r.space /\ a.seen = r.seen /\ a.scope = r.scope
      /\ a.cache = r.cache /\ a.shared = r.shared /\ a.blocked = r.blocked
  BY <1>3, <1>5 DEF SameScreen, Leaves, Around
<1>8. r.out = "eat" /\ Shown(r) => Shown(a)
  BY <1>3, <1>5 DEF SameScreen, Shown, Shows, Buffer
<1>9. IsEnglishMacroTrackingActive(r) => IsEnglishMacroTrackingActive(a)
  BY <1>7 DEF IsEnglishMacroTrackingActive, Routed, Flags
<1>10. Through(d, k, again, a)
  BY <1>1, <1>5, <1>6, <1>7, <1>8, <1>9 DEF Through, Pressed, Open
<1>11. Applied(r, k) = a
  BY DEF Applied, a, b, h
<1> QED BY <1>10, <1>11 DEF r

(* A key that has been through its first. *)
Offered(d, k, t) ==
  /\ Placed(t) /\ Quiet(t) /\ Open(t)
  /\ t.mh \in {"", k} /\ (t.on => d.on /\ t.mh = "")
  /\ t.space => d.space /\ k = " "

\* The first callback.
LEMMA KeyIsOffered ==
  ASSUME NEW d, Placed(d), Quiet(d), Open(d), NEW k \in Chars, NEW again
  PROVE  LET o == OnTestKeyDown(d, k, again)
             t == Settled(o)
         IN /\ Offered(d, k, t)
            /\ d.grant = "ok" /\ t.on /\ o.out # "eat" => ~(t.cache.en /\ t.cache.tsf)
<1> DEFINE o == OnTestKeyDown(d, k, again)
           t == Settled(o)
<1>1. Tested(d, k, o)
  BY TestCallback
<1> HIDE DEF o
<1>2. Placed(t) /\ SameScreen(o, t)
  BY <1>1, SettledLeaves DEF Tested
<1> HIDE DEF t
<1>3. Quiet(t) /\ Open(t)
  BY <1>1, <1>2 DEF Tested, SameScreen, Quiet, Open, UndoDue
<1>4. /\ Offered(d, k, t)
      /\ d.grant = "ok" /\ t.on /\ o.out # "eat" => ~(t.cache.en /\ t.cache.tsf)
  BY <1>1, <1>2, <1>3 DEF Offered, Tested, SameScreen
<1> QED BY <1>4 DEF t, o

(* Every session was granted, no key came between two callbacks of another, and no
   word has been left open where the keys no longer come. *)
Peace == Undisturbed /\ "left open" \notin upsets

(* Between two callbacks, under a held space bar and in every kind of host: where
   a word may be under way, and where it may not. *)
WordInv ==
  /\ desk \in Desks
  /\ Placed(w) /\ Quiet(w) /\ Open(w)
  /\ desk.host = "single" => phase = NoKey /\ w.mh = ""
  /\ phase # NoKey =>
       /\ phase.key \in Keys
       /\ w.mh \in {"", phase.key} /\ (w.mh # "" => ~w.on)
       /\ phase.key = " " => held
       /\ desk.host = "classic" /\ ~phase.ate /\ Peace => ~w.on
  /\ w.space => held
  /\ Peace /\ w.space /\ ~(phase # NoKey /\ phase.again) => ~w.on
  /\ WordInStep

\* What a callback begins with.
LEMMA CallbackBegins ==
  ASSUME NEW d, Placed(d), Quiet(d), Open(d)
  PROVE  /\ \A g : LET c == [d EXCEPT !.grant = g]
                  IN Placed(c) /\ SameScreen(d, c) /\ Quiet(c) /\ Open(c) /\ c.grant = g
         /\ \A g : LET c == [d EXCEPT !.grant = g, !.grown = FALSE, !.undone = FALSE, !.escs = FALSE]
                  IN Placed(c) /\ SameScreen(d, c) /\ Quiet(c) /\ Open(c) /\ c.grant = g
         /\ LET c == [d EXCEPT !.grown = FALSE, !.undone = FALSE, !.escs = FALSE]
            IN Placed(c) /\ SameScreen(d, c) /\ Quiet(c) /\ Open(c) /\ c.grant = d.grant
         /\ \A n : LET c == [d EXCEPT !.timers = n, !.repost = FALSE, !.grown = FALSE, !.undone = FALSE,
                                     !.escs = FALSE]
                  IN Placed(c) /\ SameScreen(d, c) /\ Quiet(c) /\ Open(c) /\ c.grant = d.grant
<1>1. ASSUME NEW c, SameScreen(d, c) PROVE Quiet(c) /\ Open(c)
  BY <1>1 DEF SameScreen, Quiet, Open, UndoDue
<1>2. ASSUME NEW g
      PROVE  LET c == [d EXCEPT !.grant = g]
             IN Placed(c) /\ SameScreen(d, c) /\ c.grant = g
  BY DEF Placed, SameScreen, AllParts
<1>3. ASSUME NEW g
      PROVE  LET c == [d EXCEPT !.grant = g, !.grown = FALSE, !.undone = FALSE, !.escs = FALSE]
             IN Placed(c) /\ SameScreen(d, c) /\ c.grant = g
  BY DEF Placed, SameScreen, AllParts
<1>4. LET c == [d EXCEPT !.grown = FALSE, !.undone = FALSE, !.escs = FALSE]
      IN Placed(c) /\ SameScreen(d, c) /\ c.grant = d.grant
  BY DEF Placed, SameScreen, AllParts
<1>5. ASSUME NEW n
      PROVE  LET c == [d EXCEPT !.timers = n, !.repost = FALSE, !.grown = FALSE, !.undone = FALSE, !.escs = FALSE]
             IN Placed(c) /\ SameScreen(d, c) /\ c.grant = d.grant
  BY DEF Placed, SameScreen, AllParts
<1> QED BY <1>1, <1>2, <1>3, <1>4, <1>5

\* With no composition there is nothing to be out of step, and a word that is shown
\* where the keys come here is in step.
LEMMA InStep ==
  ASSUME Placed(w), Joined(w)
  PROVE  /\ ~w.on => WordInStep
         /\ Shown(w) /\ w.cache.en /\ w.cache.tsf => WordInStep
         /\ ~Done \/ ~Peace => WordInStep
<1>1. w.on \in BOOLEAN
  BY DEF Placed
<1> QED BY <1>1 DEF WordInStep, Joined, Shown, Shows, Peace, Buffer

\* The invariant is kept by a key that has been through, and the word is in step
\* after it unless the keys are watched, as upsets notes.
LEMMA ThroughKeeps ==
  ASSUME WordInv, Joined(w)', NEW d, NEW k \in Keys, NEW again, NEW g, Through(d, k, again, w'), SameScreen(w, d),
         d.grant = g, phase' = NoKey, desk' = desk,
         k = " " \/ held => held',
         Peace' => /\ g = "ok" /\ ~(w'.on /\ IsEnglishMacroTrackingActive(w'))
                   /\ k = w.mh => ~w.on
                   /\ w.space /\ k = " " /\ ~again => ~w.on
  PROVE  WordInv'
<1>1. k # ""
  BY DEF Keys
<1>2. Placed(w') /\ Quiet(w')  /\ Open(w') /\ (w.mh = "" => w'.mh = "") /\ (w'.space => k = " ")
  BY DEF Through, SameScreen
<1>3. Peace' /\ w'.on => Shown(w') /\ k # " " /\ w'.cache.en /\ w'.cache.tsf
  BY DEF Through, SameScreen
<1>4. Placed(w)' /\ Quiet(w)' /\ Open(w)' /\ desk' \in Desks
  BY <1>2 DEF WordInv, Quiet, UndoDue, Open, Placed, AllParts
<1>5. WordInStep'
  <2>1. (~w.on)' \/ (~Peace)' \/ (Shown(w) /\ w.cache.en /\ w.cache.tsf)'
    BY <1>3 DEF Shown, Shows, Buffer
  <2> QED BY <1>4, <2>1, InStep, PTL
<1> QED BY <1>2, <1>3, <1>4, <1>5 DEF WordInv, NoKey

\* A peace that is kept: what the last callback has not done.
LEMMA PeaceTells ==
  ASSUME NEW S, NEW g \in {"ok", "refused", "nostart"}, upsets' = S \cup UpsetsAfter(g, w, w'), Peace'
  PROVE  /\ g = "ok"
         /\ w'.on => /\ ~(desk.host = "classic" /\ ~(w'.cache.en /\ w'.cache.tsf))
                     /\ ~(phase' = NoKey /\ IsEnglishMacroTrackingActive(w'))
<1>1. g # "ok" => g \in upsets'
  BY DEF UpsetsAfter
<1>2. /\ w'.on
      /\ \/ desk.host = "classic" /\ ~(w'.cache.en /\ w'.cache.tsf)
         \/ phase' = NoKey /\ IsEnglishMacroTrackingActive(w')
      => "left open" \in upsets'
  BY DEF UpsetsAfter
<1>3. upsets' \cap {"refused", "nostart", "between"} = {} /\ "left open" \notin upsets'
  BY DEF Peace, Undisturbed
<1> QED BY <1>1, <1>2, <1>3

\* The answers of a session.
LEMMA GrantsAre == Grants \subseteq {"ok", "refused", "nostart"}
BY DEF Grants

\* The invariant is kept by a key that has been offered.
LEMMA OfferedKeeps ==
  ASSUME WordInv, Joined(w)', NEW d, NEW k \in Keys, NEW again, NEW ate, Offered(d, k, w'), SameScreen(w, d),
         phase' = [key |-> k, again |-> again, ate |-> ate], desk' = desk, desk.host # "single",
         k = " " \/ held => held',
         Peace' => /\ desk.host = "classic" /\ ~ate => ~w'.on
                   /\ w.space /\ k = " " /\ ~again => ~w.on
  PROVE  WordInv'
<1>1. k # "" /\ phase' # NoKey /\ phase'.key = k /\ phase'.again = again /\ phase'.ate = ate
  BY DEF Keys, NoKey
<1>2. /\ Placed(w') /\ Quiet(w') /\ Open(w')
      /\ w'.mh \in {"", k} /\ (w'.on => w.on /\ w'.mh = "")
      /\ w'.space => w.space /\ k = " "
  BY DEF Offered, SameScreen
<1>3. Placed(w)' /\ Quiet(w)' /\ Open(w)' /\ desk' \in Desks
  BY <1>2 DEF WordInv, Quiet, UndoDue, Open, Placed, AllParts
<1>4. WordInStep'
  <2>1. (~Done)'
    BY <1>1 DEF Done
  <2> QED BY <1>3, <2>1, InStep, PTL
<1>5. w'.space => held'
  BY <1>2
<1>6. Peace' /\ w'.space /\ ~(phase' # NoKey /\ phase'.again) => ~w'.on
  BY <1>1, <1>2
<1> QED BY <1>1, <1>2, <1>3, <1>4, <1>5, <1>6 DEF WordInv

\* And by a first callback, in every kind of host.
LEMMA FirstKeeps ==
  ASSUME WordInv, Joined(w)', NEW d, Placed(d), SameScreen(w, d), NEW k \in Keys, NEW again,
         FirstPhase(d, k, again), desk' = desk, phase = NoKey,
         k = " " \/ held => held',
         Peace' => /\ d.grant = "ok"
                   /\ w'.on => /\ ~(desk.host = "classic" /\ ~(w'.cache.en /\ w'.cache.tsf))
                               /\ ~(phase' = NoKey /\ IsEnglishMacroTrackingActive(w'))
                   /\ w.space /\ k = " " /\ ~again => ~w.on
  PROVE  WordInv'
<1>1. k \in Chars /\ k # ""
  BY DEF Chars, Keys
<1>2. Quiet(d) /\ Open(d)
  BY DEF WordInv, SameScreen, Quiet, Open, UndoDue
<1>3. CASE desk.host = "single"
  <2>1. w' = Applied(OnKeyDown(d, k, again), k) /\ phase' = NoKey
    BY <1>3 DEF FirstPhase, KeyPhase
  <2>2. Through(d, k, again, w')
    BY <1>1, <1>2, <2>1, KeyGoesThrough
  <2>3. w.mh = ""
    BY <1>3 DEF WordInv
  <2> QED BY <1>1, <2>1, <2>2, <2>3, ThroughKeeps
<1>4. CASE desk.host # "single"
  <2> DEFINE o == OnTestKeyDown(d, k, again)
  <2>1. w' = Settled(o) /\ phase' = [key |-> k, again |-> again, ate |-> o.out = "eat"]
    BY <1>4 DEF FirstPhase, TestPhase
  <2>2. /\ Offered(d, k, w')
        /\ d.grant = "ok" /\ w'.on /\ o.out # "eat" => ~(w'.cache.en /\ w'.cache.tsf)
    BY <1>1, <1>2, <2>1, KeyIsOffered
  <2> DEFINE ate == o.out = "eat"
  <2>3. phase' = [key |-> k, again |-> again, ate |-> ate]
    BY <2>1
  <2>4. Peace' => /\ desk.host = "classic" /\ ~ate => ~w'.on
                  /\ w.space /\ k = " " /\ ~again => ~w.on
    BY <2>2
  <2> HIDE DEF ate, o
  <2> QED BY <1>4, <2>2, <2>3, <2>4, OfferedKeeps
<1> QED BY <1>3, <1>4

\* And by what leaves word and keys alone, or ends the word.
LEMMA StayKeeps ==
  ASSUME WordInv, Placed(w'), Quiet(w'), Open(w'), WordInStep',
         desk' = desk, phase' = phase, held' = held,
         w'.mh = w.mh, w'.space => w.space, w'.on => w.on, Peace' => Peace
  PROVE  WordInv'
<1>1. Placed(w)' /\ Quiet(w)' /\ Open(w)' /\ desk' \in Desks
  BY DEF WordInv, Quiet, UndoDue, Open, Placed, AllParts
<1> QED BY <1>1 DEF WordInv

\* The application ends the composition.
LEMMA TerminatedLeaves ==
  ASSUME NEW d, Placed(d), Quiet(d), Open(d)
  PROVE  LET c == OnCompositionTerminated(d)
         IN Leaves(d, c) /\ Placed(c) /\ ~c.on /\ Quiet(c) /\ Open(c) /\ c.mh = d.mh /\ c.space = d.space
<1> DEFINE e == EndComposition(d)
           r == Reset(e)
<1>1. Leaves(d, e)
  BY CompositionPlaces
<1> HIDE DEF e
<1>2. Leaves(d, r) /\ ~r.on
  BY <1>1, ResetsLeave
<1> HIDE DEF r
<1>3. Leaves(d, d)
  BY InARow
<1> DEFINE c == IF d.on THEN r ELSE d
<1>4. Leaves(d, c) /\ ~c.on
  BY <1>2, <1>3
<1>5. OnCompositionTerminated(d) = c
  BY DEF OnCompositionTerminated, r, e
<1> HIDE DEF c
<1> QED BY <1>4, <1>5 DEF Leaves, Around, Quiet, Open

\* The start is in the invariant.
LEMMA WordStarts ==
  ASSUME TInit
  PROVE  WordInv
<1>1. desk.text \in Texts
  BY DesksAssumption DEF TInit, Texts
<1>2. /\ <<>> \in Texts /\ Len(desk.text) \in Nat
  BY <1>1, FrontsAreTexts
<1>3. NoRange \in Spans /\ NoRange.at = 0
  BY <1>2 DEF NoRange, Spans
<1>4. EmptyEngine.text \in Texts /\ EmptyEngine.raw \in Texts
  BY <1>2 DEF EmptyEngine
<1>5. NoCommit.text \in Texts /\ NoCommit.raw \in Texts
  BY <1>2 DEF NoCommit
<1>6. Placed(w) /\ ~w.on /\ w.mh = "" /\ w.space = FALSE
  <2>1. /\ AllParts \subseteq DOMAIN w /\ w.on = FALSE /\ w.mh = "" /\ w.space = FALSE
        /\ w.text = desk.text /\ w.caret = Len(desk.text) /\ w.comp = NoRange /\ w.rev = NoRange
        /\ w.eng = EmptyEngine /\ w.last = NoCommit
        /\ w.mbuf = <<>> /\ w.mundo = <<>> /\ w.mwas = <<>>
    BY DEF TInit, NewText, AllParts
  <2>2. w.caret \in 0..Len(w.text) /\ 0 <= Len(w.text)
    <3>1. Len(desk.text) \in 0..Len(desk.text) /\ 0 <= Len(desk.text)
      BY <1>2
    <3> QED BY <2>1, <3>1, Zenon
  <2> QED BY <1>1, <1>2, <1>3, <1>4, <1>5, <2>1, <2>2 DEF Placed
<1>7. Quiet(w) /\ Open(w)
  BY <1>6 DEF Quiet, Open
<1>8. ~Done
  BY DEF TInit, Done, NoDoc
<1>9. desk \in Desks /\ phase = NoKey
  BY DEF TInit
<1> QED BY <1>6, <1>7, <1>8, <1>9 DEF WordInv, WordInStep

\* A key goes down.
LEMMA PressStays ==
  ASSUME WordInv, Joined(w)', NEW k \in desk.keys, Press(k)
  PROVE  WordInv'
<1>1. PICK g \in Grants :
        /\ FirstPhase([w EXCEPT !.grant = g, !.grown = FALSE, !.undone = FALSE, !.escs = FALSE], k, FALSE)
        /\ upsets' = (upsets \ {"refused", "nostart", "between"}) \cup UpsetsAfter(g, w, w')
  BY DEF Press
<1> DEFINE d == [w EXCEPT !.grant = g, !.grown = FALSE, !.undone = FALSE, !.escs = FALSE]
<1>2. phase = NoKey /\ desk' = desk /\ held' = (held \/ k = " ") /\ (k = " " => ~held)
  BY DEF Press
<1>3. k \in Keys /\ (w.space => held)
  BY DesksAssumption DEF WordInv
<1>4. Placed(d) /\ SameScreen(w, d) /\ d.grant = g
  <2>1. Placed(w) /\ Quiet(w) /\ Open(w)
    BY DEF WordInv
  <2> QED BY <2>1, CallbackBegins
<1>5. FirstPhase(d, k, FALSE)
  BY <1>1
<1> HIDE DEF d
<1>6. Peace' => /\ d.grant = "ok"
                /\ w'.on => /\ ~(desk.host = "classic" /\ ~(w'.cache.en /\ w'.cache.tsf))
                            /\ ~(phase' = NoKey /\ IsEnglishMacroTrackingActive(w'))
                /\ w.space /\ k = " " /\ ~FALSE => ~w.on
  BY <1>1, <1>2, <1>3, <1>4, GrantsAre, PeaceTells
<1>7. k = " " \/ held => held'
  BY <1>2
<1> DEFINE no == FALSE
<1>8. /\ FirstPhase(d, k, no)
      /\ Peace' => /\ d.grant = "ok"
                   /\ w'.on => /\ ~(desk.host = "classic" /\ ~(w'.cache.en /\ w'.cache.tsf))
                               /\ ~(phase' = NoKey /\ IsEnglishMacroTrackingActive(w'))
                   /\ w.space /\ k = " " /\ ~no => ~w.on
  BY <1>5, <1>6
<1> HIDE DEF no
<1> QED BY <1>2, <1>3, <1>4, <1>7, <1>8, FirstKeeps

\* Its second callback, or the application's own.
LEMMA KeyDownStays ==
  ASSUME WordInv, Joined(w)', KeyDown
  PROVE  WordInv'
<1>1. phase # NoKey /\ desk' = desk /\ held' = held /\ phase' = NoKey /\ desk.host # "single"
  BY DEF KeyDown, KeyPhase, WordInv
<1>2. CASE desk.host = "classic" /\ ~phase.ate
  <2> DEFINE h == HostKey(w, phase.key)
  <2>1. w' = Settled(h) /\ upsets' = upsets
    BY <1>2 DEF KeyDown
  <2>2. Leaves(w, h) /\ h.on = w.on /\ Placed(h)
    BY HostKeyLeaves DEF WordInv, Leaves
  <2> HIDE DEF h
  <2>3. Placed(w') /\ SameScreen(h, w')
    BY <2>1, <2>2, SettledLeaves
  <2>4. /\ w'.on = w.on /\ w'.space = w.space /\ Quiet(w') /\ Open(w')
    BY <2>2, <2>3 DEF WordInv, Leaves, Around, SameUndo, SameScreen, Quiet, Open, UndoDue
  <2>5. Peace' => Peace /\ ~w'.on
    BY <1>1, <1>2, <2>1, <2>4 DEF WordInv, Peace, Undisturbed
  <2>6. Placed(w)' /\ Quiet(w)' /\ Open(w)' /\ desk' \in Desks
    BY <1>1, <2>3, <2>4 DEF WordInv, Quiet, UndoDue, Open, Placed, AllParts
  <2>7. WordInStep'
    <3>1. (~w.on)' \/ (~Peace)'
      BY <2>5
    <3> QED BY <2>6, <3>1, InStep, PTL
  <2> QED BY <1>1, <2>4, <2>5, <2>6, <2>7 DEF WordInv
<1>3. CASE ~(desk.host = "classic" /\ ~phase.ate)
  <2>1. PICK g \in Grants : /\ w' = Applied(OnKeyDown([w EXCEPT !.grant = g], phase.key, phase.again), phase.key)
                            /\ upsets' = upsets \cup UpsetsAfter(g, w, w')
    BY <1>3 DEF KeyDown, KeyPhase, Answered
  <2> DEFINE d == [w EXCEPT !.grant = g]
             k == phase.key
             again == phase.again
  <2>2. k \in Keys /\ k \in Chars /\ (k = " " => held) /\ (w.mh # "" => ~w.on) /\ k # ""
    BY <1>1 DEF WordInv, Chars, Keys
  <2>3. Placed(d) /\ Quiet(d) /\ Open(d) /\ SameScreen(w, d) /\ d.grant = g
    <3>1. Placed(w) /\ Quiet(w) /\ Open(w)
      BY DEF WordInv
    <3> QED BY <3>1, CallbackBegins
  <2>4. w' = Applied(OnKeyDown(d, k, again), k)
    BY <2>1
  <2>5. Peace' => Peace
    BY <2>1 DEF Peace, Undisturbed
  <2>6. Peace /\ w.space /\ ~again => ~w.on
    BY DEF WordInv
  <2> HIDE DEF d, k, again
  <2>7. Through(d, k, again, w')
    BY <2>2, <2>3, <2>4, KeyGoesThrough
  <2>8. Peace' => /\ g = "ok" /\ ~(w'.on /\ IsEnglishMacroTrackingActive(w'))
                  /\ k = w.mh => ~w.on
                  /\ w.space /\ k = " " /\ ~again => ~w.on
    BY <1>1, <2>1, <2>2, <2>5, <2>6, GrantsAre, PeaceTells
  <2>9. k = " " \/ held => held'
    BY <1>1, <2>2
  <2> QED BY <1>1, <2>2, <2>3, <2>7, <2>8, <2>9, ThroughKeeps
<1> QED BY <1>2, <1>3

\* The space bar held down, and its key sent twice.
LEMMA SpacesStay ==
  ASSUME WordInv, Joined(w)', w.grant = "ok"
  PROVE  /\ Repeat => WordInv'
         /\ Redispatch => WordInv'
<1>1. " " \in Keys
  BY DEF Keys
<1> DEFINE k == " "
           yes == TRUE
           no == FALSE
<1>2. Placed(w) /\ SameScreen(w, w)
  BY DEF WordInv, SameScreen
<1>3. ASSUME Repeat PROVE WordInv'
  <2> DEFINE d == [w EXCEPT !.grown = FALSE, !.undone = FALSE, !.escs = FALSE]
  <2>1. /\ phase = NoKey /\ desk' = desk /\ held /\ held' /\ FirstPhase(d, k, yes)
        /\ upsets' = (upsets \ {"refused", "nostart", "between"}) \cup UpsetsAfter("ok", w, w')
    BY <1>3 DEF Repeat
  <2>2. Placed(d) /\ SameScreen(w, d) /\ d.grant = "ok"
    <3>1. Placed(w) /\ Quiet(w) /\ Open(w)
      BY DEF WordInv
    <3> QED BY <3>1, CallbackBegins
  <2> HIDE DEF d
  <2>3. Peace' => /\ d.grant = "ok"
                  /\ w'.on => /\ ~(desk.host = "classic" /\ ~(w'.cache.en /\ w'.cache.tsf))
                              /\ ~(phase' = NoKey /\ IsEnglishMacroTrackingActive(w'))
                  /\ w.space /\ k = " " /\ ~yes => ~w.on
    BY <2>1, <2>2, PeaceTells
  <2>4. k \in Keys /\ (k = " " \/ held => held')
    BY <1>1, <2>1
  <2> HIDE DEF k, yes
  <2> QED BY <2>1, <2>2, <2>3, <2>4, FirstKeeps
<1>4. ASSUME Redispatch PROVE WordInv'
  <2>1. phase = NoKey /\ desk' = desk /\ held /\ held' /\ FirstPhase(w, k, no) /\ upsets' = upsets /\ w.space
    BY <1>4 DEF Redispatch
  <2>2. Peace' => Peace /\ ~w.on
    BY <2>1 DEF WordInv, Peace, Undisturbed
  <2>3. k \in Keys /\ k \in Chars /\ Quiet(w) /\ Open(w)
    BY <1>1 DEF WordInv, Chars
  <2>4. w'.on => w.on
    <3>1. CASE desk.host = "single"
      <4>1. Through(w, k, no, w')
        <5> HIDE DEF k, no
        <5>1. w' = Applied(OnKeyDown(w, k, no), k)
          BY <2>1, <3>1 DEF FirstPhase, KeyPhase
        <5> QED BY <1>2, <2>3, <5>1, KeyGoesThrough
      <4> QED BY <2>1, <4>1 DEF Through
    <3>2. CASE desk.host # "single"
      <4> HIDE DEF k, no
      <4>1. w' = Settled(OnTestKeyDown(w, k, no))
        BY <2>1, <3>2 DEF FirstPhase, TestPhase
      <4>2. Offered(w, k, w')
        BY <1>2, <2>3, <4>1, KeyIsOffered
      <4> QED BY <4>2 DEF Offered
    <3> QED BY <3>1, <3>2
  <2>5. Peace' => /\ w.grant = "ok"
                  /\ w'.on => /\ ~(desk.host = "classic" /\ ~(w'.cache.en /\ w'.cache.tsf))
                              /\ ~(phase' = NoKey /\ IsEnglishMacroTrackingActive(w'))
                  /\ w.space /\ k = " " /\ ~no => ~w.on
    BY <2>2, <2>4
  <2>6. k = " " \/ held => held'
    BY <2>1
  <2> HIDE DEF k, no
  <2> QED BY <1>2, <2>1, <2>3, <2>5, <2>6, FirstKeeps
<1> QED BY <1>3, <1>4

\* The space bar comes up, and the Enter that waits comes in.
LEMMA LaterKeysStay ==
  ASSUME WordInv, Joined(w)', w.grant = "ok"
  PROVE  /\ SpaceUp => WordInv'
         /\ EnterTimer => WordInv'
<1>1. Placed(w) /\ Quiet(w) /\ Open(w)
  BY DEF WordInv
<1>2. ASSUME SpaceUp PROVE WordInv'
  <2> DEFINE b == RefreshKeyRouting(w)
             n == [w EXCEPT !.space = FALSE]
  <2>1. /\ desk' = desk /\ phase = NoKey /\ phase' = NoKey /\ upsets' = upsets
        /\ before' = IF w'.cache = w.cache THEN before ELSE NoDoc
        /\ w' = IF w.space THEN n ELSE b
    BY <1>2 DEF SpaceUp, OnKeyUp
  <2>2. /\ Placed(b) /\ b.on = w.on /\ b.eng = w.eng /\ b.comp = w.comp /\ b.text = w.text
        /\ b.seen = w.seen /\ b.scope = w.scope /\ b.mh = w.mh /\ b.space = w.space
        /\ b = w \/ b.mundo = <<>>
    BY <1>1, RefreshesReady
  <2> HIDE DEF b
  <2>3. Quiet(b)
    BY <1>1, <2>2 DEF Quiet, UndoDue
  <2>4. /\ Placed(n) /\ n.on = w.on /\ n.eng = w.eng /\ n.comp = w.comp /\ n.text = w.text
        /\ n.seen = w.seen /\ n.scope = w.scope /\ n.mh = w.mh /\ n.space = FALSE
        /\ n.mundo = w.mundo /\ n.mlate = w.mlate /\ n.cache = w.cache
    BY <1>1 DEF Placed, AllParts
  <2> HIDE DEF n
  <2>5. Quiet(n)
    BY <1>1, <2>4 DEF Quiet, UndoDue
  <2>6. /\ Placed(w') /\ w'.on = w.on /\ w'.eng = w.eng /\ w'.comp = w.comp /\ w'.text = w.text
        /\ w'.seen = w.seen /\ w'.scope = w.scope /\ w'.mh = w.mh /\ ~w'.space /\ Quiet(w')
    <3>1. w.space \/ ~w.space
      OBVIOUS
    <3> QED BY <2>1, <2>2, <2>3, <2>4, <2>5
  <2>7. Open(w')
    BY <1>1, <2>6 DEF Open
  <2>8. WordInStep'
    <3>1. CASE w'.cache = w.cache
      BY <2>1, <2>6, <3>1 DEF WordInv, WordInStep, Done, Undisturbed, Buffer
    <3>2. CASE w'.cache # w.cache
      BY <2>1, <3>2 DEF WordInStep, Done, NoDoc
    <3> QED BY <3>1, <3>2
  <2>9. Placed(w)' /\ Quiet(w)' /\ Open(w)' /\ desk' \in Desks
    BY <2>1, <2>6, <2>7 DEF WordInv, Quiet, UndoDue, Open, Placed, AllParts
  <2> QED BY <2>1, <2>6, <2>8, <2>9 DEF WordInv
<1>3. ASSUME EnterTimer PROVE WordInv'
  <2> DEFINE n == w.timers - 1
             d == [w EXCEPT !.timers = n, !.repost = FALSE, !.grown = FALSE, !.undone = FALSE, !.escs = FALSE]
             a == Applied(OnKeyDown(d, "ret", FALSE), "ret")
  <2>1. /\ desk' = desk /\ phase = NoKey /\ phase' = NoKey /\ held' = held /\ before' = NoDoc
        /\ w' = IF w.repost THEN a ELSE d
        /\ upsets' = upsets \cup UpsetsAfter("ok", w, w')
    BY <1>3 DEF EnterTimer
  <2>2. Placed(d) /\ SameScreen(w, d) /\ Quiet(d) /\ Open(d) /\ d.grant = "ok"
    <3> HIDE DEF n
    <3> QED BY <1>1, CallbackBegins
  <2> HIDE DEF n, d
  <2>3. "ret" \in Chars
    BY DEF Chars, Keys
  <2>4. Placed(a) /\ Quiet(a) /\ Open(a) /\ (w.mh = "" => a.mh = "") /\ ~a.space
    <3> DEFINE no == FALSE
               k == "ret"
    <3>1. k \in Chars /\ a = Applied(OnKeyDown(d, k, no), k) /\ k # " "
      BY <2>3
    <3> HIDE DEF no, k, a
    <3>2. Through(d, k, no, a)
      BY <2>2, <3>1, KeyGoesThrough
    <3> QED BY <2>2, <3>1, <3>2 DEF Through, SameScreen
  <2> HIDE DEF a
  <2>5. /\ Placed(w') /\ Quiet(w') /\ Open(w') /\ (w.mh = "" => w'.mh = "")
        /\ w'.space => (w.space /\ w'.on = w.on)
    <3>1. CASE w.repost
      BY <2>1, <2>4, <3>1
    <3>2. CASE ~w.repost
      BY <2>1, <2>2, <3>2 DEF SameScreen
    <3> QED BY <3>1, <3>2
  <2>6. Peace' => Peace
    BY <2>1 DEF Peace, Undisturbed
  <2>7. WordInStep'
    BY <2>1 DEF WordInStep, Done, NoDoc
  <2>8. Placed(w)' /\ Quiet(w)' /\ Open(w)' /\ desk' \in Desks
    BY <2>1, <2>5 DEF WordInv, Quiet, UndoDue, Open, Placed, AllParts
  <2> QED BY <2>1, <2>5, <2>6, <2>7, <2>8 DEF WordInv
<1> QED BY <1>2, <1>3

\* What comes from outside, beside the keys.
LEMMA EventsStay ==
  ASSUME WordInv, Joined(w), Joined(w)', w.grant = "ok"
  PROVE  /\ Terminate => WordInv'
         /\ Click => WordInv'
         /\ OtherField => WordInv'
         /\ SetFocus => WordInv'
         /\ OnPreservedKey => WordInv'
         /\ \A f : Toggle(f) => WordInv'
         /\ ToggleVietnameseMode => WordInv'
         /\ Wait => WordInv'
<1> DEFINE c == OnCompositionTerminated(w)
<1>1. Placed(w) /\ Quiet(w) /\ Open(w)
  BY DEF WordInv
<1>2. Leaves(w, c) /\ Placed(c) /\ ~c.on /\ Quiet(c) /\ Open(c) /\ c.mh = w.mh /\ c.space = w.space
  BY <1>1, TerminatedLeaves
<1> DEFINE Touched(x) == /\ Placed(x) /\ Quiet(x) /\ Open(x) /\ x.mh = w.mh
                         /\ x.space => w.space
                         /\ x.on => w.on
<1>3. ASSUME NEW x, Placed(x), ~x.on, x.mh = w.mh, x.space => w.space
      PROVE  Touched(x)
  BY <1>3 DEF Quiet, Open
<1>4. <<>> \in Texts /\ Len(<<>>) = 0
  <2>1. w.text \in Texts
    BY <1>1 DEF Placed
  <2> QED BY <2>1, FrontsAreTexts, EmptySeq
<1>5. ASSUME Touched(w'), WordInStep', desk' = desk, phase' = phase, held' = held, Peace' => Peace
      PROVE  WordInv'
  BY <1>5, StayKeeps
<1>6. ASSUME before' = NoDoc PROVE WordInStep'
  BY <1>6 DEF WordInStep, Done, NoDoc
<1>7. ASSUME upsets' = upsets PROVE Peace' => Peace
  BY <1>7 DEF Peace, Undisturbed
<1>8. ASSUME upsets' = IF phase = NoKey THEN upsets ELSE upsets \cup {"between"}
      PROVE  Peace' => Peace
  BY <1>8 DEF Peace, Undisturbed
<1>9. ASSUME Terminate PROVE WordInv'
  <2>1. /\ w' = c /\ desk' = desk /\ phase' = phase /\ held' = held
        /\ upsets' = IF phase = NoKey THEN upsets ELSE upsets \cup {"between"}
    BY <1>9 DEF Terminate
  <2>2. Touched(w')
    BY <1>2, <1>3, <2>1
  <2>3. WordInStep'
    <3>1. Placed(w)' /\ (~w.on)'
      BY <1>2, <2>1 DEF Placed, AllParts
    <3> QED BY <3>1, InStep, PTL
  <2> HIDE DEF c, Touched
  <2> QED BY <1>5, <1>8, <2>1, <2>2, <2>3
<1>10. ASSUME Click PROVE WordInv'
  <2>1. PICK p \in 0..Len(w.text), sel \in BOOLEAN : w' = [c EXCEPT !.caret = p, !.sel = sel]
    BY <1>10 DEF Click
  <2>2. c.text = w.text
    <3>1. EndComposition(w).text = w.text
      BY <1>1, CompositionPlaces
    <3> QED BY <1>1, <3>1 DEF c, OnCompositionTerminated, Reset, EndComposition, EngineReset, ClearMacroTracking,
                             ResetMacroUndo, Placed, AllParts
  <2>3. desk' = desk /\ phase' = phase /\ held' = held /\ before' = NoDoc /\ upsets' = upsets
    BY <1>10 DEF Click
  <2> HIDE DEF c
  <2>4. Placed(w') /\ ~w'.on /\ w'.mh = c.mh /\ w'.space = c.space
    BY <1>2, <2>1, <2>2 DEF Placed, AllParts
  <2>5. Touched(w')
    BY <1>2, <1>3, <2>4
  <2> HIDE DEF Touched
  <2> QED BY <1>5, <1>6, <1>7, <2>3, <2>5
<1>11. ASSUME OtherField PROVE WordInv'
  <2>1. /\ w' = [c EXCEPT !.text = <<>>, !.caret = 0, !.sel = FALSE, !.rev = NoRange, !.seen = FALSE,
                          !.secret = ~@]
        /\ desk' = desk /\ phase' = phase /\ held' = held /\ before' = NoDoc /\ upsets' = upsets
    BY <1>11 DEF OtherField
  <2>2. NoRange \in Spans /\ NoRange.at = 0
    BY <1>4 DEF NoRange, Spans
  <2> HIDE DEF c
  <2>3. Placed(w') /\ ~w'.on /\ w'.mh = c.mh /\ w'.space = c.space
    <3>1. /\ AllParts \subseteq DOMAIN w' /\ w'.on = c.on /\ w'.text = <<>> /\ w'.caret = 0
          /\ w'.comp = c.comp /\ w'.rev = NoRange /\ w'.eng = c.eng /\ w'.last = c.last
          /\ w'.mbuf = c.mbuf /\ w'.mundo = c.mundo /\ w'.mwas = c.mwas
          /\ w'.mh = c.mh /\ w'.space = c.space
      BY <1>2, <2>1 DEF Placed, AllParts
    <3>2. w'.caret \in 0..Len(w'.text) /\ w'.rev.at <= Len(w'.text)
      BY <1>4, <2>2, <3>1
    <3> QED BY <1>2, <1>4, <2>2, <3>1, <3>2 DEF Placed
  <2>4. Touched(w')
    BY <1>2, <1>3, <2>3
  <2> HIDE DEF Touched
  <2> QED BY <1>5, <1>6, <1>7, <2>1, <2>4
<1>12. ASSUME SetFocus PROVE WordInv'
  <2> DEFINE b == RefreshFeatureFlags(c)
             m == ClearMacroTracking(b)
             r == ResetCommitUndo(m)
             u == ResetMacroUndo(r)
  <2>1. /\ w' = [u EXCEPT !.space = FALSE]
        /\ desk' = desk /\ phase' = phase /\ held' = held /\ before' = NoDoc /\ upsets' = upsets
    BY <1>12 DEF SetFocus, OnSetFocus
  <2> HIDE DEF c
  <2>2. Placed(b) /\ b.on = c.on /\ b.mh = c.mh
    BY <1>2, FlagsReady
  <2> HIDE DEF b
  <2>3. Leaves(b, b)
    BY <2>2, InARow
  <2>4. Leaves(b, m)
    BY <2>3, TrackersLeave
  <2> HIDE DEF m
  <2>5. Leaves(b, r)
    BY <2>4, TrackersLeave
  <2> HIDE DEF r
  <2>6. Leaves(b, u)
    BY <2>5, TrackersLeave
  <2> HIDE DEF u
  <2>7. Placed(w') /\ ~w'.on /\ w'.mh = w.mh /\ w'.space = FALSE
    BY <1>2, <2>1, <2>2, <2>6 DEF Leaves, Around, Placed, AllParts
  <2>8. Touched(w')
    BY <1>3, <2>7
  <2> HIDE DEF Touched
  <2> QED BY <1>5, <1>6, <1>7, <2>1, <2>8
<1>13. ASSUME OnPreservedKey PROVE WordInv'
  <2> DEFINE e == CheckContextBlocked(w)
             s == Commit(e)
             t == Settled(s)
  <2>1. /\ desk' = desk /\ phase' = phase /\ held' = held /\ before' = NoDoc /\ upsets' = upsets
        /\ w' \in {w, e, t}
    BY <1>13 DEF OnPreservedKey, t, s, e
  <2>2. Placed(e) /\ Quiet(e) /\ Open(e) /\ e.mh = w.mh /\ e.space = w.space /\ e.on = w.on
    <3> DEFINE scope == IF w.seen THEN w.scope ELSE Granted(w) /\ w.secret
               x == [w EXCEPT !.seen = TRUE, !.scope = scope, !.blocked = scope]
    <3>1. e = x
      BY DEF CheckContextBlocked, e
    <3>2. w.on => ~scope
      BY <1>1 DEF Open
    <3> HIDE DEF scope
    <3>3. /\ Placed(x) /\ x.on = w.on /\ x.mh = w.mh /\ x.space = w.space /\ x.seen = TRUE /\ x.scope = scope
          /\ x.mundo = w.mundo /\ x.mlate = w.mlate /\ x.cache = w.cache
      BY <1>1 DEF Placed, AllParts
    <3> HIDE DEF x, e
    <3> QED BY <1>1, <3>1, <3>2, <3>3 DEF Quiet, Open, UndoDue
  <2> HIDE DEF e
  <2>3. Leaves(e, s) /\ Placed(s)
    <3>1. Leaves(e, e)
      BY <2>2, InARow
    <3> QED BY <3>1, EndsLeave DEF Leaves
  <2> HIDE DEF s
  <2>4. Placed(t) /\ SameScreen(s, t)
    BY <2>3, SettledLeaves
  <2> HIDE DEF t
  <2>5. Touched(t)
    BY <2>2, <2>3, <2>4 DEF Leaves, Around, SameUndo, SameScreen, Quiet, Open, UndoDue
  <2>6. Touched(w) /\ Touched(e)
    BY <1>1, <2>2
  <2> HIDE DEF Touched
  <2>7. Touched(w')
    BY <2>1, <2>5, <2>6
  <2> QED BY <1>5, <1>6, <1>7, <2>1, <2>7
<1>14. ASSUME NEW f, Toggle(f) PROVE WordInv'
  <2>1. /\ desk' = desk /\ phase' = phase /\ held' = held /\ before' = before
        /\ upsets' = IF phase = NoKey THEN upsets ELSE upsets \cup {"between"}
        /\ w' = [w EXCEPT !.shared[f] = ~@]
    BY <1>14 DEF Toggle
  <2>2. /\ Placed(w') /\ w'.on = w.on /\ w'.eng = w.eng /\ w'.comp = w.comp /\ w'.text = w.text
        /\ w'.seen = w.seen /\ w'.scope = w.scope /\ w'.mh = w.mh /\ w'.space = w.space
        /\ w'.mundo = w.mundo /\ w'.mlate = w.mlate /\ w'.cache = w.cache
    BY <1>1, <2>1 DEF Placed, AllParts
  <2>3. Touched(w')
    BY <1>1, <2>2 DEF Quiet, Open, UndoDue
  <2>4. WordInStep'
    BY <2>1, <2>2 DEF WordInv, WordInStep, Done, Undisturbed, Buffer
  <2> HIDE DEF Touched
  <2> QED BY <1>5, <1>8, <2>1, <2>3, <2>4
<1>15. ASSUME ToggleVietnameseMode PROVE WordInv'
  <2> DEFINE m == ClearMacroTracking(w)
             vn == ~w.shared.vn
  <2>1. /\ desk' = desk /\ phase' = phase /\ held' = held /\ before' = before /\ upsets' = upsets
        /\ w' = [m EXCEPT !.shared.vn = vn, !.cache.vn = vn]
    BY <1>15 DEF ToggleVietnameseMode
  <2>2. Leaves(w, m) /\ m.mundo = <<>>
    <3>1. Leaves(w, w)
      BY <1>1, InARow
    <3> QED BY <1>1, <3>1, TrackersLeave, NoUndoLeft
  <2>3. m.on = w.on /\ m.comp = w.comp /\ m.text = w.text /\ m.eng = w.eng
    BY <1>1 DEF ClearMacroTracking, ResetMacroUndo, Placed, AllParts
  <2> HIDE DEF m, vn
  <2>4. /\ Placed(w') /\ w'.on = m.on /\ w'.eng = m.eng /\ w'.comp = m.comp /\ w'.text = m.text
        /\ w'.seen = m.seen /\ w'.scope = m.scope /\ w'.mh = m.mh /\ w'.space = m.space
        /\ w'.mundo = m.mundo
        /\ w'.cache = [m.cache EXCEPT !.vn = vn]
    BY <2>1, <2>2 DEF Leaves, Placed, AllParts
  <2>5. m.cache.en /\ m.cache.tsf => w'.cache.en /\ w'.cache.tsf
    BY <2>4
  <2>6. Touched(w')
    BY <1>1, <2>2, <2>3, <2>4 DEF Leaves, Around, Quiet, Open, UndoDue
  <2>7. w.cache.en /\ w.cache.tsf => w'.cache.en /\ w'.cache.tsf
    BY <2>2, <2>5 DEF Leaves, Around
  <2>8. WordInStep'
    <3>1. w'.on = w.on /\ w'.eng = w.eng /\ w'.comp = w.comp /\ w'.text = w.text
      BY <2>3, <2>4
    <3> QED BY <2>1, <2>7, <3>1 DEF WordInv, WordInStep, Done, Undisturbed, Buffer
  <2> HIDE DEF Touched
  <2> QED BY <1>5, <1>7, <2>1, <2>6, <2>8
<1>16. ASSUME Wait PROVE WordInv'
  <2> DEFINE late == w.undo # "Idle"
             mlate == w.mundo # <<>>
  <2>1. /\ desk' = desk /\ phase' = phase /\ held' = held /\ before' = before /\ upsets' = upsets
        /\ w' = [w EXCEPT !.late = late, !.mlate = mlate]
    BY <1>16 DEF Wait
  <2>2. /\ Placed(w') /\ w'.on = w.on /\ w'.eng = w.eng /\ w'.comp = w.comp /\ w'.text = w.text
        /\ w'.seen = w.seen /\ w'.scope = w.scope /\ w'.mh = w.mh /\ w'.space = w.space
        /\ w'.mundo = w.mundo /\ w'.mlate = mlate /\ w'.cache = w.cache
    <3> HIDE DEF late, mlate
    <3> QED BY <1>1, <2>1 DEF Placed, AllParts
  <2>3. Touched(w')
    BY <1>1, <2>2 DEF Quiet, Open, UndoDue
  <2>4. WordInStep'
    BY <2>1, <2>2 DEF WordInv, WordInStep, Done, Undisturbed, Buffer
  <2> HIDE DEF Touched
  <2> QED BY <1>5, <1>7, <2>1, <2>3, <2>4
<1> QED BY <1>9, <1>10, <1>11, <1>12, <1>13, <1>14, <1>15, <1>16

\* Every step keeps the invariant.
LEMMA WordNext ==
  ASSUME WordInv, FieldsInv, FieldsInv', [TNext]_tvars
  PROVE  WordInv'
<1>1. Joined(w) /\ w.grant = "ok"
  BY DEF FieldsInv
<1>2. Joined(w)'
  BY DEF FieldsInv
<1>3. ASSUME NEW k \in desk.keys, Press(k) PROVE WordInv'
  BY <1>2, <1>3, PressStays
<1>4. CASE KeyDown
  BY <1>2, <1>4, KeyDownStays
<1>5. CASE SpaceUp \/ EnterTimer
  BY <1>1, <1>2, <1>5, LaterKeysStay
<1>6. CASE Repeat \/ Redispatch
  BY <1>1, <1>2, <1>6, SpacesStay
<1>7. CASE Terminate \/ Click \/ OtherField \/ SetFocus \/ OnPreservedKey \/ ToggleVietnameseMode \/ Wait
  BY <1>1, <1>2, <1>7, EventsStay
<1>8. ASSUME NEW f, Toggle(f) PROVE WordInv'
  BY <1>1, <1>2, <1>8, EventsStay
<1>9. CASE UNCHANGED tvars
  BY <1>9 DEF tvars, WordInv, Quiet, Open, UndoDue, Placed, WordInStep, Done, Undisturbed, Peace, Buffer
<1> QED BY <1>3, <1>4, <1>5, <1>6, <1>7, <1>8, <1>9 DEF TNext, Outside

\* After every key whose sessions were granted the engine, the composition and the
\* text on the screen are one word, and no word is open where the keys no longer
\* come: for any scenarios, in hosts of all three kinds, whatever came between the
\* two callbacks of which keys (OnTestKeyDownImpl, OnKeyDownImpl).
THEOREM WordsAreInStep == TSpec => []WordInStep
<1>1. TInit => WordInv /\ FieldsInv
  BY WordStarts, FieldsStart
<1>2. WordInv /\ FieldsInv /\ [TNext]_tvars => WordInv' /\ FieldsInv'
  BY WordNext, FieldsNext
<1>3. WordInv => WordInStep
  BY DEF WordInv
<1> QED BY <1>1, <1>2, <1>3, PTL DEF TSpec
=============================================================================
