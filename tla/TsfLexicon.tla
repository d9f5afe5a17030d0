------------------------------ MODULE TsfLexicon ------------------------------
(***************************************************************************)
(* How the EngineController of a TSF thread (tsf/EngineController.cpp)     *)
(* takes over configuration and lexicon: CheckConfigEvent with every key,  *)
(* with focus also RefreshFlags, staging while a word is being typed and   *)
(* promotion at the word boundary.                                         *)
(*                                                                         *)
(* A lexicon is spell exclusions, user dictionary and suggestion flag, and *)
(* means something only as a whole.  It comes over the wire (LexiconWire:  *)
(* a read gives the whole lexicon published last, or fails) or from disk   *)
(* under the lexicon lock (LexiconTransaction: a whole pair, or nothing);  *)
(* the rest of the configuration comes over SharedState                    *)
(* (SharedStateSeqlock).  The three sources change independently, so the   *)
(* parts of one change reach the thread in any order.                      *)
(*                                                                         *)
(* The controller lives on one thread; its state is the record ctl and its *)
(* methods are functions on such records.  x names what fails during one   *)
(* of them: the wire read, both reads, the compilation of the dictionary,  *)
(* the creation of the Rust engine, the read of SharedState, or nothing.   *)
(***************************************************************************)
EXTENDS Integers

CONSTANTS
  Lexicons,   \* a set of records [excl, dict, sug], sug Boolean
  None,       \* no dictionary, no exclusions
  Faults,     \* what may fail
  MaxChanges, \* bound: changes of the lexicon on disk
  MaxBumps,   \* bound: writes to SharedState
  MaxFaults   \* bound: failures

ASSUME ParamAssumption ==
  /\ Lexicons # {} /\ \A l \in Lexicons : l.sug \in BOOLEAN /\ l.dict # None
  /\ Faults \subseteq {"wire", "reads", "compile", "create", "shared"}
  /\ MaxChanges \in Nat /\ MaxBumps \in Nat /\ MaxFaults \in Nat

VARIABLES
  disk,    \* the lexicon on disk
  wire,    \* the lexicon on the wire and its identity, 0 before the first
  shared,  \* SharedState: epoch, configGeneration, its settings, ENGINE_ENABLED
  ctl,     \* the controller
  announced, \* has the lexicon on disk been announced by a configGeneration?
  changes, bumps, faults

env == <<disk, wire, shared, announced, changes, bumps>>
vars == <<env, ctl, faults>>

NoConfig == [excl |-> None, sug |-> FALSE, other |-> -1]
NoEngine == [cfg |-> NoConfig, dict |-> None, dead |-> FALSE, miscast |-> FALSE]

\* activeConfig_ before SharedState has been read.
Defaults == [excl |-> None, sug |-> FALSE, other |-> 0]

\* The method called on the state c; c is evaluated once.
Then(c, Method(_)) == CHOOSE d \in {Method(e) : e \in {c}} : TRUE

-----------------------------------------------------------------------------
(* Promotion.                                                               *)

\* CanPromoteTsfConfig: no word, composition, macro or revive in progress.
CanPromote(c) == c.engine = NoEngine \/ ~c.busy

\* TryAttachUserDictionary casts engine_ to the Rust engine on the word of
\* activeConfig_; a Rust engine without a handle takes no dictionary.
TryAttach(c) ==
  IF c.engine = NoEngine \/ ~CanPromote(c) \/ c.pendingDict = None \/ ~c.active.sug THEN c
  ELSE IF ~c.engine.cfg.sug THEN [c EXCEPT !.engine.miscast = TRUE]
  ELSE IF c.engine.dead THEN c
  ELSE [c EXCEPT !.engine.dict = c.pendingDict, !.activeDict = c.pendingDict, !.pendingDict = None,
                 !.staged = @ /\ (c.pending # NoConfig \/ c.needsReload)]

\* EngineFactory::Create(activeConfig_), then the staged dictionary or else the
\* active one.  A Rust engine that could not be created has no handle.
Recreate(c, x) ==
  LET snapshot == IF c.pendingDict # None THEN c.pendingDict ELSE c.activeDict
      attached == c.active.sug /\ x # "create" /\ snapshot # None
      moved    == c.pendingDict # None /\ (attached \/ ~c.active.sug)
  IN [c EXCEPT !.recreate = FALSE,
               !.engine = [cfg |-> c.active, dict |-> IF attached THEN snapshot ELSE None,
                           dead |-> c.active.sug /\ x = "create", miscast |-> FALSE],
               !.activeDict = IF moved THEN c.pendingDict ELSE @,
               !.pendingDict = IF moved THEN None ELSE @]

\* TryPromotePendingConfig.
TryPromote(c, x) ==
  LET Engine(d) == IF c.recreate \/ c.engine = NoEngine THEN Recreate(d, x) ELSE TryAttach(d)
      Clear(d)  == [d EXCEPT !.staged = @ /\ (d.pendingDict # None \/ d.needsReload)]
  IN IF (~c.recreate /\ c.pendingDict = None) \/ ~CanPromote(c) THEN c
     ELSE Then(Then([c EXCEPT !.active = IF c.pending # NoConfig THEN c.pending ELSE @,
                              !.pending = NoConfig], Engine), Clear)

-----------------------------------------------------------------------------
(* Staging.                                                                 *)

\* Mutant: leaves it to the next configuration change to build a new engine.
StageWithoutRecreate(c, l) ==
  LET p == IF c.pending = NoConfig THEN c.active ELSE c.pending
  IN [c EXCEPT !.pending = [p EXCEPT !.sug = l.sug, !.excl = l.excl],
               !.pendingDict = l.dict, !.staged = TRUE, !.needsReload = FALSE]

\* The whole lexicon goes into pendingConfig_ and pendingUserDictionary_.
Stage(c, l) ==
  LET p == IF c.pending = NoConfig THEN c.active ELSE c.pending
  IN [c EXCEPT !.pending = [p EXCEPT !.sug = l.sug, !.excl = l.excl],
               !.recreate = @ \/ p.sug # l.sug \/ p.excl # l.excl,
               !.pendingDict = l.dict, !.staged = TRUE, !.needsReload = FALSE]

\* A new configGeneration asks for a reload; DecidePendingTsfLexicon keeps a
\* dictionary that belongs to a staged lexicon.
NoteGeneration(c, g) ==
  IF c.genKnown /\ c.gen = g THEN c
  ELSE [c EXCEPT !.genKnown = TRUE, !.gen = g, !.needsReload = TRUE,
                 !.pendingDict = IF c.staged THEN @ ELSE None]

\* Mutant: keeps the identity of a snapshot it could not compile.
RefreshKeepingIdentity(c, g, allowDisk, x) ==
  LET Read(d) ==
        IF wire.id > 0 /\ x \notin {"wire", "reads"}
        THEN IF d.cached = wire.id THEN [d EXCEPT !.wireActive = TRUE, !.needsReload = FALSE]
             ELSE IF x = "compile" THEN [d EXCEPT !.wireActive = TRUE, !.cached = wire.id]
             ELSE Stage([d EXCEPT !.wireActive = TRUE, !.cached = wire.id], wire.lex)
        ELSE IF allowDisk /\ x # "reads" THEN Stage(d, disk) ELSE d
  IN Then(NoteGeneration(c, g), Read)

\* RefreshUserDictionarySnapshot: the wire first, unless its identity is the
\* cached one; the disk only where reading it is allowed.
Refresh(c, g, allowDisk, x) ==
  LET Read(d) ==
        IF wire.id > 0 /\ x \notin {"wire", "reads"}
        THEN IF d.cached = wire.id THEN [d EXCEPT !.wireActive = TRUE, !.needsReload = FALSE]
             ELSE IF x = "compile" THEN [d EXCEPT !.wireActive = TRUE, !.cached = 0]
             ELSE Stage([d EXCEPT !.wireActive = TRUE, !.cached = wire.id], wire.lex)
        ELSE IF allowDisk /\ x # "reads" THEN Stage(d, disk) ELSE d
  IN Then(NoteGeneration(c, g), Read)

\* Mutant: takes the lexicon fields of the active configuration even if a newer
\* lexicon is staged.
ApplySharedStateFromActive(c, allowDisk, x) ==
  LET Reload(d)  == Refresh(d, shared.cgen, allowDisk, x)
      Promote(d) == TryPromote(d, x)
  IN Then(Then([c EXCEPT !.enabled = shared.enabled, !.recreate = TRUE,
                         !.pending = [excl |-> c.active.excl, sug |-> c.active.sug, other |-> shared.other]],
               Reload), Promote)

\* ApplySharedState takes the settings from SharedState and the lexicon fields
\* from the staged lexicon, if there is one, or else from the active one.
ApplySharedState(c, allowDisk, x) ==
  LET lex == IF c.pending # NoConfig /\ c.staged THEN c.pending ELSE c.active
      Reload(d)  == Refresh(d, shared.cgen, allowDisk, x)
      Promote(d) == TryPromote(d, x)
  IN Then(Then([c EXCEPT !.enabled = shared.enabled, !.recreate = TRUE,
                         !.pending = [excl |-> lex.excl, sug |-> lex.sug, other |-> shared.other]],
               Reload), Promote)

\* CheckConfigEvent.
CheckConfig(c, allowDisk, x) ==
  LET Promote(d) == TryPromote(d, x)
      Reload(d)  == IF d.needsReload \/ d.wireActive THEN Refresh(d, d.gen, allowDisk, x) ELSE d
      Check(d)   == IF shared.epoch = d.lastEpoch THEN Then(Then(Reload(d), TryAttach), Promote)
                    ELSE IF x = "shared" THEN d
                    ELSE ApplySharedState([d EXCEPT !.lastEpoch = shared.epoch], allowDisk, x)
  IN Then(Promote(c), Check)

\* RefreshFlags applies the whole state again when the engine comes back, and
\* takes a SharedState it cannot read for an application that has gone.
RefreshFlags(c, x) ==
  IF x = "shared" THEN [c EXCEPT !.enabled = FALSE]
  ELSE IF ~c.enabled /\ shared.enabled THEN ApplySharedState(c, TRUE, x)
  ELSE [c EXCEPT !.enabled = shared.enabled]

-----------------------------------------------------------------------------
Fresh == [active |-> Defaults, engine |-> NoEngine, activeDict |-> None,
          pending |-> NoConfig, pendingDict |-> None, staged |-> FALSE, recreate |-> FALSE,
          needsReload |-> FALSE, genKnown |-> FALSE, gen |-> 0, cached |-> 0, wireActive |-> FALSE,
          lastEpoch |-> 0, enabled |-> TRUE, busy |-> FALSE]

\* The constructor applies SharedState, or makes an engine from the defaults; it
\* opens the wire.
Constructed(x) ==
  LET c == IF x = "shared" THEN [Fresh EXCEPT !.engine = [NoEngine EXCEPT !.cfg = Defaults]]
           ELSE [ApplySharedState(Fresh, TRUE, x) EXCEPT !.lastEpoch = shared.epoch]
  IN [c EXCEPT !.wireActive = @ \/ wire.id > 0]

\* The main process is up; its wire may or may not be published yet, and typing
\* may be switched off.
Init ==
  /\ disk \in Lexicons
  /\ wire \in {[id |-> 0, lex |-> disk], [id |-> 1, lex |-> disk]}
  /\ shared \in [epoch : {2}, cgen : {0}, other : {1}, enabled : BOOLEAN]
  /\ ctl = Fresh
  /\ announced = TRUE /\ changes = 0 /\ bumps = 0 /\ faults = 0

\* Something fails during the call, or nothing does.
Fails(x) == \/ x = "nothing" /\ UNCHANGED faults
            \/ x \in Faults /\ faults < MaxFaults /\ faults' = faults + 1

Construct(x) == /\ ctl = Fresh /\ Fails(x)
                /\ ctl' = Constructed(x) /\ UNCHANGED env

\* A key that neither starts nor ends a word.
Key(x) == /\ ctl # Fresh /\ Fails(x)
          /\ ctl' = CheckConfig(ctl, FALSE, x) /\ UNCHANGED env

\* A key that starts a word.
StartWord(x) == /\ ctl # Fresh /\ ~ctl.busy /\ Fails(x)
                /\ ctl' = [CheckConfig(ctl, FALSE, x) EXCEPT !.busy = TRUE] /\ UNCHANGED env

\* A key that commits the word, or deletes its last letter: the engine is reset
\* and TryPromotePendingConfig is called.
EndWord(x) == /\ ctl.busy /\ Fails(x)
              /\ ctl' = TryPromote([CheckConfig(ctl, FALSE, x) EXCEPT !.busy = FALSE], x)
              /\ UNCHANGED env

\* What blocked promotion goes away with no call: the host ends the composition,
\* an armed revive or a macro prefix is dropped.
Unblock == /\ ctl.busy /\ ctl' = [ctl EXCEPT !.busy = FALSE] /\ UNCHANGED <<env, faults>>

\* OnSetFocus; a read that fails in one of its calls may succeed in the other.
Focus(x) == /\ ctl # Fresh /\ Fails(x)
            /\ \E y, z \in {x, "nothing"} :
                 LET Flags(c) == RefreshFlags(c, z)
                 IN ctl' = Then(CheckConfig(ctl, TRUE, y), Flags)
            /\ UNCHANGED env

\* Another lexicon is committed to disk.
ChangeLexicon(l) == /\ l # disk /\ changes < MaxChanges /\ changes' = changes + 1
                    /\ disk' = l /\ announced' = FALSE
                    /\ UNCHANGED <<wire, shared, ctl, bumps, faults>>

\* The main process publishes it (PublishCurrentLexiconToWire) ...
PublishLexicon == /\ wire.lex # disk \/ wire.id = 0
                  /\ wire' = [id |-> wire.id + 1, lex |-> disk]
                  /\ UNCHANGED <<disk, shared, announced, ctl, changes, bumps, faults>>

\* ... and the transaction announces it, before or after.
PublishGeneration == /\ ~announced /\ announced' = TRUE
                     /\ shared' = [shared EXCEPT !.epoch = @ + 2, !.cgen = @ + 1]
                     /\ UNCHANGED <<disk, wire, ctl, changes, bumps, faults>>

\* SharedState is written: new settings, or the engine is switched off and on.
WriteSharedState(s, g, e) ==
  /\ bumps < MaxBumps /\ bumps' = bumps + 1
  /\ shared' = [epoch |-> shared.epoch + 2, cgen |-> shared.cgen + g, other |-> shared.other + s, enabled |-> e]
  /\ UNCHANGED <<disk, wire, announced, ctl, changes, faults>>

Results == Faults \cup {"nothing"}

Next ==
  \/ \E x \in Results : Construct(x) \/ Key(x) \/ StartWord(x) \/ EndWord(x) \/ Focus(x)
  \/ Unblock \/ (\E l \in Lexicons : ChangeLexicon(l)) \/ PublishLexicon \/ PublishGeneration
  \/ \E s, g \in {0, 1}, e \in BOOLEAN : WriteSharedState(s, g, e)

Spec == Init /\ [][Next]_vars

\* The user types, words end, and the main process publishes and announces what
\* is on disk.
Fairness == /\ WF_vars(Construct("nothing")) /\ WF_vars(PublishLexicon) /\ WF_vars(PublishGeneration)
            /\ WF_vars(Key("nothing")) /\ SF_vars(EndWord("nothing"))
-----------------------------------------------------------------------------
Config == [excl : {l.excl : l \in Lexicons} \cup {None}, sug : BOOLEAN, other : Int]
Dict   == {l.dict : l \in Lexicons} \cup {None}

\* The three sources and every member of the controller keep their types.
TypeOK ==
  /\ disk \in Lexicons /\ wire \in [id : Nat, lex : Lexicons] /\ announced \in BOOLEAN
  /\ shared \in [epoch : Nat, cgen : Nat, other : Nat, enabled : BOOLEAN]
  /\ ctl.active \in Config /\ ctl.pending \in Config
  /\ ctl.engine \in [cfg : Config, dict : Dict, dead : BOOLEAN, miscast : BOOLEAN]
  /\ ctl.activeDict \in Dict /\ ctl.pendingDict \in Dict
  /\ <<ctl.staged, ctl.recreate, ctl.needsReload, ctl.genKnown, ctl.wireActive, ctl.enabled, ctl.busy>>
       \in BOOLEAN \X BOOLEAN \X BOOLEAN \X BOOLEAN \X BOOLEAN \X BOOLEAN \X BOOLEAN
  /\ ctl.gen \in Nat /\ ctl.cached \in Nat /\ ctl.lastEpoch \in Nat

\* A Rust engine at work has exclusions and dictionary of one lexicon: neither a
\* word in progress nor a SharedState update between the two splits them.
OneLexicon ==
  (ctl.engine.cfg.sug /\ ~ctl.engine.dead) =>
    \E l \in Lexicons : l.sug /\ l.excl = ctl.engine.cfg.excl /\ l.dict = ctl.engine.dict

\* TryAttachUserDictionary never casts a TypingEngine to the Rust engine: what
\* activeConfig_ says of the engine is what the engine was created from.
CastIsSafe == ~ctl.engine.miscast /\ (ctl.engine # NoEngine => ctl.engine.cfg.sug = ctl.active.sug)

\* A configuration that differs from the active one is on its way into a new
\* engine, never left behind.
PendingIsScheduled ==
  (ctl.pending # NoConfig /\ ctl.pending # ctl.active) => ctl.recreate

\* The engine is never replaced, nor its dictionary, in the middle of a word.
NoMidWordSwap == [][ctl.busy /\ ctl'.busy /\ ctl.engine # NoEngine => ctl'.engine = ctl.engine]_vars

\* A Rust engine that cannot be created leaves the one before it in service.
FailureIsStale == [][ctl.engine # NoEngine /\ ~ctl.engine.dead => ~ctl'.engine.dead]_vars

\* The engine is what activeConfig_ says, so that the cast to the Rust engine is
\* one, and what is to become of it is scheduled (TryPromotePendingConfig,
\* TryAttachUserDictionary).
EngineAsConfigured == TypeOK /\ CastIsSafe /\ PendingIsScheduled
=============================================================================
