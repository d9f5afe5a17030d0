-------------------------- MODULE LexiconTransaction --------------------------
(***************************************************************************)
(* The journaled paired write of config.toml and user_dictionary.txt       *)
(* (core/config/LexiconTransaction.cpp), its crash recovery, and the       *)
(* ordinary config.toml saves that share its named mutex                   *)
(* (core/config/ConfigManager.cpp).                                        *)
(*                                                                         *)
(* Every operation runs under the mutex Local\VKeyConfigLock, so at most   *)
(* one is in flight: `op` is the operation holding the mutex.  A process   *)
(* may die between any two file operations; the mutex is then abandoned,   *)
(* the files, the journal and the shared memory stay as they are, and the  *)
(* next operation gets the mutex.                                          *)
(*                                                                         *)
(* File contents are abstracted to a lexicon version and, for config.toml, *)
(* a version of the unrelated settings.  A hash identifies a content.      *)
(***************************************************************************)
EXTENDS Integers, Sequences

CONSTANTS
  Ops,        \* operations of the instance, a subset of OpKinds
  Initially,  \* the sets of files that may exist at the start
  MaxVer,     \* bound: lexicon transactions started
  MaxMisc,    \* bound: config.toml writes outside a transaction
  MaxCrashes, \* bound: process deaths while holding the mutex
  MaxFaults,  \* bound: file or shared-memory operations that fail
  RemoveMayFail \* may std::filesystem::remove fail (its error_code is ignored)?

OpKinds == {"update",    \* LexiconWriter::CommitLexiconUpdate
            "commit",    \* LexiconWriter::CommitTransaction, notifySharedState
            "read",      \* LexiconReader: recover, then load the pair
            "publish",   \* PublishCurrentLexiconToWire of the main process
            "save",      \* ConfigManager::Save*: read-modify-write of another table
            "saveStale"} \* ConfigManager::SaveToFile of a TypingConfig loaded earlier

ASSUME ParamAssumption ==
  /\ Ops \subseteq OpKinds
  /\ Initially \subseteq SUBSET {"config", "dict"}
  /\ MaxVer \in Nat /\ MaxMisc \in Nat /\ MaxCrashes \in Nat /\ MaxFaults \in Nat
  /\ RemoveMayFail \in BOOLEAN

(* File contents.  Lexicon version 0 is the state before the first         *)
(* transaction, whether or not the file exists.                            *)
Content == [ver : Nat, misc : Nat]
Absent  == [ver |-> -1, misc |-> 0]
Partial == [ver |-> -2, misc |-> 0]
File    == Content \cup {Absent, Partial}

Path == {"config", "dict", "configTmp", "dictTmp", "configBak", "dictBak"}

Ver(c)  == IF c = Absent THEN 0 ELSE c.ver
Misc(c) == c.misc

JournalStates == {"None", "Prepared", "FilesReplaced", "GenerationPublished",
                  "Committed", "RollbackPending"}

\* LexiconJournalRecord but for its state, which alone changes once it is
\* written.  A hash is the content it was taken of; configExistedBefore is
\* oldConfig # Absent, dictExistedBefore likewise.
Record == [notify : BOOLEAN, oldGen : Nat, newGen : Nat,
           oldConfig : File, oldDict : File, newConfig : File, newDict : File]

NoRecord == [notify |-> FALSE, oldGen |-> 0, newGen |-> 0,
             oldConfig |-> Absent, oldDict |-> Absent, newConfig |-> Absent, newDict |-> Absent]

NoJournal == [state |-> "None", txn |-> NoRecord]

NoOp == [kind |-> "none", wire |-> FALSE, gen |-> 0, new |-> Absent]

VARIABLES
  fs,       \* [Path -> File]: the files beside config.toml
  journal,  \* lexicon_txn.journal: a state and a Record; "None" when there is no file
  gen,      \* SharedState.configGeneration, and the version it announced (history)
  wire,     \* lexicon version held by the shared wire mapping
  loaded,   \* TypingConfig a UI process loaded (without the mutex) and will save
  op,       \* the operation holding the mutex
  pc,       \* where it is
  stage,    \* where RecoverIfNeeded returns to
  rec,      \* its in-memory LexiconJournalRecord
  ctx,      \* what follows the running rollback or clean-up
  restored, \* result so far of the restore steps of a rollback
  todo,     \* paths still to be removed by the running clean-up
  nextVer, nextMisc, crashes, faults,
  acked,    \* history: last lexicon version whose commit returned true
  ackedMisc \* history: last config.toml save that returned true

vars == <<fs, journal, gen, wire, loaded, op, pc, stage, rec, ctx, restored, todo,
          nextVer, nextMisc, crashes, faults, acked, ackedMisc>>

shared  == <<gen, wire, loaded>>
history == <<acked, ackedMisc>>
budget  == <<nextVer, nextMisc, crashes>>

Init ==
  /\ \E present \in Initially :
       fs = [p \in Path |-> IF p \in present THEN [ver |-> 0, misc |-> 0] ELSE Absent]
  /\ journal = NoJournal
  /\ gen = [val |-> 0, ver |-> 0]
  /\ wire = 0 /\ loaded = 0
  /\ op = NoOp /\ pc = "idle" /\ stage = "none" /\ rec = NoRecord /\ ctx = "none"
  /\ restored = "ok" /\ todo = {}
  /\ nextVer = 1 /\ nextMisc = 1 /\ crashes = 0 /\ faults = 0
  /\ acked = 0 /\ ackedMisc = 0

-----------------------------------------------------------------------------
(* Control flow shared by the actions.                                     *)

Fault   == faults < MaxFaults /\ faults' = faults + 1
NoFault == UNCHANGED faults

Goto(l) == pc' = l /\ UNCHANGED <<op, stage, rec, ctx, restored, todo>>

\* The operation is over: the mutex is released (~LexiconSyncLock) or abandoned.
Leave == /\ op' = NoOp /\ pc' = "idle" /\ stage' = "none" /\ rec' = NoRecord
         /\ ctx' = "none" /\ restored' = "ok" /\ todo' = {}

\* RecoverIfNeeded returns true: to the merge or load of the caller, to
\* CommitTransactionImpl, or to the failed step 5 that called it.
Recovered ==
  \/ stage = "abort"  /\ Leave
  \/ stage = "second" /\ Goto("txn")
  \/ stage = "first"  /\ Goto(IF op.kind = "update" THEN "merge" ELSE "load")

\* Remove `paths` one after another, then continue as `c` says.
Remove(paths, c) == /\ pc' = "remove" /\ todo' = paths /\ ctx' = c
                    /\ UNCHANGED <<op, stage, rec, restored>>

Temps     == {"configTmp", "dictTmp", "configBak", "dictBak"}
Artifacts == Temps \cup {"journal"}

\* CleanStaleArtifacts, called before `return false`, removes the journal first;
\* every other clean-up removes it last.
CleanStaleArtifacts == Remove(Artifacts, "clean")

Rank(p) == CASE p = "journal"   -> IF ctx = "clean" THEN 0 ELSE 5
             [] p = "configTmp" -> 1
             [] p = "dictTmp"   -> IF ctx = "clean" THEN 3 ELSE 2
             [] p = "configBak" -> IF ctx = "clean" THEN 2 ELSE 3
             [] OTHER           -> 4

\* Call RollbackToBackup(record, ...) with the outcome handled as `c` says.
Rollback(c) == /\ pc' = "rbConfig" /\ ctx' = c
               /\ UNCHANGED <<op, stage, rec, restored, todo>>

\* The same from RecoverIfNeeded, which has just read the journal.
RollbackFrom(r, c) == /\ rec' = r /\ restored' = "ok" /\ pc' = "rbConfig" /\ ctx' = c
                      /\ UNCHANGED <<op, stage, todo>>

\* TransitionJournalState: durable write of a temporary, then an atomic rename.
SetJournal(s) == journal' = [state |-> s, txn |-> rec]

\* LexiconWriter::PublishGeneration
PublishGeneration(g, v) == gen' = [val |-> g, ver |-> v]

-----------------------------------------------------------------------------
(* Acquiring the mutex.  `wire`: does this process own the wire mapping     *)
(* (only the main process called SetWireManager).  CommitTransaction gets   *)
(* the new config.toml from its caller and reads the generation before it   *)
(* locks; CommitLexiconUpdate does both later, in Merge.                    *)

NewConfig(base) == [ver |-> nextVer, misc |-> Misc(base)]

Begin(k) ==
  /\ pc = "idle" /\ k \in Ops
  /\ k \in {"update", "commit"} => nextVer <= MaxVer
  /\ k \in {"save", "saveStale"} => nextMisc <= MaxMisc
  /\ \E w \in BOOLEAN :
       /\ k = "publish" => w
       /\ k = "commit" => fs["config"] # Partial
       /\ op' = [kind |-> k, wire |-> w, gen |-> gen.val,
                 new |-> IF k = "commit" THEN NewConfig(fs["config"]) ELSE Absent]
  /\ nextVer' = IF k = "commit" THEN nextVer + 1 ELSE nextVer
  /\ pc' = IF k \in {"save", "saveStale"} THEN "save" ELSE "recover"
  /\ stage' = IF k = "commit" THEN "second" ELSE "first"
  /\ UNCHANGED <<fs, journal, shared, rec, ctx, restored, todo, nextMisc, crashes, faults, history>>

\* ConfigManager::LoadFromFile of a dialog or the tray menu, which takes no lock.
LoadTypingConfig ==
  /\ "saveStale" \in Ops /\ fs["config"] \in Content
  /\ loaded' = fs["config"].ver
  /\ UNCHANGED <<fs, journal, gen, wire, op, pc, stage, rec, ctx, restored, todo, budget, faults, history>>

-----------------------------------------------------------------------------
(* LexiconRecovery::RecoverIfNeeded                                         *)

RecoverNone ==
  /\ pc = "recover" /\ journal.state = "None"
  /\ Recovered
  /\ UNCHANGED <<fs, journal, shared, budget, faults, history>>

RecoverPrepared ==
  /\ pc = "recover" /\ journal.state = "Prepared"
  /\ RollbackFrom(journal.txn, "prepared")
  /\ UNCHANGED <<fs, journal, shared, budget, faults, history>>

HashesMatch(r) == fs["config"] = r.newConfig /\ fs["dict"] = r.newDict

NoBackups == fs["configBak"] = Absent /\ fs["dictBak"] = Absent

\* The check both rollback branches fall back to once the backups are gone.
LooksRestored(r) == /\ r.oldConfig # Absent => fs["config"] = r.oldConfig
                    /\ r.oldDict # Absent => fs["dict"] = r.oldDict

\* FILES_REPLACED, hashes verified: roll forward.
RecoverFilesReplaced ==
  /\ pc = "recover" /\ journal.state = "FilesReplaced" /\ HashesMatch(journal.txn)
  /\ rec' = journal.txn /\ ctx' = "recovery"
  /\ pc' = IF journal.txn.notify THEN "pubNew" ELSE "jGenPub"
  /\ UNCHANGED <<fs, journal, shared, op, stage, restored, todo, budget, faults, history>>

\* Mutant: a pending rollback restores the generation but not the files.
RecoverRollbackNoRestore ==
  /\ pc = "recover"
  /\ \/ journal.state = "FilesReplaced" /\ ~HashesMatch(journal.txn)
     \/ journal.state = "RollbackPending"
  /\ rec' = journal.txn /\ pc' = "pubOld"
  /\ UNCHANGED <<op, stage, ctx, restored, todo>>
  /\ UNCHANGED <<fs, journal, shared, budget, faults, history>>

\* FILES_REPLACED with a hash mismatch, and ROLLBACK_PENDING.
RecoverRollback ==
  /\ pc = "recover"
  /\ \/ journal.state = "FilesReplaced" /\ ~HashesMatch(journal.txn)
     \/ journal.state = "RollbackPending"
  /\ \/ ~NoBackups /\ RollbackFrom(journal.txn, "rollback")
     \/ /\ NoBackups /\ LooksRestored(journal.txn)
        /\ rec' = journal.txn /\ pc' = "pubOld"
        /\ UNCHANGED <<op, stage, ctx, restored, todo>>
     \/ NoBackups /\ ~LooksRestored(journal.txn) /\ Leave
  /\ UNCHANGED <<fs, journal, shared, budget, faults, history>>

\* Mutant: the GENERATION_PUBLISHED branch cleans up but forgets the journal.
RecoverPublishedKeepsJournal ==
  /\ pc = "recover" /\ journal.state = "GenerationPublished"
  /\ rec' = journal.txn /\ pc' = "remove" /\ todo' = Temps /\ ctx' = "recovered"
  /\ UNCHANGED <<fs, journal, shared, op, stage, restored, budget, faults, history>>

RecoverPublished ==
  /\ pc = "recover" /\ journal.state = "GenerationPublished"
  /\ rec' = journal.txn /\ pc' = "remove" /\ todo' = Temps /\ ctx' = "recovery"
  /\ UNCHANGED <<fs, journal, shared, op, stage, restored, budget, faults, history>>

RecoverCommitted ==
  /\ pc = "recover" /\ journal.state = "Committed"
  /\ rec' = journal.txn /\ pc' = "remove" /\ todo' = Artifacts /\ ctx' = "recovered"
  /\ UNCHANGED <<fs, journal, shared, op, stage, restored, budget, faults, history>>

\* Once the files are rolled back, the generation is restored and, by the
\* process that owns the mapping, the wire; only then is the journal removed.
RecoverPublishOld ==
  /\ pc = "pubOld"
  /\ \/ /\ IF rec.notify THEN PublishGeneration(rec.oldGen, Ver(rec.oldConfig)) ELSE UNCHANGED gen
        /\ IF journal.state = "RollbackPending" /\ op.wire
           THEN Goto("pubWireOld") ELSE Remove(Artifacts, "recovered")
        /\ NoFault /\ UNCHANGED journal
     \/ /\ rec.notify /\ Fault
        /\ \/ journal.state = "FilesReplaced" /\ SetJournal("RollbackPending")
           \/ UNCHANGED journal
        /\ Leave /\ UNCHANGED gen
  /\ UNCHANGED <<fs, wire, loaded, budget, history>>

RecoverPublishWire ==
  /\ pc = "pubWireOld"
  /\ \/ wire' = Ver(fs["config"]) /\ Remove(Artifacts, "recovered") /\ NoFault
     \/ Fault /\ Leave /\ UNCHANGED wire
  /\ UNCHANGED <<fs, journal, gen, loaded, budget, history>>

RecoverPublishNew ==
  /\ pc = "pubNew"
  /\ \/ PublishGeneration(rec.newGen, Ver(rec.newConfig)) /\ Goto("jGenPub") /\ NoFault
     \/ Fault /\ Leave /\ UNCHANGED gen
  /\ UNCHANGED <<fs, journal, wire, loaded, budget, history>>

-----------------------------------------------------------------------------
(* RollbackToBackup and the removal of artifacts, called from both sides.   *)

\* Restore file f from its backup b, or check that it is already restored.
Restore(f, b, old) ==
  \/ /\ old # Absent /\ fs[b] # Absent
     /\ \/ fs' = [fs EXCEPT ![f] = fs[b], ![b] = Absent] /\ NoFault /\ UNCHANGED restored
        \/ Fault /\ restored' = "failed" /\ UNCHANGED fs
  \/ /\ old # Absent /\ fs[b] = Absent /\ NoFault /\ UNCHANGED fs
     /\ restored' = IF fs[f] = old THEN restored ELSE "failed"
  \/ /\ old = Absent
     /\ \/ fs' = [fs EXCEPT ![f] = Absent] /\ NoFault /\ UNCHANGED restored
        \/ fs[f] # Absent /\ Fault /\ restored' = "failed" /\ UNCHANGED fs

RollbackConfig ==
  /\ pc = "rbConfig"
  /\ Restore("config", "configBak", rec.oldConfig)
  /\ pc' = "rbDict"
  /\ UNCHANGED <<journal, shared, op, stage, rec, ctx, todo, budget, history>>

RollbackDict ==
  /\ pc = "rbDict"
  /\ Restore("dict", "dictBak", rec.oldDict)
  /\ pc' = "rolled"
  /\ UNCHANGED <<journal, shared, op, stage, rec, ctx, todo, budget, history>>

\* The caller of RollbackToBackup looks at its result.
RolledBack ==
  /\ pc = "rolled"
  /\ \/ restored = "failed" /\ Leave
     \/ restored = "ok" /\ ctx = "prepared"      /\ Remove(Artifacts, "recovered")
     \/ restored = "ok" /\ ctx = "rollback"      /\ Goto("pubOld")
     \/ restored = "ok" /\ ctx = "replaceFailed" /\ CleanStaleArtifacts
     \/ restored = "ok" /\ ctx = "publishFailed" /\ Remove(Artifacts, "fail")
  /\ UNCHANGED <<fs, journal, shared, budget, faults, history>>

Present(p) == IF p = "journal" THEN journal.state # "None" ELSE fs[p] # Absent

RemoveNext ==
  /\ pc = "remove"
  /\ \E p \in todo :
       /\ \A q \in todo : Rank(p) <= Rank(q)
       /\ todo' = todo \ {p}
       /\ \/ /\ NoFault
             /\ IF p = "journal" THEN journal' = NoJournal /\ UNCHANGED fs
                                 ELSE fs' = [fs EXCEPT ![p] = Absent] /\ UNCHANGED journal
          \/ RemoveMayFail /\ Present(p) /\ Fault /\ UNCHANGED <<fs, journal>>
  /\ UNCHANGED <<shared, op, pc, stage, rec, ctx, restored, budget, history>>

RemoveDone ==
  /\ pc = "remove" /\ todo = {}
  /\ \/ ctx = "recovered"              /\ Recovered
     \/ ctx \in {"clean", "fail"}      /\ Leave
     \/ ctx \in {"recovery", "commit"} /\ Goto("jCommitted")
     \/ ctx = "done"                   /\ Leave
  /\ acked' = IF ctx = "done" THEN rec.newConfig.ver ELSE acked
  /\ UNCHANGED <<fs, journal, shared, budget, faults, ackedMisc>>

\* GENERATION_PUBLISHED, by the commit (which removes the backups next) or by
\* the recovery (which removes all four files).
JournalPublished ==
  /\ pc = "jGenPub"
  /\ \/ /\ SetJournal("GenerationPublished") /\ NoFault
        /\ Remove(IF ctx = "recovery" THEN Temps ELSE {"configBak", "dictBak"}, ctx)
     \/ Fault /\ Leave /\ UNCHANGED journal
  /\ UNCHANGED <<fs, shared, budget, history>>

JournalCommitted ==
  /\ pc = "jCommitted"
  /\ \/ /\ SetJournal("Committed") /\ NoFault
        /\ Remove({"journal"}, IF ctx = "recovery" THEN "recovered" ELSE "done")
     \/ Fault /\ Leave /\ UNCHANGED journal
  /\ UNCHANGED <<fs, shared, budget, history>>

-----------------------------------------------------------------------------
(* CommitLexiconUpdate merges into the recovered config.toml, then enters   *)
(* CommitTransactionImpl, which runs the recovery once more.                *)

Merge ==
  /\ pc = "merge"
  /\ \/ fs["config"] = Partial /\ Leave /\ UNCHANGED nextVer
     \/ /\ fs["config"] # Partial
        /\ op' = [kind |-> op.kind, wire |-> op.wire, gen |-> gen.val, new |-> NewConfig(fs["config"])]
        /\ nextVer' = nextVer + 1
        /\ stage' = "second" /\ pc' = "recover"
        /\ UNCHANGED <<rec, ctx, restored, todo>>
  /\ UNCHANGED <<fs, journal, shared, nextMisc, crashes, faults, history>>

\* Pre-flight: a bad payload or an unreachable SharedState ends the commit here.
\* The record, written with step 3, is filled in from the files as they are now.
Preflight ==
  /\ pc = "txn"
  /\ \/ Leave
     \/ /\ rec' = [notify |-> op.kind = "commit", oldGen |-> op.gen, newGen |-> op.gen + 1,
                   oldConfig |-> fs["config"], oldDict |-> fs["dict"],
                   newConfig |-> op.new, newDict |-> [ver |-> op.new.ver, misc |-> 0]]
        /\ restored' = "ok" /\ ctx' = "commit" /\ pc' = "wTmpC"
        /\ UNCHANGED <<op, stage, todo>>
  /\ UNCHANGED <<fs, journal, shared, budget, faults, history>>

\* Write p (whole, or broken off by a failure) and go on.
WriteFile(p, c, next) ==
  \/ fs' = [fs EXCEPT ![p] = c] /\ Goto(next) /\ NoFault
  \/ fs' = [fs EXCEPT ![p] = Partial] /\ Fault /\ CleanStaleArtifacts

Untouched == UNCHANGED <<journal, shared, budget, history>>

\* 1. Write temp files durably
WriteTempConfig == pc = "wTmpC" /\ WriteFile("configTmp", rec.newConfig, "wTmpD") /\ Untouched
WriteTempDict   == pc = "wTmpD" /\ WriteFile("dictTmp", rec.newDict, "bakC") /\ Untouched

\* 2. Create backups of existing files
BackupConfig ==
  /\ pc = "bakC" /\ Untouched
  /\ \/ rec.oldConfig # Absent /\ WriteFile("configBak", fs["config"], "bakD")
     \/ rec.oldConfig = Absent /\ Goto("bakD") /\ NoFault /\ UNCHANGED fs

BackupDict ==
  /\ pc = "bakD" /\ Untouched
  /\ \/ rec.oldDict # Absent /\ WriteFile("dictBak", fs["dict"], "jPrepared")
     \/ rec.oldDict = Absent /\ Goto("jPrepared") /\ NoFault /\ UNCHANGED fs

\* 3. PREPARED
JournalPrepared ==
  /\ pc = "jPrepared"
  /\ \/ SetJournal("Prepared") /\ Goto("replC") /\ NoFault
     \/ Fault /\ CleanStaleArtifacts /\ UNCHANGED journal
  /\ UNCHANGED <<fs, shared, budget, history>>

\* 4. Replace files.  ReplaceFileW refreshes the backup of an existing file.
ReplaceOrMove(tmp, dst, bak, old, next) ==
  \/ /\ fs' = [fs EXCEPT ![dst] = fs[tmp], ![tmp] = Absent,
                         ![bak] = IF old # Absent THEN fs[dst] ELSE fs[bak]]
     /\ Goto(next) /\ NoFault
  \/ Fault /\ Rollback("replaceFailed") /\ UNCHANGED fs

ReplaceConfig ==
  /\ pc = "replC" /\ Untouched
  /\ ReplaceOrMove("configTmp", "config", "configBak", rec.oldConfig, "replD")
ReplaceDict ==
  /\ pc = "replD" /\ Untouched
  /\ ReplaceOrMove("dictTmp", "dict", "dictBak", rec.oldDict, "jReplaced")

\* Mutant: the files are in place, so a failed journal write is reported as success.
JournalReplacedIgnoresFailure ==
  /\ pc = "jReplaced"
  /\ \/ /\ SetJournal("FilesReplaced") /\ NoFault /\ UNCHANGED acked
        /\ Goto(IF ~rec.notify THEN "jGenPub" ELSE IF op.wire THEN "pubWire" ELSE "pubGen")
     \/ Fault /\ acked' = rec.newConfig.ver /\ Leave /\ UNCHANGED journal
  /\ UNCHANGED <<fs, shared, budget, ackedMisc>>

\* 5. FILES_REPLACED; a failure runs the recovery on the PREPARED journal.
JournalReplaced ==
  /\ pc = "jReplaced"
  /\ \/ /\ SetJournal("FilesReplaced") /\ NoFault
        /\ Goto(IF ~rec.notify THEN "jGenPub" ELSE IF op.wire THEN "pubWire" ELSE "pubGen")
     \/ /\ Fault /\ stage' = "abort" /\ pc' = "recover"
        /\ UNCHANGED <<journal, op, rec, ctx, restored, todo>>
  /\ UNCHANGED <<fs, shared, budget, history>>

\* 6. Publish the wire mapping, and 7. the generation.
PublishWire ==
  /\ pc = "pubWire"
  /\ \/ wire' = rec.newConfig.ver /\ Goto("pubGen") /\ NoFault
     \/ Fault /\ Goto("jRollbackFiles") /\ UNCHANGED wire
  /\ UNCHANGED <<fs, journal, gen, loaded, budget, history>>

PublishGen ==
  /\ pc = "pubGen"
  /\ \/ PublishGeneration(rec.newGen, rec.newConfig.ver) /\ Goto("jGenPub") /\ NoFault
     \/ Fault /\ Goto("jRollbackAll") /\ UNCHANGED gen
  /\ UNCHANGED <<fs, journal, wire, loaded, budget, history>>

\* ROLLBACK_PENDING, then undo: the files only if the wire was not published.
JournalRollback ==
  /\ pc \in {"jRollbackFiles", "jRollbackAll"}
  /\ \/ /\ SetJournal("RollbackPending") /\ NoFault
        /\ IF pc = "jRollbackFiles" THEN Rollback("publishFailed")
           ELSE Goto(IF op.wire THEN "restoreWire" ELSE "restoreGen")
     \/ Fault /\ Leave /\ UNCHANGED journal
  /\ UNCHANGED <<fs, shared, budget, history>>

RestoreWire ==
  /\ pc = "restoreWire" /\ pc' = "restoreGen"
  /\ \/ wire' = Ver(rec.oldConfig) /\ NoFault /\ UNCHANGED restored
     \/ Fault /\ restored' = "failed" /\ UNCHANGED wire
  /\ UNCHANGED <<fs, journal, gen, loaded, op, stage, rec, ctx, todo, budget, history>>

\* Up to three attempts: one fault in the model stands for three failures.
RestoreGen ==
  /\ pc = "restoreGen" /\ pc' = "rbConfig" /\ ctx' = "publishFailed"
  /\ \/ PublishGeneration(rec.oldGen, Ver(rec.oldConfig)) /\ NoFault /\ UNCHANGED restored
     \/ Fault /\ restored' = "failed" /\ UNCHANGED gen
  /\ UNCHANGED <<fs, journal, wire, loaded, op, stage, rec, todo, budget, history>>

-----------------------------------------------------------------------------
(* Readers of the pair, and ordinary saves.                                 *)

\* LexiconReader and PublishCurrentLexiconToWire: recovery returned true.
\* The publisher raises a stale wire_generation in config.toml first.
LoadPair ==
  /\ pc = "load"
  /\ \/ /\ op.kind = "read" \/ fs["config"] \notin Content
        /\ Leave /\ NoFault /\ UNCHANGED <<fs, nextMisc>>
     \/ /\ op.kind = "publish" /\ fs["config"] \in Content
        /\ Goto("wirePub") /\ NoFault /\ UNCHANGED <<fs, nextMisc>>
     \/ /\ op.kind = "publish" /\ fs["config"] \in Content /\ nextMisc <= MaxMisc
        /\ nextMisc' = nextMisc + 1
        /\ \/ fs' = [fs EXCEPT !["config"] = [ver |-> fs["config"].ver, misc |-> nextMisc], !["configTmp"] = Absent]
              /\ Goto("wirePub") /\ NoFault
           \/ Fault /\ Leave /\ UNCHANGED fs
  /\ UNCHANGED <<journal, shared, nextVer, crashes, history>>

PublishCurrentLexicon ==
  /\ pc = "wirePub"
  /\ \/ wire' = fs["config"].ver /\ Leave /\ NoFault
     \/ Fault /\ Leave /\ UNCHANGED wire
  /\ UNCHANGED <<fs, journal, gen, loaded, budget, history>>

\* ConfigManager::Save*: LoadExistingToml (an unparsable file is set aside and
\* defaults are used), merge one table, WriteToml.
SavedConfig ==
  [ver |-> IF op.kind = "saveStale" THEN loaded
           ELSE IF fs["config"] \in Content THEN fs["config"].ver ELSE 0,
   misc |-> nextMisc]

SaveTemp ==
  /\ pc = "save"
  /\ op' = [kind |-> op.kind, wire |-> op.wire, gen |-> op.gen, new |-> SavedConfig]
  /\ nextMisc' = nextMisc + 1
  /\ pc' = "saveRename"
  /\ fs' = [fs EXCEPT !["configTmp"] = SavedConfig,
                      !["config"] = IF @ = Partial THEN Absent ELSE @]
  /\ UNCHANGED <<journal, shared, stage, rec, ctx, restored, todo, nextVer, crashes, faults, history>>

SaveRename ==
  /\ pc = "saveRename" /\ Leave
  /\ \/ /\ fs' = [fs EXCEPT !["config"] = fs["configTmp"], !["configTmp"] = Absent]
        /\ ackedMisc' = op.new.misc /\ NoFault
     \/ fs' = [fs EXCEPT !["configTmp"] = Absent] /\ Fault /\ UNCHANGED ackedMisc
  /\ UNCHANGED <<journal, shared, budget, acked>>

-----------------------------------------------------------------------------
(* The process dies.  A file being written may be left partial, and a        *)
(* ReplaceFileW cut short may leave only the backup.                         *)

Torn(p) == fs' = [fs EXCEPT ![p] = Partial]

CutReplace(dst, bak) == fs' = [fs EXCEPT ![dst] = Absent, ![bak] = fs[dst]]

Crash ==
  /\ pc # "idle" /\ crashes < MaxCrashes
  /\ crashes' = crashes + 1
  /\ \/ UNCHANGED fs
     \/ pc \in {"wTmpC", "save"} /\ Torn("configTmp")
     \/ pc = "wTmpD" /\ Torn("dictTmp")
     \/ pc = "bakC" /\ rec.oldConfig # Absent /\ Torn("configBak")
     \/ pc = "bakD" /\ rec.oldDict # Absent /\ Torn("dictBak")
     \/ pc = "replC" /\ rec.oldConfig # Absent /\ CutReplace("config", "configBak")
     \/ pc = "replD" /\ rec.oldDict # Absent /\ CutReplace("dict", "dictBak")
  /\ Leave
  /\ UNCHANGED <<journal, shared, nextVer, nextMisc, faults, history>>

-----------------------------------------------------------------------------
Recover == \/ RecoverNone \/ RecoverPrepared \/ RecoverFilesReplaced \/ RecoverRollback
           \/ RecoverPublished \/ RecoverCommitted
           \/ RecoverPublishOld \/ RecoverPublishWire \/ RecoverPublishNew

Undo == RollbackConfig \/ RollbackDict \/ RolledBack \/ RemoveNext \/ RemoveDone

Commit == \/ Merge \/ Preflight \/ WriteTempConfig \/ WriteTempDict
          \/ BackupConfig \/ BackupDict \/ JournalPrepared
          \/ ReplaceConfig \/ ReplaceDict \/ JournalReplaced
          \/ PublishWire \/ PublishGen \/ JournalRollback \/ RestoreWire \/ RestoreGen
          \/ JournalPublished \/ JournalCommitted

Others == LoadPair \/ PublishCurrentLexicon \/ SaveTemp \/ SaveRename

Step == Recover \/ Undo \/ Commit \/ Others

Next == (\E k \in Ops : Begin(k)) \/ LoadTypingConfig \/ Step \/ Crash

Spec == Init /\ [][Next]_vars

\* An operation that holds the mutex runs on until it returns or its process
\* dies, and a reader of the pair (TSF reload, start of the main process)
\* comes again.
Fairness == WF_vars(Step) /\ SF_vars(Begin("read"))
-----------------------------------------------------------------------------
(* Properties                                                               *)

PcLabels == {"idle", "recover", "rbConfig", "rbDict", "rolled", "remove", "pubOld",
  "pubWireOld", "pubNew", "merge", "txn", "wTmpC", "wTmpD", "bakC", "bakD", "jPrepared",
  "replC", "replD", "jReplaced", "pubWire", "pubGen", "jRollbackFiles", "jRollbackAll",
  "restoreWire", "restoreGen", "jGenPub", "jCommitted", "load", "wirePub", "save", "saveRename"}

Contexts == {"none", "prepared", "rollback", "replaceFailed", "publishFailed",
             "recovered", "clean", "fail", "recovery", "commit", "done"}

LocalsOK == /\ op \in [kind : OpKinds \cup {"none"}, wire : BOOLEAN, gen : Nat, new : File]
            /\ pc \in PcLabels /\ stage \in {"none", "first", "second", "abort"}
            /\ rec \in Record /\ ctx \in Contexts /\ restored \in {"ok", "failed"}
            /\ todo \in SUBSET Artifacts

\* The files, the journal, the shared memory and the locals of the running
\* operation keep their types.
TypeOK ==
  /\ LocalsOK
  /\ fs \in [Path -> File]
  /\ journal \in [state : JournalStates, txn : Record]
  /\ gen \in [val : Nat, ver : Int] /\ wire \in Int /\ loaded \in Nat
  /\ nextVer \in Nat /\ nextMisc \in Nat /\ crashes \in Nat /\ faults \in Nat
  /\ acked \in Int /\ ackedMisc \in Nat

\* Where RecoverIfNeeded has returned true and its caller reads the files.
Reading == pc \in {"merge", "txn", "load", "wirePub"}

\* Whoever reads config.toml and user_dictionary.txt after a successful
\* RecoverIfNeeded sees the two of the same transaction, whole, whatever
\* crashes and failures the earlier transactions met.
PairAtomic ==
  Reading => /\ Ver(fs["config"]) = Ver(fs["dict"])
             /\ Partial \notin {fs["config"], fs["dict"]}

\* A lexicon update whose commit returned true is never undone: a reader sees
\* that version or a later one.
CommitDurable == Reading => Ver(fs["config"]) >= acked

\* While a journal says PREPARED the old pair can still be put back: each file
\* that existed is in its backup, or in place (and no backup then overwrites it
\* with something else).
OldPairRecoverable ==
  journal.state = "Prepared" =>
    /\ journal.txn.oldConfig # Absent =>
         fs["configBak"] = journal.txn.oldConfig
           \/ (fs["configBak"] = Absent /\ fs["config"] = journal.txn.oldConfig)
    /\ journal.txn.oldDict # Absent =>
         fs["dictBak"] = journal.txn.oldDict
           \/ (fs["dictBak"] = Absent /\ fs["dict"] = journal.txn.oldDict)

\* An ordinary config.toml save that returned true is still there for every
\* later reader: CommitLexiconUpdate merges into the file, under the same mutex.
SavesSurvive == Reading => Misc(fs["config"]) >= ackedMisc

\* The process that owns the wire mapping announces a lexicon version through
\* SharedState only once the mapping holds that version (step 6 before step 7).
WireBeforeGeneration ==
  [][(op.wire /\ gen'.ver > gen.ver) => wire = gen'.ver]_vars

\* An unfinished transaction does not stay unfinished: as long as readers come
\* back, crashes and failures stop, its journal is eventually resolved.
JournalResolved == (journal.state # "None") ~> (journal.state = "None")

\* Nothing that was promised is lost: a commit and an ordinary save that were
\* acknowledged are what every later reader finds (CommitTransaction,
\* SaveToFile), and as long as a commit is not decided the pair it replaces can
\* be put back (RollbackToBackup).
NothingIsLost == TypeOK /\ CommitDurable /\ SavesSurvive /\ OldPairRecoverable
=============================================================================
