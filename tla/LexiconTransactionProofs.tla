----------------------- MODULE LexiconTransactionProofs -----------------------
(***************************************************************************)
(* Proofs about LexiconTransaction, for every choice of its constants.     *)
(***************************************************************************)
EXTENDS LexiconTransaction, TLAPS

\* Every way an operation moves on keeps the type of its variables.
LEMMA LeaveType == Leave => LocalsOK'
BY DEF Leave, LocalsOK, NoOp, NoRecord, Record, File, Content, Absent, Partial,
       Contexts, PcLabels, JournalStates, Artifacts, Temps

\* A step of the program counter keeps the types of what the transaction holds.
LEMMA GotoType == ASSUME LocalsOK, NEW l \in PcLabels, Goto(l) PROVE LocalsOK'
BY DEF Goto, LocalsOK

\* Removing files does.  (DeleteFileW in the order of the code)
LEMMA RemoveType ==
  ASSUME LocalsOK, NEW S \in SUBSET Artifacts, NEW c \in Contexts, Remove(S, c)
  PROVE  LocalsOK'
BY DEF Remove, LocalsOK, PcLabels

\* Going to the rollback does.
LEMMA RollbackType ==
  ASSUME LocalsOK, NEW c \in Contexts, Rollback(c) PROVE LocalsOK'
BY DEF Rollback, LocalsOK, PcLabels

\* Rolling back from a journal record does.  (RecoverIfNeeded)
LEMMA RollbackFromType ==
  ASSUME LocalsOK, NEW c \in Contexts, NEW r \in Record, RollbackFrom(r, c) PROVE LocalsOK'
BY DEF RollbackFrom, LocalsOK, PcLabels

\* A recovery that has ended does.
LEMMA RecoveredType == LocalsOK /\ Recovered => LocalsOK'
BY LeaveType, GotoType DEF Recovered, PcLabels

\* The named sets of paths and labels are subsets of the types.
LEMMA PathsType ==
  /\ Artifacts \in SUBSET Artifacts /\ Temps \in SUBSET Artifacts
  /\ {"configBak", "dictBak"} \in SUBSET Artifacts /\ {"journal"} \in SUBSET Artifacts
BY DEF Artifacts, Temps

\* The named contents of a file, and the fields that every content has.
LEMMA FileType ==
  /\ Absent \in File /\ Partial \in File /\ NoJournal \in [state : JournalStates, txn : Record]
  /\ \A c \in File : Ver(c) \in Int /\ c.ver \in Int /\ Misc(c) \in Nat
BY DEF File, Content, Absent, Partial, Ver, Misc, NoJournal, NoRecord, Record, JournalStates

\* The fields of a journal record.
LEMMA RecordType ==
  ASSUME NEW r \in Record
  PROVE  /\ r.oldConfig \in File /\ r.oldDict \in File /\ r.newConfig \in File
         /\ r.newDict \in File /\ r.oldGen \in Nat /\ r.newGen \in Nat
BY DEF Record


USE DEF shared, history, budget

\* Recovery keeps every variable's type.
LEMMA RecoverType == TypeOK /\ Recover => TypeOK'
<1> SUFFICES ASSUME TypeOK, Recover PROVE TypeOK'
  OBVIOUS
<1> USE DEF TypeOK
<1>0. LocalsOK /\ rec \in Record /\ journal.txn \in Record /\ op.wire \in BOOLEAN
  BY DEF LocalsOK
<1>1. CASE RecoverNone
  BY <1>1, RecoveredType DEF RecoverNone
<1>2. CASE RecoverPrepared
  BY <1>0, <1>2, RollbackFromType DEF RecoverPrepared, Contexts
<1>3. CASE RecoverFilesReplaced
  BY <1>0, <1>3 DEF RecoverFilesReplaced, LocalsOK, PcLabels, Contexts
<1>4. CASE RecoverRollback
  <2>1. CASE RollbackFrom(journal.txn, "rollback")
    BY <1>0, <1>4, <2>1, RollbackFromType DEF RecoverRollback, Contexts
  <2>2. CASE Leave
    BY <1>4, <2>2, LeaveType DEF RecoverRollback
  <2>3. CASE rec' = journal.txn /\ pc' = "pubOld" /\ UNCHANGED <<op, stage, ctx, restored, todo>>
    BY <1>0, <1>4, <2>3 DEF RecoverRollback, LocalsOK, PcLabels
  <2> QED BY <1>4, <2>1, <2>2, <2>3 DEF RecoverRollback
<1>5. CASE RecoverPublished
  BY <1>0, <1>5, PathsType DEF RecoverPublished, LocalsOK, PcLabels, Contexts
<1>6. CASE RecoverCommitted
  BY <1>0, <1>6, PathsType DEF RecoverCommitted, LocalsOK, PcLabels, Contexts
<1>7. CASE RecoverPublishOld
  <2>1. gen' \in [val : Nat, ver : Int] /\ journal' \in [state : JournalStates, txn : Record]
    BY <1>0, <1>7, RecordType, FileType DEF RecoverPublishOld, PublishGeneration, SetJournal, JournalStates
  <2>2. LocalsOK'
    BY <1>0, <1>7, LeaveType, GotoType, RemoveType, PathsType DEF RecoverPublishOld, Contexts, PcLabels
  <2> QED BY <1>7, <2>1, <2>2 DEF RecoverPublishOld, Fault, NoFault
<1>8. CASE RecoverPublishWire
  <2>1. wire' \in Int
    BY <1>8, FileType DEF RecoverPublishWire, Path
  <2>2. LocalsOK'
    BY <1>0, <1>8, LeaveType, RemoveType, PathsType DEF RecoverPublishWire, Contexts
  <2> QED BY <1>8, <2>1, <2>2 DEF RecoverPublishWire, Fault, NoFault
<1>9. CASE RecoverPublishNew
  <2>1. gen' \in [val : Nat, ver : Int]
    BY <1>0, <1>9, RecordType, FileType DEF RecoverPublishNew, PublishGeneration
  <2>2. LocalsOK'
    BY <1>0, <1>9, LeaveType, GotoType DEF RecoverPublishNew, PcLabels
  <2> QED BY <1>9, <2>1, <2>2 DEF RecoverPublishNew, Fault, NoFault
<1> QED BY <1>1, <1>2, <1>3, <1>4, <1>5, <1>6, <1>7, <1>8, <1>9 DEF Recover

\* So do the rollback and the clean-up.
LEMMA UndoType == TypeOK /\ Undo => TypeOK'
<1> SUFFICES ASSUME TypeOK, Undo PROVE TypeOK'
  OBVIOUS
<1> USE DEF TypeOK
<1>0. LocalsOK /\ rec \in Record
  BY DEF LocalsOK
<1>1. ASSUME NEW f \in Path, NEW b \in Path, NEW o \in File, Restore(f, b, o)
      PROVE  fs' \in [Path -> File] /\ restored' \in {"ok", "failed"} /\ faults' \in Nat
  BY <1>1, FileType DEF Restore, Fault, NoFault, LocalsOK
<1>2. CASE RollbackConfig
  <2>1. fs' \in [Path -> File] /\ restored' \in {"ok", "failed"} /\ faults' \in Nat
    BY <1>0, <1>1, <1>2 DEF RollbackConfig, Path, Record
  <2> QED BY <1>2, <2>1 DEF RollbackConfig, LocalsOK, PcLabels
<1>3. CASE RollbackDict
  <2>1. fs' \in [Path -> File] /\ restored' \in {"ok", "failed"} /\ faults' \in Nat
    BY <1>0, <1>1, <1>3 DEF RollbackDict, Path, Record
  <2> QED BY <1>3, <2>1 DEF RollbackDict, LocalsOK, PcLabels
<1>4. CASE RolledBack
  <2>1. LocalsOK'
    BY <1>0, <1>4, LeaveType, GotoType, RemoveType, PathsType
       DEF RolledBack, CleanStaleArtifacts, Contexts, PcLabels
  <2> QED BY <1>4, <2>1 DEF RolledBack
<1>5. CASE RemoveNext
  <2>1. LocalsOK'
    BY <1>5 DEF RemoveNext, LocalsOK
  <2>2. fs' \in [Path -> File] /\ journal' \in [state : JournalStates, txn : Record]
    BY <1>5, FileType DEF RemoveNext
  <2> QED BY <1>5, <2>1, <2>2 DEF RemoveNext, Fault, NoFault
<1>6. CASE RemoveDone
  <2>1. LocalsOK'
    BY <1>0, <1>6, LeaveType, GotoType, RecoveredType DEF RemoveDone, PcLabels
  <2>2. acked' \in Int
    BY <1>0, <1>6, RecordType, FileType DEF RemoveDone
  <2> QED BY <1>6, <2>1, <2>2 DEF RemoveDone
<1> QED BY <1>2, <1>3, <1>4, <1>5, <1>6 DEF Undo

\* So does the commit.
LEMMA CommitType == TypeOK /\ Commit => TypeOK'
<1> SUFFICES ASSUME TypeOK, Commit PROVE TypeOK'
  OBVIOUS
<1> USE DEF TypeOK
<1>0. /\ LocalsOK /\ rec \in Record
      /\ fs["config"] \in File /\ fs["dict"] \in File
  BY DEF LocalsOK, Path
<1>1. ASSUME NEW p \in Path, NEW c \in File, NEW l \in PcLabels, WriteFile(p, c, l)
      PROVE  fs' \in [Path -> File] /\ faults' \in Nat /\ LocalsOK'
  BY <1>0, <1>1, FileType, GotoType, RemoveType, PathsType
     DEF WriteFile, CleanStaleArtifacts, Fault, NoFault, Contexts
<1>2. ASSUME NEW t \in Path, NEW d \in Path, NEW b \in Path, NEW o \in File,
             NEW l \in PcLabels, ReplaceOrMove(t, d, b, o, l)
      PROVE  fs' \in [Path -> File] /\ faults' \in Nat /\ LocalsOK'
  BY <1>0, <1>2, FileType, GotoType, RollbackType DEF ReplaceOrMove, Fault, NoFault, Contexts
<1>3. ASSUME NEW s \in JournalStates, SetJournal(s)
      PROVE  journal' \in [state : JournalStates, txn : Record]
  BY <1>0, <1>3 DEF SetJournal
<1> USE DEF JournalStates, Contexts, PcLabels, Path
<1>4. CASE Merge
  <2>1. CASE Leave
    BY <1>4, <2>1, LeaveType DEF Merge
  <2>2. CASE ~Leave
    <3>1. op' \in [kind : OpKinds \cup {"none"}, wire : BOOLEAN, gen : Nat, new : File] /\ nextVer' \in Nat
      BY <1>0, <1>4, <2>2, FileType DEF Merge, NewConfig, File, Content, LocalsOK
    <3> QED BY <1>4, <2>2, <3>1 DEF Merge, LocalsOK
  <2> QED BY <2>1, <2>2
<1>5. CASE Preflight
  <2>1. CASE Leave
    BY <1>5, <2>1, LeaveType DEF Preflight
  <2>2. CASE ~Leave
    <3>1. /\ op.new \in File /\ op.gen \in Nat /\ op.gen + 1 \in Nat
          /\ [ver |-> op.new.ver, misc |-> 0] \in File
      BY DEF LocalsOK, File, Content, Absent, Partial
    <3>2. rec' \in Record
      <4>1. ASSUME NEW n \in BOOLEAN
            PROVE  [notify |-> n, oldGen |-> op.gen, newGen |-> op.gen + 1,
                    oldConfig |-> fs["config"], oldDict |-> fs["dict"],
                    newConfig |-> op.new, newDict |-> [ver |-> op.new.ver, misc |-> 0]] \in Record
        BY <1>0, <3>1 DEF Record
      <4>2. (op.kind = "commit") \in BOOLEAN
        OBVIOUS
      <4> QED BY ONLY <1>5, <2>2, <4>1, <4>2, Zenon DEF Preflight
    <3> QED BY <1>5, <2>2, <3>2 DEF Preflight, LocalsOK
  <2> QED BY <2>1, <2>2
<1>6. CASE WriteTempConfig
  BY <1>0, <1>1, <1>6, RecordType DEF WriteTempConfig, Untouched
<1>7. CASE WriteTempDict
  BY <1>0, <1>1, <1>7, RecordType DEF WriteTempDict, Untouched
<1>8. CASE BackupConfig
  BY <1>0, <1>1, <1>8, GotoType DEF BackupConfig, Untouched, NoFault
<1>9. CASE BackupDict
  BY <1>0, <1>1, <1>9, GotoType DEF BackupDict, Untouched, NoFault
<1>10. CASE JournalPrepared
  BY <1>0, <1>3, <1>10, GotoType, RemoveType, PathsType DEF JournalPrepared, CleanStaleArtifacts, Fault, NoFault
<1>11. CASE ReplaceConfig
  <2>1. fs' \in [Path -> File] /\ faults' \in Nat /\ LocalsOK'
    BY <1>0, <1>2, <1>11, RecordType DEF ReplaceConfig
  <2> QED BY <1>11, <2>1 DEF ReplaceConfig, Untouched
<1>12. CASE ReplaceDict
  <2>1. fs' \in [Path -> File] /\ faults' \in Nat /\ LocalsOK'
    BY <1>0, <1>2, <1>12, RecordType DEF ReplaceDict
  <2> QED BY <1>12, <2>1 DEF ReplaceDict, Untouched
<1>13. CASE JournalReplaced
  <2>1. LocalsOK'
    BY <1>0, <1>13, GotoType DEF JournalReplaced, LocalsOK
  <2> QED BY <1>0, <1>3, <1>13, <2>1 DEF JournalReplaced, Fault, NoFault
<1>14. CASE PublishWire
  BY <1>0, <1>14, GotoType, RecordType, FileType DEF PublishWire, Fault, NoFault
<1>15. CASE PublishGen
  BY <1>0, <1>15, GotoType, RecordType, FileType DEF PublishGen, PublishGeneration, Fault, NoFault
<1>16. CASE JournalRollback
  BY <1>0, <1>3, <1>16, GotoType, LeaveType, RollbackType DEF JournalRollback, Fault, NoFault
<1>17. CASE RestoreWire
  BY <1>0, <1>17, RecordType, FileType DEF RestoreWire, LocalsOK, Fault, NoFault
<1>18. CASE RestoreGen
  BY <1>0, <1>18, RecordType, FileType DEF RestoreGen, PublishGeneration, LocalsOK, Fault, NoFault
<1>19. CASE JournalPublished
  BY <1>0, <1>3, <1>19, LeaveType, RemoveType, PathsType DEF JournalPublished, LocalsOK, Fault, NoFault
<1>20. CASE JournalCommitted
  BY <1>0, <1>3, <1>20, LeaveType, RemoveType, PathsType DEF JournalCommitted, Fault, NoFault
<1> QED BY <1>4, <1>5, <1>6, <1>7, <1>8, <1>9, <1>10, <1>11, <1>12, <1>13, <1>14, <1>15,
           <1>16, <1>17, <1>18, <1>19, <1>20 DEF Commit

\* The readers, the saves and a crash complete the picture.
LEMMA OthersType == TypeOK /\ (Others \/ Crash) => TypeOK'
<1> SUFFICES ASSUME TypeOK, Others \/ Crash PROVE TypeOK'
  OBVIOUS
<1> USE DEF TypeOK
<1>0. LocalsOK /\ rec \in Record /\ fs["config"] \in File
  BY DEF LocalsOK, Path
<1>1. CASE LoadPair
  <2>1. LocalsOK'
    BY <1>0, <1>1, LeaveType, GotoType DEF LoadPair, PcLabels
  <2>2. fs' \in [Path -> File] /\ nextMisc' \in Nat
    BY <1>0, <1>1, FileType DEF LoadPair, File, Content, Path
  <2> QED BY <1>1, <2>1, <2>2 DEF LoadPair, Fault, NoFault
<1>2. CASE PublishCurrentLexicon
  BY <1>0, <1>2, LeaveType, FileType DEF PublishCurrentLexicon, Fault, NoFault
<1>3. CASE SaveTemp
  <2>1. SavedConfig \in File
    BY <1>0 DEF SavedConfig, File, Content
  <2>2. op' \in [kind : OpKinds \cup {"none"}, wire : BOOLEAN, gen : Nat, new : File]
    BY <1>0, <1>3, <2>1 DEF SaveTemp, LocalsOK
  <2> QED BY <1>0, <1>3, <2>1, <2>2, FileType DEF SaveTemp, LocalsOK, PcLabels, Path
<1>4. CASE SaveRename
  <2>1. op.new \in File /\ op.new.misc \in Nat
    BY FileType DEF LocalsOK, Misc
  <2> QED BY <1>0, <1>4, <2>1, LeaveType, FileType DEF SaveRename, Fault, NoFault, Path
<1>5. CASE Crash
  BY <1>0, <1>5, LeaveType, FileType DEF Crash, Torn, CutReplace, Path
<1> QED BY <1>1, <1>2, <1>3, <1>4, <1>5 DEF Others

\* The types hold at the start.
LEMMA InitType == Init => TypeOK
<1> SUFFICES ASSUME Init PROVE TypeOK
  OBVIOUS
<1>1. fs \in [Path -> File]
  BY DEF Init, File, Content, Absent
<1>2. LocalsOK
  BY DEF Init, LocalsOK, NoOp, NoRecord, Record, File, Content, Absent, PcLabels, Contexts, Artifacts
<1> QED BY <1>1, <1>2, FileType DEF Init, TypeOK

\* Every step of the transaction, of a crash and of other programs keeps the types.
LEMMA NextType == TypeOK /\ [Next]_vars => TypeOK'
<1> SUFFICES ASSUME TypeOK, [Next]_vars PROVE TypeOK'
  OBVIOUS
<1>1. ASSUME NEW k \in Ops, Begin(k) PROVE TypeOK'
  <2>1. fs["config"] \in File /\ k \in OpKinds
    BY ParamAssumption DEF TypeOK, Path
  <2>2. op' \in [kind : OpKinds \cup {"none"}, wire : BOOLEAN, gen : Nat, new : File] /\ nextVer' \in Nat
    BY <1>1, <2>1, FileType DEF Begin, NewConfig, TypeOK, File, Content
  <2> QED BY <1>1, <2>2 DEF Begin, TypeOK, LocalsOK, PcLabels
<1>2. CASE LoadTypingConfig
  BY <1>2 DEF LoadTypingConfig, TypeOK, LocalsOK, Content
<1>3. CASE Step
  BY <1>3, RecoverType, UndoType, CommitType, OthersType DEF Step
<1>4. CASE Crash
  BY <1>4, OthersType
<1>5. CASE UNCHANGED vars
  BY <1>5 DEF vars, TypeOK, LocalsOK
<1> QED BY <1>1, <1>2, <1>3, <1>4, <1>5 DEF Next

\* Type correctness of the whole specification.
THEOREM TypeCorrect == Spec => []TypeOK
<1> QED BY InitType, NextType, PTL DEF Spec


-----------------------------------------------------------------------------
(* The pair is atomic: the transactions the product runs (CommitLexiconUpdate, *)
(* which never notifies), its readers and the publisher of the main process,   *)
(* any number of crashes and failures; a clean-up that deletes what it is      *)
(* told to delete.                                                             *)

OnlyLexiconOps == Ops \subseteq {"update", "read", "publish"} /\ ~RemoveMayFail

Whole(c) == c # Partial

\* A record names two whole pairs of one version each.
RecordOK(r) == /\ r.notify = FALSE
               /\ Whole(r.oldConfig) /\ Whole(r.oldDict) /\ Ver(r.oldConfig) = Ver(r.oldDict)
               /\ r.newConfig \in Content /\ r.newDict \in Content
               /\ r.newConfig.ver = r.newDict.ver

Consistent == /\ Whole(fs["config"]) /\ Whole(fs["dict"])
              /\ Ver(fs["config"]) = Ver(fs["dict"])

IsNew(r) == fs["config"] = r.newConfig /\ fs["dict"] = r.newDict
IsOld(r) == fs["config"] = r.oldConfig /\ fs["dict"] = r.oldDict

Recoverable(f, b, old) == old # Absent => fs[b] = old \/ (fs[b] = Absent /\ fs[f] = old)
Restored(f, b, old)    == fs[f] = old /\ (old # Absent => fs[b] = Absent)

BothRecoverable(r) == /\ Recoverable("config", "configBak", r.oldConfig)
                      /\ Recoverable("dict", "dictBak", r.oldDict)
BothRestored(r) == /\ Restored("config", "configBak", r.oldConfig)
                   /\ Restored("dict", "dictBak", r.oldDict)

\* What the journal on disk promises about the files.
JournalInv ==
  /\ journal.state \in {"None", "Prepared", "FilesReplaced", "GenerationPublished", "Committed"}
  /\ journal.state = "None" => Consistent
  /\ journal.state # "None" => RecordOK(journal.txn)
  /\ journal.state = "Prepared" => BothRecoverable(journal.txn)
  /\ journal.state \in {"FilesReplaced", "GenerationPublished", "Committed"} => IsNew(journal.txn)

BeforeJournal == {"wTmpC", "wTmpD", "bakC", "bakD", "jPrepared"}
Replacing     == {"replC", "replD", "jReplaced"}

\* What a commit has done by the time it reaches each step.
CommitInv ==
  /\ pc \in BeforeJournal => journal.state = "None" /\ RecordOK(rec) /\ IsOld(rec)
  /\ pc \in Replacing => journal.state = "Prepared" /\ journal.txn = rec
  /\ pc \in BeforeJournal \cup Replacing => ctx = "commit"
  /\ pc \in {"wTmpD", "bakC", "bakD", "jPrepared", "replC"} => fs["configTmp"] = rec.newConfig
  /\ pc \in {"bakC", "bakD", "jPrepared", "replC", "replD"} => fs["dictTmp"] = rec.newDict
  /\ pc \in {"bakD", "jPrepared", "replC"} => (rec.oldConfig # Absent => fs["configBak"] = rec.oldConfig)
  /\ pc \in {"jPrepared", "replC", "replD"} => (rec.oldDict # Absent => fs["dictBak"] = rec.oldDict)
  /\ pc = "replC" => IsOld(rec)
  /\ pc = "replD" => fs["config"] = rec.newConfig /\ fs["dict"] = rec.oldDict
  /\ pc = "jReplaced" => IsNew(rec)
  /\ pc = "jGenPub" => journal.state = "FilesReplaced" /\ journal.txn = rec /\ ctx \in {"commit", "recovery"}
  /\ pc = "jCommitted" => journal.state = "GenerationPublished" /\ journal.txn = rec

\* What a rollback has restored, as long as no step of it failed.
RollbackInv ==
  /\ pc \in {"rbConfig", "rbDict", "rolled"} =>
       journal.state = "Prepared" /\ journal.txn = rec /\ ctx \in {"prepared", "replaceFailed"}
  /\ pc \in {"rbDict", "rolled"} /\ restored = "ok" => Restored("config", "configBak", rec.oldConfig)
  /\ pc = "rolled" /\ restored = "ok" => Restored("dict", "dictBak", rec.oldDict)

\* The journal goes only once the files need it no more, and it does go.
RemoveInv ==
  pc = "remove" =>
    /\ ctx \in {"recovered", "clean", "recovery", "commit", "done"}
    /\ ctx \in {"recovery", "commit"} =>
         /\ journal.state = "GenerationPublished" /\ journal.txn = rec
         /\ todo \subseteq Temps
    /\ ctx \in {"recovered", "clean", "done"} =>
         /\ journal.state # "None" => "journal" \in todo
         /\ journal.state = "None"
            \/ (journal.state = "Prepared" /\ BothRestored(journal.txn))
            \/ journal.state = "Committed"

\* The running operation is one of the three, and a reader sees no journal.
OpInv ==
  /\ op.kind \in {"none", "update", "read", "publish"}
  /\ stage = "second" => op.new \in Content /\ op.kind = "update"
  /\ Reading => journal.state = "None"
  /\ pc \notin {"save", "saveRename", "pubOld", "pubWireOld", "pubNew", "pubWire", "pubGen",
                "jRollbackFiles", "jRollbackAll", "restoreWire", "restoreGen"}
  /\ pc = "txn" => stage = "second"
  /\ pc = "merge" => op.kind = "update"

IndInv == TypeOK /\ JournalInv /\ CommitInv /\ RollbackInv /\ RemoveInv /\ OpInv
\* Every step of an operation, and a crash, keeps the invariant.
LEMMA IndStep == OnlyLexiconOps /\ IndInv /\ (Step \/ Crash) => IndInv'
<1> SUFFICES ASSUME OnlyLexiconOps, IndInv, Step \/ Crash PROVE IndInv'
  OBVIOUS
<1> USE DEF Consistent, RecordOK, Whole, IsNew, IsOld, BothRecoverable, BothRestored,
            Recoverable, Restored, BeforeJournal, Replacing, Reading
<1>t. TypeOK'
  BY RecoverType, UndoType, CommitType, OthersType DEF Step, IndInv
<1>a. /\ TypeOK /\ JournalInv /\ CommitInv /\ RollbackInv /\ RemoveInv /\ OpInv
      /\ fs \in [Path -> File] /\ ~RemoveMayFail
      /\ \A p \in {"config", "dict", "configTmp", "dictTmp", "configBak", "dictBak"} : p \in Path
  BY DEF IndInv, TypeOK, OnlyLexiconOps, Path
<1>u. ~(\/ RecoverPublishOld \/ RecoverPublishWire \/ RecoverPublishNew \/ PublishWire
        \/ PublishGen \/ JournalRollback \/ RestoreWire \/ RestoreGen \/ SaveTemp \/ SaveRename)
  BY <1>a DEF OpInv, RecoverPublishOld, RecoverPublishWire, RecoverPublishNew, PublishWire,
     PublishGen, JournalRollback, RestoreWire, RestoreGen, SaveTemp, SaveRename
<1>1. CASE RecoverNone
  <2> USE <1>1, <1>a DEF RecoverNone, Recovered, Leave, NoOp, Goto
  <2>1. JournalInv'
    BY DEF JournalInv
  <2>2. CommitInv'
    BY DEF CommitInv
  <2>3. RollbackInv'
    BY DEF RollbackInv
  <2>4. RemoveInv'
    BY DEF RemoveInv
  <2>5. OpInv'
    BY DEF OpInv
  <2> QED BY <2>1, <2>2, <2>3, <2>4, <2>5, <1>t DEF IndInv
<1>2. CASE RecoverPrepared
  <2> USE <1>2, <1>a DEF RecoverPrepared, RollbackFrom
  <2>1. JournalInv'
    BY DEF JournalInv
  <2>2. CommitInv'
    BY DEF CommitInv
  <2>3. RollbackInv'
    BY DEF RollbackInv
  <2>4. RemoveInv'
    BY DEF RemoveInv
  <2>5. OpInv'
    BY DEF OpInv
  <2> QED BY <2>1, <2>2, <2>3, <2>4, <2>5, <1>t DEF IndInv
<1>3. CASE RecoverFilesReplaced
  <2> USE <1>3, <1>a DEF RecoverFilesReplaced
  <2>1. JournalInv'
    BY DEF JournalInv
  <2>2. CommitInv'
    BY DEF CommitInv
  <2>3. RollbackInv'
    BY DEF RollbackInv
  <2>4. RemoveInv'
    BY DEF RemoveInv
  <2>5. OpInv'
    BY DEF JournalInv, OpInv
  <2> QED BY <2>1, <2>2, <2>3, <2>4, <2>5, <1>t DEF IndInv
<1>4. CASE RecoverRollback
  <2> USE <1>4, <1>a DEF RecoverRollback, RollbackFrom, HashesMatch
  <2>1. JournalInv'
    BY DEF JournalInv
  <2>2. CommitInv'
    BY DEF JournalInv, CommitInv
  <2>3. RollbackInv'
    BY DEF JournalInv, RollbackInv
  <2>4. RemoveInv'
    BY DEF JournalInv, RemoveInv
  <2>5. OpInv'
    BY DEF JournalInv, OpInv
  <2> QED BY <2>1, <2>2, <2>3, <2>4, <2>5, <1>t DEF IndInv
<1>5. CASE RecoverPublished
  <2> USE <1>5, <1>a DEF RecoverPublished
  <2>1. JournalInv'
    BY DEF JournalInv
  <2>2. CommitInv'
    BY DEF CommitInv
  <2>3. RollbackInv'
    BY DEF RollbackInv
  <2>4. RemoveInv'
    BY DEF RemoveInv
  <2>5. OpInv'
    BY DEF OpInv
  <2> QED BY <2>1, <2>2, <2>3, <2>4, <2>5, <1>t DEF IndInv
<1>6. CASE RecoverCommitted
  <2> USE <1>6, <1>a DEF RecoverCommitted, Artifacts
  <2>1. JournalInv'
    BY DEF JournalInv
  <2>2. CommitInv'
    BY DEF CommitInv
  <2>3. RollbackInv'
    BY DEF RollbackInv
  <2>4. RemoveInv'
    BY DEF RemoveInv
  <2>5. OpInv'
    BY DEF OpInv
  <2> QED BY <2>1, <2>2, <2>3, <2>4, <2>5, <1>t DEF IndInv
<1>7. CASE RollbackConfig
  <2> USE <1>7, <1>a DEF RollbackConfig, Restore, Fault, NoFault
  <2>1. JournalInv'
    BY DEF JournalInv, RollbackInv
  <2>2. CommitInv'
    BY DEF CommitInv
  <2>3. RollbackInv'
    BY DEF JournalInv, RollbackInv
  <2>4. RemoveInv'
    BY DEF RemoveInv
  <2>5. OpInv'
    BY DEF OpInv
  <2> QED BY <2>1, <2>2, <2>3, <2>4, <2>5, <1>t DEF IndInv
<1>8. CASE RollbackDict
  <2> USE <1>8, <1>a DEF RollbackDict, Restore, Fault, NoFault
  <2>1. JournalInv'
    BY DEF JournalInv, RollbackInv
  <2>2. CommitInv'
    BY DEF CommitInv
  <2>3. RollbackInv'
    BY DEF JournalInv, RollbackInv
  <2>4. RemoveInv'
    BY DEF RemoveInv
  <2>5. OpInv'
    BY DEF OpInv
  <2> QED BY <2>1, <2>2, <2>3, <2>4, <2>5, <1>t DEF IndInv
<1>9. CASE RolledBack
  <2> USE <1>9, <1>a DEF RolledBack, Leave, NoOp, Goto, Remove, CleanStaleArtifacts, Artifacts
  <2>1. JournalInv'
    BY DEF JournalInv
  <2>2. CommitInv'
    BY DEF CommitInv
  <2>3. RollbackInv'
    BY DEF RollbackInv
  <2>4. RemoveInv'
    BY DEF RollbackInv, RemoveInv
  <2>5. OpInv'
    BY DEF RollbackInv, OpInv
  <2> QED BY <2>1, <2>2, <2>3, <2>4, <2>5, <1>t DEF IndInv
<1>10. CASE RemoveNext
  <2> USE <1>10, <1>a DEF RemoveNext, Fault, NoFault, NoJournal, Temps
  <2>1. JournalInv'
    <3> PICK p \in todo :
             IF p = "journal" THEN journal' = NoJournal /\ UNCHANGED fs
                              ELSE fs' = [fs EXCEPT ![p] = Absent] /\ UNCHANGED journal
      OBVIOUS
    <3>0. p \in {"journal", "configTmp", "dictTmp", "configBak", "dictBak"}
      BY DEF TypeOK, LocalsOK, Artifacts
    <3>1. CASE p = "journal"
      BY <3>1 DEF JournalInv, RemoveInv, Ver, Content, Absent, Partial, Temps
    <3>2. CASE p # "journal"
      BY <3>0, <3>2 DEF JournalInv, RemoveInv
    <3> QED BY <3>1, <3>2
  <2>2. CommitInv'
    BY DEF CommitInv
  <2>3. RollbackInv'
    BY DEF RollbackInv
  <2>4. RemoveInv'
    <3> PICK p \in todo :
             /\ todo' = todo \ {p}
             /\ IF p = "journal" THEN journal' = NoJournal /\ UNCHANGED fs
                                 ELSE fs' = [fs EXCEPT ![p] = Absent] /\ UNCHANGED journal
      OBVIOUS
    <3>0. p \in {"journal", "configTmp", "dictTmp", "configBak", "dictBak"}
      BY DEF TypeOK, LocalsOK, Artifacts
    <3>1. CASE p = "journal"
      BY <3>1 DEF JournalInv, RemoveInv
    <3>2. CASE p # "journal"
      BY <3>0, <3>2 DEF JournalInv, RemoveInv
    <3> QED BY <3>1, <3>2
  <2>5. OpInv'
    BY DEF OpInv
  <2> QED BY <2>1, <2>2, <2>3, <2>4, <2>5, <1>t DEF IndInv
<1>11. CASE RemoveDone
  <2> USE <1>11, <1>a DEF RemoveDone, Recovered, Leave, NoOp, Goto
  <2>1. JournalInv'
    BY DEF JournalInv
  <2>2. CommitInv'
    BY DEF CommitInv, RemoveInv
  <2>3. RollbackInv'
    BY DEF RollbackInv
  <2>4. RemoveInv'
    BY DEF RemoveInv
  <2>5. OpInv'
    BY DEF RemoveInv, OpInv
  <2> QED BY <2>1, <2>2, <2>3, <2>4, <2>5, <1>t DEF IndInv
<1>12. CASE Merge
  <2> USE <1>12, <1>a DEF Merge, Leave, NoOp, NewConfig
  <2>1. JournalInv'
    BY DEF JournalInv
  <2>2. CommitInv'
    BY DEF CommitInv
  <2>3. RollbackInv'
    BY DEF RollbackInv
  <2>4. RemoveInv'
    BY DEF RemoveInv
  <2>5. OpInv'
    <3>1. fs["config"] # Partial => NewConfig(fs["config"]) \in Content
      BY FileType DEF NewConfig, Content, TypeOK
    <3> QED BY <3>1 DEF OpInv, Reading
  <2> QED BY <2>1, <2>2, <2>3, <2>4, <2>5, <1>t DEF IndInv
<1>13. CASE Preflight
  <2> USE <1>13, <1>a DEF Preflight, Leave, NoOp
  <2>1. JournalInv'
    BY DEF JournalInv
  <2>2. CommitInv'
    <3>1. CASE pc' = "idle"
      BY <3>1 DEF CommitInv, BeforeJournal, Replacing
    <3>2. CASE pc' # "idle"
      <4>1. op.kind # "commit" /\ op.new \in Content /\ Consistent /\ journal.state = "None"
        BY <3>2 DEF OpInv, JournalInv, Reading
      <4>2. /\ rec'.notify = FALSE
            /\ rec'.oldConfig = fs["config"] /\ rec'.oldDict = fs["dict"] /\ rec'.newConfig = op.new
            /\ rec'.newDict = [ver |-> op.new.ver, misc |-> 0]
        <5>1. rec' = [notify |-> op.kind = "commit", oldGen |-> op.gen, newGen |-> op.gen + 1,
                      oldConfig |-> fs["config"], oldDict |-> fs["dict"], newConfig |-> op.new,
                      newDict |-> [ver |-> op.new.ver, misc |-> 0]]
          BY ONLY <1>13, <3>2, Zenon DEF Preflight, Leave
        <5>2. (op.kind = "commit") = FALSE
          BY <4>1
        <5> QED BY ONLY <5>1, <5>2, Zenon
      <4>3. pc' = "wTmpC" /\ ctx' = "commit" /\ UNCHANGED <<fs, journal>>
        BY <3>2
      <4> HIDE <1>13 DEF Preflight
      <4> QED BY <4>1, <4>2, <4>3 DEF CommitInv, Content
    <3> QED BY <3>1, <3>2
  <2>3. RollbackInv'
    BY DEF RollbackInv
  <2>4. RemoveInv'
    BY DEF RemoveInv
  <2>5. OpInv'
    BY DEF OpInv
  <2> QED BY <2>1, <2>2, <2>3, <2>4, <2>5, <1>t DEF IndInv
<1>14. CASE WriteTempConfig
  <2> USE <1>14, <1>a DEF WriteTempConfig, WriteFile, Untouched, Goto, Remove,
            CleanStaleArtifacts, NoFault, Fault
  <2>1. JournalInv'
    BY DEF JournalInv
  <2>2. CommitInv'
    BY DEF CommitInv
  <2>3. RollbackInv'
    BY DEF RollbackInv
  <2>4. RemoveInv'
    BY DEF CommitInv, RemoveInv
  <2>5. OpInv'
    BY DEF OpInv
  <2> QED BY <2>1, <2>2, <2>3, <2>4, <2>5, <1>t DEF IndInv
<1>15. CASE WriteTempDict
  <2> USE <1>15, <1>a DEF WriteTempDict, WriteFile, Untouched, Goto, Remove,
            CleanStaleArtifacts, NoFault, Fault
  <2>1. JournalInv'
    BY DEF JournalInv
  <2>2. CommitInv'
    BY DEF CommitInv
  <2>3. RollbackInv'
    BY DEF RollbackInv
  <2>4. RemoveInv'
    BY DEF CommitInv, RemoveInv
  <2>5. OpInv'
    BY DEF OpInv
  <2> QED BY <2>1, <2>2, <2>3, <2>4, <2>5, <1>t DEF IndInv
<1>16. CASE BackupConfig
  <2> USE <1>16, <1>a DEF BackupConfig, WriteFile, Untouched, Goto, Remove,
            CleanStaleArtifacts, NoFault, Fault
  <2>1. JournalInv'
    BY DEF JournalInv, CommitInv
  <2>2. CommitInv'
    BY DEF CommitInv
  <2>3. RollbackInv'
    BY DEF RollbackInv
  <2>4. RemoveInv'
    BY DEF CommitInv, RemoveInv
  <2>5. OpInv'
    BY DEF OpInv
  <2> QED BY <2>1, <2>2, <2>3, <2>4, <2>5, <1>t DEF IndInv
<1>17. CASE BackupDict
  <2> USE <1>17, <1>a DEF BackupDict, WriteFile, Untouched, Goto, Remove, CleanStaleArtifacts,
            NoFault, Fault
  <2>1. JournalInv'
    BY DEF JournalInv, CommitInv
  <2>2. CommitInv'
    BY DEF CommitInv
  <2>3. RollbackInv'
    BY DEF RollbackInv
  <2>4. RemoveInv'
    BY DEF CommitInv, RemoveInv
  <2>5. OpInv'
    BY DEF OpInv
  <2> QED BY <2>1, <2>2, <2>3, <2>4, <2>5, <1>t DEF IndInv
<1>18. CASE JournalPrepared
  <2> USE <1>18, <1>a DEF JournalPrepared, SetJournal, Goto, Remove, CleanStaleArtifacts
  <2>1. JournalInv'
    BY DEF JournalInv, CommitInv
  <2>2. CommitInv'
    BY DEF CommitInv
  <2>3. RollbackInv'
    BY DEF RollbackInv
  <2>4. RemoveInv'
    BY DEF CommitInv, RemoveInv
  <2>5. OpInv'
    BY DEF OpInv
  <2> QED BY <2>1, <2>2, <2>3, <2>4, <2>5, <1>t DEF IndInv
<1>19. CASE ReplaceConfig
  <2> USE <1>19, <1>a DEF ReplaceConfig, ReplaceOrMove, Untouched, Goto, Rollback
  <2>1. JournalInv'
    BY DEF JournalInv, CommitInv
  <2>2. CommitInv'
    BY DEF CommitInv
  <2>3. RollbackInv'
    BY DEF CommitInv, RollbackInv
  <2>4. RemoveInv'
    BY DEF RemoveInv
  <2>5. OpInv'
    BY DEF OpInv
  <2> QED BY <2>1, <2>2, <2>3, <2>4, <2>5, <1>t DEF IndInv
<1>20. CASE ReplaceDict
  <2> USE <1>20, <1>a DEF ReplaceDict, ReplaceOrMove, Untouched, Goto, Rollback
  <2>1. JournalInv'
    BY DEF JournalInv, CommitInv
  <2>2. CommitInv'
    BY DEF CommitInv
  <2>3. RollbackInv'
    BY DEF CommitInv, RollbackInv
  <2>4. RemoveInv'
    BY DEF RemoveInv
  <2>5. OpInv'
    BY DEF OpInv
  <2> QED BY <2>1, <2>2, <2>3, <2>4, <2>5, <1>t DEF IndInv
<1>21. CASE JournalReplaced
  <2> USE <1>21, <1>a DEF JournalReplaced, SetJournal, Goto
  <2>1. JournalInv'
    BY DEF JournalInv, CommitInv
  <2>2. CommitInv'
    BY DEF CommitInv
  <2>3. RollbackInv'
    BY DEF RollbackInv
  <2>4. RemoveInv'
    BY DEF RemoveInv
  <2>5. OpInv'
    BY DEF JournalInv, CommitInv, OpInv
  <2> QED BY <2>1, <2>2, <2>3, <2>4, <2>5, <1>t DEF IndInv
<1>22. CASE JournalPublished
  <2> USE <1>22, <1>a DEF JournalPublished, SetJournal, Remove, Leave, NoOp, Temps
  <2>1. JournalInv'
    BY DEF JournalInv, CommitInv
  <2>2. CommitInv'
    BY DEF CommitInv
  <2>3. RollbackInv'
    BY DEF RollbackInv
  <2>4. RemoveInv'
    BY DEF CommitInv, RemoveInv
  <2>5. OpInv'
    BY DEF OpInv
  <2> QED BY <2>1, <2>2, <2>3, <2>4, <2>5, <1>t DEF IndInv
<1>23. CASE JournalCommitted
  <2> USE <1>23, <1>a DEF JournalCommitted, SetJournal, Remove, Leave, NoOp
  <2>1. JournalInv'
    BY DEF JournalInv, CommitInv
  <2>2. CommitInv'
    BY DEF CommitInv
  <2>3. RollbackInv'
    BY DEF RollbackInv
  <2>4. RemoveInv'
    BY DEF RemoveInv
  <2>5. OpInv'
    BY DEF OpInv
  <2> QED BY <2>1, <2>2, <2>3, <2>4, <2>5, <1>t DEF IndInv
<1>24. CASE LoadPair
  <2> USE <1>24, <1>a DEF LoadPair, Leave, NoOp, Goto
  <2>1. JournalInv'
    BY DEF JournalInv, OpInv, Ver, Content, Absent, Partial
  <2>2. CommitInv'
    BY DEF CommitInv
  <2>3. RollbackInv'
    BY DEF RollbackInv
  <2>4. RemoveInv'
    BY DEF RemoveInv
  <2>5. OpInv'
    BY DEF OpInv
  <2> QED BY <2>1, <2>2, <2>3, <2>4, <2>5, <1>t DEF IndInv
<1>25. CASE PublishCurrentLexicon
  <2> USE <1>25, <1>a DEF PublishCurrentLexicon, Leave, NoOp
  <2>1. JournalInv'
    BY DEF JournalInv
  <2>2. CommitInv'
    BY DEF CommitInv
  <2>3. RollbackInv'
    BY DEF RollbackInv
  <2>4. RemoveInv'
    BY DEF RemoveInv
  <2>5. OpInv'
    BY DEF OpInv
  <2> QED BY <2>1, <2>2, <2>3, <2>4, <2>5, <1>t DEF IndInv
<1>26. CASE Crash
  <2> USE <1>26, <1>a DEF Crash, Leave, NoOp, Torn, CutReplace
  <2>1. JournalInv'
    BY DEF JournalInv, CommitInv
  <2>2. CommitInv'
    BY DEF CommitInv
  <2>3. RollbackInv'
    BY DEF RollbackInv
  <2>4. RemoveInv'
    BY DEF RemoveInv
  <2>5. OpInv'
    BY DEF OpInv
  <2> QED BY <2>1, <2>2, <2>3, <2>4, <2>5, <1>t DEF IndInv
<1> QED BY <1>1, <1>2, <1>3, <1>4, <1>5, <1>6, <1>7, <1>8, <1>9, <1>10, <1>11, <1>12, <1>13, <1>14,
           <1>15, <1>16, <1>17, <1>18, <1>19, <1>20, <1>21, <1>22, <1>23, <1>24, <1>25, <1>26, <1>u
        DEF Step, Recover, Undo, Commit, Others

\* The invariant holds at the start and is kept by every step.
LEMMA IndStart == Init => IndInv
<1> SUFFICES ASSUME Init PROVE IndInv
  OBVIOUS
<1>1. TypeOK
  BY InitType
<1>2. fs["config"] \in {Absent, [ver |-> 0, misc |-> 0]} /\ fs["dict"] \in {Absent, [ver |-> 0, misc |-> 0]}
  BY DEF Init, Path
<1> QED BY <1>1, <1>2 DEF Init, IndInv, JournalInv, CommitInv, RollbackInv, RemoveInv, OpInv, NoJournal,
           NoOp, Ver, Absent, Partial, Consistent, Whole, BeforeJournal, Replacing, Reading

\* Every step keeps the inductive invariant.
LEMMA IndNext == OnlyLexiconOps /\ IndInv /\ [Next]_vars => IndInv'
<1> SUFFICES ASSUME OnlyLexiconOps, IndInv, [Next]_vars PROVE IndInv'
  OBVIOUS
<1> USE DEF Consistent, RecordOK, Whole, IsNew, IsOld, BothRecoverable, BothRestored,
            Recoverable, Restored, BeforeJournal, Replacing, Reading
<1>t. TypeOK'
  BY NextType DEF IndInv
<1>1. ASSUME NEW k \in Ops, Begin(k) PROVE IndInv'
  BY <1>1, <1>t DEF Begin, OnlyLexiconOps, IndInv, JournalInv, CommitInv, RollbackInv, RemoveInv, OpInv
<1>2. CASE LoadTypingConfig
  BY <1>2 DEF LoadTypingConfig, OnlyLexiconOps
<1>3. CASE Step \/ Crash
  BY <1>3, IndStep
<1>4. CASE UNCHANGED vars
  BY <1>4, <1>t DEF vars, IndInv, JournalInv, CommitInv, RollbackInv, RemoveInv, OpInv
<1> QED BY <1>1, <1>2, <1>3, <1>4 DEF Next

\* The pair is atomic for every reader, whatever crashes and failures occur.
THEOREM PairIsAtomic ==
  ASSUME OnlyLexiconOps
  PROVE  Spec => []PairAtomic
<1>1. IndInv => PairAtomic
  BY DEF IndInv, OpInv, JournalInv, PairAtomic, Consistent, Whole
<1> QED BY <1>1, IndStart, IndNext, PTL DEF Spec

-----------------------------------------------------------------------------
(* What was acknowledged is kept, under the same conditions.                *)

\* No commit in work, on disk or in memory, is older than the last one that was
\* acknowledged, and both pairs that the journal names are at least as new as it.
AckInv ==
  /\ acked < nextVer /\ ackedMisc = 0
  /\ journal.state = "None" => acked <= Ver(fs["config"])
  /\ journal.state # "None" =>
       /\ acked <= Ver(journal.txn.oldConfig)
       /\ acked <= journal.txn.newConfig.ver /\ journal.txn.newConfig.ver < nextVer
  /\ stage = "second" => acked <= op.new.ver /\ op.new.ver < nextVer
  /\ pc \in BeforeJournal => acked <= rec.newConfig.ver /\ rec.newConfig.ver < nextVer
  /\ pc = "remove" /\ ctx = "done" =>
       /\ RecordOK(rec) /\ fs["config"] = rec.newConfig /\ rec.newConfig.ver < nextVer

\* Versions of files and records are numbers that can be compared.
LEMMA VersionsAreNumbers ==
  ASSUME TypeOK
  PROVE  /\ acked \in Int /\ nextVer \in Nat /\ Ver(fs["config"]) \in Int /\ op.new.ver \in Int
         /\ rec.newConfig.ver \in Int /\ Ver(rec.oldConfig) \in Int
         /\ journal.txn.newConfig.ver \in Int /\ Ver(journal.txn.oldConfig) \in Int
<1>1. fs["config"] \in File /\ op.new \in File /\ rec \in Record /\ journal.txn \in Record
  BY DEF TypeOK, LocalsOK, Path
<1> QED BY <1>1, FileType, RecordType DEF TypeOK

\* The version of a whole file that exists.
LEMMA ContentVersion == \A c \in Content : Ver(c) = c.ver /\ c.ver >= 0
BY DEF Content, Ver, Absent

\* Every step of an operation, and a crash, keeps what was acknowledged.
LEMMA AckStep ==
  ASSUME OnlyLexiconOps, IndInv, AckInv, Step \/ Crash
  PROVE  AckInv'
<1> USE DEF BeforeJournal
<1>a. /\ TypeOK /\ JournalInv /\ CommitInv /\ RollbackInv /\ RemoveInv /\ OpInv /\ ~RemoveMayFail
      /\ fs \in [Path -> File] /\ AckInv
      /\ \A p \in {"config", "dict", "configTmp", "dictTmp", "configBak", "dictBak"} : p \in Path
  BY DEF IndInv, TypeOK, OnlyLexiconOps, Path
<1>b. /\ acked \in Int /\ nextVer \in Nat /\ Ver(fs["config"]) \in Int /\ op.new.ver \in Int
      /\ rec.newConfig.ver \in Int /\ Ver(rec.oldConfig) \in Int
      /\ journal.txn.newConfig.ver \in Int /\ Ver(journal.txn.oldConfig) \in Int
  BY <1>a, VersionsAreNumbers
<1>c. journal.state # "None" => RecordOK(journal.txn)
  BY <1>a DEF JournalInv
<1>u. ~(\/ RecoverPublishOld \/ RecoverPublishWire \/ RecoverPublishNew \/ PublishWire
        \/ PublishGen \/ JournalRollback \/ RestoreWire \/ RestoreGen \/ SaveTemp \/ SaveRename)
  BY <1>a DEF OpInv, RecoverPublishOld, RecoverPublishWire, RecoverPublishNew, PublishWire,
     PublishGen, JournalRollback, RestoreWire, RestoreGen, SaveTemp, SaveRename
\* Steps that change neither the pair nor the journal, nor what was promised.
<1>1. ASSUME UNCHANGED <<journal, nextVer, acked, ackedMisc>>, fs'["config"] = fs["config"],
             stage' = "second" => stage = "second" /\ op' = op,
             pc' \in BeforeJournal => pc \in BeforeJournal /\ rec' = rec,
             pc' # "remove" \/ ctx' # "done"
      PROVE  AckInv'
  BY <1>1, <1>a DEF AckInv
<1>2. CASE RecoverNone
  BY <1>1, <1>2 DEF RecoverNone, Recovered, Leave, Goto
<1>3. CASE RecoverPrepared
  BY <1>1, <1>3 DEF RecoverPrepared, RollbackFrom
<1>4. CASE RecoverFilesReplaced
  BY <1>1, <1>4 DEF RecoverFilesReplaced
<1>5. CASE RecoverRollback
  BY <1>1, <1>5 DEF RecoverRollback, RollbackFrom, Leave
<1>6. CASE RecoverPublished
  BY <1>1, <1>6 DEF RecoverPublished
<1>7. CASE RecoverCommitted
  BY <1>1, <1>7 DEF RecoverCommitted
\* A rollback runs on a journal that says PREPARED: the files do not count yet.
<1>8. CASE RollbackConfig
  <2>1. journal.state = "Prepared" /\ UNCHANGED <<journal, nextVer, acked, ackedMisc, stage, op>> /\ pc' = "rbDict"
    BY <1>8, <1>a DEF RollbackConfig, RollbackInv
  <2> QED BY <1>a, <2>1 DEF AckInv
<1>9. CASE RollbackDict
  <2>1. journal.state = "Prepared" /\ UNCHANGED <<journal, nextVer, acked, ackedMisc, stage, op>> /\ pc' = "rolled"
    BY <1>9, <1>a DEF RollbackDict, RollbackInv
  <2> QED BY <1>a, <2>1 DEF AckInv
<1>10. CASE RolledBack
  BY <1>1, <1>10 DEF RolledBack, Leave, Goto, Remove, CleanStaleArtifacts
<1>11. CASE RemoveNext
  <2> PICK p \in todo :
           IF p = "journal" THEN journal' = NoJournal /\ UNCHANGED fs
                            ELSE fs' = [fs EXCEPT ![p] = Absent] /\ UNCHANGED journal
    BY <1>11, <1>a DEF RemoveNext
  <2>0. p \in {"journal", "configTmp", "dictTmp", "configBak", "dictBak"}
    BY <1>a DEF TypeOK, LocalsOK, Artifacts, Temps
  <2>1. fs'["config"] = fs["config"]
    BY <1>a, <2>0
  <2>2. pc = "remove" /\ UNCHANGED <<nextVer, acked, ackedMisc, stage, op, pc, ctx, rec>>
    BY <1>11 DEF RemoveNext
  <2>3. CASE p # "journal"
    BY <1>a, <2>1, <2>2, <2>3 DEF AckInv
  <2>4. CASE p = "journal"
    <3>1. journal.state # "None" => acked <= Ver(fs["config"])
      <4>1. CASE journal.state = "Prepared" /\ BothRestored(journal.txn)
        BY <1>a, <4>1 DEF AckInv, BothRestored, Restored
      <4>2. CASE journal.state = "Committed"
        BY <1>a, <1>c, <4>2, ContentVersion DEF AckInv, JournalInv, IsNew, RecordOK
      <4> QED BY <1>a, <2>2, <2>4, <4>1, <4>2 DEF RemoveInv, Temps
    <3>2. acked <= Ver(fs["config"])
      BY <1>a, <3>1 DEF AckInv
    <3>3. journal'.state = "None"
      BY <2>4 DEF NoJournal
    <3> QED BY <1>a, <2>1, <2>2, <3>2, <3>3 DEF AckInv
  <2> QED BY <2>3, <2>4
<1>12. CASE RemoveDone
  <2>1. pc = "remove" /\ todo = {} /\ UNCHANGED <<fs, journal, nextVer, ackedMisc>> /\ pc' # "remove"
    BY <1>12 DEF RemoveDone, Recovered, Leave, Goto
  <2>2. CASE ctx = "done"
    <3>1. Leave /\ acked' = rec.newConfig.ver
      BY <1>12, <2>2 DEF RemoveDone
    <3>2. journal.state = "None" /\ acked' <= Ver(fs["config"]) /\ acked' < nextVer
      BY <1>a, <1>b, <2>1, <2>2, <3>1, ContentVersion DEF AckInv, RemoveInv, RecordOK
    <3> QED BY <1>a, <2>1, <3>1, <3>2 DEF AckInv, Leave
  <2>3. CASE ctx # "done"
    BY <1>1, <1>12, <2>1, <2>3 DEF RemoveDone, Recovered, Leave, Goto
  <2> QED BY <2>2, <2>3
\* The commit takes the next version.
<1>13. CASE Merge
  <2>1. CASE Leave /\ UNCHANGED nextVer
    BY <1>1, <1>13, <2>1 DEF Merge, Leave
  <2>2. CASE pc' = "recover" /\ nextVer' = nextVer + 1 /\ op'.new = NewConfig(fs["config"])
    <3>1. op'.new.ver = nextVer
      BY <2>2 DEF NewConfig
    <3>2. UNCHANGED <<fs, journal, acked, ackedMisc>>
      BY <1>13 DEF Merge
    <3> QED BY <1>a, <1>b, <2>2, <3>1, <3>2 DEF AckInv
  <2> QED BY <1>13, <2>1, <2>2 DEF Merge
<1>14. CASE Preflight
  <2>1. CASE Leave
    BY <1>1, <1>14, <2>1 DEF Preflight, Leave
  <2>2. CASE pc' = "wTmpC" /\ rec'.newConfig = op.new
    <3>1. UNCHANGED <<fs, journal, nextVer, acked, ackedMisc, stage, op>> /\ stage = "second"
      BY <1>14, <1>a, <2>2 DEF Preflight, OpInv, Leave
    <3> QED BY <1>a, <2>2, <3>1 DEF AckInv
  <2> QED BY <1>14, <2>1, <2>2 DEF Preflight
<1>15. CASE WriteTempConfig
  BY <1>1, <1>15, <1>a DEF WriteTempConfig, WriteFile, Untouched, Goto, Remove, CleanStaleArtifacts
<1>16. CASE WriteTempDict
  BY <1>1, <1>16, <1>a DEF WriteTempDict, WriteFile, Untouched, Goto, Remove, CleanStaleArtifacts
<1>17. CASE BackupConfig
  BY <1>1, <1>17, <1>a DEF BackupConfig, WriteFile, Untouched, Goto, Remove, CleanStaleArtifacts
<1>18. CASE BackupDict
  BY <1>1, <1>18, <1>a DEF BackupDict, WriteFile, Untouched, Goto, Remove, CleanStaleArtifacts
<1>19. CASE JournalPrepared
  <2>1. CASE CleanStaleArtifacts /\ UNCHANGED journal
    BY <1>1, <1>19, <2>1 DEF JournalPrepared, Remove, CleanStaleArtifacts
  <2>2. CASE SetJournal("Prepared") /\ Goto("replC")
    <3>1. pc = "jPrepared" /\ UNCHANGED <<fs, nextVer, acked, ackedMisc>>
      BY <1>19 DEF JournalPrepared
    <3>2. journal.state = "None" /\ fs["config"] = rec.oldConfig
      BY <1>a, <3>1 DEF CommitInv, IsOld
    <3>3. journal'.state = "Prepared" /\ journal'.txn = rec
      BY <2>2 DEF SetJournal
    <3> QED BY <1>a, <2>2, <3>1, <3>2, <3>3 DEF AckInv, Goto
  <2> QED BY <1>19, <2>1, <2>2 DEF JournalPrepared
<1>20. CASE ReplaceConfig \/ ReplaceDict
  <2>1. /\ journal.state = "Prepared" /\ UNCHANGED <<journal, nextVer, acked, ackedMisc, stage, op>>
        /\ pc' \in {"replD", "jReplaced", "rbConfig"}
    BY <1>20, <1>a DEF ReplaceConfig, ReplaceDict, ReplaceOrMove, Untouched, Goto, Rollback, CommitInv, Replacing
  <2> QED BY <1>a, <2>1 DEF AckInv
\* From here the journal only changes its state.
<1>21. ASSUME NEW s \in JournalStates \ {"None"}, SetJournal(s), journal.state # "None", journal.txn = rec,
              UNCHANGED <<fs, nextVer, acked, ackedMisc, stage, op, rec>>, pc' \notin BeforeJournal,
              pc' = "remove" /\ ctx' = "done" => RecordOK(rec) /\ fs["config"] = rec.newConfig
       PROVE  AckInv'
  <2>1. journal'.state = s /\ journal'.txn = rec
    BY <1>21 DEF SetJournal
  <2> QED BY <1>a, <1>21, <2>1 DEF AckInv
<1>22. CASE JournalReplaced
  <2>0. pc = "jReplaced" /\ UNCHANGED <<fs, nextVer, acked, ackedMisc>>
    BY <1>22 DEF JournalReplaced
  <2>1. CASE SetJournal("FilesReplaced") /\ Goto(IF ~rec.notify THEN "jGenPub" ELSE IF op.wire THEN "pubWire" ELSE "pubGen")
    <3>1. journal.state # "None" /\ journal.txn = rec
      BY <1>a, <2>0 DEF CommitInv, Replacing
    <3>2. UNCHANGED <<stage, op, rec>> /\ pc' \in {"jGenPub", "pubWire", "pubGen"}
      BY <2>1, Zenon DEF Goto
    <3> QED BY <1>21, <2>0, <2>1, <3>1, <3>2 DEF JournalStates
  <2>2. CASE stage' = "abort" /\ pc' = "recover" /\ UNCHANGED journal
    BY <1>1, <2>0, <2>2
  <2> QED BY <1>22, <2>1, <2>2 DEF JournalReplaced
<1>23. CASE JournalPublished
  <2>1. CASE SetJournal("GenerationPublished") /\ Remove(IF ctx = "recovery" THEN Temps ELSE {"configBak", "dictBak"}, ctx)
    BY <1>21, <1>23, <1>a, <2>1 DEF JournalPublished, Remove, CommitInv, JournalStates
  <2>2. CASE Leave /\ UNCHANGED journal
    BY <1>1, <1>23, <2>2 DEF JournalPublished, Leave
  <2> QED BY <1>23, <2>1, <2>2 DEF JournalPublished
<1>24. CASE JournalCommitted
  <2>1. CASE SetJournal("Committed") /\ Remove({"journal"}, IF ctx = "recovery" THEN "recovered" ELSE "done")
    <3>1. journal.state = "GenerationPublished" /\ journal.txn = rec
      BY <1>24, <1>a DEF JournalCommitted, CommitInv
    <3>2. RecordOK(rec) /\ fs["config"] = rec.newConfig
      BY <1>a, <3>1 DEF JournalInv, IsNew
    <3> QED BY <1>21, <1>24, <2>1, <3>1, <3>2 DEF JournalCommitted, Remove, JournalStates
  <2>2. CASE Leave /\ UNCHANGED journal
    BY <1>1, <1>24, <2>2 DEF JournalCommitted, Leave
  <2> QED BY <1>24, <2>1, <2>2 DEF JournalCommitted
\* The publisher raises a number beside the lexicon, not its version.
<1>25. CASE LoadPair
  <2>1. UNCHANGED <<journal, nextVer, acked, ackedMisc>> /\ pc' \in {"idle", "wirePub"}
        /\ (stage' = "second" => stage = "second" /\ op' = op)
    BY <1>25 DEF LoadPair, Leave, Goto
  <2>2. Ver(fs'["config"]) = Ver(fs["config"])
    <3>1. CASE UNCHANGED fs
      BY <3>1
    <3>2. CASE fs["config"] \in Content
               /\ fs' = [fs EXCEPT !["config"] = [ver |-> fs["config"].ver, misc |-> nextMisc], !["configTmp"] = Absent]
      <4>1. fs'["config"] = [ver |-> fs["config"].ver, misc |-> nextMisc]
        BY <1>a, <3>2
      <4>2. fs'["config"] \in Content
        BY <1>a, <3>2, <4>1 DEF Content, TypeOK
      <4> QED BY <3>2, <4>1, <4>2, ContentVersion
    <3> QED BY <1>25, <3>1, <3>2 DEF LoadPair
  <2> QED BY <1>a, <2>1, <2>2 DEF AckInv
<1>26. CASE PublishCurrentLexicon
  BY <1>1, <1>26 DEF PublishCurrentLexicon, Leave
<1>27. CASE Crash
  <2>1. UNCHANGED <<journal, nextVer, acked, ackedMisc>> /\ Leave
    BY <1>27 DEF Crash
  <2>2. journal.state = "None" => fs'["config"] = fs["config"]
    BY <1>27, <1>a DEF Crash, Torn, CutReplace, CommitInv, Replacing
  <2> QED BY <1>a, <2>1, <2>2 DEF AckInv, Leave
<1> QED BY <1>u, <1>2, <1>3, <1>4, <1>5, <1>6, <1>7, <1>8, <1>9, <1>10, <1>11, <1>12, <1>13, <1>14,
           <1>15, <1>16, <1>17, <1>18, <1>19, <1>20, <1>22, <1>23, <1>24, <1>25, <1>26, <1>27
        DEF Step, Recover, Undo, Commit, Others

\* A lexicon update that was acknowledged is what every later reader finds, or a later
\* one, and until a commit is decided the pair it replaces can be put back: any number of
\* updates, crashes and failures, of the operations that the product runs and removals
\* that succeed.  (SavesSurvive is about the ordinary saves, of which there are none here.)
THEOREM NothingIsEverLost ==
  ASSUME OnlyLexiconOps
  PROVE  Spec => []NothingIsLost
<1>1. Init => AckInv
  <2> SUFFICES ASSUME Init PROVE AckInv
    OBVIOUS
  <2>1. fs["config"] \in {Absent, [ver |-> 0, misc |-> 0]}
    BY DEF Init, Path
  <2>2. Ver(fs["config"]) = 0
    BY <2>1 DEF Ver
  <2> QED BY <2>2 DEF Init, AckInv, NoJournal, BeforeJournal
<1>2. IndInv /\ AckInv /\ [Next]_vars => AckInv'
  <2> SUFFICES ASSUME IndInv, AckInv, [Next]_vars PROVE AckInv'
    OBVIOUS
  <2>1. ASSUME NEW k \in Ops, Begin(k) PROVE AckInv'
    BY <2>1 DEF Begin, OnlyLexiconOps, AckInv, BeforeJournal
  <2>2. CASE LoadTypingConfig
    BY <2>2 DEF LoadTypingConfig, OnlyLexiconOps
  <2>3. CASE Step \/ Crash
    BY <2>3, AckStep
  <2>4. CASE UNCHANGED vars
    BY <2>4 DEF vars, AckInv, BeforeJournal
  <2> QED BY <2>1, <2>2, <2>3, <2>4 DEF Next
<1>3. IndInv /\ AckInv => NothingIsLost
  <2> SUFFICES ASSUME IndInv, AckInv PROVE NothingIsLost
    OBVIOUS
  <2>1. TypeOK
    BY DEF IndInv
  <2>2. CommitDurable
    BY <2>1, VersionsAreNumbers DEF IndInv, OpInv, AckInv, CommitDurable
  <2>3. SavesSurvive
    <3>1. fs["config"] \in File
      BY <2>1 DEF TypeOK, Path
    <3> QED BY <3>1, FileType DEF AckInv, SavesSurvive
  <2>4. OldPairRecoverable
    BY DEF IndInv, JournalInv, OldPairRecoverable, BothRecoverable, Recoverable
  <2> QED BY <2>1, <2>2, <2>3, <2>4 DEF NothingIsLost
<1> QED BY <1>1, <1>2, <1>3, IndStart, IndNext, PTL DEF Spec
=============================================================================
