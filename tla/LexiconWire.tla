----------------------------- MODULE LexiconWire -----------------------------
(***************************************************************************)
(* The lexicon wire: the shared mapping through which the main process     *)
(* hands spell exclusions, user dictionary and the suggestion flag to the  *)
(* TSF hosts (core/ipc/LexiconWireManager.cpp, LexiconWireFormat.h), with  *)
(* the main process's side of it (PublishCurrentLexiconToWire and          *)
(* InitLexiconWireMapping in app/main.cpp).                                *)
(*                                                                         *)
(* The writer is the one main process that holds the writer mutex; it may  *)
(* end and be started again while hosts keep the mapping alive.  Publish   *)
(* and the readers' ReadSnapshotFast are taken apart into single loads and *)
(* stores.                                                                 *)
(*                                                                         *)
(* The lexicon on disk is identified by a number; Payload gives the part   *)
(* of it that the CRC covers, and the suggestion flag is the rest.  The    *)
(* CRC is taken to tell payloads apart.                                    *)
(***************************************************************************)
EXTENDS Integers

CONSTANTS
  Readers,        \* the LexiconWireReader of each TSF thread
  MaxRetries,     \* attempts of ReadWireToLocalBuffer
  SharedPayload,  \* may two lexicons differ in the suggestion flag only?
  DieInPublish,   \* may the main process end in the middle of Publish?
  MaxSaves,       \* bound: changes of the lexicon on disk
  MaxFailures,    \* bound: transactions that fail half-way
  MaxPublish,     \* bound: calls of Publish
  MaxDeaths       \* bound: ends of the main process

ASSUME ParamAssumption ==
  /\ MaxRetries \in Nat \ {0} /\ SharedPayload \in BOOLEAN /\ DieInPublish \in BOOLEAN
  /\ MaxSaves \in Nat /\ MaxFailures \in Nat /\ MaxPublish \in Nat /\ MaxDeaths \in Nat

\* The cells of the mapping, seqlock apart.  magic is 1 for WIRE_MAGIC.
Rest  == {"generation", "crc32", "flags", "payload"}
Cells == Rest \cup {"magic"}

Payload(n) == IF SharedPayload THEN (n + 1) \div 2 ELSE n

\* Serialize: what a staged buffer holds of lexicon n under generation g.
Staged(g, n) == [c \in Cells |-> IF c = "magic" THEN 1
                                 ELSE IF c = "generation" THEN g
                                 ELSE IF c = "flags" THEN n ELSE Payload(n)]

Blank == [c \in Cells |-> 0]
NoPub == [gen |-> 0, n |-> 0, back |-> "idle"]

VARIABLES
  mem,      \* [Cells -> Nat]: the mapping
  seqlock,  \* LexiconWireHeader.seqlock
  disk,     \* the lexicon on disk
  dgen,     \* internal.wire_generation on disk
  journal,  \* does a failed transaction wait for its rollback?
  wpc,      \* where the main process is
  wgen,     \* its wireGeneration
  pub,      \* the lexicon it is publishing, its generation, where Publish returns to
  left,     \* cells it has still to copy
  rpc,      \* [Readers -> ...]: where each reader is
  tries,    \* [Readers -> Nat]: failed attempts of the running call
  start,    \* [Readers -> Nat]: startSeq
  got,      \* [Readers -> [Cells -> Nat]]: what it has loaded
  need,     \* [Readers -> SUBSET Cells]: cells it has still to load
  cached,   \* [Readers -> [Cells -> Nat]]: the snapshot behind cachedIdentity
  res,      \* [Readers -> ...]: how ReadSnapshotFast ended, "none" while it runs
  out,      \* [Readers -> [Cells -> Nat]]: the snapshot it left the caller with
  reg,      \* history: number of the lexicon published last
  saves, failures, publishes, deaths

mvars == <<mem, seqlock>>
dvars == <<disk, dgen, journal>>
wvars == <<wpc, wgen, pub, left>>
rvars == <<rpc, tries, start, got, need, cached>>
bounds == <<saves, failures, publishes, deaths>>
vars == <<mvars, dvars, wvars, rvars, res, out, reg, bounds>>

Even(n) == n % 2 = 0

\* CreateFileMappingW gives a zero-filled mapping.
Init ==
  /\ mem = Blank /\ seqlock = 0
  /\ disk = 1 /\ dgen = 1 /\ journal = FALSE
  /\ wpc = "down" /\ wgen = 1 /\ pub = NoPub /\ left = {}
  /\ rpc = [r \in Readers |-> "closed"] /\ tries = [r \in Readers |-> 0]
  /\ start = [r \in Readers |-> 0] /\ got = [r \in Readers |-> Blank]
  /\ need = [r \in Readers |-> {}] /\ cached = [r \in Readers |-> Blank]
  /\ res = [r \in Readers |-> "none"] /\ out = [r \in Readers |-> Blank]
  /\ reg = 0 /\ saves = 0 /\ failures = 0 /\ publishes = 0 /\ deaths = 0

-----------------------------------------------------------------------------
(* The lexicon on disk, changed by the Settings process.                    *)

\* ConfigManager::SaveToFile keeps wire_generation.
Save ==
  /\ saves < MaxSaves /\ saves' = saves + 1
  /\ disk' = disk + 1
  /\ UNCHANGED <<mvars, dgen, journal, wvars, rvars, res, out, reg, failures, publishes, deaths>>

\* CommitLexiconUpdate counts wire_generation up with the new pair.
Commit ==
  /\ saves < MaxSaves /\ saves' = saves + 1
  /\ disk' = disk + 1 /\ dgen' = dgen + 1
  /\ UNCHANGED <<mvars, journal, wvars, rvars, res, out, reg, failures, publishes, deaths>>

\* A transaction that leaves ROLLBACK_PENDING behind; the old pair stands.
CommitFails ==
  /\ ~journal /\ failures < MaxFailures /\ failures' = failures + 1
  /\ journal' = TRUE
  /\ UNCHANGED <<mvars, disk, dgen, wvars, rvars, res, out, reg, saves, publishes, deaths>>

-----------------------------------------------------------------------------
(* The main process.                                                        *)

WStep(l) == wpc' = l /\ UNCHANGED <<dvars, rvars, res, out, reg, bounds>>

\* LexiconWireManager::Create: the mutex is free since there is one main process.
Create ==
  /\ wpc = "down" /\ WStep("init")
  /\ UNCHANGED <<mvars, wgen, pub, left>>

\* The mutex, mapping, view or DACL call failed: nothing is ever published.
CreateFails ==
  /\ wpc = "down" /\ WStep("nowire")
  /\ UNCHANGED <<mvars, wgen, pub, left>>

\* Publish is called with generation g and returns to back.
StartPublish(g, back) ==
  /\ publishes < MaxPublish /\ publishes' = publishes + 1
  /\ wpc' = "begin" /\ pub' = [gen |-> g, n |-> disk, back |-> back] /\ left' = Cells
  /\ UNCHANGED <<mvars, disk, journal, rvars, res, out, reg, saves, failures, deaths>>

\* RecoverIfNeeded publishes the restored pair under its own generation and
\* removes the journal once that is done; then its caller goes on.
RecoverPublish ==
  /\ wpc \in {"init", "idle"} /\ journal
  /\ StartPublish(dgen, IF wpc = "init" THEN "init" ELSE "current")
  /\ UNCHANGED <<dgen, wgen>>

\* InitLexiconWireMapping publishes what is on disk under the generation on disk.
InitLexiconWireMapping ==
  /\ wpc = "init" /\ ~journal
  /\ wgen' = dgen
  /\ StartPublish(dgen, "idle")
  /\ UNCHANGED dgen

\* It gives up when the snapshot cannot be locked, recovered or read.
InitFails ==
  /\ wpc = "init" /\ WStep("idle")
  /\ \/ UNCHANGED wgen
     \/ ~journal /\ wgen' = dgen
  /\ UNCHANGED <<mvars, pub, left>>

\* PublishCurrentLexiconToWire always takes a generation it has not used, and
\* saves it before it publishes.
PublishCurrent ==
  /\ wpc \in {"idle", "current"} /\ ~journal
  /\ LET g == IF dgen <= wgen THEN wgen + 1 ELSE dgen
     IN wgen' = g /\ dgen' = g /\ StartPublish(g, "idle")

\* It gives up when the snapshot cannot be read or the generation not be saved.
CurrentFails ==
  /\ wpc = "current" /\ WStep("idle")
  /\ UNCHANGED <<mvars, wgen, pub, left>>

\* Publish returns false before it touches the mapping (an invalid word, no room),
\* and so does its caller.
PublishFails ==
  /\ wpc = "begin" /\ WStep("idle")
  /\ pub' = NoPub /\ left' = {}
  /\ UNCHANGED <<mvars, wgen>>

\* SeqlockBeginWrite.
Begin ==
  /\ wpc = "begin" /\ WStep("prefix")
  /\ seqlock' = seqlock + 1
  /\ UNCHANGED <<mem, wgen, pub, left>>

CopyCell(c) ==
  /\ mem' = [mem EXCEPT ![c] = Staged(pub.gen, pub.n)[c]]
  /\ left' = left \ {c}
  /\ UNCHANGED <<seqlock, wgen, pub>>

\* The header up to seqlock is copied first.
CopyPrefix == wpc = "prefix" /\ WStep("rest") /\ CopyCell("magic")

CopyRest(c) == wpc = "rest" /\ c \in left /\ WStep("rest") /\ CopyCell(c)

\* SeqlockEndWrite; Publish keeps the generation and returns.
End ==
  /\ wpc = "rest" /\ left = {}
  /\ seqlock' = seqlock + 1
  /\ wpc' = pub.back /\ wgen' = pub.gen /\ reg' = pub.n /\ pub' = NoPub
  /\ journal' = (journal /\ pub.back = "idle")
  /\ UNCHANGED <<mem, disk, dgen, left, rvars, res, out, bounds>>

\* The mapping goes with its last handle.
Destroyed(handles) == IF handles = {} THEN mem' = Blank /\ seqlock' = 0 ELSE UNCHANGED mvars

Opened == {r \in Readers : rpc[r] # "closed"}

\* The main process ends: ShutdownLexiconWireMapping from the tray's Exit, which
\* does not wait for a worker inside Publish, or a crash.
Die ==
  /\ wpc # "down" /\ (DieInPublish \/ wpc \notin {"prefix", "rest"})
  /\ deaths < MaxDeaths /\ deaths' = deaths + 1
  /\ wpc' = "down" /\ wgen' = 1 /\ pub' = NoPub /\ left' = {}
  /\ Destroyed(Opened)
  /\ UNCHANGED <<dvars, rvars, res, out, reg, saves, failures, publishes>>

-----------------------------------------------------------------------------
(* LexiconWireReader::ReadSnapshotFast.                                     *)

RStep(r, l) == rpc' = [rpc EXCEPT ![r] = l]

Unread == UNCHANGED <<mvars, dvars, wvars, reg, bounds>>

\* Open finds the mapping while anyone keeps it.
Open(r) ==
  /\ rpc[r] = "closed" /\ (wpc \notin {"down", "nowire"} \/ Opened # {})
  /\ RStep(r, "idle")
  /\ Unread /\ UNCHANGED <<tries, start, got, need, cached, res, out>>

\* The host ends.
Close(r) ==
  /\ rpc[r] = "idle"
  /\ RStep(r, "closed") /\ cached' = [cached EXCEPT ![r] = Blank]
  /\ Destroyed((Opened \ {r}) \cup (IF wpc \in {"down", "nowire"} THEN {} ELSE {"main"}))
  /\ UNCHANGED <<dvars, wvars, reg, bounds, tries, start, got, need, res, out>>

\* The caller could not use the snapshot: ResetCachedIdentity.
ResetCachedIdentity(r) ==
  /\ rpc[r] = "idle" /\ cached[r] # Blank
  /\ cached' = [cached EXCEPT ![r] = Blank]
  /\ Unread /\ UNCHANGED <<rpc, tries, start, got, need, res, out>>

\* Mutant: a reader that found nothing valid once does not ask again.
CallUntilInvalid(r) ==
  /\ rpc[r] = "idle" /\ res[r] # "invalid"
  /\ RStep(r, IF cached[r]["generation"] > 0 THEN "fast" ELSE "begin")
  /\ res' = [res EXCEPT ![r] = "none"]
  /\ Unread /\ UNCHANGED <<tries, start, got, need, cached, out>>

\* A snapshot at hand is looked at first, a full copy is the other way.
Call(r) ==
  /\ rpc[r] = "idle"
  /\ RStep(r, IF cached[r]["generation"] > 0 THEN "fast" ELSE "begin")
  /\ res' = [res EXCEPT ![r] = "none"]
  /\ Unread /\ UNCHANGED <<tries, start, got, need, cached, out>>

\* The fast path loads seqlock and then magic, generation and crc32.
FastBegin(r) ==
  /\ rpc[r] = "fast"
  /\ \/ ~Even(seqlock) /\ RStep(r, "begin") /\ UNCHANGED <<start, need>>
     \/ /\ Even(seqlock) /\ RStep(r, "identity")
        /\ start' = [start EXCEPT ![r] = seqlock]
        /\ need' = [need EXCEPT ![r] = {"magic", "generation", "crc32"}]
  /\ Unread /\ UNCHANGED <<tries, got, cached, res, out>>

Identity(s) == <<s["generation"], s["crc32"]>>

\* A call that returns leaves its locals.
Return(r) == /\ RStep(r, "idle") /\ tries' = [tries EXCEPT ![r] = 0]
             /\ start' = [start EXCEPT ![r] = 0] /\ got' = [got EXCEPT ![r] = Blank]
             /\ UNCHANGED need

\* Mutant: takes a generation it already has for an unchanged wire, seqlock or not.
FastEndUnvalidated(r) ==
  /\ rpc[r] = "identity" /\ need[r] = {}
  /\ \/ /\ got[r]["magic"] = 1 /\ Identity(got[r]) = Identity(cached[r])
        /\ res' = [res EXCEPT ![r] = "valid"] /\ out' = [out EXCEPT ![r] = cached[r]]
        /\ Return(r)
     \/ /\ ~(got[r]["magic"] = 1 /\ Identity(got[r]) = Identity(cached[r]))
        /\ RStep(r, "begin") /\ got' = [got EXCEPT ![r] = Blank]
        /\ UNCHANGED <<tries, start, need, res, out>>
  /\ Unread /\ UNCHANGED cached

\* Nothing changed if identity and seqlock are as they were.
FastEnd(r) ==
  /\ rpc[r] = "identity" /\ need[r] = {}
  /\ LET same == got[r]["magic"] = 1 /\ seqlock = start[r] /\ Identity(got[r]) = Identity(cached[r])
     IN \/ /\ same
           /\ res' = [res EXCEPT ![r] = "valid"] /\ out' = [out EXCEPT ![r] = cached[r]]
           /\ Return(r)
        \/ /\ ~same
           /\ RStep(r, "begin") /\ got' = [got EXCEPT ![r] = Blank]
           /\ start' = [start EXCEPT ![r] = 0] /\ UNCHANGED <<tries, need, res, out>>
  /\ Unread /\ UNCHANGED cached

Invalid(r) == Return(r) /\ res' = [res EXCEPT ![r] = "invalid"] /\ UNCHANGED out

\* The next attempt, after MaxRetries of them false.
Retry(r) ==
  \/ /\ tries[r] + 1 < MaxRetries
     /\ RStep(r, "begin") /\ tries' = [tries EXCEPT ![r] = @ + 1]
     /\ got' = [got EXCEPT ![r] = Blank] /\ start' = [start EXCEPT ![r] = 0]
     /\ UNCHANGED <<need, res, out>>
  \/ tries[r] + 1 >= MaxRetries /\ Invalid(r)

\* SeqlockBeginRead; an odd number means a write in progress.
ReadBegin(r) ==
  /\ rpc[r] = "begin"
  /\ \/ ~Even(seqlock) /\ Retry(r)
     \/ /\ Even(seqlock) /\ RStep(r, "copy")
        /\ start' = [start EXCEPT ![r] = seqlock] /\ need' = [need EXCEPT ![r] = Cells]
        /\ UNCHANGED <<tries, got, res, out>>
  /\ Unread /\ UNCHANGED cached

LoadCell(r, c) ==
  /\ rpc[r] \in {"identity", "copy"} /\ c \in need[r]
  /\ need' = [need EXCEPT ![r] = @ \ {c}]
  /\ got' = [got EXCEPT ![r] = [got[r] EXCEPT ![c] = mem[c]]]
  /\ Unread /\ UNCHANGED <<rpc, tries, start, cached, res, out>>

\* ValidateAndInspect: magic and CRC; generation and flags are not covered.
Inspected(s) == s["magic"] = 1 /\ s["crc32"] = s["payload"]

\* Mutant: takes the copy without looking at seqlock again.
SeqlockValidateReadSkipped(r) == Even(start[r])

SeqlockValidateRead(r) == start[r] = seqlock /\ Even(start[r])

\* A stable copy is validated and becomes the caller's snapshot.
ReadEnd(r) ==
  /\ rpc[r] = "copy" /\ need[r] = {}
  /\ \/ ~SeqlockValidateRead(r) /\ Retry(r) /\ UNCHANGED cached
     \/ SeqlockValidateRead(r) /\ ~Inspected(got[r]) /\ Invalid(r) /\ UNCHANGED cached
     \/ /\ SeqlockValidateRead(r) /\ Inspected(got[r])
        /\ cached' = [cached EXCEPT ![r] = got[r]] /\ out' = [out EXCEPT ![r] = got[r]]
        /\ res' = [res EXCEPT ![r] = "valid"]
        /\ Return(r)
  /\ Unread

-----------------------------------------------------------------------------
ReaderStep(r) == FastBegin(r) \/ FastEnd(r) \/ ReadBegin(r) \/ (\E c \in Cells : LoadCell(r, c)) \/ ReadEnd(r)

Publishing == Begin \/ CopyPrefix \/ (\E c \in Rest : CopyRest(c)) \/ End

Next ==
  \/ Save \/ Commit \/ CommitFails
  \/ Create \/ CreateFails \/ RecoverPublish \/ InitLexiconWireMapping \/ InitFails
  \/ PublishCurrent \/ CurrentFails \/ PublishFails \/ Publishing \/ Die
  \/ \E r \in Readers : Open(r) \/ Close(r) \/ ResetCachedIdentity(r) \/ Call(r) \/ ReaderStep(r)

Spec == Init /\ [][Next]_vars

\* A publication under way goes on, and a TSF thread asks again with every key.
Fairness == /\ WF_vars(Publishing)
            /\ \A r \in Readers : SF_vars(Open(r)) /\ WF_vars(Call(r)) /\ WF_vars(ReaderStep(r))
-----------------------------------------------------------------------------
\* The mapping, the locals of writer and readers and their results keep their
\* types.
TypeOK ==
  /\ mem \in [Cells -> Nat] /\ seqlock \in Nat
  /\ disk \in Nat /\ dgen \in Nat /\ journal \in BOOLEAN
  /\ wpc \in {"down", "nowire", "init", "idle", "current", "begin", "prefix", "rest"} /\ wgen \in Nat
  /\ pub \in [gen : Nat, n : Nat, back : {"idle", "init", "current"}] /\ left \in SUBSET Cells
  /\ rpc \in [Readers -> {"closed", "idle", "fast", "identity", "begin", "copy"}]
  /\ tries \in [Readers -> 0 .. (MaxRetries - 1)] /\ start \in [Readers -> Nat]
  /\ got \in [Readers -> [Cells -> Nat]] /\ need \in [Readers -> SUBSET Cells]
  /\ cached \in [Readers -> [Cells -> Nat]] /\ res \in [Readers -> {"none", "valid", "invalid"}]
  /\ out \in [Readers -> [Cells -> Nat]] /\ reg \in Nat
  /\ saves \in Nat /\ failures \in Nat /\ publishes \in Nat /\ deaths \in Nat

\* An odd seqlock means that a Publish is between its two increments, an even
\* one that none is: what every reader concludes from it.
ParityTellsWriting == ~Even(seqlock) <=> wpc \in {"prefix", "rest"}

\* A copy the seqlock calls stable passes ValidateAndInspect: the CRC never has
\* to catch what the seqlock let through.
StableCopyIsSound ==
  \A r \in Readers : (rpc[r] = "copy" /\ need[r] = {} /\ SeqlockValidateRead(r) /\ got[r]["magic"] = 1)
                       => Inspected(got[r])

\* The snapshot a reader is left with as the lexicon it belongs to.
Lexicon(s) == [f \in {"flags", "payload"} |->
                 IF f = "payload" /\ s["payload"] = Payload(s["flags"]) THEN s["flags"] ELSE s[f]]

Register == INSTANCE SnapshotRegister
  WITH Fields <- {"flags", "payload"}, out <- [r \in Readers |-> Lexicon(out[r])]

\* ReadSnapshotFast leaves its caller with the whole lexicon published last, on
\* both of its paths, or fails.
ReadsAreAtomic == Register!Spec

\* A lexicon that ReadSnapshotFast accepts was published as one.
WholeLexicon ==
  \A r \in Readers : res[r] = "valid" => out[r]["payload"] = Payload(out[r]["flags"])

\* A published lexicon reaches every open reader that keeps asking: unless the
\* process that published it ends, the reader has again and again the lexicon
\* that is published.
LexiconReachesReaders ==
  \A r \in Readers :
    []<>(\/ reg = 0 \/ rpc[r] = "closed" \/ deaths > 0
         \/ res[r] = "valid" /\ out[r]["flags"] = reg)

\* What a reader takes from the seqlock is so: odd while a Publish is under way
\* and only then, and a copy it calls stable needs no CRC (SeqlockBeginRead,
\* SeqlockValidateRead, ValidateAndInspect).
SeqlockSound == TypeOK /\ ParityTellsWriting /\ StableCopyIsSound
=============================================================================
