-------------------------- MODULE SharedStateSeqlock --------------------------
(***************************************************************************)
(* The SharedState mapping and its epoch seqlock                           *)
(* (core/ipc/SharedStateManager.cpp): Create, Write, Read and              *)
(* CheckAbiCompatibility, at the granularity of single loads and stores.   *)
(*                                                                         *)
(* The main process creates the mapping each time it starts; a TSF host    *)
(* keeps it alive between two main processes, so Create may find readers   *)
(* at work.  Any other process that opened the mapping read-write calls    *)
(* Write too.  A process may die between two stores.                       *)
(*                                                                         *)
(* The struct is abstracted to the cells of Fields, whose stores and loads *)
(* are plain and happen in any order between the barriers; a cell holds    *)
(* the number of the Create or Write that stored it.  epoch is a natural   *)
(* number: the 32-bit counter does not come round during one Read.         *)
(***************************************************************************)
EXTENDS Integers

CONSTANTS
  Main,        \* the main process, which creates the mapping
  Others,      \* the other processes that call Write (Settings, dialogs, tray)
  Readers,     \* the threads that read (HookEngine, TSF hosts)
  Fields,      \* cells of the struct that Write copies
  SEQLOCK_MAX_RETRIES,
  MaxWrites,   \* bound: calls of Write
  MaxCrashes   \* bound: deaths of a process that has the mapping open

ASSUME ParamAssumption ==
  /\ Main \notin Others
  /\ "magic" \notin Fields /\ "epoch" \notin Fields
  /\ SEQLOCK_MAX_RETRIES \in Nat \ {0}
  /\ MaxWrites \in Nat /\ MaxCrashes \in Nat

Writers == {Main} \cup Others

\* magic is 1 for MAGIC_VALUE and 0 otherwise.
Cells == Fields \cup {"magic"}

VARIABLES
  mem,      \* [Cells -> Nat]: the struct, without epoch
  epoch,    \* SharedState.epoch
  wpc,      \* [Writers -> ...]: where each writer is in Create or Write
  seq,      \* [Writers -> Nat]: its local seq, writingEpoch in Create
  num,      \* [Writers -> Nat]: the number of its running Create or Write
  left,     \* [Writers -> SUBSET (Cells \cup {"epoch"})]: cells it has still to store
  rpc,      \* [Readers -> ...]: where each reader is
  abi,      \* [Readers -> {"read", "abi"}]: Read or CheckAbiCompatibility
  tries,    \* [Readers -> Nat]: failed attempts of the running call
  before,   \* [Readers -> Nat]: epoch at the start of the attempt
  got,      \* [Readers -> [Cells -> Nat]]: the local copy
  need,     \* [Readers -> SUBSET Cells]: cells it has still to load
  res,      \* [Readers -> ...]: how the last Read ended, "none" while one runs
  out,      \* [Readers -> [Fields -> Nat]]: what the last valid Read returned
  verdict,  \* [Readers -> ...]: what the last CheckAbiCompatibility returned
  reg,      \* history: number of the last Create or Write that ran to its end
  count,    \* numbers given out
  writes, crashes

wvars == <<wpc, seq, num, left>>
rvars == <<rpc, abi, tries, before, got, need>>
rets  == <<res, out, verdict>>
bounds == <<writes, crashes>>
vars == <<mem, epoch, wvars, rvars, rets, reg, count, bounds>>

Even(n) == n % 2 = 0

\* priorEpoch | 1
ForceOdd(n) == IF Even(n) THEN n + 1 ELSE n

\* CreateFileMappingW gives a zero-filled mapping.
Init ==
  /\ mem = [c \in Cells |-> 0] /\ epoch = 0
  /\ wpc = [w \in Writers |-> "down"] /\ seq = [w \in Writers |-> 0]
  /\ num = [w \in Writers |-> 0] /\ left = [w \in Writers |-> {}]
  /\ rpc = [r \in Readers |-> "closed"] /\ abi = [r \in Readers |-> "read"]
  /\ tries = [r \in Readers |-> 0] /\ before = [r \in Readers |-> 0]
  /\ got = [r \in Readers |-> [c \in Cells |-> 0]] /\ need = [r \in Readers |-> {}]
  /\ res = [r \in Readers |-> "none"]
  /\ out = [r \in Readers |-> [f \in Fields |-> 0]]
  /\ verdict = [r \in Readers |-> "none"]
  /\ reg = 0 /\ count = 0 /\ writes = 0 /\ crashes = 0

-----------------------------------------------------------------------------
(* Create, by the main process as it starts.                                *)

Step(w, l) == wpc' = [wpc EXCEPT ![w] = l]

\* w returns or dies: its locals go out of scope.
Leave(w, l) == /\ Step(w, l) /\ seq' = [seq EXCEPT ![w] = 0] /\ num' = [num EXCEPT ![w] = 0]
               /\ left' = [left EXCEPT ![w] = {}]

CreateBegin ==
  /\ wpc[Main] = "down"
  /\ Step(Main, "cMark")
  /\ seq' = [seq EXCEPT ![Main] = ForceOdd(epoch)]
  /\ num' = [num EXCEPT ![Main] = count + 1] /\ count' = count + 1
  /\ left' = [left EXCEPT ![Main] = Cells \cup {"epoch"}]
  /\ UNCHANGED <<mem, epoch, rvars, rets, reg, bounds>>

\* Mutant: leaves it to the struct copy to make epoch odd.
CreateMarkSkipped ==
  /\ wpc[Main] = "cMark" /\ Step(Main, "cMagic0")
  /\ UNCHANGED <<mem, epoch, seq, num, left, rvars, rets, reg, count, bounds>>

\* epoch goes odd before magic is touched, and magic is back before it is even.
CreateMark ==
  /\ wpc[Main] = "cMark" /\ Step(Main, "cMagic0")
  /\ epoch' = seq[Main]
  /\ UNCHANGED <<mem, seq, num, left, rvars, rets, reg, count, bounds>>

CreateClearMagic ==
  /\ wpc[Main] = "cMagic0" /\ Step(Main, "cCopy")
  /\ mem' = [mem EXCEPT !["magic"] = 0]
  /\ UNCHANGED <<epoch, seq, num, left, rvars, rets, reg, count, bounds>>

\* *p = initialState: every cell, magic = 0 and epoch = writingEpoch included.
CreateCopy(c) ==
  /\ wpc[Main] = "cCopy" /\ c \in left[Main]
  /\ left' = [left EXCEPT ![Main] = @ \ {c}]
  /\ \/ c = "epoch" /\ epoch' = seq[Main] /\ UNCHANGED mem
     \/ c = "magic" /\ mem' = [mem EXCEPT !["magic"] = 0] /\ UNCHANGED epoch
     \/ c \in Fields /\ mem' = [mem EXCEPT ![c] = num[Main]] /\ UNCHANGED epoch
  /\ UNCHANGED <<wpc, seq, num, rvars, rets, reg, count, bounds>>

CreateSetMagic ==
  /\ wpc[Main] = "cCopy" /\ left[Main] = {} /\ Step(Main, "end")
  /\ mem' = [mem EXCEPT !["magic"] = 1]
  /\ UNCHANGED <<epoch, seq, num, left, rvars, rets, reg, count, bounds>>

-----------------------------------------------------------------------------
(* Open and Write.                                                          *)

\* OpenReadWrite of another process: only once it finds MAGIC_VALUE.
OpenReadWrite(w) ==
  /\ w # Main /\ wpc[w] = "down" /\ mem["magic"] = 1
  /\ Step(w, "idle")
  /\ UNCHANGED <<mem, epoch, seq, num, left, rvars, rets, reg, count, bounds>>

\* Every caller of Write but the one right after Create has got a valid state
\* from Read (here in one step), and changes some of its fields.
ReadToModify(w) ==
  /\ wpc[w] = "idle" /\ mem["magic"] = 1 /\ Even(epoch)
  /\ Step(w, "ready")
  /\ UNCHANGED <<mem, epoch, seq, num, left, rvars, rets, reg, count, bounds>>

\* The state is valid, so magic = MAGIC_VALUE is stored with the rest.
WriteBegin(w) ==
  /\ wpc[w] = "ready" /\ writes < MaxWrites /\ writes' = writes + 1
  /\ Step(w, "wMark")
  /\ seq' = [seq EXCEPT ![w] = epoch + 1]
  /\ num' = [num EXCEPT ![w] = count + 1] /\ count' = count + 1
  /\ left' = [left EXCEPT ![w] = Cells]
  /\ UNCHANGED <<mem, epoch, rvars, rets, reg, crashes>>

WriteMark(w) ==
  /\ wpc[w] = "wMark" /\ Step(w, "wCopy")
  /\ epoch' = seq[w]
  /\ UNCHANGED <<mem, seq, num, left, rvars, rets, reg, count, bounds>>

WriteCopy(w, c) ==
  /\ wpc[w] = "wCopy" /\ c \in left[w]
  /\ left' = [left EXCEPT ![w] = @ \ {c}]
  /\ mem' = [mem EXCEPT ![c] = IF c = "magic" THEN 1 ELSE num[w]]
  /\ UNCHANGED <<epoch, wpc, seq, num, rvars, rets, reg, count, bounds>>

\* The last store of Write and of Create: epoch is even again.
End(w) ==
  /\ \/ wpc[w] = "wCopy" /\ left[w] = {}
     \/ wpc[w] = "end"
  /\ Leave(w, IF wpc[w] = "end" THEN "ready" ELSE "idle")
  /\ epoch' = seq[w] + 1
  /\ reg' = num[w]
  /\ UNCHANGED <<mem, rvars, rets, count, bounds>>

\* The process dies; what it stored stays.
Crash(w) ==
  /\ wpc[w] # "down" /\ crashes < MaxCrashes /\ crashes' = crashes + 1
  /\ Leave(w, "down")
  /\ UNCHANGED <<mem, epoch, rvars, rets, reg, count, writes>>

-----------------------------------------------------------------------------
(* Readers.                                                                 *)

\* Open (or OpenReadWrite): reading starts once MAGIC_VALUE has been seen.
Open(r) ==
  /\ rpc[r] = "closed" /\ mem["magic"] = 1
  /\ rpc' = [rpc EXCEPT ![r] = "idle"]
  /\ UNCHANGED <<mem, epoch, wvars, abi, tries, before, got, need, rets, reg, count, bounds>>

\* Mutant: a reader that has a valid state keeps it.
CallUntilValid(r, k) ==
  /\ rpc[r] = "idle" /\ (k = "read" => mem["magic"] = 1 /\ res[r] # "valid")
  /\ rpc' = [rpc EXCEPT ![r] = "before"]
  /\ abi' = [abi EXCEPT ![r] = k] /\ tries' = [tries EXCEPT ![r] = 0]
  /\ res' = IF k = "read" THEN [res EXCEPT ![r] = "none"] ELSE res
  /\ UNCHANGED <<mem, epoch, wvars, before, got, need, out, verdict, reg, count, bounds>>

\* Read returns an invalid state at once if magic is not there;
\* CheckAbiCompatibility goes straight to the epoch.
Call(r, k) ==
  /\ rpc[r] = "idle"
  /\ \/ /\ k = "read" /\ mem["magic"] # 1
        /\ res' = [res EXCEPT ![r] = "invalid"]
        /\ UNCHANGED <<rpc, abi, tries>>
     \/ /\ k = "abi" \/ mem["magic"] = 1
        /\ rpc' = [rpc EXCEPT ![r] = "before"]
        /\ abi' = [abi EXCEPT ![r] = k] /\ tries' = [tries EXCEPT ![r] = 0]
        /\ \/ k = "read" /\ res' = [res EXCEPT ![r] = "none"]
           \/ k = "abi" /\ UNCHANGED res
  /\ UNCHANGED <<mem, epoch, wvars, before, got, need, out, verdict, reg, count, bounds>>

LoadBefore(r) ==
  /\ rpc[r] = "before"
  /\ rpc' = [rpc EXCEPT ![r] = "copy"]
  /\ before' = [before EXCEPT ![r] = epoch]
  /\ need' = [need EXCEPT ![r] = Cells]
  /\ UNCHANGED <<mem, epoch, wvars, abi, tries, got, rets, reg, count, bounds>>

LoadCell(r, c) ==
  /\ rpc[r] = "copy" /\ c \in need[r]
  /\ need' = [need EXCEPT ![r] = @ \ {c}]
  /\ got' = [got EXCEPT ![r] = [got[r] EXCEPT ![c] = mem[c]]]
  /\ UNCHANGED <<mem, epoch, wvars, rpc, abi, tries, before, rets, reg, count, bounds>>

\* The call returns: its locals go out of scope.
Return(r) == /\ rpc' = [rpc EXCEPT ![r] = "idle"] /\ abi' = [abi EXCEPT ![r] = "read"]
             /\ tries' = [tries EXCEPT ![r] = 0] /\ before' = [before EXCEPT ![r] = 0]
             /\ got' = [got EXCEPT ![r] = [c \in Cells |-> 0]] /\ UNCHANGED need

\* Mutant: forgets that an odd epoch means a write in progress.
StableIgnoringParity(r) == before[r] = epoch

Stable(r) == before[r] = epoch /\ Even(before[r])

\* LoadAfter with a stable epoch returns the copy.
Accept(r) ==
  /\ rpc[r] = "copy" /\ need[r] = {} /\ Stable(r)
  /\ Return(r)
  /\ \/ /\ abi[r] = "read"
        /\ res' = [res EXCEPT ![r] = "valid"]
        /\ out' = [out EXCEPT ![r] = [f \in Fields |-> got[r][f]]]
        /\ UNCHANGED verdict
     \/ /\ abi[r] = "abi"
        /\ verdict' = [verdict EXCEPT ![r] = IF got[r]["magic"] = 1 THEN "compatible" ELSE "incompatible"]
        /\ UNCHANGED <<res, out>>
  /\ UNCHANGED <<mem, epoch, wvars, reg, count, bounds>>

\* Otherwise try again, and give up after SEQLOCK_MAX_RETRIES attempts.
Reject(r) ==
  /\ rpc[r] = "copy" /\ need[r] = {} /\ ~Stable(r)
  /\ \/ /\ tries[r] + 1 < SEQLOCK_MAX_RETRIES
        /\ rpc' = [rpc EXCEPT ![r] = "before"]
        /\ tries' = [tries EXCEPT ![r] = @ + 1]
        /\ got' = [got EXCEPT ![r] = [c \in Cells |-> 0]] /\ before' = [before EXCEPT ![r] = 0]
        /\ UNCHANGED <<abi, need, res, verdict>>
     \/ /\ tries[r] + 1 >= SEQLOCK_MAX_RETRIES
        /\ Return(r)
        /\ \/ abi[r] = "read" /\ res' = [res EXCEPT ![r] = "invalid"] /\ UNCHANGED verdict
           \/ abi[r] = "abi" /\ verdict' = [verdict EXCEPT ![r] = "retry"] /\ UNCHANGED res
  /\ UNCHANGED <<mem, epoch, wvars, out, reg, count, bounds>>

-----------------------------------------------------------------------------
Create == CreateBegin \/ CreateMark \/ CreateClearMagic \/ (\E c \in Cells \cup {"epoch"} : CreateCopy(c))
            \/ CreateSetMagic

Write(w) == WriteBegin(w) \/ WriteMark(w) \/ \E c \in Cells : WriteCopy(w, c)

ReaderStep(r) == \/ LoadBefore(r) \/ (\E c \in Cells : LoadCell(r, c)) \/ Accept(r) \/ Reject(r)

Next == \/ Create
        \/ \E w \in Writers : OpenReadWrite(w) \/ ReadToModify(w) \/ Write(w) \/ End(w) \/ Crash(w)
        \/ \E r \in Readers : Open(r) \/ (\E k \in {"read", "abi"} : Call(r, k)) \/ ReaderStep(r)

Spec == Init /\ [][Next]_vars

\* Running code runs on, a main process that died is started again (watchdog,
\* user), and a reader comes back with every key.
Fairness ==
  /\ WF_vars(Create)
  /\ \A w \in Writers : WF_vars(WriteMark(w) \/ (\E c \in Cells : WriteCopy(w, c)) \/ End(w))
  /\ \A r \in Readers : SF_vars(Open(r)) /\ SF_vars(Call(r, "read")) /\ WF_vars(ReaderStep(r))
-----------------------------------------------------------------------------
WriterPc == {"down", "idle", "ready", "cMark", "cMagic0", "cCopy", "end", "wMark", "wCopy"}

\* The mapping, the locals of every writer and reader and their results keep
\* their types.
TypeOK ==
  /\ mem \in [Cells -> Nat] /\ epoch \in Nat
  /\ wpc \in [Writers -> WriterPc] /\ seq \in [Writers -> Nat] /\ num \in [Writers -> Nat]
  /\ left \in [Writers -> SUBSET (Cells \cup {"epoch"})]
  /\ rpc \in [Readers -> {"closed", "idle", "before", "copy"}]
  /\ abi \in [Readers -> {"read", "abi"}] /\ tries \in [Readers -> Nat]
  /\ before \in [Readers -> Nat] /\ got \in [Readers -> [Cells -> Nat]]
  /\ need \in [Readers -> SUBSET Cells]
  /\ res \in [Readers -> {"none", "valid", "invalid"}] /\ out \in [Readers -> [Fields -> Nat]]
  /\ verdict \in [Readers -> {"none", "compatible", "incompatible", "retry"}]
  /\ reg \in Nat /\ count \in Nat /\ writes \in Nat /\ crashes \in Nat

\* Whenever the main process runs and no process is inside Create or Write,
\* epoch is even: the next Read finds a stable struct.
QuietMeansStable ==
  (/\ wpc[Main] \in {"idle", "ready"}
   /\ \A w \in Others : wpc[w] \in {"down", "idle", "ready"}) => Even(epoch)

\* CheckAbiCompatibility never reports a mismatch of a mapping that only this
\* build creates and writes: neither a Create under way nor one that a
\* descheduled reader straddled makes it see magic = 0 as stable.
NoFalseMismatch == \A r \in Readers : verdict[r] # "incompatible"

\* Epoch never goes back and is never reused: every Create and Write leaves it
\* strictly higher than it found it.
EpochIncreases == [][epoch' >= epoch /\ (reg' # reg => epoch' > epoch)]_vars

Register == INSTANCE SnapshotRegister

\* A Read returns one published snapshot, whole, as it is when the Read ends,
\* and publications never go backwards.
ReadsAreAtomic == Register!Spec

\* A valid state returned by Read is the work of one Create or Write.
WholeSnapshot ==
  \A r \in Readers : res[r] = "valid" => \A f, g \in Fields : out[r][f] = out[r][g]

\* A published snapshot reaches every reader, unless a newer one replaces it.
SnapshotReachesReaders ==
  \A r \in Readers : \A n \in 1 .. (MaxWrites + MaxCrashes + 1) :
    (reg = n) ~> (reg > n \/ (res[r] = "valid" /\ \A f \in Fields : out[r][f] = n))

\* What a dead or late writer leaves behind heals: a mapping nobody writes to is
\* stable, the epoch never comes back to a value a reader may hold, and what was
\* published last reaches the readers (Create, Write, Read).
SharedStateHeals == []TypeOK /\ []QuietMeansStable /\ EpochIncreases /\ SnapshotReachesReaders
=============================================================================
