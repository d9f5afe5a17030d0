----------------------- MODULE SharedStateSeqlockProofs -----------------------
(***************************************************************************)
(* While the main process is the only one that calls Write, the epoch      *)
(* seqlock of SharedState implements an atomic register, for every number  *)
(* of readers, fields, writes, crashes and restarts.                       *)
(***************************************************************************)
EXTENDS SharedStateSeqlock, TLAPS

\* The assumption of the theorems: no process but the main one writes.
OneWriter == Others = {}

\* Counting up by one turns even to odd and odd to even; ForceOdd makes any count odd.
LEMMA Parity ==
  /\ \A n \in Nat : Even(n) => ~Even(n + 1)
  /\ \A n \in Nat : ~Even(n) => Even(n + 1)
  /\ \A n \in Nat : ForceOdd(n) \in Nat /\ ~Even(ForceOdd(n)) /\ ForceOdd(n) >= n
  /\ \A n \in Nat : ~Even(n) => ForceOdd(n) = n
  /\ Even(0)
BY SMT DEF Even, ForceOdd

\* Every step keeps the types of the variables.
LEMMA TypeStep == TypeOK /\ [Next]_vars => TypeOK'
<1> SUFFICES ASSUME TypeOK, [Next]_vars PROVE TypeOK'
  OBVIOUS
<1>a. Main \in Writers /\ "magic" \in Cells /\ Fields \subseteq Cells
  BY DEF Writers, Cells
<1> USE <1>a DEF TypeOK, WriterPc, wvars, rvars, rets, bounds, Step
<1>1. CASE CreateBegin
  BY <1>1, Parity DEF CreateBegin
<1>2. CASE CreateMark
  BY <1>2 DEF CreateMark
<1>3. CASE CreateClearMagic
  BY <1>3 DEF CreateClearMagic
<1>4. ASSUME NEW c \in Cells \cup {"epoch"}, CreateCopy(c) PROVE TypeOK'
  <2>1. mem' \in [Cells -> Nat] /\ epoch' \in Nat
    <3>1. CASE c = "epoch" /\ epoch' = seq[Main] /\ UNCHANGED mem
      BY <3>1
    <3>2. CASE c = "magic" /\ mem' = [mem EXCEPT !["magic"] = 0] /\ UNCHANGED epoch
      BY <3>2
    <3>3. CASE c \in Fields /\ mem' = [mem EXCEPT ![c] = num[Main]] /\ UNCHANGED epoch
      BY <3>3
    <3> QED BY <1>4, <3>1, <3>2, <3>3 DEF CreateCopy
  <2> QED BY <2>1, <1>4 DEF CreateCopy
<1>5. CASE CreateSetMagic
  BY <1>5 DEF CreateSetMagic
<1>6. ASSUME NEW w \in Writers, OpenReadWrite(w) PROVE TypeOK'
  BY <1>6 DEF OpenReadWrite
<1>19. ASSUME NEW w \in Writers, ReadToModify(w) PROVE TypeOK'
  BY <1>19 DEF ReadToModify
<1>7. ASSUME NEW w \in Writers, WriteBegin(w) PROVE TypeOK'
  BY <1>7 DEF WriteBegin
<1>8. ASSUME NEW w \in Writers, WriteMark(w) PROVE TypeOK'
  BY <1>8 DEF WriteMark
<1>9. ASSUME NEW w \in Writers, NEW c \in Cells, WriteCopy(w, c) PROVE TypeOK'
  BY <1>9 DEF WriteCopy
<1>10. ASSUME NEW w \in Writers, End(w) PROVE TypeOK'
  BY <1>10 DEF End, Leave
<1>11. ASSUME NEW w \in Writers, Crash(w) PROVE TypeOK'
  BY <1>11 DEF Crash, Leave
<1>12. ASSUME NEW r \in Readers, Open(r) PROVE TypeOK'
  BY <1>12 DEF Open
<1>13. ASSUME NEW r \in Readers, NEW k \in {"read", "abi"}, Call(r, k) PROVE TypeOK'
  <2>1. CASE UNCHANGED <<rpc, abi, tries>> /\ res' = [res EXCEPT ![r] = "invalid"]
    BY <1>13, <2>1 DEF Call
  <2>2. CASE /\ rpc' = [rpc EXCEPT ![r] = "before"] /\ abi' = [abi EXCEPT ![r] = k]
             /\ tries' = [tries EXCEPT ![r] = 0] /\ UNCHANGED res
    BY <1>13, <2>2 DEF Call
  <2>3. CASE /\ rpc' = [rpc EXCEPT ![r] = "before"] /\ abi' = [abi EXCEPT ![r] = k]
             /\ tries' = [tries EXCEPT ![r] = 0] /\ res' = [res EXCEPT ![r] = "none"]
    BY <1>13, <2>3 DEF Call
  <2> QED BY <1>13, <2>1, <2>2, <2>3 DEF Call
<1>14. ASSUME NEW r \in Readers, LoadBefore(r) PROVE TypeOK'
  BY <1>14 DEF LoadBefore
<1>15. ASSUME NEW r \in Readers, NEW c \in Cells, LoadCell(r, c) PROVE TypeOK'
  BY <1>15 DEF LoadCell
<1>16. ASSUME NEW r \in Readers, Accept(r) PROVE TypeOK'
  <2>1. /\ rpc' \in [Readers -> {"closed", "idle", "before", "copy"}] /\ abi' \in [Readers -> {"read", "abi"}]
        /\ tries' \in [Readers -> Nat] /\ before' \in [Readers -> Nat]
    BY <1>16 DEF Accept, Return
  <2>2. got' \in [Readers -> [Cells -> Nat]] /\ need' = need
    BY <1>16 DEF Accept, Return
  <2>3. /\ res' \in [Readers -> {"none", "valid", "invalid"}] /\ out' \in [Readers -> [Fields -> Nat]]
        /\ verdict' \in [Readers -> {"none", "compatible", "incompatible", "retry"}]
    <3>1. CASE abi[r] = "read"
      <4>1. [f \in Fields |-> got[r][f]] \in [Fields -> Nat]
        OBVIOUS
      <4> QED BY <1>16, <3>1, <4>1 DEF Accept
    <3>2. CASE abi[r] = "abi"
      BY <1>16, <3>2 DEF Accept
    <3> QED BY <1>16, <3>1, <3>2 DEF Accept
  <2> QED BY <1>16, <2>1, <2>2, <2>3 DEF Accept
<1>17. ASSUME NEW r \in Readers, Reject(r) PROVE TypeOK'
  <2>1. [c \in Cells |-> 0] \in [Cells -> Nat]
    OBVIOUS
  <2>2. CASE /\ rpc' = [rpc EXCEPT ![r] = "before"] /\ tries' = [tries EXCEPT ![r] = @ + 1]
             /\ got' = [got EXCEPT ![r] = [c \in Cells |-> 0]] /\ before' = [before EXCEPT ![r] = 0]
             /\ UNCHANGED <<abi, need, res, verdict>>
    BY <1>17, <2>1, <2>2 DEF Reject
  <2>3. CASE Return(r)
    <3>1. /\ res' \in [Readers -> {"none", "valid", "invalid"}]
          /\ verdict' \in [Readers -> {"none", "compatible", "incompatible", "retry"}]
      BY <1>17 DEF Reject
    <3> QED BY <1>17, <2>1, <2>3, <3>1 DEF Reject, Return
  <2> QED BY <1>17, <2>2, <2>3 DEF Reject
<1>18. CASE UNCHANGED vars
  BY <1>18 DEF vars
<1> QED BY <1>1, <1>2, <1>3, <1>4, <1>5, <1>6, <1>7, <1>8, <1>9, <1>10, <1>11, <1>12, <1>13,
           <1>14, <1>15, <1>16, <1>17, <1>18, <1>19 DEF Next, Create, Write, ReaderStep

-----------------------------------------------------------------------------
(* The inductive invariant, for the main process as the only writer.        *)

Published == \A f \in Fields : mem[f] = reg

\* Where the main process is decides the parity of epoch and which cells hold
\* the old and which the new snapshot.  A process that died in the middle of
\* Create or Write left epoch odd.
WriterInv ==
  /\ reg <= count
  /\ mem["magic"] \in {0, 1} /\ (mem["magic"] = 1 => epoch > 0)
  /\ wpc[Main] \in {"idle", "ready", "wMark"} =>
       Even(epoch) /\ Published /\ mem["magic"] = 1
  /\ wpc[Main] \in {"down", "cMark"} => (Even(epoch) => Published /\ (epoch > 0 => mem["magic"] = 1))
  /\ wpc[Main] = "cMark" => seq[Main] >= epoch /\ ~Even(seq[Main]) /\ (~Even(epoch) => seq[Main] = epoch)
  /\ wpc[Main] = "wMark" => seq[Main] = epoch + 1
  /\ wpc[Main] \in {"cMagic0", "cCopy", "end", "wCopy"} => ~Even(epoch) /\ seq[Main] = epoch
  /\ wpc[Main] \in {"cMark", "cMagic0", "cCopy", "end", "wMark", "wCopy"} =>
       num[Main] = count /\ reg < num[Main]
  /\ wpc[Main] \in {"cCopy", "wCopy"} => \A f \in Fields \ left[Main] : mem[f] = num[Main]
  /\ wpc[Main] = "wCopy" => mem["magic"] = 1
  /\ wpc[Main] = "end" => mem["magic"] = 1 /\ \A f \in Fields : mem[f] = num[Main]
  /\ wpc[Main] = "cMagic0" => left[Main] = Cells \cup {"epoch"}
  /\ wpc[Main] = "cMark" => left[Main] = Cells \cup {"epoch"}
  /\ wpc[Main] = "wMark" => left[Main] = Cells

\* As long as epoch is what it was, and even, what a reader has copied is what
\* the struct holds.
ReaderInv ==
  \A r \in Readers :
    /\ rpc[r] # "closed" => epoch > 0
    /\ rpc[r] = "copy" =>
         /\ before[r] <= epoch
         /\ (before[r] = epoch /\ Even(epoch)) => \A c \in Cells \ need[r] : got[r][c] = mem[c]

SeqlockInv == TypeOK /\ WriterInv /\ ReaderInv /\ NoFalseMismatch

\* Every store of the main process keeps the invariant.
LEMMA WriterStep ==
  ASSUME OneWriter, SeqlockInv, Create \/ \E w \in Writers : OpenReadWrite(w) \/ ReadToModify(w) \/ Write(w) \/ End(w) \/ Crash(w)
  PROVE  WriterInv' /\ ReaderInv' /\ NoFalseMismatch'
<1>a. /\ Main \in Writers /\ Writers = {Main} /\ "magic" \in Cells /\ Fields \subseteq Cells
      /\ "magic" \notin Fields /\ "epoch" \notin Cells
  BY ParamAssumption DEF Writers, Cells, OneWriter
<1>b. TypeOK /\ WriterInv /\ ReaderInv /\ NoFalseMismatch
  BY DEF SeqlockInv
<1> USE <1>a, <1>b, Parity DEF TypeOK, wvars, rvars, rets, bounds, Step
<1>1. CASE CreateBegin
  <2>1. WriterInv'
    BY <1>1 DEF CreateBegin, WriterInv, Published
  <2>2. ReaderInv'
    BY <1>1 DEF CreateBegin, WriterInv, ReaderInv
  <2> QED BY <1>1, <2>1, <2>2 DEF CreateBegin, NoFalseMismatch
<1>2. CASE CreateMark
  <2>1. WriterInv'
    BY <1>2 DEF CreateMark, WriterInv, Published
  <2>2. ReaderInv'
    BY <1>2 DEF CreateMark, WriterInv, ReaderInv
  <2> QED BY <1>2, <2>1, <2>2 DEF CreateMark, NoFalseMismatch
<1>3. CASE CreateClearMagic
  <2>1. WriterInv'
    BY <1>3 DEF CreateClearMagic, WriterInv, Published
  <2>2. ReaderInv'
    BY <1>3 DEF CreateClearMagic, WriterInv, ReaderInv
  <2> QED BY <1>3, <2>1, <2>2 DEF CreateClearMagic, NoFalseMismatch
<1>4. ASSUME NEW c \in Cells \cup {"epoch"}, CreateCopy(c)
      PROVE  WriterInv' /\ ReaderInv' /\ NoFalseMismatch'
  <2>1. WriterInv'
    BY <1>4 DEF CreateCopy, WriterInv, Published
  <2>2. ReaderInv'
    BY <1>4 DEF CreateCopy, WriterInv, ReaderInv
  <2> QED BY <1>4, <2>1, <2>2 DEF CreateCopy, NoFalseMismatch
<1>5. CASE CreateSetMagic
  <2>1. WriterInv'
    BY <1>5 DEF CreateSetMagic, WriterInv, Published
  <2>2. ReaderInv'
    BY <1>5 DEF CreateSetMagic, WriterInv, ReaderInv
  <2> QED BY <1>5, <2>1, <2>2 DEF CreateSetMagic, NoFalseMismatch
<1>6. CASE ReadToModify(Main)
  <2>1. WriterInv'
    BY <1>6 DEF ReadToModify, WriterInv, Published
  <2>2. ReaderInv'
    BY <1>6 DEF ReadToModify, WriterInv, ReaderInv
  <2> QED BY <1>6, <2>1, <2>2 DEF ReadToModify, NoFalseMismatch
<1>7. CASE WriteBegin(Main)
  <2>1. WriterInv'
    BY <1>7 DEF WriteBegin, WriterInv, Published
  <2>2. ReaderInv'
    BY <1>7 DEF WriteBegin, WriterInv, ReaderInv
  <2> QED BY <1>7, <2>1, <2>2 DEF WriteBegin, NoFalseMismatch
<1>8. CASE WriteMark(Main)
  <2>1. WriterInv'
    BY <1>8 DEF WriteMark, WriterInv, Published
  <2>2. ReaderInv'
    BY <1>8 DEF WriteMark, WriterInv, ReaderInv
  <2> QED BY <1>8, <2>1, <2>2 DEF WriteMark, NoFalseMismatch
<1>9. ASSUME NEW c \in Cells, WriteCopy(Main, c)
      PROVE  WriterInv' /\ ReaderInv' /\ NoFalseMismatch'
  <2>1. WriterInv'
    BY <1>9 DEF WriteCopy, WriterInv, Published
  <2>2. ReaderInv'
    BY <1>9 DEF WriteCopy, WriterInv, ReaderInv
  <2> QED BY <1>9, <2>1, <2>2 DEF WriteCopy, NoFalseMismatch
<1>10. CASE End(Main)
  <2>1. WriterInv'
    BY <1>10 DEF End, Leave, WriterInv, Published
  <2>2. ReaderInv'
    BY <1>10 DEF End, Leave, WriterInv, ReaderInv
  <2> QED BY <1>10, <2>1, <2>2 DEF End, Leave, NoFalseMismatch
<1>11. CASE Crash(Main)
  <2>1. WriterInv'
    BY <1>11 DEF Crash, Leave, WriterInv, Published, WriterPc
  <2>2. ReaderInv'
    BY <1>11 DEF Crash, Leave, WriterInv, ReaderInv
  <2> QED BY <1>11, <2>1, <2>2 DEF Crash, Leave, NoFalseMismatch
<1>12. ASSUME OpenReadWrite(Main) PROVE FALSE
  BY <1>12 DEF OpenReadWrite
<1> QED BY <1>1, <1>2, <1>3, <1>4, <1>5, <1>6, <1>7, <1>8, <1>9, <1>10, <1>11, <1>12 DEF Create, Write


\* Every step of a reader keeps the invariant.
LEMMA ReaderPreserves ==
  ASSUME OneWriter, SeqlockInv, NEW r \in Readers,
         Open(r) \/ (\E k \in {"read", "abi"} : Call(r, k)) \/ ReaderStep(r)
  PROVE  WriterInv' /\ ReaderInv' /\ NoFalseMismatch'
<1>b. TypeOK /\ WriterInv /\ ReaderInv /\ NoFalseMismatch /\ Main \in Writers
  BY DEF SeqlockInv, Writers
<1>w. WriterInv' /\ UNCHANGED <<mem, epoch, wvars, reg, count>>
  <2>1. UNCHANGED <<mem, epoch, wvars, reg, count>>
    BY DEF Open, Call, ReaderStep, LoadBefore, LoadCell, Accept, Reject
  <2> QED BY <1>b, <2>1 DEF WriterInv, Published, wvars
<1> USE <1>b, <1>w DEF TypeOK
<1>1. CASE Open(r)
  BY <1>1 DEF Open, ReaderInv, NoFalseMismatch, WriterInv, rets
<1>2. ASSUME NEW k \in {"read", "abi"}, Call(r, k) PROVE ReaderInv' /\ NoFalseMismatch'
  BY <1>2 DEF Call, ReaderInv, NoFalseMismatch
<1>3. CASE LoadBefore(r)
  BY <1>3 DEF LoadBefore, ReaderInv, NoFalseMismatch, rets
<1>4. ASSUME NEW c \in Cells, LoadCell(r, c) PROVE ReaderInv' /\ NoFalseMismatch'
  BY <1>4 DEF LoadCell, ReaderInv, NoFalseMismatch, rets
<1>5. CASE Accept(r)
  <2>1. ReaderInv'
    BY <1>5 DEF Accept, Return, ReaderInv
  <2>2. got[r]["magic"] = 1
    BY <1>5 DEF Accept, Stable, ReaderInv, WriterInv, Cells, WriterPc
  <2> QED BY <1>5, <2>1, <2>2 DEF Accept, NoFalseMismatch
<1>6. CASE Reject(r)
  <2>1. ReaderInv'
    <3>1. rpc[r] = "copy" /\ need' = need
      BY <1>6 DEF Reject, Return
    <3>2. rpc'[r] \in {"idle", "before"} /\ \A q \in Readers \ {r} : rpc'[q] = rpc[q]
      BY <1>6 DEF Reject, Return
    <3>3. \A q \in Readers \ {r} : before'[q] = before[q] /\ got'[q] = got[q]
      BY <1>6 DEF Reject, Return
    <3>4. ASSUME NEW q \in Readers
          PROVE  /\ rpc'[q] # "closed" => epoch' > 0
                 /\ rpc'[q] = "copy" =>
                      /\ before'[q] <= epoch'
                      /\ (before'[q] = epoch' /\ Even(epoch')) =>
                           \A c \in Cells \ need'[q] : got'[q][c] = mem'[c]
      <4>1. CASE q = r
        BY <4>1, <3>1, <3>2 DEF ReaderInv
      <4>2. CASE q # r
        BY <4>2, <3>1, <3>2, <3>3 DEF ReaderInv
      <4> QED BY <4>1, <4>2
    <3> QED BY <3>4 DEF ReaderInv
  <2> QED BY <1>6, <2>1 DEF Reject, NoFalseMismatch
<1> QED BY <1>1, <1>2, <1>3, <1>4, <1>5, <1>6 DEF ReaderStep

\* Every step of a writer or a reader keeps the invariant.
LEMMA SeqlockStep ==
  ASSUME OneWriter, SeqlockInv, [Next]_vars
  PROVE  SeqlockInv'
<1>1. TypeOK'
  BY TypeStep DEF SeqlockInv
<1>2. CASE Next
  BY <1>1, <1>2, WriterStep, ReaderPreserves DEF Next, SeqlockInv
<1>3. CASE UNCHANGED vars
  BY <1>1, <1>3 DEF vars, wvars, rvars, rets, SeqlockInv, WriterInv, Published, ReaderInv, NoFalseMismatch
<1> QED BY <1>2, <1>3

\* It holds at the start.
LEMMA SeqlockInit == Init => SeqlockInv
BY Parity, ParamAssumption DEF Init, SeqlockInv, TypeOK, WriterInv, Published, ReaderInv, NoFalseMismatch,
   Writers, Cells, WriterPc

-----------------------------------------------------------------------------
\* The mapping, the writers and the readers are of the right types throughout,
\* whatever processes write.
THEOREM TypeCorrect == Spec => []TypeOK
<1>1. Init => TypeOK
  BY ParamAssumption DEF Init, TypeOK, Writers, Cells, WriterPc
<1> QED BY <1>1, TypeStep, PTL DEF Spec

\* With one writer CheckAbiCompatibility never reports a mismatch that is not
\* there, however often the main process dies and reinitialises the mapping.
THEOREM NoFalseMismatchHolds ==
  ASSUME OneWriter
  PROVE  Spec => []NoFalseMismatch
<1>1. SeqlockInv /\ [Next]_vars => SeqlockInv'
  BY SeqlockStep
<1>2. SeqlockInv => NoFalseMismatch
  BY DEF SeqlockInv
<1> QED BY <1>1, <1>2, SeqlockInit, PTL DEF Spec

\* With one writer Read implements a read of an atomic register: Create and
\* Write publish at their last store, and a Read that returns a valid state
\* returns the snapshot published last, whole, as it is at its second load of
\* epoch.
THEOREM SeqlockImplementsRegister ==
  ASSUME OneWriter
  PROVE  Spec => ReadsAreAtomic
<1> USE DEF Register!Snapshot
<1>1. Init => Register!Init
  BY DEF Init, Register!Init
<1>2. SeqlockInv /\ [Next]_vars => [Register!Next]_<<reg, res, out>>
  <2> SUFFICES ASSUME SeqlockInv, Next, ~UNCHANGED <<reg, res, out>> PROVE Register!Next
    BY DEF vars, rets
  <2>a. TypeOK /\ WriterInv /\ ReaderInv /\ Writers = {Main}
    BY DEF SeqlockInv, Writers, OneWriter
  <2>1. CASE End(Main)
    BY <2>a, <2>1 DEF End, TypeOK, WriterInv, Register!Next, Register!Publish, rets, Writers
  <2>2. ASSUME NEW r \in Readers, NEW k \in {"read", "abi"}, Call(r, k) PROVE Register!Next
    <3>1. CASE res' = [res EXCEPT ![r] = "invalid"]
      BY <2>2, <3>1 DEF Call, Register!Next, Register!ReadInvalid
    <3>2. CASE res' = [res EXCEPT ![r] = "none"]
      BY <2>2, <3>2 DEF Call, Register!Next, Register!Call
    <3> QED BY <2>2, <3>1, <3>2 DEF Call
  <2>3. ASSUME NEW r \in Readers, Accept(r) PROVE Register!Next
    <3>1. CASE abi[r] = "read"
      <4>1. \A f \in Fields : got[r][f] = reg
        <5>1. Even(epoch) /\ \A f \in Fields : got[r][f] = mem[f]
          BY <2>3, <2>a DEF Accept, Stable, ReaderInv, Cells
        <5>2. Published
          BY <5>1, <2>a DEF TypeOK, WriterInv, WriterPc
        <5> QED BY <5>1, <5>2 DEF Published
      <4> QED BY <2>3, <3>1, <4>1 DEF Accept, Register!Next, Register!ReadValid
    <3>2. CASE abi[r] = "abi"
      BY <2>3, <3>2 DEF Accept
    <3> QED BY <2>3, <3>1, <3>2 DEF Accept
  <2>4. ASSUME NEW r \in Readers, Reject(r) PROVE Register!Next
    BY <2>4 DEF Reject, Register!Next, Register!ReadInvalid
  <2>5. ~Create
    BY DEF Create, CreateBegin, CreateMark, CreateClearMagic, CreateCopy, CreateSetMagic, rets
  <2>6. \A w \in Writers : ~(OpenReadWrite(w) \/ ReadToModify(w) \/ Write(w) \/ Crash(w))
    BY DEF OpenReadWrite, ReadToModify, Write, WriteBegin, WriteMark, WriteCopy, Crash, rets
  <2>7. \A r \in Readers : ~(Open(r) \/ LoadBefore(r) \/ \E c \in Cells : LoadCell(r, c))
    BY DEF Open, LoadBefore, LoadCell, rets
  <2> QED BY <2>a, <2>1, <2>2, <2>3, <2>4, <2>5, <2>6, <2>7 DEF Next, ReaderStep
<1>3. SeqlockInv /\ [Next]_vars => SeqlockInv'
  BY SeqlockStep
<1> QED BY <1>1, <1>2, <1>3, SeqlockInit, PTL DEF Spec, ReadsAreAtomic, Register!Spec

\* With one writer a mapping that nobody is writing to is stable: Create makes
\* good what a process that died inside Create or Write left behind.
THEOREM QuietIsStable ==
  ASSUME OneWriter
  PROVE  Spec => []QuietMeansStable
<1>1. SeqlockInv => QuietMeansStable
  BY DEF SeqlockInv, WriterInv, QuietMeansStable
<1>2. SeqlockInv /\ [Next]_vars => SeqlockInv'
  BY SeqlockStep
<1> QED BY <1>1, <1>2, SeqlockInit, PTL DEF Spec

\* With one writer epoch never goes back, and every publication of Create or Write
\* leaves it higher than any value a descheduled reader may hold.
THEOREM EpochNeverReturns ==
  ASSUME OneWriter
  PROVE  Spec => EpochIncreases
<1>1. SeqlockInv /\ [Next]_vars => [epoch' >= epoch /\ (reg' # reg => epoch' > epoch)]_vars
  <2> SUFFICES ASSUME SeqlockInv, Next PROVE epoch' >= epoch /\ (reg' # reg => epoch' > epoch)
    OBVIOUS
  <2>a. TypeOK /\ WriterInv /\ Writers = {Main} /\ Main \in Writers
    BY DEF SeqlockInv, Writers, OneWriter
  <2>b. epoch \in Nat /\ seq[Main] \in Nat
    BY <2>a DEF TypeOK
  <2>1. CASE CreateMark
    BY <2>1, <2>a, <2>b DEF CreateMark, WriterInv
  <2>2. ASSUME NEW c \in Cells \cup {"epoch"}, CreateCopy(c) PROVE epoch' >= epoch /\ reg' = reg
    BY <2>2, <2>a, <2>b DEF CreateCopy, WriterInv
  <2>3. CASE WriteMark(Main)
    BY <2>3, <2>a, <2>b DEF WriteMark, WriterInv
  <2>4. CASE End(Main)
    BY <2>4, <2>a, <2>b DEF End, WriterInv
  <2>5. CASE CreateBegin \/ CreateClearMagic \/ CreateSetMagic
    BY <2>5, <2>b DEF CreateBegin, CreateClearMagic, CreateSetMagic
  <2>6. CASE OpenReadWrite(Main) \/ ReadToModify(Main) \/ WriteBegin(Main) \/ Crash(Main)
             \/ \E c \in Cells : WriteCopy(Main, c)
    BY <2>6, <2>b DEF OpenReadWrite, ReadToModify, WriteBegin, Crash, WriteCopy
  <2>7. ASSUME NEW r \in Readers, Open(r) \/ (\E k \in {"read", "abi"} : Call(r, k)) \/ ReaderStep(r)
        PROVE  UNCHANGED <<epoch, reg>>
    BY <2>7 DEF Open, Call, ReaderStep, LoadBefore, LoadCell, Accept, Reject
  <2> QED BY <2>a, <2>b, <2>1, <2>2, <2>3, <2>4, <2>5, <2>6, <2>7 DEF Next, Create, Write
<1>2. SeqlockInv /\ [Next]_vars => SeqlockInv'
  BY SeqlockStep
<1> QED BY <1>1, <1>2, SeqlockInit, PTL DEF Spec, EpochIncreases
=============================================================================
