-------------------------- MODULE LexiconWireProofs --------------------------
(***************************************************************************)
(* While no main process ends between the two increments of Publish, what  *)
(* readers conclude from the wire's seqlock is so, and ReadSnapshotFast    *)
(* implements a read of an atomic register on both of its paths, for every *)
(* number of readers, publications, failed transactions and restarts.      *)
(***************************************************************************)
EXTENDS LexiconWire, TLAPS

\* The first assumption of the theorems: a Publish under way is never cut off.
PublishesEnd == ~DieInPublish

\* The second one, for the fast path alone: the CRC tells lexicons apart.
PayloadsDiffer == ~SharedPayload

\* Counting up by one turns even to odd and odd to even.
LEMMA Parity ==
  /\ \A n \in Nat : Even(n) => ~Even(n + 1)
  /\ \A n \in Nat : ~Even(n) => Even(n + 1)
  /\ Even(0)
BY SMT DEF Even

\* What Serialize puts into a staged buffer is of the mapping's type, and its CRC
\* and payload belong to its flags.
LEMMA StagedType ==
  /\ \A n \in Nat : Payload(n) \in Nat
  /\ Payload(0) = 0
  /\ \A g, n \in Nat, c \in Cells : Staged(g, n)[c] \in Nat
<1>1. (\A n \in Nat : Payload(n) \in Nat) /\ Payload(0) = 0
  BY SMT DEF Payload
<1>2. ASSUME NEW g \in Nat, NEW n \in Nat, NEW c \in Cells PROVE Staged(g, n)[c] \in Nat
  BY <1>1 DEF Staged
<1> QED BY <1>1, <1>2

\* A staged buffer cell by cell.
LEMMA StagedCells ==
  ASSUME NEW g, NEW n
  PROVE  /\ Staged(g, n)["magic"] = 1 /\ Staged(g, n)["flags"] = n
         /\ Staged(g, n)["crc32"] = Payload(n) /\ Staged(g, n)["payload"] = Payload(n)
BY DEF Staged, Cells, Rest

\* The mapping as the operating system hands it out is all zeros.
LEMMA BlankType == Blank \in [Cells -> Nat] /\ \A c \in Cells : Blank[c] = 0
BY DEF Blank

\* Every step keeps the types of the variables.
LEMMA TypeStep == TypeOK /\ [Next]_vars => TypeOK'
<1> SUFFICES ASSUME TypeOK, [Next]_vars PROVE TypeOK'
  OBVIOUS
<1> USE BlankType, ParamAssumption DEF TypeOK, mvars, dvars, wvars, rvars, bounds, WStep, RStep, Unread
<1>1. CASE Save
  BY <1>1 DEF Save
<1>2. CASE Commit
  BY <1>2 DEF Commit
<1>3. CASE CommitFails
  BY <1>3 DEF CommitFails
<1>4. CASE Create \/ CreateFails
  BY <1>4 DEF Create, CreateFails
<1>5. CASE RecoverPublish
  BY <1>5 DEF RecoverPublish, StartPublish
<1>6. CASE InitLexiconWireMapping
  BY <1>6 DEF InitLexiconWireMapping, StartPublish
<1>7. CASE InitFails
  BY <1>7 DEF InitFails
<1>8. CASE PublishCurrent
  BY <1>8 DEF PublishCurrent, StartPublish
<1>9. CASE CurrentFails \/ PublishFails
  BY <1>9 DEF CurrentFails, PublishFails, NoPub
<1>10. CASE Begin
  BY <1>10 DEF Begin
<1>11. ASSUME NEW c \in Cells, CopyCell(c), WStep("rest") PROVE TypeOK'
  <2>1. Staged(pub.gen, pub.n)[c] \in Nat
    BY StagedType
  <2> QED BY <1>11, <2>1 DEF CopyCell
<1>12. CASE CopyPrefix \/ \E c \in Rest : CopyRest(c)
  BY <1>11, <1>12 DEF CopyPrefix, CopyRest, Cells
<1>13. CASE End
  BY <1>13 DEF End, NoPub
<1>14. CASE Die
  BY <1>14 DEF Die, Destroyed, NoPub
<1>15. ASSUME NEW r \in Readers, Open(r) PROVE TypeOK'
  BY <1>15 DEF Open
<1>16. ASSUME NEW r \in Readers, Close(r) PROVE TypeOK'
  <2>1. mem' \in [Cells -> Nat] /\ seqlock' \in Nat
    BY <1>16 DEF Close, Destroyed
  <2> QED BY <1>16, <2>1 DEF Close
<1>17. ASSUME NEW r \in Readers, ResetCachedIdentity(r) PROVE TypeOK'
  BY <1>17 DEF ResetCachedIdentity
<1>18. ASSUME NEW r \in Readers, Call(r) PROVE TypeOK'
  BY <1>18 DEF Call
<1>19. ASSUME NEW r \in Readers, FastBegin(r) PROVE TypeOK'
  <2>1. {"magic", "generation", "crc32"} \subseteq Cells
    BY DEF Cells, Rest
  <2>2. /\ rpc' \in [Readers -> {"closed", "idle", "fast", "identity", "begin", "copy"}]
        /\ start' \in [Readers -> Nat] /\ need' \in [Readers -> SUBSET Cells]
    <3>1. CASE RStep(r, "begin") /\ UNCHANGED <<start, need>>
      BY <3>1
    <3>2. CASE /\ RStep(r, "identity") /\ start' = [start EXCEPT ![r] = seqlock]
               /\ need' = [need EXCEPT ![r] = {"magic", "generation", "crc32"}]
      BY <3>2, <2>1
    <3> QED BY <1>19, <3>1, <3>2 DEF FastBegin
  <2> QED BY <1>19, <2>2 DEF FastBegin
<1>20. ASSUME NEW r \in Readers, Return(r)
       PROVE  /\ rpc' \in [Readers -> {"closed", "idle", "fast", "identity", "begin", "copy"}]
              /\ tries' \in [Readers -> 0 .. (MaxRetries - 1)] /\ start' \in [Readers -> Nat]
              /\ got' \in [Readers -> [Cells -> Nat]] /\ need' \in [Readers -> SUBSET Cells]
  BY <1>20 DEF Return
<1>21. ASSUME NEW r \in Readers, FastEnd(r) PROVE TypeOK'
  <2>1. CASE /\ Return(r) /\ res' = [res EXCEPT ![r] = "valid"] /\ out' = [out EXCEPT ![r] = cached[r]]
    <3>1. out' \in [Readers -> [Cells -> Nat]] /\ res' \in [Readers -> {"none", "valid", "invalid"}]
      BY <2>1
    <3> QED BY <1>20, <1>21, <2>1, <3>1 DEF FastEnd
  <2>2. CASE /\ RStep(r, "begin") /\ got' = [got EXCEPT ![r] = Blank]
             /\ start' = [start EXCEPT ![r] = 0] /\ UNCHANGED <<tries, need, res, out>>
    BY <1>21, <2>2 DEF FastEnd
  <2> QED BY <1>21, <2>1, <2>2 DEF FastEnd
<1>22. ASSUME NEW r \in Readers, Retry(r), Unread, UNCHANGED cached PROVE TypeOK'
  <2>1. CASE Invalid(r)
    BY <1>20, <1>22, <2>1 DEF Invalid
  <2>2. CASE /\ tries[r] + 1 < MaxRetries
             /\ RStep(r, "begin") /\ tries' = [tries EXCEPT ![r] = @ + 1]
             /\ got' = [got EXCEPT ![r] = Blank] /\ start' = [start EXCEPT ![r] = 0]
             /\ UNCHANGED <<need, res, out>>
    <3>1. tries[r] + 1 \in 0 .. (MaxRetries - 1)
      BY <2>2
    <3>2. tries' \in [Readers -> 0 .. (MaxRetries - 1)]
      BY <2>2, <3>1
    <3> QED BY <1>22, <2>2, <3>2
  <2> QED BY <1>22, <2>1, <2>2 DEF Retry
<1>26. ASSUME NEW r \in Readers, ReadBegin(r) PROVE TypeOK'
  <2>1. CASE Retry(r)
    BY <1>22, <1>26, <2>1 DEF ReadBegin
  <2>2. CASE /\ RStep(r, "copy")
             /\ start' = [start EXCEPT ![r] = seqlock] /\ need' = [need EXCEPT ![r] = Cells]
             /\ UNCHANGED <<tries, got, res, out>>
    BY <1>26, <2>2 DEF ReadBegin
  <2> QED BY <1>26, <2>1, <2>2 DEF ReadBegin
<1>23. ASSUME NEW r \in Readers, NEW c \in Cells, LoadCell(r, c) PROVE TypeOK'
  BY <1>23 DEF LoadCell
<1>24. ASSUME NEW r \in Readers, ReadEnd(r) PROVE TypeOK'
  <2>1. CASE Retry(r) /\ UNCHANGED cached
    BY <1>22, <1>24, <2>1 DEF ReadEnd
  <2>2. CASE Invalid(r) /\ UNCHANGED cached
    BY <1>20, <1>24, <2>2 DEF ReadEnd, Invalid
  <2>3. CASE /\ cached' = [cached EXCEPT ![r] = got[r]] /\ out' = [out EXCEPT ![r] = got[r]]
             /\ res' = [res EXCEPT ![r] = "valid"] /\ Return(r)
    <3>1. /\ cached' \in [Readers -> [Cells -> Nat]] /\ out' \in [Readers -> [Cells -> Nat]]
          /\ res' \in [Readers -> {"none", "valid", "invalid"}]
      BY <2>3
    <3> QED BY <1>20, <1>24, <2>3, <3>1 DEF ReadEnd
  <2> QED BY <1>24, <2>1, <2>2, <2>3 DEF ReadEnd
<1>25. CASE UNCHANGED vars
  BY <1>25 DEF vars
<1> QED BY <1>1, <1>2, <1>3, <1>4, <1>5, <1>6, <1>7, <1>8, <1>9, <1>10, <1>12, <1>13, <1>14, <1>15,
           <1>16, <1>17, <1>18, <1>19, <1>21, <1>26, <1>23, <1>24, <1>25 DEF Next, Publishing, ReaderStep

-----------------------------------------------------------------------------
(* The inductive invariant.                                                 *)

\* The mapping holds nothing, or all of the lexicon published last.
Quiet == mem["magic"] = 1 => /\ mem["flags"] = reg
                             /\ mem["payload"] = Payload(reg) /\ mem["crc32"] = Payload(reg)

\* Where the main process is decides the parity of seqlock and which cells hold
\* the old and which the new lexicon; the lexicons follow one another.
WriterInv ==
  /\ ParityTellsWriting
  /\ reg <= disk
  /\ wpc # "rest" => Quiet
  /\ wpc \in {"begin", "prefix", "rest"} => reg <= pub.n /\ pub.n <= disk
  /\ wpc \in {"begin", "prefix"} => left = Cells
  /\ wpc = "rest" => /\ left \subseteq Rest
                     /\ \A c \in Cells \ left : mem[c] = Staged(pub.gen, pub.n)[c]

\* The cells a reader copies: the fast path compares the identity alone.
Asked(pc) == IF pc = "copy" THEN Cells ELSE {"magic", "generation", "crc32"}

\* As long as seqlock is what it was, what a reader has copied is what the
\* mapping holds; what it keeps from earlier calls is one whole lexicon.
Reads(r) ==
  /\ rpc[r] \in {"identity", "copy"} =>
       /\ start[r] <= seqlock /\ Even(start[r])
       /\ start[r] = seqlock => \A c \in Asked(rpc[r]) \ need[r] : got[r][c] = mem[c]
  /\ cached[r]["crc32"] = Payload(cached[r]["flags"])
  /\ cached[r]["payload"] = Payload(cached[r]["flags"])

ReaderInv == \A r \in Readers : Reads(r)

WireInv == TypeOK /\ WriterInv /\ ReaderInv

\* A step that leaves mapping and readers alone keeps what the readers rely on.
LEMMA ReadersUntouched ==
  ASSUME ReaderInv, UNCHANGED <<mem, seqlock, rvars>>
  PROVE  ReaderInv'
BY DEF ReaderInv, Reads, Asked, rvars

\* Every step of the Settings process, of Create and of Publish keeps the invariant.
LEMMA WriterStep ==
  ASSUME WireInv, PublishesEnd,
         \/ Save \/ Commit \/ CommitFails
         \/ Create \/ CreateFails \/ RecoverPublish \/ InitLexiconWireMapping \/ InitFails
         \/ PublishCurrent \/ CurrentFails \/ PublishFails \/ Publishing \/ Die
  PROVE  WriterInv' /\ ReaderInv'
<1>a. TypeOK /\ WriterInv /\ ReaderInv
  BY DEF WireInv
<1> USE <1>a, Parity DEF TypeOK, mvars, dvars, wvars, rvars, bounds, WStep
<1>1. CASE Save \/ Commit \/ CommitFails
  BY <1>1, ReadersUntouched DEF Save, Commit, CommitFails, WriterInv, ParityTellsWriting, Quiet
<1>2. CASE Create \/ CreateFails \/ InitFails \/ CurrentFails \/ PublishFails
  BY <1>2, ReadersUntouched DEF Create, CreateFails, InitFails, CurrentFails, PublishFails,
     WriterInv, ParityTellsWriting, Quiet
<1>3. CASE RecoverPublish \/ InitLexiconWireMapping \/ PublishCurrent
  <2>1. /\ wpc' = "begin" /\ pub'.n = disk /\ left' = Cells /\ disk' = disk /\ reg' = reg
        /\ UNCHANGED <<mem, seqlock, rvars>> /\ wpc \notin {"prefix", "rest"}
    BY <1>3 DEF RecoverPublish, InitLexiconWireMapping, PublishCurrent, StartPublish
  <2> QED BY <2>1, ReadersUntouched DEF WriterInv, ParityTellsWriting, Quiet
<1>4. CASE Begin
  <2>1. WriterInv'
    BY <1>4 DEF Begin, WriterInv, ParityTellsWriting, Quiet
  <2>2. ReaderInv'
    BY <1>4 DEF Begin, ReaderInv, Reads, Asked, WriterInv, ParityTellsWriting
  <2> QED BY <2>1, <2>2
<1>5. ASSUME NEW c \in Cells, c \in left, CopyCell(c), WStep("rest"), wpc \in {"prefix", "rest"},
             left \ {c} \subseteq Rest
      PROVE  WriterInv' /\ ReaderInv'
  <2>1. WriterInv'
    <3>1. mem' = [mem EXCEPT ![c] = Staged(pub.gen, pub.n)[c]]
      BY <1>5 DEF CopyCell
    <3>2. UNCHANGED <<seqlock, pub, reg, disk>> /\ left' = left \ {c} /\ wpc' = "rest"
      BY <1>5 DEF CopyCell
    <3> DEFINE new == Staged(pub.gen, pub.n)
    <3>a. mem \in [Cells -> Nat] /\ \A d \in Cells \ left : mem[d] = new[d]
      BY <1>5 DEF WriterInv
    <3> HIDE DEF new
    <3>b. mem' = [mem EXCEPT ![c] = new[c]]
      BY <3>1 DEF new
    <3>c. ASSUME NEW d \in Cells \ left' PROVE mem'[d] = new[d]
      <4>1. CASE d = c
        BY <3>a, <3>b, <4>1
      <4>2. CASE d # c
        BY <3>2, <3>a, <3>b, <4>2
      <4> QED BY <4>1, <4>2
    <3>3. \A d \in Cells \ left' : mem'[d] = Staged(pub.gen, pub.n)[d]
      BY <3>c DEF new
    <3>4. ParityTellsWriting'
      BY <1>5, <3>2 DEF WriterInv, ParityTellsWriting
    <3>5. (wpc \in {"begin", "prefix", "rest"} => reg <= pub.n /\ pub.n <= disk) /\ reg <= disk
      BY DEF WriterInv
    <3>6. left' \subseteq Rest
      BY <1>5, <3>2
    <3>7. (reg <= disk)' /\ (reg <= pub.n /\ pub.n <= disk)'
      BY <1>5, <3>2, <3>5
    <3>8. wpc' = "rest" /\ wpc' \notin {"begin", "prefix"}
      BY <3>2
    <3>9. (\A d \in Cells \ left : mem[d] = Staged(pub.gen, pub.n)[d])'
      BY <3>2, <3>3 DEF Staged
    <3> QED BY ONLY <3>4, <3>6, <3>7, <3>8, <3>9 DEF WriterInv
  <2>2. ReaderInv'
    BY <1>5 DEF CopyCell, ReaderInv, Reads, Asked, WriterInv, ParityTellsWriting
  <2> QED BY <2>1, <2>2
<1>6. CASE CopyPrefix
  BY <1>5, <1>6 DEF CopyPrefix, WriterInv, Cells, Rest
<1>7. ASSUME NEW c \in Rest, CopyRest(c) PROVE WriterInv' /\ ReaderInv'
  BY <1>5, <1>7 DEF CopyRest, WriterInv, Cells
<1>8. CASE End
  <2>1. Quiet'
    <3>1. \A c \in Cells : mem[c] = Staged(pub.gen, pub.n)[c]
      BY <1>8 DEF End, WriterInv
    <3>2. mem' = mem /\ reg' = pub.n
      BY <1>8 DEF End
    <3>3. {"flags", "payload", "crc32"} \subseteq Cells
      BY DEF Cells, Rest
    <3>4. \A c \in {"flags", "payload", "crc32"} : mem'[c] = Staged(pub.gen, pub.n)[c]
      BY ONLY <3>1, <3>2, <3>3
    <3>5. /\ mem'["flags"] = reg'
          /\ mem'["payload"] = Payload(reg') /\ mem'["crc32"] = Payload(reg')
      BY ONLY <3>2, <3>4, StagedCells
    <3> QED BY ONLY <3>5 DEF Quiet, Payload
  <2>2. WriterInv'
    BY <1>8, <2>1 DEF End, WriterInv, ParityTellsWriting
  <2>3. ReaderInv'
    BY <1>8 DEF End, ReaderInv, Reads, Asked, WriterInv, ParityTellsWriting
  <2> QED BY <2>2, <2>3
<1>9. CASE Die
  <2>1. wpc \notin {"prefix", "rest"} /\ wpc' = "down" /\ UNCHANGED <<rvars, reg, disk>>
    BY <1>9 DEF Die, PublishesEnd
  <2>2. CASE Opened = {} /\ mem' = Blank /\ seqlock' = 0
    <3>1. \A r \in Readers : rpc[r] = "closed"
      BY <2>2 DEF Opened
    <3>2. ReaderInv'
      BY <2>1, <3>1 DEF ReaderInv, Reads
    <3>3. mem'["magic"] # 1
      BY <2>2, BlankType DEF Cells
    <3> QED BY <2>1, <2>2, <3>2, <3>3 DEF WriterInv, ParityTellsWriting, Quiet
  <2>3. CASE UNCHANGED mvars
    BY <2>1, <2>3, ReadersUntouched DEF WriterInv, ParityTellsWriting, Quiet
  <2> QED BY <1>9, <2>2, <2>3 DEF Die, Destroyed
<1> QED BY <1>1, <1>2, <1>3, <1>4, <1>6, <1>7, <1>8, <1>9 DEF Publishing

\* A step of one reader that leaves the mapping alone is judged by what it does to
\* that reader.
LEMMA OneReader ==
  ASSUME ReaderInv, NEW r \in Readers, UNCHANGED <<mem, seqlock>>, Reads(r)',
         \A q \in Readers \ {r} : /\ rpc'[q] = rpc[q] /\ start'[q] = start[q] /\ got'[q] = got[q]
                                  /\ need'[q] = need[q] /\ cached'[q] = cached[q]
  PROVE  ReaderInv'
<1>1. ASSUME NEW q \in Readers, q # r PROVE Reads(q)'
  <2>1. q \in Readers \ {r}
    BY <1>1
  <2> QED BY <2>1 DEF ReaderInv, Reads, Asked
<1> QED BY <1>1 DEF ReaderInv

\* What leaves the mapping and the writer alone keeps what is known of the writer.
LEMMA WriterUntouched ==
  ASSUME WriterInv, UNCHANGED <<mem, seqlock, wpc, pub, left, reg, disk>>
  PROVE  WriterInv'
BY DEF WriterInv, ParityTellsWriting, Quiet

\* A reader between two copies only keeps what it has cached.
LEMMA ReadsIdle ==
  ASSUME NEW r \in Readers, Reads(r), rpc'[r] \notin {"identity", "copy"}, cached'[r] = cached[r]
  PROVE  Reads(r)'
BY DEF Reads

\* Every step of a reader keeps the invariant.
LEMMA ReaderPreserves ==
  ASSUME WireInv, NEW r \in Readers,
         Open(r) \/ Close(r) \/ ResetCachedIdentity(r) \/ Call(r) \/ ReaderStep(r)
  PROVE  WriterInv' /\ ReaderInv'
<1>a. TypeOK /\ WriterInv /\ ReaderInv /\ Reads(r)
  BY DEF WireInv, ReaderInv
<1>b. Blank["crc32"] = 0 /\ Blank["flags"] = 0 /\ Blank["payload"] = 0 /\ Blank["magic"] = 0
  BY BlankType DEF Cells, Rest
<1>c. ASSUME Unread PROVE WriterInv' /\ UNCHANGED <<mem, seqlock>>
  BY <1>a, <1>c, WriterUntouched DEF Unread, mvars, dvars, wvars
<1> USE <1>a DEF TypeOK, RStep, rvars
<1>1. CASE Open(r)
  <2>1. Reads(r)'
    BY <1>1, ReadsIdle DEF Open
  <2> QED BY <1>1, <1>c, <2>1, OneReader DEF Open
<1>2. CASE Close(r)
  <2>1. /\ rpc'[r] = "closed" /\ cached'[r] = Blank
        /\ \A q \in Readers \ {r} : rpc'[q] = rpc[q] /\ cached'[q] = cached[q]
        /\ UNCHANGED <<tries, start, got, need, wvars, reg, dvars>>
    BY <1>2 DEF Close
  <2>2. Reads(r)'
    BY <1>b, <2>1, StagedType DEF Reads
  <2>3. CASE UNCHANGED mvars
    BY <2>1, <2>2, <2>3, OneReader, WriterUntouched DEF mvars, dvars, wvars
  <2>4. CASE (Opened \ {r}) \cup (IF wpc \in {"down", "nowire"} THEN {} ELSE {"main"}) = {}
    <3>1. wpc \in {"down", "nowire"} /\ \A q \in Readers \ {r} : rpc[q] = "closed"
      BY <2>4 DEF Opened
    <3>2. mem' = Blank /\ seqlock' = 0
      BY <1>2, <2>4 DEF Close, Destroyed
    <3>3. WriterInv'
      BY <1>b, <2>1, <3>1, <3>2, Parity DEF WriterInv, ParityTellsWriting, Quiet, wvars, dvars
    <3>4. ASSUME NEW q \in Readers \ {r} PROVE Reads(q)'
      <4>1. rpc'[q] = "closed" /\ cached'[q] = cached[q] /\ Reads(q)
        BY <2>1, <3>1 DEF ReaderInv
      <4> QED BY <4>1, ReadsIdle
    <3> QED BY <2>2, <3>3, <3>4 DEF ReaderInv
  <2> QED BY <1>2, <2>3, <2>4 DEF Close, Destroyed
<1>3. CASE ResetCachedIdentity(r)
  <2>1. Reads(r)'
    BY <1>3, <1>b, StagedType DEF ResetCachedIdentity, Reads
  <2> QED BY <1>3, <1>c, <2>1, OneReader DEF ResetCachedIdentity
<1>4. CASE Call(r)
  <2>1. Reads(r)'
    BY <1>4, ReadsIdle DEF Call
  <2> QED BY <1>4, <1>c, <2>1, OneReader DEF Call
<1>5. CASE FastBegin(r)
  <2>1. CASE RStep(r, "begin") /\ UNCHANGED <<start, need>>
    <3>1. Reads(r)'
      BY <1>5, <2>1, ReadsIdle DEF FastBegin
    <3> QED BY <1>5, <1>c, <2>1, <3>1, OneReader DEF FastBegin
  <2>2. CASE /\ Even(seqlock) /\ RStep(r, "identity") /\ start' = [start EXCEPT ![r] = seqlock]
             /\ need' = [need EXCEPT ![r] = {"magic", "generation", "crc32"}]
    <3>1. Reads(r)'
      BY <1>5, <1>c, <2>2 DEF FastBegin, Reads, Asked
    <3> QED BY <1>5, <1>c, <2>2, <3>1, OneReader DEF FastBegin
  <2> QED BY <1>5, <2>1, <2>2 DEF FastBegin
<1>6. ASSUME Return(r), Unread, UNCHANGED cached PROVE WriterInv' /\ ReaderInv'
  <2>1. Reads(r)'
    BY <1>6, ReadsIdle DEF Return
  <2> QED BY <1>6, <1>c, <2>1, OneReader DEF Return
<1>7. CASE FastEnd(r)
  <2>1. CASE Return(r)
    BY <1>6, <1>7, <2>1 DEF FastEnd
  <2>2. CASE /\ RStep(r, "begin") /\ got' = [got EXCEPT ![r] = Blank]
             /\ start' = [start EXCEPT ![r] = 0] /\ UNCHANGED <<tries, need, res, out>>
    <3>1. Reads(r)'
      BY <1>7, <2>2, ReadsIdle DEF FastEnd
    <3> QED BY <1>7, <1>c, <2>2, <3>1, OneReader DEF FastEnd
  <2> QED BY <1>7, <2>1, <2>2 DEF FastEnd
<1>8. ASSUME Retry(r), Unread, UNCHANGED cached PROVE WriterInv' /\ ReaderInv'
  <2>1. CASE Invalid(r)
    BY <1>6, <1>8, <2>1 DEF Invalid
  <2>2. CASE /\ RStep(r, "begin") /\ tries' = [tries EXCEPT ![r] = @ + 1]
             /\ got' = [got EXCEPT ![r] = Blank] /\ start' = [start EXCEPT ![r] = 0]
             /\ UNCHANGED <<need, res, out>>
    <3>1. Reads(r)'
      BY <1>8, <2>2, ReadsIdle
    <3> QED BY <1>8, <1>c, <2>2, <3>1, OneReader
  <2> QED BY <1>8, <2>1, <2>2 DEF Retry
<1>9. CASE ReadBegin(r)
  <2>1. CASE Retry(r)
    BY <1>8, <1>9, <2>1 DEF ReadBegin
  <2>2. CASE /\ Even(seqlock) /\ RStep(r, "copy")
             /\ start' = [start EXCEPT ![r] = seqlock] /\ need' = [need EXCEPT ![r] = Cells]
             /\ UNCHANGED <<tries, got, res, out>>
    <3>1. Reads(r)'
      BY <1>9, <1>c, <2>2 DEF ReadBegin, Reads, Asked
    <3> QED BY <1>9, <1>c, <2>2, <3>1, OneReader DEF ReadBegin
  <2> QED BY <1>9, <2>1, <2>2 DEF ReadBegin
<1>10. ASSUME NEW c \in Cells, LoadCell(r, c) PROVE WriterInv' /\ ReaderInv'
  <2>1. Reads(r)'
    BY <1>10, <1>c DEF LoadCell, Reads, Asked
  <2> QED BY <1>10, <1>c, <2>1, OneReader DEF LoadCell
<1>11. CASE ReadEnd(r)
  <2>1. CASE Retry(r) /\ UNCHANGED cached
    BY <1>8, <1>11, <2>1 DEF ReadEnd
  <2>2. CASE Invalid(r) /\ UNCHANGED cached
    BY <1>6, <1>11, <2>2 DEF ReadEnd, Invalid
  <2>3. CASE /\ SeqlockValidateRead(r) /\ Inspected(got[r])
             /\ cached' = [cached EXCEPT ![r] = got[r]] /\ Return(r)
    <3>1. \A c \in Cells : got[r][c] = mem[c]
      BY <1>11, <2>3 DEF ReadEnd, SeqlockValidateRead, Reads, Asked
    <3>2. Quiet
      BY <2>3 DEF SeqlockValidateRead, WriterInv, ParityTellsWriting
    <3>3. /\ got[r]["flags"] = reg /\ got[r]["payload"] = Payload(reg)
          /\ got[r]["crc32"] = Payload(reg)
      BY <2>3, <3>1, <3>2 DEF Quiet, Inspected, Cells, Rest
    <3>4. Reads(r)'
      BY <2>3, <3>3 DEF Reads, Return
    <3> QED BY <1>11, <1>c, <2>3, <3>4, OneReader DEF ReadEnd, Return
  <2> QED BY <1>11, <2>1, <2>2, <2>3 DEF ReadEnd
<1> QED BY <1>1, <1>2, <1>3, <1>4, <1>5, <1>7, <1>9, <1>10, <1>11 DEF ReaderStep

\* Every step keeps the invariant of writer, readers and register.
LEMMA WireStep ==
  ASSUME PublishesEnd, WireInv, [Next]_vars
  PROVE  WireInv'
<1>1. TypeOK'
  BY TypeStep DEF WireInv
<1>2. CASE Next
  BY <1>1, <1>2, WriterStep, ReaderPreserves DEF Next, WireInv
<1>3. CASE UNCHANGED vars
  BY <1>1, <1>3, ReadersUntouched, WriterUntouched DEF vars, mvars, dvars, wvars, WireInv
<1> QED BY <1>2, <1>3

\* It holds at the start.
LEMMA WireInit == Init => WireInv
<1> SUFFICES ASSUME Init PROVE WireInv
  OBVIOUS
<1>1. TypeOK
  <2>1. 0 \in 0 .. (MaxRetries - 1)
    BY ParamAssumption
  <2>2. got \in [Readers -> [Cells -> Nat]] /\ cached \in [Readers -> [Cells -> Nat]]
        /\ out \in [Readers -> [Cells -> Nat]]
    BY BlankType DEF Init
  <2>3. pub \in [gen : Nat, n : Nat, back : {"idle", "init", "current"}]
    BY DEF Init, NoPub
  <2>4. tries \in [Readers -> 0 .. (MaxRetries - 1)]
    BY <2>1 DEF Init
  <2> QED BY <2>2, <2>3, <2>4, BlankType DEF Init, TypeOK
<1>2. Blank["crc32"] = 0 /\ Blank["flags"] = 0 /\ Blank["payload"] = 0 /\ Blank["magic"] = 0
  BY BlankType DEF Cells, Rest
<1>3. WriterInv
  BY <1>2, Parity DEF Init, WriterInv, ParityTellsWriting, Quiet
<1>4. ReaderInv
  BY <1>2, StagedType DEF Init, ReaderInv, Reads
<1> QED BY <1>1, <1>3, <1>4 DEF WireInv

-----------------------------------------------------------------------------
\* The mapping, the main process and the readers are of the right types throughout.
THEOREM TypeCorrect == Spec => []TypeOK
<1>1. Init => TypeOK
  BY WireInit DEF WireInv
<1> QED BY <1>1, TypeStep, PTL DEF Spec

\* What a reader concludes from seqlock is so, for any number of readers, lexicons
\* on disk, failed transactions and restarts of the main process: it is odd while
\* a Publish is under way and only then, and a copy that SeqlockValidateRead calls
\* stable passes ValidateAndInspect.
THEOREM SeqlockIsSound ==
  ASSUME PublishesEnd
  PROVE  Spec => []SeqlockSound
<1>1. WireInv => SeqlockSound
  <2> SUFFICES ASSUME WireInv PROVE SeqlockSound
    OBVIOUS
  <2>1. TypeOK /\ WriterInv /\ ReaderInv
    BY DEF WireInv
  <2>2. ASSUME NEW r \in Readers, rpc[r] = "copy", need[r] = {}, SeqlockValidateRead(r), got[r]["magic"] = 1
        PROVE  Inspected(got[r])
    <3>1. \A c \in Cells : got[r][c] = mem[c]
      BY <2>1, <2>2 DEF SeqlockValidateRead, ReaderInv, Reads, Asked
    <3>2. Quiet
      BY <2>1, <2>2 DEF SeqlockValidateRead, WriterInv, ParityTellsWriting
    <3> QED BY <2>2, <3>1, <3>2 DEF Quiet, Inspected, Cells, Rest
  <2> QED BY <2>1, <2>2 DEF SeqlockSound, StableCopyIsSound, WriterInv
<1>2. WireInv /\ [Next]_vars => WireInv'
  BY WireStep
<1> QED BY <1>1, <1>2, WireInit, PTL DEF Spec

\* A snapshot whose payload belongs to its flags is that lexicon.
LEMMA LexiconOf ==
  ASSUME NEW s, NEW n, s["flags"] = n, s["payload"] = Payload(n)
  PROVE  Lexicon(s) = [f \in {"flags", "payload"} |-> n]
BY DEF Lexicon

\* ReadSnapshotFast implements a read of an atomic register: End publishes, and a
\* read that returns a valid snapshot, copied in full or known from an earlier call
\* by generation and CRC, returns the lexicon published last, whole, as it is at the
\* second load of seqlock.
THEOREM WireImplementsRegister ==
  ASSUME PublishesEnd, PayloadsDiffer
  PROVE  Spec => ReadsAreAtomic
<1> DEFINE seen == [r \in Readers |-> Lexicon(out[r])]
<1>1. Init => Register!Init
  <2> SUFFICES ASSUME Init PROVE Register!Init
    OBVIOUS
  <2>1. Blank["flags"] = 0 /\ Blank["payload"] = Payload(0)
    BY BlankType, StagedType DEF Cells, Rest
  <2>2. Lexicon(Blank) = [f \in {"flags", "payload"} |-> 0]
    BY <2>1, LexiconOf
  <2> QED BY <2>2 DEF Init, Register!Init, Register!Snapshot
<1>2. WireInv /\ [Next]_vars => [Register!Next]_<<reg, res, seen>>
  <2> SUFFICES ASSUME WireInv, Next, ~UNCHANGED <<reg, res, out>> PROVE [Register!Next]_<<reg, res, seen>>
    BY DEF vars
  <2>a. TypeOK /\ WriterInv /\ ReaderInv
    BY DEF WireInv
  <2>b. ASSUME NEW r \in Readers, NEW s, res' = [res EXCEPT ![r] = "valid"], out' = [out EXCEPT ![r] = s],
               s["flags"] = reg, s["payload"] = Payload(reg), reg' = reg
        PROVE  Register!Next
    <3>1. Lexicon(s) = [f \in {"flags", "payload"} |-> reg]
      BY <2>b, LexiconOf
    <3>2. seen' = [seen EXCEPT ![r] = [f \in {"flags", "payload"} |-> reg]]
      BY <2>a, <2>b, <3>1 DEF TypeOK
    <3> QED BY <2>b, <3>2 DEF Register!Next, Register!ReadValid, Register!Snapshot
  <2>c. ASSUME NEW r \in Readers, res' = [res EXCEPT ![r] = "invalid"], UNCHANGED <<reg, out>>
        PROVE  Register!Next
    BY <2>c DEF Register!Next, Register!ReadInvalid
  <2>1. CASE End
    <3>1. reg <= pub.n /\ reg' = pub.n /\ UNCHANGED <<res, out>>
      BY <2>1, <2>a DEF End, WriterInv
    <3>2. reg' > reg /\ reg' \in Nat
      <4>1. reg' # reg
        BY <3>1
      <4>2. reg \in Nat /\ pub.n \in Nat
        BY <2>a DEF TypeOK
      <4> QED BY <3>1, <4>1, <4>2
    <3>3. Register!Publish
      BY <3>1, <3>2 DEF Register!Publish
    <3> QED BY <3>3 DEF Register!Next
  <2>2. ASSUME NEW r \in Readers, Call(r) PROVE Register!Next
    BY <2>2 DEF Call, Unread, Register!Next, Register!Call
  <2>3. ASSUME NEW r \in Readers, FastEnd(r) PROVE Register!Next
    <3>1. /\ got[r]["magic"] = 1 /\ seqlock = start[r] /\ Identity(got[r]) = Identity(cached[r])
          /\ res' = [res EXCEPT ![r] = "valid"] /\ out' = [out EXCEPT ![r] = cached[r]] /\ reg' = reg
      BY <2>3 DEF FastEnd, Unread
    <3>2. Reads(r) /\ got[r]["magic"] = mem["magic"] /\ got[r]["crc32"] = mem["crc32"]
      BY <2>3, <2>a, <3>1 DEF FastEnd, ReaderInv, Reads, Asked
    <3>3. Quiet
      BY <2>3, <2>a, <3>1, <3>2 DEF FastEnd, Reads, WriterInv, ParityTellsWriting
    <3>4. cached[r]["crc32"] = Payload(reg)
      BY <3>1, <3>2, <3>3 DEF Identity, Quiet
    <3>5. cached[r]["flags"] = reg /\ cached[r]["payload"] = Payload(reg)
      BY <3>2, <3>4 DEF Reads, Payload, PayloadsDiffer
    <3> QED BY <2>b, <3>1, <3>5
  <2>4. ASSUME NEW r \in Readers, Retry(r), Unread PROVE Register!Next
    BY <2>4, <2>c DEF Retry, Invalid, Unread
  <2>5. ASSUME NEW r \in Readers, ReadBegin(r) PROVE Register!Next
    BY <2>4, <2>5 DEF ReadBegin, Unread
  <2>6. ASSUME NEW r \in Readers, ReadEnd(r) PROVE Register!Next
    <3>1. CASE Retry(r)
      BY <2>4, <2>6, <3>1 DEF ReadEnd
    <3>2. CASE Invalid(r)
      BY <2>6, <2>c, <3>2 DEF ReadEnd, Invalid, Unread
    <3>3. CASE /\ SeqlockValidateRead(r) /\ Inspected(got[r])
               /\ out' = [out EXCEPT ![r] = got[r]] /\ res' = [res EXCEPT ![r] = "valid"]
      <4>1. \A c \in Cells : got[r][c] = mem[c]
        BY <2>6, <2>a, <3>3 DEF ReadEnd, SeqlockValidateRead, ReaderInv, Reads, Asked
      <4>2. Quiet
        BY <2>a, <3>3 DEF SeqlockValidateRead, WriterInv, ParityTellsWriting
      <4>3. got[r]["flags"] = reg /\ got[r]["payload"] = Payload(reg)
        BY <3>3, <4>1, <4>2 DEF Quiet, Inspected, Cells, Rest
      <4>4. reg' = reg
        BY <2>6 DEF ReadEnd, Unread
      <4> QED BY <2>b, <3>3, <4>3, <4>4
    <3> QED BY <2>6, <3>1, <3>2, <3>3 DEF ReadEnd
  <2>7. ~(\/ Save \/ Commit \/ CommitFails \/ Create \/ CreateFails \/ RecoverPublish
          \/ InitLexiconWireMapping \/ InitFails \/ PublishCurrent \/ CurrentFails \/ PublishFails
          \/ Begin \/ CopyPrefix \/ (\E c \in Rest : CopyRest(c)) \/ Die)
    BY DEF Save, Commit, CommitFails, Create, CreateFails, RecoverPublish, InitLexiconWireMapping,
       InitFails, PublishCurrent, CurrentFails, PublishFails, Begin, CopyPrefix, CopyRest, Die,
       WStep, StartPublish
  <2>8. \A r \in Readers : ~(\/ Open(r) \/ Close(r) \/ ResetCachedIdentity(r) \/ FastBegin(r)
                             \/ \E c \in Cells : LoadCell(r, c))
    BY DEF Open, Close, ResetCachedIdentity, FastBegin, LoadCell, Unread
  <2> QED BY <2>1, <2>2, <2>3, <2>5, <2>6, <2>7, <2>8 DEF Next, Publishing, ReaderStep
<1>3. WireInv /\ [Next]_vars => WireInv'
  BY WireStep
<1> QED BY <1>1, <1>2, <1>3, WireInit, PTL DEF Spec, ReadsAreAtomic, Register!Spec
=============================================================================
