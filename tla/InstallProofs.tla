---------------------------- MODULE InstallProofs ----------------------------
(***************************************************************************)
(* Proofs about what is put on disk and started.  The advanced engine, its *)
(* signature and the processes that load it (AdvancedEngine): EngInv.      *)
(*                                                                         *)
(* UpdateInstall, for any number of failures, kills and starts: outside    *)
(* the mishaps that it sets apart, an update leaves one version installed  *)
(* and the user is told of it what is true; only TSF libraries vouched for *)
(* are swapped in, and a cancelled download installs nothing.              *)
(*                                                                         *)
(* That the installation is whole at rest says nothing of the moments in   *)
(* between, so the invariant (StageInv) says where the files of the old    *)
(* version are at each stage of the installer and of its roll-back.  The   *)
(* download (DownInv), the marker of the TSF library and who is at work    *)
(* (Vouched) and the outcome that is told (Told) make up the rest.         *)
(***************************************************************************)
EXTENDS AdvancedEngine, UpdateInstall, TLAPS

-----------------------------------------------------------------------------
(* The advanced engine: the invariant.                                      *)

Places  == {"down", "idle", "check", "choice", "load", "failed", "prompt"} \cup Working
LibRec  == [state : {"fresh", "verified", "loaded", "failed"}, kind : Kinds]
DeskRec == [pc : Places, why : {"ask", "start"}, dll : {"none", "new", "bad"},
            sig : {"none", "new", "bad"}, hops : Nat, cancel : BOOLEAN, saw : BOOLEAN]

\* The files, the processes and the settings.
EngTypes ==
  /\ pair \in [dll : Kinds, sig : Kinds] /\ lib \in [Users -> LibRec] /\ desk \in [Askers -> DeskRec]
  /\ level \in {"standard", "advanced"} /\ using \in [Typers -> {"standard", "advanced"}]
  /\ eng \in [Typers -> {"cpp", "rust", "none"}]

\* An engine that a process has verified is still the one on disk.
DllHeld == Locked => pair.dll \in {"old", "new"}

\* A worker comes to its last step with this build's engine, and where files are
\* downloaded over a pair in order, that pair could not be read.
DeskInv ==
  \A p \in Askers :
    /\ Stands(p, "prompt") => lib[p].state = "loaded"
    /\ Stands(p, "replace") => desk[p].dll = "new" /\ pair.sig # "old"
    /\ desk[p].saw /\ desk[p].pc \in {"choice"} \cup Working => "unread" \in sins

\* Nothing that AdvancedWorks sets apart has happened.
Clean == sins \subseteq {"unread"}

\* Then what is verified fits, what is about to be loaded is in order, no process that
\* asks for the engine has failed to load it, and no level is in the file that the main
\* process could not type with.
CleanInv ==
  Clean =>
    /\ \A p \in Askers : /\ Stands(p, "replace") => pair.sig = "new"
                         /\ Stands(p, "load") => Trusted(pair)
                         /\ lib[p].state # "failed"
    /\ Locked \/ eng["main"] = "none" => Trusted(pair)
    /\ level = "advanced" /\ ~Stands("main", "down") /\ desk["main"].why = "ask" => Trusted(pair)
    /\ ~(using["main"] = "advanced" /\ eng["main"] = "cpp")

EngInv == EngTypes /\ DllHeld /\ LoadedIsTrusted /\ DeskInv /\ CleanInv

\* One asker's place at the desk.
LEMMA DeskSet ==
  ASSUME EngTypes, NEW p \in Askers, NEW r \in DeskRec, desk' = [desk EXCEPT ![p] = r]
  PROVE  desk' \in [Askers -> DeskRec] /\ \A q \in Askers : desk'[q] = IF q = p THEN r ELSE desk[q]
BY DEF EngTypes

\* It moves on and nothing else of it changes.
LEMMA DeskMoves ==
  ASSUME EngTypes, NEW p \in Askers, NEW pc \in Places, Moves(p, pc)
  PROVE  /\ desk' \in [Askers -> DeskRec]
         /\ \A q \in Askers : /\ desk'[q].pc = IF q = p THEN pc ELSE desk[q].pc
                              /\ desk'[q].why = desk[q].why /\ desk'[q].dll = desk[q].dll
                              /\ desk'[q].saw = desk[q].saw
<1> DEFINE r == [desk[p] EXCEPT !.pc = pc]
<1>1. r \in DeskRec /\ r.pc = pc /\ r.why = desk[p].why /\ r.dll = desk[p].dll /\ r.saw = desk[p].saw
  BY DEF EngTypes, DeskRec
<1>2. desk' = [desk EXCEPT ![p] = r]
  BY DEF EngTypes, Moves
<1> HIDE DEF r
<1> QED BY <1>1, <1>2, DeskSet

\* It is left.
LEMMA DeskLeft ==
  ASSUME EngTypes, NEW p \in Askers, Leave(p)
  PROVE  /\ desk' \in [Askers -> DeskRec]
         /\ \A q \in Askers : q # p => desk'[q] = desk[q]
         /\ desk'[p].pc = "idle" /\ desk'[p].why = "ask" /\ desk'[p].saw = FALSE
<1>1. AtDesk \in DeskRec /\ AtDesk.pc = "idle" /\ AtDesk.why = "ask" /\ AtDesk.saw = FALSE
  BY DEF AtDesk, DeskRec, Places
<1> QED BY <1>1, DeskSet DEF Leave

\* A process's copy of the library.
LEMMA LibSet ==
  ASSUME EngTypes, NEW p \in Users, NEW r \in LibRec, lib' = [lib EXCEPT ![p] = r]
  PROVE  lib' \in [Users -> LibRec] /\ \A q \in Users : lib'[q] = IF q = p THEN r ELSE lib[q]
BY DEF EngTypes

\* Signatures and engines.
LEMMA TrustFacts ==
  /\ Trusted(pair) <=> pair.dll = pair.sig /\ pair.dll \in {"old", "new"}
  /\ Trusted(pair') <=> pair'.dll = pair'.sig /\ pair'.dll \in {"old", "new"}
BY DEF Trusted, VerifyRustEngineFileHandle

\* A process opens and verifies the library, and loads it.
LEMMA LoadsStep ==
  ASSUME EngInv, NEW p \in Users, Loads(p)
  PROVE  EngInv'
<1>a. EngTypes /\ DllHeld /\ LoadedIsTrusted /\ DeskInv /\ CleanInv
  BY DEF EngInv
<1>u. UNCHANGED <<pair, desk, level, using>>
  BY DEF Loads, OpenLibrary, LoadLibrary
<1>r. Failed \in LibRec /\ Failed.state = "failed" /\ \A k \in Kinds : [state |-> "verified", kind |-> k] \in LibRec /\ [state |-> "loaded", kind |-> k] \in LibRec
  BY DEF Failed, LibRec, Kinds
<1>t. pair.dll \in Kinds
  BY <1>a DEF EngTypes
<1>c. ASSUME NEW st, Create(p, st)
      PROVE  /\ eng' \in [Typers -> {"cpp", "rust", "none"}]
             /\ eng'["main"] = "none" => eng["main"] = "none"
             /\ eng'["main"] = "cpp" => eng["main"] = "cpp" \/ (p = "main" /\ eng["main"] = "none" /\ st # "loaded")
  BY <1>a, <1>c DEF EngTypes, Create, Typers
<1>1. CASE OpenLibrary(p)
  <2>1. CASE /\ Trusted(pair) /\ lib' = [lib EXCEPT ![p] = [state |-> "verified", kind |-> pair.dll]]
             /\ lib[p].state = "fresh" /\ UNCHANGED <<eng, sins>>
    <3>1. lib' \in [Users -> LibRec] /\ \A q \in Users : lib'[q] = IF q = p THEN [state |-> "verified", kind |-> pair.dll] ELSE lib[q]
      BY <1>a, <1>r, <1>t, <2>1, LibSet
    <3>2. EngTypes'
      BY <1>a, <1>u, <2>1, <3>1 DEF EngTypes
    <3>3. DllHeld' /\ LoadedIsTrusted'
      BY <1>a, <1>u, <2>1, <3>1, TrustFacts DEF DllHeld, LoadedIsTrusted
    <3>4. DeskInv'
      BY <1>a, <1>u, <2>1, <3>1 DEF DeskInv, Stands, Users
    <3>5. CleanInv'
      BY <1>a, <1>u, <2>1, <3>1 DEF CleanInv, Clean, Stands, Trusted, Users
    <3> QED BY <3>2, <3>3, <3>4, <3>5 DEF EngInv
  <2>2. CASE /\ ~Trusted(pair) \/ sins' = sins \cup {"latched"}
             /\ sins' = sins \/ sins' = sins \cup {"latched"}
             /\ Wanted(p) /\ lib[p].state = "fresh" /\ lib' = [lib EXCEPT ![p] = Failed] /\ Create(p, "failed")
    <3>1. lib' \in [Users -> LibRec] /\ \A q \in Users : lib'[q] = IF q = p THEN Failed ELSE lib[q]
      BY <1>a, <1>r, <2>2, LibSet
    <3>2. EngTypes'
      BY <1>a, <1>c, <1>u, <2>2, <3>1 DEF EngTypes
    <3>l. Locked' => Locked
      BY <1>r, <3>1 DEF Locked
    <3>3. DllHeld' /\ LoadedIsTrusted'
      BY <1>a, <1>r, <1>u, <3>1, <3>l DEF DllHeld, LoadedIsTrusted
    <3>4. DeskInv'
      BY <1>a, <1>r, <1>u, <2>2, <3>1 DEF DeskInv, Stands, Users
    <3>5. CleanInv'
      <4> SUFFICES ASSUME Clean' PROVE CleanInv'
        BY DEF CleanInv
      <4>1. Clean /\ ~Trusted(pair)
        <5>1. sins' # sins \cup {"latched"}
          BY DEF Clean
        <5> QED BY <2>2, <5>1 DEF Clean
      <4>2. p \notin Askers
        BY <1>a, <2>2, <4>1 DEF CleanInv, Wanted, Askers, Typers, Users
      <4>3. eng'["main"] = eng["main"]
        BY <1>a, <2>2, <4>2 DEF Create, Askers, EngTypes, Typers
      <4> QED BY <1>a, <1>u, <3>1, <3>l, <4>1, <4>2, <4>3 DEF CleanInv, Stands, Trusted, Users
    <3> QED BY <3>2, <3>3, <3>4, <3>5 DEF EngInv
  <2> QED BY <1>1, <2>1, <2>2 DEF OpenLibrary, Sin
<1>2. CASE LoadLibrary(p)
  <2>0. lib[p].state = "verified" /\ Locked /\ pair.dll \in {"old", "new"}
    BY <1>2, <1>a DEF LoadLibrary, Locked, DllHeld
  <2>1. CASE /\ lib' = [lib EXCEPT ![p] = [state |-> "loaded", kind |-> pair.dll]]
             /\ sins' = sins /\ Create(p, "loaded")
    <3>1. lib' \in [Users -> LibRec] /\ \A q \in Users : lib'[q] = IF q = p THEN [state |-> "loaded", kind |-> pair.dll] ELSE lib[q]
      BY <1>a, <1>r, <1>t, <2>1, LibSet
    <3>2. EngTypes'
      BY <1>a, <1>c, <1>u, <2>1, <3>1 DEF EngTypes
    <3>3. DllHeld' /\ LoadedIsTrusted'
      BY <1>a, <1>u, <2>0, <3>1 DEF DllHeld, LoadedIsTrusted
    <3>4. DeskInv'
      BY <1>a, <1>u, <2>1, <3>1 DEF DeskInv, Stands, Users
    <3>5. CleanInv'
      <4> SUFFICES ASSUME Clean' PROVE CleanInv'
        BY DEF CleanInv
      <4>1. Clean /\ Trusted(pair)
        BY <1>a, <2>0, <2>1 DEF Clean, CleanInv
      <4>2. (\A q \in Askers : lib'[q].state # "failed") /\ ~(using["main"] = "advanced" /\ eng'["main"] = "cpp")
        BY <1>a, <1>c, <2>1, <3>1, <4>1 DEF CleanInv, Users
      <4> QED BY <1>a, <1>u, <4>1, <4>2 DEF CleanInv, Stands, Trusted
    <3> QED BY <3>2, <3>3, <3>4, <3>5 DEF EngInv
  <2>2. CASE sins' = sins \cup {"latched"} /\ lib' = [lib EXCEPT ![p] = Failed] /\ Create(p, "failed")
    <3>1. lib' \in [Users -> LibRec] /\ \A q \in Users : lib'[q] = IF q = p THEN Failed ELSE lib[q]
      BY <1>a, <1>r, <2>2, LibSet
    <3>2. EngTypes'
      BY <1>a, <1>c, <1>u, <2>2, <3>1 DEF EngTypes
    <3>3. DllHeld' /\ LoadedIsTrusted'
      BY <1>a, <1>r, <1>u, <2>0, <3>1 DEF DllHeld, LoadedIsTrusted
    <3>4. DeskInv'
      BY <1>a, <1>r, <1>u, <2>0, <2>2, <3>1 DEF DeskInv, Stands, Users
    <3>5. CleanInv'
      BY <2>2 DEF CleanInv, Clean
    <3> QED BY <3>2, <3>3, <3>4, <3>5 DEF EngInv
  <2> QED BY <1>2, <2>1, <2>2 DEF LoadLibrary, Sin
<1> QED BY <1>1, <1>2 DEF Loads

\* Where only the desk changes: what has to be seen of the one who moves.
LEMMA OnlyDesk ==
  ASSUME EngInv, NEW p \in Askers, UNCHANGED <<pair, lib, level, using, eng>>,
         sins' = sins \/ sins' = sins \cup {"unread"},
         desk' \in [Askers -> DeskRec], \A q \in Askers : q # p => desk'[q] = desk[q],
         desk'[p].pc = "prompt" => lib[p].state = "loaded",
         desk'[p].pc = "replace" => desk'[p].dll = "new" /\ pair.sig = "new",
         desk'[p].pc = "load" => Trusted(pair),
         desk'[p].saw /\ desk'[p].pc \in {"choice"} \cup Working => "unread" \in sins',
         p = "main" /\ level = "advanced" /\ ~Stands("main", "down")' /\ desk'["main"].why = "ask" =>
           ~Stands("main", "down") /\ desk["main"].why = "ask"
  PROVE  EngInv'
<1>a. EngTypes /\ DllHeld /\ LoadedIsTrusted /\ DeskInv /\ CleanInv
  BY DEF EngInv
<1>1. EngTypes'
  BY <1>a DEF EngTypes
<1>2. DllHeld' /\ LoadedIsTrusted'
  BY <1>a DEF DllHeld, LoadedIsTrusted, Locked
<1>3. DeskInv'
  <2> SUFFICES ASSUME NEW q \in Askers
               PROVE  /\ Stands(q, "prompt")' => lib'[q].state = "loaded"
                      /\ Stands(q, "replace")' => desk'[q].dll = "new" /\ pair'.sig # "old"
                      /\ desk'[q].saw /\ desk'[q].pc \in {"choice"} \cup Working => "unread" \in sins'
    BY DEF DeskInv
  <2>1. CASE q = p
    BY <2>1 DEF Stands
  <2>2. CASE q # p
    BY <1>a, <2>2 DEF DeskInv, Stands
  <2> QED BY <2>1, <2>2
<1>4. CleanInv'
  <2> SUFFICES ASSUME Clean' PROVE CleanInv'
    BY DEF CleanInv
  <2>1. Clean
    BY DEF Clean
  <2>2. \A q \in Askers : Stands(q, "replace")' => pair.sig = "new"
    BY <1>a, <2>1 DEF CleanInv, Stands
  <2>3. \A q \in Askers : Stands(q, "load")' => Trusted(pair)
    BY <1>a, <2>1 DEF CleanInv, Stands
  <2>4. level = "advanced" /\ ~Stands("main", "down")' /\ desk'["main"].why = "ask" => Trusted(pair)
    <3>1. CASE p = "main"
      BY <1>a, <2>1, <3>1 DEF CleanInv
    <3>2. CASE p # "main"
      BY <1>a, <2>1, <3>2 DEF CleanInv, Stands, Askers
    <3> QED BY <3>1, <3>2
  <2> QED BY <1>a, <2>1, <2>2, <2>3, <2>4 DEF CleanInv, Trusted, Locked
<1> QED BY <1>1, <1>2, <1>3, <1>4 DEF EngInv

\* A typing process takes the level over.
LEMMA TakeOverStep ==
  ASSUME EngInv, NEW p \in Typers, TakeOver(p)
  PROVE  EngInv'
<1>a. EngTypes /\ DllHeld /\ LoadedIsTrusted /\ DeskInv /\ CleanInv
  BY DEF EngInv
<1>1. UNCHANGED <<pair, lib, desk, level, sins>>
  BY DEF TakeOver
<1>2. EngTypes'
  BY <1>a, <1>1 DEF EngTypes, TakeOver
<1>3. DllHeld' /\ LoadedIsTrusted' /\ DeskInv'
  BY <1>a, <1>1 DEF DllHeld, LoadedIsTrusted, DeskInv, Locked, Stands
<1>4. CleanInv'
  <2> SUFFICES ASSUME Clean' PROVE CleanInv'
    BY DEF CleanInv
  <2>1. Clean
    BY <1>1 DEF Clean
  <2>2. (eng'["main"] = "none" => Trusted(pair)) /\ ~(using'["main"] = "advanced" /\ eng'["main"] = "cpp")
    <3>1. CASE p = "main"
      BY <1>a, <2>1, <3>1 DEF CleanInv, TakeOver, EngTypes, Typers, Askers
    <3>2. CASE p # "main"
      BY <1>a, <2>1, <3>2 DEF CleanInv, TakeOver, EngTypes, Typers
    <3> QED BY <3>1, <3>2
  <2> QED BY <1>a, <1>1, <2>1, <2>2 DEF CleanInv, Stands, Trusted, Locked
<1> QED BY <1>2, <1>3, <1>4 DEF EngInv

\* An asker gives up: a request that failed sets the level back.
LEMMA RefusedStep ==
  ASSUME EngInv, NEW p \in Askers, Refused(p), UNCHANGED <<pair, eng>>
  PROVE  EngInv'
<1>a. EngTypes /\ DllHeld /\ LoadedIsTrusted /\ DeskInv /\ CleanInv
  BY DEF EngInv
<1>1. /\ lib' = lib /\ using' = using
      /\ \/ level' = "standard" /\ sins' = sins
         \/ level' = level /\ sins' = sins \cup {"unsaved"}
  BY DEF Refused, Sin
<1>2. /\ desk' \in [Askers -> DeskRec] /\ \A q \in Askers : q # p => desk'[q] = desk[q]
      /\ desk'[p].pc = "idle"
  BY <1>a, DeskLeft DEF Refused
<1>3. EngTypes'
  BY <1>a, <1>1, <1>2 DEF EngTypes
<1>4. DllHeld' /\ LoadedIsTrusted'
  BY <1>a, <1>1 DEF DllHeld, LoadedIsTrusted, Locked
<1>5. DeskInv'
  <2> SUFFICES ASSUME NEW q \in Askers
               PROVE  /\ Stands(q, "prompt")' => lib'[q].state = "loaded"
                      /\ Stands(q, "replace")' => desk'[q].dll = "new" /\ pair'.sig # "old"
                      /\ desk'[q].saw /\ desk'[q].pc \in {"choice"} \cup Working => "unread" \in sins'
    BY DEF DeskInv
  <2>1. CASE q = p
    BY <1>2, <2>1 DEF Stands, Working
  <2>2. CASE q # p
    BY <1>a, <1>1, <1>2, <2>2 DEF DeskInv, Stands
  <2> QED BY <2>1, <2>2
<1>6. CleanInv'
  <2> SUFFICES ASSUME Clean' PROVE CleanInv'
    BY DEF CleanInv
  <2>1. sins' # sins \cup {"unsaved"}
    BY DEF Clean
  <2>2. Clean /\ level' = "standard"
    BY <1>1, <2>1 DEF Clean
  <2>3. \A q \in Askers : (Stands(q, "replace")' => Stands(q, "replace")) /\ (Stands(q, "load")' => Stands(q, "load"))
    BY <1>2 DEF Stands
  <2> QED BY <1>a, <1>1, <2>2, <2>3 DEF CleanInv, Trusted, Locked
<1> QED BY <1>3, <1>4, <1>5, <1>6 DEF EngInv

\* The steps of EnsureInstalledWithUi that change no file.
LEMMA EnsureStep ==
  ASSUME EngInv, NEW p \in Askers,
         \/ ApplySpellCheckLevel(p) \/ IsTrustedInstalledEngine(p) \/ ShowInstallChoice(p)
         \/ ShowInstallFailure(p) \/ DismissProgress(p)
  PROVE  EngInv'
<1>a. EngTypes /\ DllHeld /\ LoadedIsTrusted /\ DeskInv /\ CleanInv
  BY DEF EngInv
<1>1. CASE ApplySpellCheckLevel(p)
  <2> DEFINE r == [AtDesk EXCEPT !.pc = "check"]
  <2>1. r \in DeskRec /\ r.pc = "check" /\ r.why = "ask" /\ r.saw = FALSE
    BY DEF AtDesk, DeskRec, Places
  <2>2. /\ desk' = [desk EXCEPT ![p] = r] /\ UNCHANGED <<pair, lib, level, using, eng, sins>>
        /\ level # "advanced"
    BY <1>1 DEF ApplySpellCheckLevel
  <2> HIDE DEF r
  <2>3. desk' \in [Askers -> DeskRec] /\ \A q \in Askers : desk'[q] = IF q = p THEN r ELSE desk[q]
    BY <1>a, <2>1, <2>2, DeskSet
  <2> QED BY <2>1, <2>2, <2>3, OnlyDesk DEF Working
<1>2. CASE IsTrustedInstalledEngine(p)
  <2>1. UNCHANGED <<pair, lib, level, using, eng>> /\ Stands(p, "check")
    BY <1>2 DEF IsTrustedInstalledEngine
  <2>2. ASSUME NEW pc \in {"load", "choice"}, NEW b \in BOOLEAN,
               desk' = [desk EXCEPT ![p].pc = pc, ![p].saw = b],
               sins' = sins \/ sins' = sins \cup {"unread"}, pc = "load" => Trusted(pair),
               b /\ pc = "choice" => "unread" \in sins'
        PROVE  EngInv'
    <3> DEFINE r == [desk[p] EXCEPT !.pc = pc, !.saw = b]
    <3>1. r \in DeskRec /\ r.pc = pc /\ r.saw = b /\ r.why = desk[p].why
      BY <1>a DEF EngTypes, DeskRec, Places
    <3>2. desk' = [desk EXCEPT ![p] = r]
      BY <1>a, <2>2 DEF EngTypes
    <3> HIDE DEF r
    <3>3. desk' \in [Askers -> DeskRec] /\ \A q \in Askers : desk'[q] = IF q = p THEN r ELSE desk[q]
      BY <1>a, <3>1, <3>2, DeskSet
    <3>4. desk'[p].pc = pc /\ desk'[p].saw = b /\ desk'[p].why = desk[p].why /\ pc \notin Working
      BY <3>1, <3>3 DEF Working
    <3>5. desk'[p].saw /\ desk'[p].pc \in {"choice"} \cup Working => "unread" \in sins'
      BY <2>2, <3>4
    <3>6. \A q \in Askers : q # p => desk'[q] = desk[q]
      BY <3>3
    <3> QED BY <2>1, <2>2, <3>3, <3>4, <3>5, <3>6, OnlyDesk DEF Stands
  <2>3. Trusted(pair) \in BOOLEAN
    BY TrustFacts DEF Trusted, VerifyRustEngineFileHandle
  <2>4. CASE /\ sins' = sins
             /\ desk' = [desk EXCEPT ![p].pc = IF Trusted(pair) THEN "load" ELSE "choice", ![p].saw = Trusted(pair)]
    <3>1. CASE Trusted(pair)
      <4>1. desk' = [desk EXCEPT ![p].pc = "load", ![p].saw = Trusted(pair)]
        BY <2>4, <3>1
      <4> QED BY <2>2, <2>3, <2>4, <3>1, <4>1
    <3>2. CASE ~Trusted(pair)
      <4>1. desk' = [desk EXCEPT ![p].pc = "choice", ![p].saw = Trusted(pair)]
        BY <2>4, <3>2
      <4> QED BY <2>2, <2>3, <2>4, <3>2, <4>1
    <3> QED BY <3>1, <3>2
  <2>5. CASE sins' = sins \cup {"unread"} /\ desk' = [desk EXCEPT ![p].pc = "choice", ![p].saw = TRUE]
    BY <2>2, <2>5
  <2> QED BY <1>2, <2>4, <2>5 DEF IsTrustedInstalledEngine, Sin
<1>3. CASE ShowInstallChoice(p)
  <2>1. CASE Stands(p, "choice") /\ Moves(p, "engine") /\ UNCHANGED <<pair, eng, lib, level, using, sins>>
    <3>1. desk' \in [Askers -> DeskRec] /\ \A q \in Askers : q # p => desk'[q] = desk[q]
      <4>1. "engine" \in Places
        BY DEF Places, Working
      <4>2. desk' \in [Askers -> DeskRec]
        BY <1>a, <2>1, <4>1, DeskMoves
      <4>3. \A q \in Askers : q # p => desk'[q] = desk[q]
        BY <1>a, <2>1 DEF Moves, EngTypes
      <4> QED BY <4>2, <4>3
    <3>2. desk'[p].pc = "engine" /\ desk'[p].why = desk[p].why /\ desk'[p].saw = desk[p].saw
      BY <1>a, <2>1, DeskMoves DEF Places, Working
    <3>3. desk'[p].saw => "unread" \in sins
      BY <1>a, <2>1, <3>2 DEF DeskInv, Stands
    <3> QED BY <2>1, <3>1, <3>2, <3>3, OnlyDesk DEF Stands
  <2>2. CASE Refused(p) /\ UNCHANGED <<pair, eng>>
    BY <2>2, RefusedStep
  <2> QED BY <1>3, <2>1, <2>2 DEF ShowInstallChoice
<1>4. CASE ShowInstallFailure(p)
  BY <1>4, RefusedStep DEF ShowInstallFailure
<1>5. CASE DismissProgress(p)
  <2> DEFINE r == [desk[p] EXCEPT !.cancel = TRUE]
  <2>1. desk[p].pc \in Working /\ desk' = [desk EXCEPT ![p].cancel = TRUE] /\ UNCHANGED <<pair, lib, level, using, eng, sins>>
    BY <1>5 DEF DismissProgress
  <2>0. desk[p] \in DeskRec
    BY <1>a DEF EngTypes
  <2>2. r \in DeskRec /\ r.pc = desk[p].pc /\ r.why = desk[p].why /\ r.saw = desk[p].saw /\ r.dll = desk[p].dll
    <3>1. r \in DeskRec
      BY <2>0 DEF DeskRec
    <3>2. r.pc = desk[p].pc /\ r.why = desk[p].why /\ r.dll = desk[p].dll
      BY <2>0 DEF DeskRec
    <3>3. r.saw = desk[p].saw
      BY <2>0 DEF DeskRec
    <3> QED BY <3>1, <3>2, <3>3
  <2>3. desk' = [desk EXCEPT ![p] = r]
    BY <1>a, <2>1 DEF EngTypes
  <2> HIDE DEF r
  <2>4. /\ desk' \in [Askers -> DeskRec]
        /\ \A q \in Askers : /\ desk'[q].pc = desk[q].pc /\ desk'[q].why = desk[q].why
                             /\ desk'[q].saw = desk[q].saw /\ desk'[q].dll = desk[q].dll
    BY <1>a, <2>2, <2>3, DeskSet
  <2>5. EngTypes'
    BY <1>a, <2>1, <2>4 DEF EngTypes
  <2>6. DllHeld' /\ LoadedIsTrusted' /\ DeskInv'
    BY <1>a, <2>1, <2>4 DEF DllHeld, LoadedIsTrusted, Locked, DeskInv, Stands
  <2>7. CleanInv'
    BY <1>a, <2>1, <2>4 DEF CleanInv, Clean, Stands, Trusted, Locked, Askers
  <2> QED BY <2>5, <2>6, <2>7 DEF EngInv
<1> QED BY <1>1, <1>2, <1>3, <1>4, <1>5

\* One asker moves on to a place that asks nothing of the files.
LEMMA MoveOn ==
  ASSUME EngInv, NEW p \in Askers, NEW pc \in {"idle", "failed"}, Moves(p, pc),
         UNCHANGED <<pair, lib, level, using, eng, sins>>,
         pc = "idle" => level = "standard", desk[p].pc # "down" \/ pc = "idle"
  PROVE  EngInv'
<1>a. EngTypes /\ DllHeld /\ LoadedIsTrusted /\ DeskInv /\ CleanInv
  BY DEF EngInv
<1>1. pc \in Places /\ pc \notin Working
  BY DEF Places, Working
<1>2. desk' \in [Askers -> DeskRec] /\ desk'[p].pc = pc /\ desk'[p].why = desk[p].why
  BY <1>a, <1>1, DeskMoves
<1>3. \A q \in Askers : q # p => desk'[q] = desk[q]
  BY <1>a DEF Moves, EngTypes
<1>4. p = "main" /\ level = "advanced" /\ ~Stands("main", "down")' /\ desk'["main"].why = "ask" =>
        ~Stands("main", "down") /\ desk["main"].why = "ask"
  BY <1>2 DEF Stands
<1>5. desk'[p].pc \notin {"prompt", "replace", "load", "choice"} /\ desk'[p].pc \notin Working
  BY <1>1, <1>2
<1> QED BY <1>2, <1>3, <1>4, <1>5, OnlyDesk

\* The main process starts.
LEMMA StartMainStep ==
  ASSUME EngInv, StartMain
  PROVE  EngInv'
<1>a. EngTypes /\ DllHeld /\ LoadedIsTrusted /\ DeskInv /\ CleanInv
  BY DEF EngInv
<1>m. "main" \in Askers
  BY DEF Askers
<1>1. CASE level = "advanced"
  <2> DEFINE r == [AtDesk EXCEPT !.pc = "check", !.why = "start"]
  <2>1. r \in DeskRec /\ r.pc = "check" /\ r.why = "start" /\ r.saw = FALSE
    BY DEF AtDesk, DeskRec, Places
  <2>2. desk' = [desk EXCEPT !["main"] = r] /\ UNCHANGED <<pair, lib, level, using, eng, sins>>
    BY <1>1 DEF StartMain
  <2> HIDE DEF r
  <2>3. desk' \in [Askers -> DeskRec] /\ \A q \in Askers : desk'[q] = IF q = "main" THEN r ELSE desk[q]
    BY <1>a, <1>m, <2>1, <2>2, DeskSet
  <2> QED BY <1>m, <2>1, <2>2, <2>3, OnlyDesk DEF Working
<1>2. CASE level # "advanced"
  BY <1>a, <1>m, <1>2, MoveOn DEF StartMain, EngTypes
<1> QED BY <1>1, <1>2

\* The library was tried: an answer for the caller, or the main process begins to type.
LEMMA ReadyStep ==
  ASSUME EngInv, NEW p \in Askers, ReadyIfLoadable(p)
  PROVE  EngInv'
<1>a. EngTypes /\ DllHeld /\ LoadedIsTrusted /\ DeskInv /\ CleanInv
  BY DEF EngInv
<1>1. Stands(p, "load") /\ UNCHANGED <<pair, lib, level, sins>>
  BY DEF ReadyIfLoadable
<1>2. CASE Moves(p, "failed") /\ UNCHANGED <<using, eng>>
  BY <1>1, <1>2, MoveOn DEF Stands
<1>3. CASE lib[p].state = "loaded" /\ Moves(p, "prompt") /\ UNCHANGED <<using, eng>>
  <2>1. "prompt" \in Places /\ "prompt" \notin Working
    BY DEF Places, Working
  <2>2. desk' \in [Askers -> DeskRec] /\ desk'[p].pc = "prompt" /\ desk'[p].why = desk[p].why
    BY <1>a, <1>3, <2>1, DeskMoves
  <2>3. \A q \in Askers : q # p => desk'[q] = desk[q]
    BY <1>a, <1>3 DEF Moves, EngTypes
  <2> QED BY <1>1, <1>3, <2>1, <2>2, <2>3, OnlyDesk DEF Stands
<1>4. CASE /\ lib[p].state = "loaded" /\ desk[p].why = "start" /\ Leave(p)
           /\ using' = [using EXCEPT ![p] = "advanced"] /\ eng' = [eng EXCEPT ![p] = "rust"]
  <2>1. /\ desk' \in [Askers -> DeskRec] /\ \A q \in Askers : q # p => desk'[q] = desk[q]
        /\ desk'[p].pc = "idle"
    BY <1>a, <1>4, DeskLeft
  <2>2. EngTypes'
    BY <1>a, <1>1, <1>4, <2>1 DEF EngTypes
  <2>3. DllHeld' /\ LoadedIsTrusted'
    BY <1>a, <1>1 DEF DllHeld, LoadedIsTrusted, Locked
  <2>4. DeskInv'
    <3> SUFFICES ASSUME NEW q \in Askers
                 PROVE  /\ Stands(q, "prompt")' => lib'[q].state = "loaded"
                        /\ Stands(q, "replace")' => desk'[q].dll = "new" /\ pair'.sig # "old"
                        /\ desk'[q].saw /\ desk'[q].pc \in {"choice"} \cup Working => "unread" \in sins'
      BY DEF DeskInv
    <3>1. CASE q = p
      BY <2>1, <3>1 DEF Stands, Working
    <3>2. CASE q # p
      BY <1>a, <1>1, <2>1, <3>2 DEF DeskInv, Stands
    <3> QED BY <3>1, <3>2
  <2>5. CleanInv'
    <3> SUFFICES ASSUME Clean' PROVE CleanInv'
      BY DEF CleanInv
    <3>1. Clean /\ Trusted(pair)
      BY <1>a, <1>1 DEF Clean, CleanInv
    <3>2. ~(using'["main"] = "advanced" /\ eng'["main"] = "cpp")
      BY <1>a, <1>4, <3>1 DEF EngTypes, CleanInv, Typers
    <3>3. \A q \in Askers : Stands(q, "replace")' => Stands(q, "replace")
      BY <2>1 DEF Stands
    <3> QED BY <1>a, <1>1, <3>1, <3>2, <3>3 DEF CleanInv, Trusted
  <2> QED BY <2>2, <2>3, <2>4, <2>5 DEF EngInv
<1> QED BY <1>2, <1>3, <1>4 DEF ReadyIfLoadable

\* A process that ends or starts anew: its library and its place are as at the start.
LEMMA AnewStep ==
  ASSUME EngInv, UNCHANGED pair, sins' = sins, level' \in {"standard", "advanced"},
         NEW P \in SUBSET Users, lib' = [q \in Users |-> IF q \in P THEN Unloaded ELSE lib[q]],
         desk' \in [Askers -> DeskRec],
         \A q \in Askers : (desk'[q] = desk[q] /\ q \notin P) \/ desk'[q].pc \in {"idle", "down"},
         desk'["main"] = desk["main"] \/ desk'["main"].pc = "down" \/ (Clean => Trusted(pair)),
         level' = level \/ (Clean => Trusted(pair)),
         using' \in [Typers -> {"standard", "advanced"}], eng' \in [Typers -> {"cpp", "rust", "none"}],
         \/ using'["main"] = using["main"] /\ eng'["main"] = eng["main"]
         \/ using'["main"] = "standard" /\ eng'["main"] = "cpp"
  PROVE  EngInv'
<1>a. EngTypes /\ DllHeld /\ LoadedIsTrusted /\ DeskInv /\ CleanInv
  BY DEF EngInv
<1>0. Unloaded \in LibRec /\ Unloaded.state = "fresh"
  BY DEF Unloaded, LibRec, Kinds
<1>1. lib' \in [Users -> LibRec] /\ \A q \in Users : lib'[q] = lib[q] \/ (q \in P /\ lib'[q].state = "fresh")
  BY <1>a, <1>0 DEF EngTypes
<1>2. EngTypes'
  BY <1>a, <1>1 DEF EngTypes
<1>3. Locked' => Locked
  BY <1>1 DEF Locked
<1>4. DllHeld' /\ LoadedIsTrusted'
  BY <1>a, <1>1, <1>3 DEF DllHeld, LoadedIsTrusted
<1>5. \A q \in Askers : q \in Users
  BY DEF Users
<1>6. DeskInv'
  <2> SUFFICES ASSUME NEW q \in Askers
               PROVE  /\ Stands(q, "prompt")' => lib'[q].state = "loaded"
                      /\ Stands(q, "replace")' => desk'[q].dll = "new" /\ pair'.sig # "old"
                      /\ desk'[q].saw /\ desk'[q].pc \in {"choice"} \cup Working => "unread" \in sins'
    BY DEF DeskInv
  <2>1. CASE desk'[q].pc \in {"idle", "down"}
    BY <2>1 DEF Stands, Working
  <2>2. CASE desk'[q] = desk[q] /\ q \notin P
    BY <1>a, <1>1, <1>5, <2>2 DEF DeskInv, Stands
  <2> QED BY <2>1, <2>2 DEF Stands
<1>7. CleanInv'
  <2> SUFFICES ASSUME Clean' PROVE CleanInv'
    BY DEF CleanInv
  <2>1. Clean
    BY DEF Clean
  <2>2. \A q \in Askers : (Stands(q, "replace")' => Stands(q, "replace")) /\ (Stands(q, "load")' => Stands(q, "load"))
    BY DEF Stands
  <2>3. \A q \in Askers : lib'[q].state # "failed"
    BY <1>a, <1>1, <1>5, <2>1 DEF CleanInv
  <2>4. level' = "advanced" /\ ~Stands("main", "down")' /\ desk'["main"].why = "ask" => Trusted(pair)
    BY <1>a, <2>1 DEF CleanInv, Stands
  <2>5. eng'["main"] = "none" => Trusted(pair)
    BY <1>a, <2>1 DEF CleanInv
  <2>6. ~(using'["main"] = "advanced" /\ eng'["main"] = "cpp")
    BY <1>a, <2>1 DEF CleanInv
  <2> QED BY <1>a, <1>3, <2>1, <2>2, <2>3, <2>4, <2>5, <2>6 DEF CleanInv, Trusted
<1> QED BY <1>2, <1>4, <1>6, <1>7 DEF EngInv

\* The answer to the question about the restart.
LEMMA PromptStep ==
  ASSUME EngInv, NEW p \in Askers, PromptRestart(p)
  PROVE  EngInv'
<1>a. EngTypes /\ DllHeld /\ LoadedIsTrusted /\ DeskInv /\ CleanInv
  BY DEF EngInv
<1>1. Stands(p, "prompt") /\ level' = "advanced" /\ UNCHANGED <<pair, sins>>
  BY DEF PromptRestart
<1>2. Clean => Trusted(pair)
  BY <1>a, <1>1 DEF DeskInv, CleanInv, Locked, Users
<1>3. CASE Leave(p) /\ UNCHANGED <<lib, using, eng>>
  <2>1. /\ desk' \in [Askers -> DeskRec] /\ \A q \in Askers : q # p => desk'[q] = desk[q]
        /\ desk'[p].pc = "idle"
    BY <1>a, <1>3, DeskLeft
  <2>2. lib' = [q \in Users |-> IF q \in {} THEN Unloaded ELSE lib[q]]
    BY <1>a, <1>3 DEF EngTypes
  <2>3. using' \in [Typers -> {"standard", "advanced"}] /\ eng' \in [Typers -> {"cpp", "rust", "none"}]
    BY <1>a, <1>3 DEF EngTypes
  <2>4. \A q \in Askers : (desk'[q] = desk[q] /\ q \notin {}) \/ desk'[q].pc \in {"idle", "down"}
    BY <2>1
  <2>5. {} \in SUBSET Users
    OBVIOUS
  <2> QED BY <1>1, <1>2, <1>3, <2>1, <2>2, <2>3, <2>4, <2>5, AnewStep
<1>4. CASE /\ desk' = [desk EXCEPT ![p] = AtDesk, !["main"] = [AtDesk EXCEPT !.pc = "down"]]
           /\ lib' = [q \in Users |-> IF q \in {"main", p} THEN Unloaded ELSE lib[q]]
           /\ using' = [using EXCEPT !["main"] = "standard"] /\ eng' = [eng EXCEPT !["main"] = "cpp"]
  <2>1. AtDesk \in DeskRec /\ [AtDesk EXCEPT !.pc = "down"] \in DeskRec /\ AtDesk.pc = "idle"
        /\ [AtDesk EXCEPT !.pc = "down"].pc = "down"
    BY DEF AtDesk, DeskRec, Places
  <2>2. /\ desk' \in [Askers -> DeskRec] /\ desk'["main"].pc = "down"
        /\ \A q \in Askers : (desk'[q] = desk[q] /\ q \notin {"main", p}) \/ desk'[q].pc \in {"idle", "down"}
    <3> DEFINE down == [AtDesk EXCEPT !.pc = "down"]
    <3>1. down \in DeskRec /\ down.pc = "down" /\ desk' = [desk EXCEPT ![p] = AtDesk, !["main"] = down]
      BY <1>4, <2>1
    <3> HIDE DEF down
    <3> QED BY <1>a, <2>1, <3>1 DEF EngTypes, Askers
  <2>3. /\ using' \in [Typers -> {"standard", "advanced"}] /\ eng' \in [Typers -> {"cpp", "rust", "none"}]
        /\ using'["main"] = "standard" /\ eng'["main"] = "cpp"
    BY <1>a, <1>4 DEF EngTypes, Typers
  <2>4. {"main", p} \in SUBSET Users
    BY DEF Users, Askers
  <2> QED BY <1>1, <1>2, <1>4, <2>2, <2>3, <2>4, AnewStep
<1> QED BY <1>3, <1>4 DEF PromptRestart

\* A process ends.
LEMMA EndsStep ==
  ASSUME EngInv, NEW p \in Users, ProcessEnds(p)
  PROVE  EngInv'
<1>a. EngTypes /\ DllHeld /\ LoadedIsTrusted /\ DeskInv /\ CleanInv
  BY DEF EngInv
<1>1. UNCHANGED <<pair, level, sins>> /\ level' \in {"standard", "advanced"}
  BY <1>a DEF ProcessEnds, EngTypes
<1>2. lib' = [q \in Users |-> IF q \in {p} THEN Unloaded ELSE lib[q]]
  BY <1>a DEF ProcessEnds, EngTypes
<1>3. /\ using' \in [Typers -> {"standard", "advanced"}] /\ eng' \in [Typers -> {"cpp", "rust", "none"}]
      /\ \/ using'["main"] = using["main"] /\ eng'["main"] = eng["main"]
         \/ using'["main"] = "standard" /\ eng'["main"] = "cpp"
  BY <1>a DEF ProcessEnds, EngTypes, Typers
<1>4. AtDesk \in DeskRec /\ [AtDesk EXCEPT !.pc = "down"] \in DeskRec /\ AtDesk.pc = "idle"
      /\ [AtDesk EXCEPT !.pc = "down"].pc = "down"
  BY DEF AtDesk, DeskRec, Places
<1>5. /\ desk' \in [Askers -> DeskRec] /\ (desk'["main"] = desk["main"] \/ desk'["main"].pc = "down")
      /\ \A q \in Askers : (desk'[q] = desk[q] /\ q \notin {p}) \/ desk'[q].pc \in {"idle", "down"}
  <2>1. CASE p = "main" /\ desk' = [desk EXCEPT ![p] = [AtDesk EXCEPT !.pc = "down"]]
    <3> DEFINE down == [AtDesk EXCEPT !.pc = "down"]
    <3>1. down \in DeskRec /\ down.pc = "down" /\ desk' = [desk EXCEPT !["main"] = down]
      BY <1>4, <2>1
    <3> HIDE DEF down
    <3>2. "main" \in Askers
      BY DEF Askers
    <3> QED BY <1>a, <2>1, <3>1, <3>2, DeskSet
  <2>2. CASE p = "settings" /\ desk' = [desk EXCEPT ![p] = AtDesk]
    <3>1. "settings" \in Askers /\ "main" \in Askers /\ "settings" # "main"
      BY DEF Askers
    <3> QED BY <1>a, <1>4, <2>2, <3>1, DeskSet
  <2>3. CASE p = "settings" /\ Stands(p, "idle") /\ desk' = desk
    BY <1>a, <2>3 DEF EngTypes, Stands
  <2>4. CASE p = "tsf" /\ desk' = desk
    BY <1>a, <2>4 DEF EngTypes, Askers
  <2> QED BY <2>1, <2>2, <2>3, <2>4 DEF ProcessEnds
<1>6. {p} \in SUBSET Users
  OBVIOUS
<1> QED BY <1>1, <1>2, <1>3, <1>5, <1>6, AnewStep

\* The downloads.
LEMMA DownloadStep ==
  ASSUME EngInv, NEW p \in Askers, NEW f \in {"engine", "signature"}, DownloadToFile(p, f)
  PROVE  EngInv'
<1>a. EngTypes /\ DllHeld /\ LoadedIsTrusted /\ DeskInv /\ CleanInv
  BY DEF EngInv
<1>1. desk[p].pc = f /\ f \in Working /\ UNCHANGED <<pair, lib, level, using, eng, sins>>
  BY DEF DownloadToFile, Stands, Working
<1>2. CASE Moves(p, "failed")
  BY <1>1, <1>2, MoveOn
<1>3. ASSUME NEW r \in DeskRec, desk' = [desk EXCEPT ![p] = r], r.pc \in {"engine", "signature", "activate", "failed"},
             r.saw = desk[p].saw, r.why = desk[p].why
      PROVE  EngInv'
  <2>1. desk' \in [Askers -> DeskRec] /\ \A q \in Askers : desk'[q] = IF q = p THEN r ELSE desk[q]
    BY <1>a, <1>3, DeskSet
  <2>2. desk'[p].saw => "unread" \in sins
    BY <1>a, <1>1, <1>3, <2>1 DEF DeskInv
  <2>3. desk'[p].pc \in {"engine", "signature", "activate", "failed"} /\ desk'[p].why = desk[p].why
    BY <1>3, <2>1
  <2> QED BY <1>1, <2>1, <2>2, <2>3, OnlyDesk DEF Stands
<1>4. desk[p] \in DeskRec /\ Files["engine"] = "dll" /\ Files["signature"] = "sig"
  BY <1>a DEF EngTypes, Files
<1>5. CASE desk' = IF desk[p].hops = KMaxRedirects THEN [desk EXCEPT ![p].pc = "failed"] ELSE [desk EXCEPT ![p].hops = @ + 1]
  <2>1. CASE desk[p].hops = KMaxRedirects
    BY <1>2, <1>5, <2>1 DEF Moves
  <2>2. CASE desk[p].hops # KMaxRedirects
    <3> DEFINE r == [desk[p] EXCEPT !.hops = @ + 1]
    <3>1. r \in DeskRec
      BY <1>4 DEF DeskRec
    <3>2. r.pc = f /\ r.why = desk[p].why
      BY <1>1, <1>4 DEF DeskRec
    <3>3. r.saw = desk[p].saw
      BY <1>4 DEF DeskRec
    <3>4. desk' = [desk EXCEPT ![p] = r]
      BY <1>a, <1>5, <2>2 DEF EngTypes
    <3> HIDE DEF r
    <3> QED BY <1>3, <3>1, <3>2, <3>3, <3>4
  <2> QED BY <2>1, <2>2
<1>6. ASSUME NEW k \in {"new", "bad"},
             desk' = [desk EXCEPT ![p].pc = IF f = "engine" THEN "signature" ELSE "activate",
                                  ![p][Files[f]] = k, ![p].hops = 0]
      PROVE  EngInv'
  <2>1. CASE f = "engine"
    <3> DEFINE r == [desk[p] EXCEPT !.pc = "signature", !.dll = k, !.hops = 0]
    <3>1. r \in DeskRec
      BY <1>4, <1>6 DEF DeskRec, Places, Working
    <3>2. r.pc = "signature" /\ r.why = desk[p].why
      BY <1>4 DEF DeskRec
    <3>3. r.saw = desk[p].saw
      BY <1>4 DEF DeskRec
    <3>4. desk' = [desk EXCEPT ![p] = r]
      BY <1>a, <1>4, <1>6, <2>1 DEF EngTypes
    <3> HIDE DEF r
    <3> QED BY <1>3, <3>1, <3>2, <3>3, <3>4
  <2>2. CASE f = "signature"
    <3> DEFINE r == [desk[p] EXCEPT !.pc = "activate", !.sig = k, !.hops = 0]
    <3>1. r \in DeskRec
      BY <1>4, <1>6 DEF DeskRec, Places, Working
    <3>2. r.pc = "activate" /\ r.why = desk[p].why
      BY <1>4 DEF DeskRec
    <3>3. r.saw = desk[p].saw
      BY <1>4 DEF DeskRec
    <3>4. desk' = [desk EXCEPT ![p] = r]
      BY <1>a, <1>4, <1>6, <2>2 DEF EngTypes
    <3> HIDE DEF r
    <3> QED BY <1>3, <3>1, <3>2, <3>3, <3>4
  <2> QED BY <2>1, <2>2
<1> QED BY <1>2, <1>5, <1>6 DEF DownloadToFile

\* A file on disk changes: what keeps the invariant.
LEMMA PairStep ==
  ASSUME EngInv, NEW p \in Askers, UNCHANGED <<lib, level, using, eng>>,
         pair' \in [dll : Kinds, sig : Kinds], pair'.dll = pair.dll \/ ~Locked, sins \subseteq sins',
         desk' \in [Askers -> DeskRec], \A q \in Askers : q # p => desk'[q] = desk[q],
         desk'[p].why = desk[p].why, desk[p].pc # "down", desk'[p].pc \notin {"prompt", "replace"},
         pair'.sig = pair.sig \/ pair'.sig # "old",
         desk'[p].saw /\ desk'[p].pc \in {"choice"} \cup Working => "unread" \in sins,
         Clean' => /\ Trusted(pair) => Trusted(pair')
                   /\ desk'[p].pc = "load" => Trusted(pair')
                   /\ \A q \in Askers : q # p /\ Stands(q, "replace") => pair'.sig = "new"
  PROVE  EngInv'
<1>a. EngTypes /\ DllHeld /\ LoadedIsTrusted /\ DeskInv /\ CleanInv
  BY DEF EngInv
<1>1. EngTypes'
  BY <1>a DEF EngTypes
<1>2. DllHeld' /\ LoadedIsTrusted'
  BY <1>a DEF DllHeld, LoadedIsTrusted, Locked
<1>3. DeskInv'
  <2> SUFFICES ASSUME NEW q \in Askers
               PROVE  /\ Stands(q, "prompt")' => lib'[q].state = "loaded"
                      /\ Stands(q, "replace")' => desk'[q].dll = "new" /\ pair'.sig # "old"
                      /\ desk'[q].saw /\ desk'[q].pc \in {"choice"} \cup Working => "unread" \in sins'
    BY DEF DeskInv
  <2>1. CASE q = p
    BY <2>1 DEF Stands
  <2>2. CASE q # p
    BY <1>a, <2>2 DEF DeskInv, Stands
  <2> QED BY <2>1, <2>2
<1>4. CleanInv'
  <2> SUFFICES ASSUME Clean' PROVE CleanInv'
    BY DEF CleanInv
  <2>1. Clean
    BY DEF Clean
  <2>2. \A q \in Askers : Stands(q, "replace")' => pair'.sig = "new"
    BY <1>a, <2>1 DEF CleanInv, Stands
  <2>3. \A q \in Askers : Stands(q, "load")' => Trusted(pair')
    BY <1>a, <2>1 DEF CleanInv, Stands
  <2>4. level = "advanced" /\ ~Stands("main", "down")' /\ desk'["main"].why = "ask" => Trusted(pair')
    <3>1. CASE p = "main"
      BY <1>a, <2>1, <3>1 DEF CleanInv, Stands
    <3>2. CASE p # "main"
      BY <1>a, <2>1, <3>2 DEF CleanInv, Stands, Askers
    <3> QED BY <3>1, <3>2
  <2>5. Locked \/ eng["main"] = "none" => Trusted(pair')
    BY <1>a, <2>1 DEF CleanInv
  <2> QED BY <1>a, <2>1, <2>2, <2>3, <2>4, <2>5 DEF CleanInv, Trusted, Locked
<1> QED BY <1>1, <1>2, <1>3, <1>4 DEF EngInv

\* What comes of the steps of the worker.
LEMMA InstallStep ==
  ASSUME EngInv, NEW p \in Askers, InstallEngine(p)
  PROVE  EngInv'
<1>a. EngTypes /\ DllHeld /\ LoadedIsTrusted /\ DeskInv /\ CleanInv
  BY DEF EngInv
<1>d. desk[p] \in DeskRec /\ pair = [dll |-> pair.dll, sig |-> pair.sig] /\ pair.dll \in Kinds /\ pair.sig \in Kinds
  BY <1>a DEF EngTypes
<1>1. CASE ActivateSignature(p)
  <2>1. CASE Mishap /\ Moves(p, "failed") /\ UNCHANGED <<pair, sins>>
    BY <1>1, <2>1, MoveOn DEF ActivateSignature, Stands
  <2>2. CASE /\ ActivateAs("sig", desk[p].sig) /\ desk' = [desk EXCEPT ![p].pc = "verify", ![p].sig = "none"]
             /\ IF Crosses THEN Sin("crossed") ELSE sins' = sins
    <3>0. Stands(p, "activate") /\ UNCHANGED <<lib, level, using, eng>>
      BY <1>1 DEF ActivateSignature
    <3> DEFINE r == [desk[p] EXCEPT !.pc = "verify", !.sig = "none"]
    <3>1. r \in DeskRec
      BY <1>d DEF DeskRec, Places, Working
    <3>2. r.pc = "verify" /\ r.why = desk[p].why
      BY <1>d DEF DeskRec
    <3>3. r.saw = desk[p].saw
      BY <1>d DEF DeskRec
    <3>4. desk' = [desk EXCEPT ![p] = r]
      BY <1>a, <2>2 DEF EngTypes
    <3> HIDE DEF r
    <3>5. desk' \in [Askers -> DeskRec] /\ \A q \in Askers : desk'[q] = IF q = p THEN r ELSE desk[q]
      BY <1>a, <3>1, <3>4, DeskSet
    <3>6. pair' = [dll |-> pair.dll, sig |-> desk[p].sig]
      BY <1>d, <2>2 DEF ActivateAs
    <3>7. pair' \in [dll : Kinds, sig : Kinds] /\ pair'.dll = pair.dll
      BY <1>d, <3>6 DEF DeskRec, Kinds
    <3>8. sins \subseteq sins'
      BY <2>2 DEF Sin
    <3>9. desk'[p].saw => "unread" \in sins
      BY <1>a, <3>0, <3>3, <3>5 DEF DeskInv, Stands, Working
    <3>10. pair'.sig = pair.sig \/ pair'.sig # "old"
      <4>1. pair'.sig \in {"none", "new", "bad"}
        BY <1>d, <3>6 DEF DeskRec
      <4> QED BY <4>1
    <3>11. Clean' => /\ Trusted(pair) => Trusted(pair')
                     /\ \A q \in Askers : q # p /\ Stands(q, "replace") => pair'.sig = "new"
      <4> SUFFICES ASSUME Clean'
                   PROVE  /\ Trusted(pair) => Trusted(pair')
                          /\ \A q \in Askers : q # p /\ Stands(q, "replace") => pair'.sig = "new"
        OBVIOUS
      <4>1. ~Crosses
        BY <2>2 DEF Clean, Sin
      <4> QED BY <1>a, <4>1 DEF Crosses, DeskInv
    <3> QED BY <3>0, <3>2, <3>3, <3>5, <3>7, <3>8, <3>9, <3>10, <3>11, PairStep DEF Stands
  <2> QED BY <1>1, <2>1, <2>2 DEF ActivateSignature
<1>2. CASE VerifyStaged(p)
  <2>1. Stands(p, "verify") /\ UNCHANGED <<pair, lib, level, using, eng, sins>>
    BY <1>2 DEF VerifyStaged
  <2>2. CASE ~VerifyRustEngineFileHandle(desk[p].dll, pair.sig)
    BY <1>2, <2>1, <2>2, MoveOn DEF VerifyStaged, Stands
  <2>3. CASE VerifyRustEngineFileHandle(desk[p].dll, pair.sig)
    <3>1. Moves(p, "replace") /\ "replace" \in Places
      BY <1>2, <2>3 DEF VerifyStaged, Places, Working
    <3>2. desk[p].dll = "new" /\ pair.sig = "new"
      BY <1>d, <2>3 DEF VerifyRustEngineFileHandle, DeskRec
    <3>3. /\ desk' \in [Askers -> DeskRec] /\ desk'[p].pc = "replace" /\ desk'[p].why = desk[p].why
          /\ desk'[p].dll = "new" /\ desk'[p].saw = desk[p].saw
      BY <1>a, <3>1, <3>2, DeskMoves
    <3>4. \A q \in Askers : q # p => desk'[q] = desk[q]
      BY <1>a, <3>1 DEF Moves, EngTypes
    <3>5. desk'[p].saw => "unread" \in sins
      BY <1>a, <2>1, <3>3 DEF DeskInv, Stands, Working
    <3> QED BY <2>1, <3>2, <3>3, <3>4, <3>5, OnlyDesk DEF Stands
  <2> QED BY <2>2, <2>3
<1>3. CASE ActivateEngine(p)
  <2>1. Stands(p, "replace") /\ UNCHANGED <<lib, level, using, eng, sins>>
    BY <1>3 DEF ActivateEngine
  <2>2. CASE Moves(p, "failed") /\ UNCHANGED pair
    BY <2>1, <2>2, MoveOn DEF Stands
  <2>3. CASE ~Locked /\ ActivateAs("dll", desk[p].dll) /\ desk' = [desk EXCEPT ![p].pc = "load", ![p].dll = "none"]
    <3> DEFINE r == [desk[p] EXCEPT !.pc = "load", !.dll = "none"]
    <3>1. r \in DeskRec
      BY <1>d DEF DeskRec, Places
    <3>2. r.pc = "load" /\ r.why = desk[p].why
      BY <1>d DEF DeskRec
    <3>4. desk' = [desk EXCEPT ![p] = r]
      BY <1>a, <2>3 DEF EngTypes
    <3> HIDE DEF r
    <3>5. desk' \in [Askers -> DeskRec] /\ \A q \in Askers : desk'[q] = IF q = p THEN r ELSE desk[q]
      BY <1>a, <3>1, <3>4, DeskSet
    <3>6. pair' = [dll |-> "new", sig |-> pair.sig] /\ pair.sig # "old"
      BY <1>a, <1>d, <2>1, <2>3 DEF ActivateAs, DeskInv
    <3>7. pair' \in [dll : Kinds, sig : Kinds]
      BY <1>d, <3>6 DEF Kinds
    <3>8. Clean' => pair.sig = "new" /\ Trusted(pair')
      BY <1>a, <2>1, <3>6, TrustFacts DEF CleanInv, Clean
    <3> QED BY <2>1, <2>3, <3>2, <3>5, <3>6, <3>7, <3>8, PairStep DEF Stands, Working
  <2> QED BY <1>3, <2>2, <2>3 DEF ActivateEngine
<1> QED BY <1>1, <1>2, <1>3, DownloadStep DEF InstallEngine

\* Files copied by hand: the pair may go, but then it is said so.
LEMMA CopyStep ==
  ASSUME EngInv, NEW f \in {"dll", "sig"}, NEW k \in {"new", "bad"}, CopyByHand(f, k)
  PROVE  EngInv'
<1>a. EngTypes /\ DllHeld /\ LoadedIsTrusted /\ DeskInv /\ CleanInv
  BY DEF EngInv
<1>1. UNCHANGED <<lib, desk, level, using, eng>> /\ sins' = sins \cup {"by hand"}
  BY DEF CopyByHand, Sin
<1>2. /\ pair' \in [dll : Kinds, sig : Kinds] /\ (pair'.dll = pair.dll \/ ~Locked)
      /\ pair'.sig = pair.sig \/ pair'.sig # "old"
  <2>1. CASE f = "dll"
    BY <1>a, <2>1 DEF CopyByHand, EngTypes, Kinds
  <2>2. CASE f = "sig"
    BY <1>a, <2>2 DEF CopyByHand, EngTypes, Kinds
  <2> QED BY <2>1, <2>2
<1>3. EngTypes'
  BY <1>a, <1>1, <1>2 DEF EngTypes
<1>4. DllHeld' /\ LoadedIsTrusted'
  BY <1>a, <1>1, <1>2 DEF DllHeld, LoadedIsTrusted, Locked
<1>5. DeskInv'
  BY <1>a, <1>1, <1>2 DEF DeskInv, Stands
<1>6. CleanInv'
  BY <1>1 DEF CleanInv, Clean
<1> QED BY <1>3, <1>4, <1>5, <1>6 DEF EngInv

\* Every step.
LEMMA EngStep == EngInv /\ [ANext]_avars => EngInv'
<1> SUFFICES ASSUME EngInv, [ANext]_avars PROVE EngInv'
  OBVIOUS
<1>1. ASSUME NEW p \in Askers, Ensures(p) PROVE EngInv'
  BY <1>1, EnsureStep, ReadyStep, PromptStep, InstallStep DEF Ensures
<1>2. CASE UNCHANGED avars
  BY <1>2 DEF avars, EngInv, EngTypes, DllHeld, LoadedIsTrusted, Locked, DeskInv, Stands, CleanInv, Clean, Trusted
<1> QED BY <1>1, <1>2, LoadsStep, EndsStep, TakeOverStep, EnsureStep, StartMainStep, CopyStep DEF ANext

\* The invariant at the start.
LEMMA EngStart == AInit => EngInv
<1> SUFFICES ASSUME AInit PROVE EngInv
  OBVIOUS
<1>1. /\ AtDesk \in DeskRec /\ AtDesk.pc = "idle" /\ AtDesk.saw = FALSE
      /\ [AtDesk EXCEPT !.pc = "down"] \in DeskRec /\ [AtDesk EXCEPT !.pc = "down"].pc = "down"
  BY DEF AtDesk, DeskRec, Places
<1>2. desk \in [Askers -> DeskRec] /\ desk["main"].pc = "down" /\ \A p \in Askers : desk[p].pc \in {"idle", "down"}
  <2> DEFINE down == [AtDesk EXCEPT !.pc = "down"]
  <2>1. down \in DeskRec /\ down.pc = "down" /\ desk = [p \in Askers |-> IF p = "main" THEN down ELSE AtDesk]
    BY <1>1 DEF AInit
  <2> HIDE DEF down
  <2> QED BY <1>1, <2>1 DEF Askers
<1>3. Unloaded \in LibRec /\ Unloaded.state = "fresh"
  BY DEF Unloaded, LibRec, Kinds
<1>4. lib \in [Users -> LibRec] /\ \A p \in Users : lib[p].state = "fresh"
  BY <1>3 DEF AInit
<1>5. pair \in [dll : Kinds, sig : Kinds]
  BY DEF AInit, Kinds
<1>6. /\ using \in [Typers -> {"standard", "advanced"}] /\ eng \in [Typers -> {"cpp", "rust", "none"}]
      /\ using["main"] = "standard" /\ eng["main"] = "cpp" /\ level \in {"standard", "advanced"}
  BY DEF AInit, Typers
<1>7. EngTypes
  BY <1>2, <1>4, <1>5, <1>6 DEF EngTypes
<1>8. DllHeld /\ LoadedIsTrusted /\ ~Locked
  BY <1>4 DEF DllHeld, LoadedIsTrusted, Locked
<1>9. DeskInv
  BY <1>2 DEF DeskInv, Stands, Working
<1>10. CleanInv
  BY <1>2, <1>4, <1>6, <1>8 DEF CleanInv, Stands, Users
<1> QED BY <1>7, <1>8, <1>9, <1>10 DEF EngInv

\* However many calls fail, files are spoilt or copied and installations run beside each
\* other: a process has only loaded what it verified, and where the level is "advanced"
\* the main process types with the advanced engine, except after what AdvancedWorks sets
\* apart (LoadRustEngineLibrary, ReadyIfLoadable, the repair of wWinMain).
THEOREM TheEngineIsTrusted == ASpec => []EngineIsTrusted
<1>1. EngInv => EngineIsTrusted
  <2> SUFFICES ASSUME EngInv PROVE EngineIsTrusted
    OBVIOUS
  <2>1. Clean => AdvancedWorks
    BY DEF EngInv, CleanInv, AdvancedWorks
  <2>2. ~Clean => AdvancedWorks
    BY DEF Clean, AdvancedWorks
  <2> QED BY <2>1, <2>2 DEF EngInv, EngineIsTrusted
<1> QED BY <1>1, EngStart, EngStep, PTL DEF ASpec

\* A pair of files in order is only broken by hand, or by an installation that began
\* where it was not in order or could not be read (IsTrustedInstalledEngine, InstallEngine).
THEOREM ThePairIsKept == ASpec => PairKept
<1> DEFINE Kept == Trusted(pair) /\ ~Trusted(pair') =>
                     \/ "by hand" \in sins' \/ "unread" \in sins
                     \/ \E p \in Askers : Stands(p, "activate") /\ ~desk[p].saw
<1>1. EngInv /\ [ANext]_avars => [Kept]_avars
  <2> SUFFICES ASSUME EngInv, [ANext]_avars, pair' # pair PROVE Kept
    BY DEF avars, Trusted
  <2>a. EngTypes /\ DeskInv
    BY DEF EngInv
  <2>1. ANext
    BY DEF avars
  <2>2. ASSUME NEW p \in Askers, InstallEngine(p) PROVE Kept
    <3>1. CASE ActivateSignature(p)
      <4>1. Stands(p, "activate")
        BY <3>1 DEF ActivateSignature
      <4>2. desk[p].saw => "unread" \in sins
        BY <2>a, <4>1 DEF DeskInv, Stands, Working
      <4> QED BY <4>1, <4>2
    <3>2. CASE ActivateEngine(p)
      <4>1. Stands(p, "replace") /\ pair' = [pair EXCEPT !["dll"] = desk[p].dll]
        BY <3>2 DEF ActivateEngine, ActivateAs
      <4>2. desk[p].dll = "new" /\ pair.sig # "old"
        BY <2>a, <4>1 DEF DeskInv
      <4>3. pair'.dll = "new" /\ pair'.sig = pair.sig
        BY <2>a, <4>1, <4>2 DEF EngTypes
      <4> QED BY <4>2, <4>3, TrustFacts
    <3> QED BY <2>2, <3>1, <3>2 DEF InstallEngine, DownloadToFile, VerifyStaged
  <2>3. ASSUME NEW f \in {"dll", "sig"}, NEW k \in {"new", "bad"}, CopyByHand(f, k) PROVE Kept
    BY <2>3 DEF CopyByHand, Sin
  <2>4. ASSUME NEW p \in Askers, Ensures(p) PROVE Kept
    BY <2>2, <2>4 DEF Ensures, IsTrustedInstalledEngine, ShowInstallChoice, ShowInstallFailure,
       ReadyIfLoadable, PromptRestart
  <2> QED BY <2>1, <2>3, <2>4 DEF ANext, Loads, OpenLibrary, LoadLibrary, ProcessEnds, TakeOver,
             ApplySpellCheckLevel, DismissProgress, StartMain
<1> QED BY <1>1, EngStart, EngStep, PTL DEF ASpec, PairKept

-----------------------------------------------------------------------------
(* The update: the invariant.                                               *)

Versions == {0, 1, 2, Torn}
BoxRec   == [exe : Versions, lib : Versions, tsf : Versions, pend : Versions, mark : Versions,
             oldexe : Versions, oldlib : Versions, park : Versions, swapped : Versions,
             temp : BOOLEAN, ok : {0, 2}, failed : BOOLEAN]
Stages   == {"none", "wait", "verify", "extract", "backup", "copy", "tsf", "tsfcopy", "pend", "mark",
             "receipt", "relaunch", "undo", "undotsf", "undone"}
InstRec  == [pc : Stages, todo : SUBSET Parts, parked : BOOLEAN]
AppRec   == [pc : {"down", "apply", "swap", "consume", "clean", "up"}, ver : {1, 2}]

\* The files, the two processes, the download and the bounds.
UpdTypes ==
  /\ box \in BoxRec /\ inst \in InstRec
  /\ app \in AppRec
  /\ dl \in [pc : {"idle", "zip", "sum", "sig", "launch", "done", "over"}, cancel : BOOLEAN]
  /\ left \in [fail : Nat, kill : Nat, start : Nat]

\* The program that the installer copies is whole when it is started: nobody else
\* writes it.
Copied ==
  /\ At("copy") => /\ "exe" \notin inst.todo => box.exe = 2
                   /\ "lib" \notin inst.todo => box.lib = 2
  /\ inst.pc \in {"tsf", "tsfcopy", "pend", "mark", "receipt", "relaunch"} => box.exe = 2 /\ box.lib = 2

\* The download runs in a main process of the old version, and an installer only comes
\* of it; a flag set in time keeps it from coming.
DownInv ==
  /\ dl.pc # "idle" => app.pc = "up"
  /\ dl.pc \in {"zip", "sum", "sig", "launch"} => app.ver = 1
  /\ dl.pc \in {"zip", "sum", "sig", "launch", "over"} => inst.pc = "none"
  /\ dl.cancel /\ "late cancel" \notin mishaps =>
       /\ dl.pc \notin {"launch", "done"} /\ inst.pc = "none"
       /\ dl.pc \in {"idle", "over"} => pkg = "none"

\* The installer and the main process are not at work together unless the user starts
\* the one beside the other, and the marker vouches for whole libraries only.
Vouched ==
  /\ box.mark \in {0, 2} /\ (At("mark") => box.pend \in {0, 2})
  /\ "crossed" \notin mishaps =>
       /\ inst.pc \notin {"none", "wait"} => app.pc = "down"
       /\ app.pc = "swap" => box.pend = 2 /\ box.mark = 2

\* The marker of an earlier failure is gone, or could not be removed.
Cleared == box.failed = FALSE \/ "failure kept" \in mishaps

\* The installation before the update, and after it; in the second the TSF library may
\* still have to be swapped, or be on its way.
Before ==
  /\ box.exe = 1 /\ box.lib = 1 /\ box.tsf = 1 /\ box.pend = 0 /\ box.mark = 0
  /\ box.oldexe = 0 /\ box.oldlib = 0 /\ app.pc # "swap"
After ==
  /\ box.exe = 2 /\ box.lib = 2 /\ Cleared
  /\ \/ app.pc # "swap" /\ box.tsf = 2
     \/ app.pc # "swap" /\ box.tsf = 1 /\ box.pend = 2 /\ box.mark = 2
     \/ app.pc = "swap" /\ box.tsf = 0 /\ box.swapped \in {1, 2}

OldKept   == box.oldexe = 1 /\ box.oldlib = 1
OldBack   == box.exe = 1 /\ box.lib = 1 /\ box.oldexe = 0 /\ box.oldlib = 0
TsfBack   == (inst.parked /\ box.park = 1) \/ (~inst.parked /\ box.tsf = 1)
TsfThere  == \/ box.tsf = 2 /\ inst.parked /\ box.park = 1
             \/ box.tsf = 1 /\ ~inst.parked /\ box.pend = 2 /\ box.mark = 2
TsfUntouched == box.tsf = 1 /\ ~inst.parked

\* What is where at each stage of the installer, if nothing that OneVersion sets apart
\* has happened: the old files can be brought back until the new ones are there.
StageInv ==
  mishaps \cap Spoilt = {} =>
    /\ inst.pc = "none" => Before \/ After
    /\ inst.pc \in {"wait", "verify", "extract"} => Before /\ ~inst.parked
    /\ At("backup") =>
         /\ TsfUntouched /\ box.pend = 0 /\ box.mark = 0
         /\ IF "exe" \in inst.todo THEN box.exe = 1 /\ box.oldexe = 0 ELSE box.oldexe = 1
         /\ IF "lib" \in inst.todo THEN box.lib = 1 /\ box.oldlib = 0 ELSE box.oldlib = 1
    /\ inst.pc \in {"copy", "tsf", "pend", "mark"} => OldKept /\ TsfUntouched
    /\ At("tsfcopy") => OldKept /\ box.park = 1 /\ ~inst.parked
    /\ At("mark") => box.pend = 2
    /\ inst.pc \in {"receipt", "relaunch"} => OldKept /\ TsfThere
    /\ At("relaunch") => Cleared
    /\ At("undo") =>
         /\ TsfBack
         /\ IF "exe" \in inst.todo THEN box.oldexe = 1 ELSE box.exe = 1 /\ box.oldexe = 0
         /\ IF "lib" \in inst.todo THEN box.oldlib = 1 ELSE box.lib = 1 /\ box.oldlib = 0
    /\ At("undotsf") => OldBack /\ TsfBack
    /\ At("undone") => OldBack /\ box.tsf = 1

\* A main process is of the version of its file, and what it has told fits it.
Told ==
  mishaps \cap Spoilt = {} /\ app.pc # "down" =>
    /\ app.ver = box.exe
    /\ app.pc \in {"clean", "up"} =>
         /\ said = "ok" => app.ver = 2
         /\ said = "failed" => app.ver = 1 \/ "failure kept" \in mishaps

UpdInv == UpdTypes /\ Copied /\ DownInv /\ Vouched /\ StageInv /\ Told

-----------------------------------------------------------------------------
(* What the operators of the model give.                                    *)

\* The installer goes on with every file still to do.
LEMMA Goes ==
  ASSUME UpdTypes, NEW pc \in Stages, GoTo(pc)
  PROVE  inst' \in InstRec /\ inst'.pc = pc /\ inst'.todo = Parts /\ inst'.parked = inst.parked
BY DEF UpdTypes, GoTo, InstRec

\* The roll-back starts with the files, or is over, as its caller asks.
LEMMA Rolls ==
  ASSUME UpdTypes
  PROVE  /\ RollbackRestoreAndExit(TRUE) => GoTo("undo")
         /\ RollbackRestoreAndExit(FALSE) => GoTo("undone")
BY DEF UpdTypes, GoTo, RollbackRestoreAndExit

\* The installer that has ended, and the one just started.
LEMMA NoInstFacts ==
  /\ NoInst \in InstRec /\ NoInst.pc = "none" /\ NoInst.parked = FALSE
  /\ [NoInst EXCEPT !.pc = "wait"] \in InstRec /\ [NoInst EXCEPT !.pc = "wait"].pc = "wait"
  /\ [NoInst EXCEPT !.pc = "wait"].parked = FALSE
BY DEF NoInst, InstRec, Stages, Parts

\* The bounds stay numbers.
LEMMA Lefts ==
  ASSUME UpdTypes
  PROVE  /\ Ok => left' \in [fail : Nat, kill : Nat, start : Nat]
         /\ Bad => left' \in [fail : Nat, kill : Nat, start : Nat]
         /\ \A k \in {"fail", "kill", "start"} : Spend(k) => left' \in [fail : Nat, kill : Nat, start : Nat]
<1>1. left \in [fail : Nat, kill : Nat, start : Nat]
  BY DEF UpdTypes
<1>2. Spend("fail") => left' \in [fail : Nat, kill : Nat, start : Nat]
  BY <1>1 DEF Spend
<1>3. Spend("kill") => left' \in [fail : Nat, kill : Nat, start : Nat]
  BY <1>1 DEF Spend
<1>4. Spend("start") => left' \in [fail : Nat, kill : Nat, start : Nat]
  BY <1>1 DEF Spend
<1> QED BY <1>1, <1>2, <1>3, <1>4 DEF Ok, Bad

\* Every change that the code makes to the files leaves files.
LEMMA BoxKeeps ==
  ASSUME UpdTypes
  PROVE  /\ [box EXCEPT !.ok = 0] \in BoxRec
         /\ [box EXCEPT !.failed = FALSE] \in BoxRec
         /\ [box EXCEPT !.temp = FALSE] \in BoxRec
         /\ box.exe = 2 => /\ [box EXCEPT !.temp = FALSE, !.ok = box.exe, !.failed = FALSE] \in BoxRec
                           /\ [box EXCEPT !.temp = FALSE, !.ok = box.exe] \in BoxRec
         /\ [box EXCEPT !.park = box.tsf, !.tsf = 0] \in BoxRec
         /\ [box EXCEPT !.tsf = box.park, !.park = 0] \in BoxRec
         /\ [box EXCEPT !.tsf = 2, !.pend = 0, !.mark = 0] \in BoxRec
         /\ [box EXCEPT !.tsf = 2] \in BoxRec
         /\ [box EXCEPT !.tsf = 0] \in BoxRec
         /\ [box EXCEPT !.temp = TRUE] \in BoxRec
         /\ [box EXCEPT !.pend = 2] \in BoxRec
         /\ [box EXCEPT !.pend = Torn] \in BoxRec
         /\ [box EXCEPT !.tsf = Torn] \in BoxRec
         /\ [box EXCEPT !.mark = box.pend] \in BoxRec
         /\ [box EXCEPT !.pend = 0, !.mark = 0] \in BoxRec
         /\ [box EXCEPT !.pend = 0, !.mark = 0, !.ok = 0, !.failed = TRUE] \in BoxRec
         /\ [box EXCEPT !.pend = 0, !.mark = 0, !.ok = 0] \in BoxRec
         /\ [box EXCEPT !.pend = 0, !.mark = 0, !.failed = TRUE] \in BoxRec
         /\ [box EXCEPT !.swapped = box.tsf, !.tsf = 0] \in BoxRec
         /\ [box EXCEPT !.tsf = box.swapped, !.swapped = 0] \in BoxRec
         /\ [box EXCEPT !.tsf = box.pend, !.pend = 0, !.mark = 0] \in BoxRec
         /\ [box EXCEPT !.oldexe = 0, !.oldlib = 0] \in BoxRec
         /\ [box EXCEPT !.failed = FALSE, !.ok = 0] \in BoxRec
         /\ [box EXCEPT !.oldexe = 0, !.oldlib = 0, !.park = 0, !.swapped = 0, !.temp = FALSE] \in BoxRec
<1> USE DEF UpdTypes, BoxRec, Versions, Torn
<1>1. /\ [box EXCEPT !.ok = 0] \in BoxRec
      /\ [box EXCEPT !.failed = FALSE] \in BoxRec
      /\ [box EXCEPT !.temp = FALSE] \in BoxRec
      /\ box.exe = 2 => /\ [box EXCEPT !.temp = FALSE, !.ok = box.exe, !.failed = FALSE] \in BoxRec
                        /\ [box EXCEPT !.temp = FALSE, !.ok = box.exe] \in BoxRec
  OBVIOUS
<1>2. /\ [box EXCEPT !.park = box.tsf, !.tsf = 0] \in BoxRec
      /\ [box EXCEPT !.tsf = box.park, !.park = 0] \in BoxRec
      /\ [box EXCEPT !.tsf = 2, !.pend = 0, !.mark = 0] \in BoxRec
      /\ [box EXCEPT !.tsf = 2] \in BoxRec
  OBVIOUS
<1>3. /\ [box EXCEPT !.tsf = 0] \in BoxRec
      /\ [box EXCEPT !.temp = TRUE] \in BoxRec
      /\ [box EXCEPT !.pend = 2] \in BoxRec
      /\ [box EXCEPT !.pend = Torn] \in BoxRec
  OBVIOUS
<1>4. /\ [box EXCEPT !.tsf = Torn] \in BoxRec
      /\ [box EXCEPT !.mark = box.pend] \in BoxRec
      /\ [box EXCEPT !.pend = 0, !.mark = 0] \in BoxRec
      /\ [box EXCEPT !.pend = 0, !.mark = 0, !.ok = 0, !.failed = TRUE] \in BoxRec
      /\ [box EXCEPT !.pend = 0, !.mark = 0, !.ok = 0] \in BoxRec
      /\ [box EXCEPT !.pend = 0, !.mark = 0, !.failed = TRUE] \in BoxRec
  OBVIOUS
<1>5. /\ [box EXCEPT !.swapped = box.tsf, !.tsf = 0] \in BoxRec
      /\ [box EXCEPT !.tsf = box.swapped, !.swapped = 0] \in BoxRec
      /\ [box EXCEPT !.tsf = box.pend, !.pend = 0, !.mark = 0] \in BoxRec
      /\ [box EXCEPT !.oldexe = 0, !.oldlib = 0] \in BoxRec
  OBVIOUS
<1>6. /\ [box EXCEPT !.failed = FALSE, !.ok = 0] \in BoxRec
      /\ [box EXCEPT !.oldexe = 0, !.oldlib = 0, !.park = 0, !.swapped = 0, !.temp = FALSE] \in BoxRec
  OBVIOUS
<1> QED BY ONLY <1>1, <1>2, <1>3, <1>4, <1>5, <1>6

\* A main process is of the version of the program it was started from.
LEMMA StartedIs ==
  ASSUME UpdTypes, box.exe \in {1, 2}
  PROVE  Started \in AppRec /\ (app.pc # "down" => Started = app)
         /\ (app.pc = "down" => Started.pc = "apply" /\ Started.ver = box.exe)
BY DEF UpdTypes, AppRec, Started

-----------------------------------------------------------------------------
(* One lemma for each action.                                               *)

\* The verified package is launched: the old version is still what is installed.
LEMMA DownloadAndLaunchInstallerKeeps ==
  ASSUME UpdInv, DownloadAndLaunchInstaller
  PROVE  UpdInv'
<1> USE DEF Torn, Parts, At
<1>a. UpdTypes /\ Copied /\ DownInv /\ Vouched /\ StageInv /\ Told
  BY DEF UpdInv
<1>b. box' \in BoxRec
  BY <1>a DEF UpdTypes, DownloadAndLaunchInstaller, DropStaged, Ok
<1>c. inst' \in InstRec
  BY <1>a, NoInstFacts DEF UpdTypes, DownloadAndLaunchInstaller, DropStaged, Ok
<1>d. app' \in AppRec
  BY <1>a DEF UpdTypes, DownloadAndLaunchInstaller, DropStaged, Ok
<1>e. left' \in [fail : Nat, kill : Nat, start : Nat]
  BY <1>a, Lefts DEF UpdTypes, DownloadAndLaunchInstaller, DropStaged, Ok
<1>f. dl' \in [pc : {"idle", "zip", "sum", "sig", "launch", "done", "over"}, cancel : BOOLEAN]
  BY <1>a DEF UpdTypes, DownloadAndLaunchInstaller, DropStaged, Ok
<1>1. UpdTypes'
  BY <1>b, <1>c, <1>d, <1>e, <1>f DEF UpdTypes
<1>2. Copied'
  BY <1>a, NoInstFacts DEF UpdTypes, Copied, DownloadAndLaunchInstaller, DropStaged, Ok
<1>3. DownInv'
  BY <1>a, NoInstFacts DEF UpdTypes, DownInv, DownloadAndLaunchInstaller, DropStaged, Ok
<1>4. Vouched'
  BY <1>a, NoInstFacts DEF UpdTypes, Vouched, DownloadAndLaunchInstaller, DropStaged, Ok
<1>5. StageInv'
  <2>1. CASE inst' = inst
    BY <1>a, <2>1 DEF DownloadAndLaunchInstaller, StageInv, Before, After, Cleared, OldKept, OldBack, TsfBack,
       TsfThere, TsfUntouched
  <2>2. CASE inst' = [NoInst EXCEPT !.pc = "wait"]
    <3>a. app.pc = "up" /\ app.ver = 1 /\ inst.pc = "none"
      BY <1>a DEF DownloadAndLaunchInstaller, DownInv
    <3>b. mishaps \cap Spoilt = {} => box.exe = 1 /\ (Before \/ After)
      BY <1>a, <3>a DEF Told, StageInv
    <3>1. mishaps \cap Spoilt = {} => Before
      BY <3>b DEF After
    <3> QED BY <3>1, <2>2, NoInstFacts DEF DownloadAndLaunchInstaller, StageInv, Before
  <2> QED BY <2>1, <2>2 DEF DownloadAndLaunchInstaller, DropStaged
<1>6. Told'
  BY <1>a DEF UpdTypes, Told, DownloadAndLaunchInstaller, DropStaged, Ok
<1> QED BY <1>1, <1>2, <1>3, <1>4, <1>5, <1>6 DEF UpdInv

\* The receipt and the failure marker: the other files are left alone.
LEMMA MarkedIs ==
  ASSUME UpdTypes, NEW failure \in BOOLEAN, Marked(failure)
  PROVE  /\ box' \in BoxRec /\ left' \in [fail : Nat, kill : Nat, start : Nat]
         /\ \A f \in {"exe", "lib", "tsf", "pend", "mark", "oldexe", "oldlib", "park", "swapped"} :
              box'[f] = box[f]
<1>1. /\ \/ box' = [box EXCEPT !.ok = 0, !.failed = @ \/ failure]
         \/ box' = [box EXCEPT !.ok = 0]
         \/ box' = [box EXCEPT !.failed = @ \/ failure]
         \/ box' = box
      /\ Ok \/ Bad
  BY DEF Marked
<1>2. (box.failed \/ failure) \in BOOLEAN /\ box \in BoxRec
  BY DEF UpdTypes, BoxRec
<1>3. /\ box' \in BoxRec
      /\ \A f \in {"exe", "lib", "tsf", "pend", "mark", "oldexe", "oldlib", "park", "swapped"} :
           box'[f] = box[f]
  BY <1>1, <1>2 DEF BoxRec
<1> QED BY <1>1, <1>3, Lefts

\* The installer waits for the other processes, or gives up.
LEMMA WaitForOtherProcessesKeeps ==
  ASSUME UpdInv, WaitForOtherProcesses
  PROVE  UpdInv'
<1> USE DEF Torn, Parts, At
<1>a. UpdTypes /\ Copied /\ DownInv /\ Vouched /\ StageInv /\ Told
  BY DEF UpdInv
<1>b. box' \in BoxRec
  BY <1>a, MarkedIs DEF WaitForOtherProcesses
<1>c. inst' \in InstRec
  BY <1>a, Goes, NoInstFacts DEF UpdTypes, Stages, WaitForOtherProcesses
<1>d. app' \in AppRec
  BY <1>a DEF UpdTypes, WaitForOtherProcesses, Unmoved
<1>e. left' \in [fail : Nat, kill : Nat, start : Nat]
  BY <1>a, MarkedIs DEF WaitForOtherProcesses
<1>f. dl' \in [pc : {"idle", "zip", "sum", "sig", "launch", "done", "over"}, cancel : BOOLEAN]
  BY <1>a DEF UpdTypes, WaitForOtherProcesses, Unmoved
<1>g. \A f \in {"exe", "lib", "tsf", "pend", "mark", "oldexe", "oldlib"} : box'[f] = box[f]
  BY <1>a, MarkedIs DEF WaitForOtherProcesses
<1>1. UpdTypes'
  BY <1>b, <1>c, <1>d, <1>e, <1>f DEF UpdTypes
<1>2. Copied'
  BY <1>a, <1>g, Goes, NoInstFacts DEF UpdTypes, Copied, Stages, WaitForOtherProcesses
<1>3. DownInv'
  BY <1>a DEF UpdTypes, DownInv, WaitForOtherProcesses, Unmoved
<1>4. Vouched'
  BY <1>a, <1>g, Goes, NoInstFacts DEF Vouched, Stages, WaitForOtherProcesses, Unmoved
<1>5. StageInv'
  <2>1. mishaps \cap Spoilt = {} => Before /\ ~inst.parked
    BY <1>a DEF WaitForOtherProcesses, StageInv
  <2>2. mishaps \cap Spoilt = {} => Before'
    BY <1>a, <1>g, <2>1 DEF WaitForOtherProcesses, Unmoved, Before
  <2>3. inst'.pc \in {"verify", "none"} /\ (inst'.pc = "verify" => inst'.parked = inst.parked)
    BY <1>a, Goes, NoInstFacts DEF Stages, WaitForOtherProcesses
  <2>4. mishaps' = mishaps
    BY DEF WaitForOtherProcesses
  <2> QED BY <2>1, <2>2, <2>3, <2>4 DEF StageInv
<1>6. Told'
  BY <1>a, <1>g DEF Told, WaitForOtherProcesses, Unmoved
<1> QED BY <1>1, <1>2, <1>3, <1>4, <1>5, <1>6 DEF UpdInv

\* The package is verified before anything is touched.
LEMMA VerifyPackageKeeps ==
  ASSUME UpdInv, VerifyPackage
  PROVE  UpdInv'
<1> USE DEF Torn, Parts, At
<1>a. UpdTypes /\ Copied /\ DownInv /\ Vouched /\ StageInv /\ Told
  BY DEF UpdInv
<1>b. box' \in BoxRec
  BY <1>a, BoxKeeps DEF UpdTypes, VerifyPackage
<1>c. inst' \in InstRec
  BY <1>a, Goes, Rolls DEF UpdTypes, Stages, VerifyPackage
<1>d. app' \in AppRec
  BY <1>a DEF UpdTypes, VerifyPackage, Unmoved
<1>e. left' \in [fail : Nat, kill : Nat, start : Nat]
  BY <1>a, Lefts DEF UpdTypes, VerifyPackage
<1>f. dl' \in [pc : {"idle", "zip", "sum", "sig", "launch", "done", "over"}, cancel : BOOLEAN]
  BY <1>a DEF UpdTypes, VerifyPackage, Unmoved
<1>1. UpdTypes'
  BY <1>b, <1>c, <1>d, <1>e, <1>f DEF UpdTypes
<1>2. Copied'
  BY <1>a, Goes, Rolls DEF UpdTypes, Copied, Stages, VerifyPackage
<1>3. DownInv'
  BY <1>a DEF UpdTypes, DownInv, VerifyPackage, Unmoved
<1>4. Vouched'
  BY <1>a, Goes, Rolls DEF UpdTypes, Vouched, Stages, BoxRec, VerifyPackage, Unmoved
<1>5. StageInv'
  <2>1. mishaps \cap Spoilt = {} => Before /\ ~inst.parked
    BY <1>a DEF VerifyPackage, StageInv
  <2>2. mishaps \cap Spoilt = {} => Before'
    BY <1>a, <2>1 DEF UpdTypes, BoxRec, VerifyPackage, Unmoved, Before
  <2>3. inst'.pc \in {"extract", "undone"} /\ inst'.parked = inst.parked
    BY <1>a, Goes, Rolls DEF Stages, VerifyPackage
  <2>4. mishaps' = mishaps
    BY DEF VerifyPackage
  <2> QED BY <2>1, <2>2, <2>3, <2>4 DEF StageInv, Before, OldBack
<1>6. Told'
  BY <1>a DEF UpdTypes, Told, BoxRec, VerifyPackage, Unmoved
<1> QED BY <1>1, <1>2, <1>3, <1>4, <1>5, <1>6 DEF UpdInv

\* The old TSF library is moved away, or cannot be; one that is not there is copied at once.
LEMMA ParkTsfKeeps ==
  ASSUME UpdInv, ParkTsf
  PROVE  UpdInv'
<1> USE DEF Torn, Parts, At
<1>a. UpdTypes /\ Copied /\ DownInv /\ Vouched /\ StageInv /\ Told
  BY DEF UpdInv
<1>b. box' \in BoxRec
  BY <1>a, BoxKeeps DEF UpdTypes, ParkTsf
<1>c. inst' \in InstRec
  BY <1>a, Goes, Rolls DEF UpdTypes, Stages, ParkTsf
<1>d. app' \in AppRec
  BY <1>a DEF UpdTypes, ParkTsf, Unmoved
<1>e. left' \in [fail : Nat, kill : Nat, start : Nat]
  BY <1>a, Lefts DEF UpdTypes, ParkTsf
<1>f. dl' \in [pc : {"idle", "zip", "sum", "sig", "launch", "done", "over"}, cancel : BOOLEAN]
  BY <1>a DEF UpdTypes, ParkTsf, Unmoved
<1>1. UpdTypes'
  BY <1>b, <1>c, <1>d, <1>e, <1>f DEF UpdTypes
<1>2. Copied'
  BY <1>a DEF UpdTypes, Copied, BoxRec, ParkTsf
<1>3. DownInv'
  BY <1>a DEF UpdTypes, DownInv, ParkTsf, Unmoved
<1>4. Vouched'
  BY <1>a, Goes, Rolls DEF UpdTypes, Vouched, Stages, BoxRec, ParkTsf, Unmoved
<1>5. StageInv'
  <2>1. mishaps \cap Spoilt = {} => OldKept /\ TsfUntouched
    BY <1>a DEF ParkTsf, StageInv
  <2>2. mishaps' = mishaps
    BY DEF ParkTsf
  <2>3. CASE GoTo("tsfcopy") /\ box' = [box EXCEPT !.park = box.tsf, !.tsf = 0]
    <3>1. inst'.pc = "tsfcopy" /\ inst'.parked = inst.parked
      BY <1>a, <2>3, Goes DEF Stages
    <3>2. box'.oldexe = box.oldexe /\ box'.oldlib = box.oldlib /\ box'.park = box.tsf
      BY <1>a, <2>3 DEF UpdTypes, BoxRec
    <3> QED BY <2>1, <2>2, <3>1, <3>2 DEF StageInv, OldKept, TsfUntouched
  <2>4. CASE GoTo("pend") /\ box' = box
    <3>1. inst'.pc = "pend" /\ inst'.parked = inst.parked
      BY <1>a, <2>4, Goes DEF Stages
    <3> QED BY <2>1, <2>2, <2>4, <3>1 DEF StageInv, OldKept, TsfUntouched
  <2>5. CASE box.tsf = 0
    BY <2>1, <2>2, <2>5 DEF TsfUntouched, StageInv
  <2> QED BY <2>3, <2>4, <2>5 DEF ParkTsf
<1>6. Told'
  BY <1>a DEF UpdTypes, Told, Vouched, BoxRec, ParkTsf, Unmoved
<1> QED BY <1>1, <1>2, <1>3, <1>4, <1>5, <1>6 DEF UpdInv

\* The new TSF library is copied; a copy that fails brings the old one back.
LEMMA CopyTsfKeeps ==
  ASSUME UpdInv, CopyTsf
  PROVE  UpdInv'
<1> USE DEF Torn, Parts, At
<1>a. UpdTypes /\ Copied /\ DownInv /\ Vouched /\ StageInv /\ Told
  BY DEF UpdInv
<1>b. box' \in BoxRec
  BY <1>a, BoxKeeps DEF UpdTypes, CopyTsf
<1>c. inst' \in InstRec
  <2>1. CASE inst' = [inst EXCEPT !.pc = "receipt", !.parked = TRUE]
    BY <1>a, <2>1 DEF UpdTypes, InstRec, Stages
  <2>2. CASE GoTo("pend")
    BY <1>a, <2>2, Goes DEF Stages
  <2> QED BY <2>1, <2>2 DEF CopyTsf
<1>d. app' \in AppRec
  BY <1>a DEF UpdTypes, CopyTsf, Unmoved
<1>e. left' \in [fail : Nat, kill : Nat, start : Nat]
  <2>1. CASE left.fail > 1 /\ left' = [left EXCEPT !.fail = @ - 2]
    BY <1>a, <2>1 DEF UpdTypes
  <2> QED BY <1>a, <2>1, Lefts DEF CopyTsf
<1>f. dl' \in [pc : {"idle", "zip", "sum", "sig", "launch", "done", "over"}, cancel : BOOLEAN]
  BY <1>a DEF UpdTypes, CopyTsf, Unmoved
<1>1. UpdTypes'
  BY <1>b, <1>c, <1>d, <1>e, <1>f DEF UpdTypes
<1>2. Copied'
  BY <1>a, Goes DEF UpdTypes, Copied, Stages, BoxRec, CopyTsf
<1>3. DownInv'
  BY <1>a, Goes DEF UpdTypes, DownInv, Stages, CopyTsf, Unmoved
<1>4. Vouched'
  BY <1>a, Goes DEF UpdTypes, Vouched, Stages, BoxRec, CopyTsf, Unmoved
<1>5. StageInv'
  <2>1. mishaps \cap Spoilt = {} => OldKept /\ box.park = 1 /\ ~inst.parked
    BY <1>a DEF CopyTsf, StageInv
  <2>2. CASE mishaps' = mishaps /\ inst' = [inst EXCEPT !.pc = "receipt", !.parked = TRUE]
             /\ box' = [box EXCEPT !.tsf = 2, !.pend = 0, !.mark = 0]
    <3>1. inst'.pc = "receipt" /\ inst'.parked = TRUE
      BY <1>a, <2>2 DEF UpdTypes, InstRec
    <3>2. box'.oldexe = box.oldexe /\ box'.oldlib = box.oldlib /\ box'.park = box.park /\ box'.tsf = 2
      BY <1>a, <2>2 DEF UpdTypes, BoxRec
    <3> QED BY <2>1, <2>2, <3>1, <3>2 DEF StageInv, OldKept, TsfThere
  <2>3. CASE mishaps' = mishaps /\ GoTo("pend") /\ box' = [box EXCEPT !.tsf = box.park, !.park = 0]
    <3>1. inst'.pc = "pend" /\ inst'.parked = inst.parked
      BY <1>a, <2>3, Goes DEF Stages
    <3>2. box'.oldexe = box.oldexe /\ box'.oldlib = box.oldlib /\ box'.tsf = box.park
      BY <1>a, <2>3 DEF UpdTypes, BoxRec
    <3> QED BY <2>1, <2>3, <3>1, <3>2 DEF StageInv, OldKept, TsfUntouched
  <2>4. CASE mishaps' = mishaps \cup {"no way back"}
    BY <2>4 DEF StageInv, Spoilt
  <2> QED BY <2>2, <2>3, <2>4 DEF CopyTsf
<1>6. Told'
  BY <1>a DEF UpdTypes, Told, Vouched, BoxRec, CopyTsf, Unmoved
<1> QED BY <1>1, <1>2, <1>3, <1>4, <1>5, <1>6 DEF UpdInv

\* The receipt is written when all files are there.
LEMMA ReceiptKeeps ==
  ASSUME UpdInv, Receipt
  PROVE  UpdInv'
<1> USE DEF Torn, Parts, At
<1>a. UpdTypes /\ Copied /\ DownInv /\ Vouched /\ StageInv /\ Told
  BY DEF UpdInv
<1>b. box' \in BoxRec
  BY <1>a, BoxKeeps DEF UpdTypes, Copied, Receipt
<1>c. inst' \in InstRec
  BY <1>a, Goes, Rolls DEF UpdTypes, Stages, Receipt
<1>d. app' \in AppRec
  BY <1>a DEF UpdTypes, Receipt, Unmoved
<1>e. left' \in [fail : Nat, kill : Nat, start : Nat]
  BY <1>a, Lefts DEF UpdTypes, Receipt
<1>f. dl' \in [pc : {"idle", "zip", "sum", "sig", "launch", "done", "over"}, cancel : BOOLEAN]
  BY <1>a DEF UpdTypes, Receipt, Unmoved
<1>1. UpdTypes'
  BY <1>b, <1>c, <1>d, <1>e, <1>f DEF UpdTypes
<1>2. Copied'
  BY <1>a DEF UpdTypes, Copied, BoxRec, Receipt
<1>3. DownInv'
  BY <1>a DEF UpdTypes, DownInv, Receipt, Unmoved
<1>4. Vouched'
  BY <1>a, Goes, Rolls DEF UpdTypes, Vouched, Stages, BoxRec, Receipt, Unmoved
<1>g. /\ box'.oldexe = box.oldexe /\ box'.oldlib = box.oldlib /\ box'.tsf = box.tsf /\ box'.park = box.park
      /\ box'.pend = box.pend /\ box'.mark = box.mark
  BY <1>a DEF UpdTypes, BoxRec, Receipt
<1>h. (mishaps' \cap Spoilt = {}) => (mishaps \cap Spoilt = {})
  BY DEF Receipt, Spoilt
<1>i. mishaps \cap Spoilt = {} => OldKept /\ TsfThere
  BY <1>a DEF Receipt, StageInv
<1>5. StageInv'
  <2>1. CASE GoTo("relaunch")
    <3>1. inst'.pc = "relaunch" /\ inst'.parked = inst.parked
      BY <1>a, <2>1, Goes DEF Stages
    <3>2. CASE "failure kept" \in mishaps'
      BY <1>g, <1>h, <1>i, <3>1, <3>2 DEF StageInv, OldKept, TsfThere, Cleared
    <3>3. CASE box' = [box EXCEPT !.temp = FALSE, !.ok = box.exe, !.failed = FALSE]
      <4>1. box'.failed = FALSE
        BY <1>a, <3>3 DEF UpdTypes, BoxRec
      <4> QED BY <1>g, <1>h, <1>i, <3>1, <4>1 DEF StageInv, OldKept, TsfThere, Cleared
    <3>4. inst'.pc # "undo"
      BY <3>1
    <3>5. ~RollbackRestoreAndExit(TRUE)
      BY <1>a, <3>4, Rolls, Goes DEF Stages
    <3> QED BY <3>2, <3>3, <3>5 DEF Receipt
  <2>2. CASE RollbackRestoreAndExit(TRUE)
    <3>1. inst'.pc = "undo" /\ inst'.todo = Parts /\ inst'.parked = inst.parked
      BY <1>a, <2>2, Rolls, Goes DEF Stages
    <3> QED BY <1>g, <1>h, <1>i, <3>1 DEF StageInv, OldKept, TsfThere, TsfBack
  <2> QED BY <2>1, <2>2 DEF Receipt
<1>6. Told'
  BY <1>a DEF UpdTypes, Told, Vouched, BoxRec, Receipt, Unmoved
<1> QED BY <1>1, <1>2, <1>3, <1>4, <1>5, <1>6 DEF UpdInv

\* The new version is started, and its installer ends.
LEMMA RelaunchKeeps ==
  ASSUME UpdInv, Relaunch
  PROVE  UpdInv'
<1> USE DEF Torn, Parts, At
<1>a. UpdTypes /\ Copied /\ DownInv /\ Vouched /\ StageInv /\ Told
  BY DEF UpdInv
<1>g. box.exe = 2 /\ mishaps' = mishaps /\ box' = box
  BY <1>a DEF Copied, Relaunch
<1>h. \/ inst' = NoInst /\ app' = Started
      \/ GoTo("undo") /\ app' = app
  BY <1>a, Rolls DEF Relaunch
<1>b. box' \in BoxRec
  BY <1>a DEF UpdTypes, Relaunch
<1>c. inst' \in InstRec
  BY <1>a, Goes, Rolls, NoInstFacts DEF UpdTypes, Stages, Relaunch
<1>d. app' \in AppRec
  BY <1>a, <1>g, <1>h, StartedIs DEF UpdTypes
<1>e. left' \in [fail : Nat, kill : Nat, start : Nat]
  BY <1>a, Lefts DEF UpdTypes, Relaunch
<1>f. dl' \in [pc : {"idle", "zip", "sum", "sig", "launch", "done", "over"}, cancel : BOOLEAN]
  BY <1>a DEF UpdTypes, Relaunch
<1>1. UpdTypes'
  BY <1>b, <1>c, <1>d, <1>e, <1>f DEF UpdTypes
<1>2. Copied'
  BY <1>a DEF UpdTypes, Copied, Relaunch
<1>3. DownInv'
  BY <1>a, <1>g, <1>h, StartedIs DEF DownInv, Relaunch
<1>4. Vouched'
  BY <1>a, <1>g, <1>h, StartedIs, Goes, NoInstFacts DEF Vouched, Relaunch, Stages
<1>5. StageInv'
  <2>1. mishaps \cap Spoilt = {} => OldKept /\ TsfThere /\ Cleared /\ box.lib = 2
    BY <1>a DEF Relaunch, StageInv, Copied
  <2>2. CASE inst' = NoInst /\ app' = Started
    <3>1. "crossed" \notin mishaps => Started.pc = "apply"
      BY <1>a, <1>g, StartedIs DEF Vouched, Relaunch
    <3> QED BY <1>g, <2>1, <2>2, <3>1, NoInstFacts DEF StageInv, After, Cleared, TsfThere, Spoilt
  <2>3. CASE GoTo("undo") /\ app' = app
    <3>1. inst'.pc = "undo" /\ inst'.todo = Parts /\ inst'.parked = inst.parked
      BY <1>a, <2>3, Goes DEF Stages
    <3> QED BY <1>g, <2>1, <2>3, <3>1 DEF StageInv, OldKept, TsfThere, TsfBack
  <2> QED BY <1>h, <2>2, <2>3
<1>6. Told'
  BY <1>a, <1>g, <1>h, StartedIs DEF Told, Relaunch
<1> QED BY <1>1, <1>2, <1>3, <1>4, <1>5, <1>6 DEF UpdInv

\* The roll-back brings the TSF library back.
LEMMA RestoreTsfKeeps ==
  ASSUME UpdInv, RestoreTsf
  PROVE  UpdInv'
<1> USE DEF Torn, Parts, At
<1>a. UpdTypes /\ Copied /\ DownInv /\ Vouched /\ StageInv /\ Told
  BY DEF UpdInv
<1>b. box' \in BoxRec
  BY <1>a, BoxKeeps DEF UpdTypes, RestoreTsf
<1>c. inst' \in InstRec
  BY <1>a, Goes DEF UpdTypes, Stages, RestoreTsf
<1>d. app' \in AppRec
  BY <1>a DEF UpdTypes, RestoreTsf, Unmoved
<1>e. left' \in [fail : Nat, kill : Nat, start : Nat]
  BY <1>a, Lefts DEF UpdTypes, RestoreTsf
<1>f. dl' \in [pc : {"idle", "zip", "sum", "sig", "launch", "done", "over"}, cancel : BOOLEAN]
  BY <1>a DEF UpdTypes, RestoreTsf, Unmoved
<1>1. UpdTypes'
  BY <1>b, <1>c, <1>d, <1>e, <1>f DEF UpdTypes
<1>2. Copied'
  BY <1>a, Goes DEF UpdTypes, Copied, Stages, BoxRec, RestoreTsf
<1>3. DownInv'
  BY <1>a, Goes DEF UpdTypes, DownInv, Stages, RestoreTsf, Unmoved
<1>4. Vouched'
  BY <1>a, Goes DEF UpdTypes, Vouched, Stages, BoxRec, RestoreTsf, Unmoved
<1>5. StageInv'
  BY <1>a, Goes DEF UpdTypes, Vouched, StageInv, Before, After, Cleared, OldKept, OldBack, TsfBack, TsfThere,
     TsfUntouched, DownInv, Spoilt, Stages, BoxRec, RestoreTsf
<1>6. Told'
  BY <1>a DEF UpdTypes, Told, BoxRec, RestoreTsf, Unmoved
<1> QED BY <1>1, <1>2, <1>3, <1>4, <1>5, <1>6 DEF UpdInv

\* The roll-back ends: nothing is left pending, the failure is marked.
LEMMA RollbackEndKeeps ==
  ASSUME UpdInv, RollbackEnd
  PROVE  UpdInv'
<1> USE DEF Torn, Parts, At
<1>a. UpdTypes /\ Copied /\ DownInv /\ Vouched /\ StageInv /\ Told
  BY DEF UpdInv
<1>g. mishaps' = mishaps /\ box'.exe = box.exe /\ box'.mark = 0 /\ inst' = NoInst
  BY <1>a DEF UpdTypes, BoxRec, RollbackEnd
<1>h. app' = app \/ (box.exe \in {1, 2} /\ app' = Started)
  BY <1>a DEF UpdTypes, BoxRec, Versions, RollbackEnd
<1>b. box' \in BoxRec
  <2>1. \E told, gone \in BOOLEAN :
          box' = [box EXCEPT !.pend = 0, !.mark = 0, !.ok = IF gone THEN 0 ELSE @, !.failed = @ \/ told]
    <3>1. CASE box' = [box EXCEPT !.pend = 0, !.mark = 0, !.ok = 0, !.failed = TRUE]
      <4>1. box' = [box EXCEPT !.pend = 0, !.mark = 0, !.ok = IF TRUE THEN 0 ELSE @, !.failed = @ \/ TRUE]
        BY <3>1
      <4> QED BY <4>1
    <3> QED BY <3>1 DEF RollbackEnd
  <2>2. PICK told \in BOOLEAN, gone \in BOOLEAN :
          box' = [box EXCEPT !.pend = 0, !.mark = 0, !.ok = IF gone THEN 0 ELSE @, !.failed = @ \/ told]
    BY <2>1
  <2> DEFINE ok == IF gone THEN 0 ELSE box.ok
             failed == box.failed \/ told
  <2>3. box \in BoxRec /\ ok \in {0, 2} /\ failed \in BOOLEAN
    BY <1>a DEF UpdTypes, BoxRec
  <2>4. box' = [box EXCEPT !.pend = 0, !.mark = 0, !.ok = ok, !.failed = failed]
    BY <2>2
  <2> HIDE DEF ok, failed
  <2> QED BY <2>3, <2>4 DEF BoxRec, Versions
<1>c. inst' \in InstRec
  BY <1>a, NoInstFacts DEF UpdTypes, RollbackEnd
<1>d. app' \in AppRec
  BY <1>a, <1>h, StartedIs DEF UpdTypes
<1>e. left' \in [fail : Nat, kill : Nat, start : Nat]
  BY <1>a, Lefts DEF UpdTypes, RollbackEnd
<1>f. dl' \in [pc : {"idle", "zip", "sum", "sig", "launch", "done", "over"}, cancel : BOOLEAN]
  BY <1>a DEF UpdTypes, RollbackEnd
<1>1. UpdTypes'
  BY <1>b, <1>c, <1>d, <1>e, <1>f DEF UpdTypes
<1>2. Copied'
  BY <1>a, NoInstFacts DEF UpdTypes, Copied, BoxRec, RollbackEnd
<1>3. DownInv'
  <2>1. dl' = dl /\ pkg' = pkg /\ mishaps' = mishaps /\ inst'.pc = "none"
    BY <1>g, NoInstFacts DEF RollbackEnd
  <2>2. (app.pc = "up" => app' = app) /\ (app'.pc = "up" => app' = app) /\ (app' = app \/ app.pc = "down")
    BY <1>a, <1>h, StartedIs
  <2> QED BY <1>a, <2>1, <2>2 DEF DownInv
<1>4. Vouched'
  BY <1>a, <1>g, <1>h, StartedIs, NoInstFacts DEF Vouched, RollbackEnd
<1>5. StageInv'
  <2>1. mishaps \cap Spoilt = {} => OldBack /\ box.tsf = 1
    BY <1>a DEF RollbackEnd, StageInv
  <2>2. "crossed" \notin mishaps => app'.pc # "swap"
    BY <1>a, <1>h, StartedIs DEF Vouched, RollbackEnd
  <2>3. mishaps \cap Spoilt = {} => Before'
    BY <1>a, <2>1, <2>2 DEF UpdTypes, BoxRec, RollbackEnd, Before, OldBack, Spoilt
  <2> QED BY <1>g, <2>3, NoInstFacts DEF StageInv
<1>6. Told'
  BY <1>a, <1>g, <1>h, StartedIs DEF Told, RollbackEnd
<1> QED BY <1>1, <1>2, <1>3, <1>4, <1>5, <1>6 DEF UpdInv

\* The user agrees to the update, or does not.
LEMMA ShowUpdateDialogKeeps ==
  ASSUME UpdInv, ShowUpdateDialog
  PROVE  UpdInv'
<1> USE DEF Torn, Parts, At
<1>a. UpdTypes /\ Copied /\ DownInv /\ Vouched /\ StageInv /\ Told
  BY DEF UpdInv
<1>b. box' \in BoxRec
  BY <1>a DEF UpdTypes, ShowUpdateDialog
<1>c. inst' \in InstRec
  BY <1>a DEF UpdTypes, ShowUpdateDialog
<1>d. app' \in AppRec
  BY <1>a DEF UpdTypes, AppRec, BoxRec, Versions, Copied, ShowUpdateDialog
<1>e. left' \in [fail : Nat, kill : Nat, start : Nat]
  BY <1>a, Lefts DEF UpdTypes, ShowUpdateDialog
<1>f. dl' \in [pc : {"idle", "zip", "sum", "sig", "launch", "done", "over"}, cancel : BOOLEAN]
  BY <1>a DEF UpdTypes, ShowUpdateDialog
<1>1. UpdTypes'
  BY <1>b, <1>c, <1>d, <1>e, <1>f DEF UpdTypes
<1>2. Copied'
  BY <1>a DEF UpdTypes, Copied, BoxRec, ShowUpdateDialog
<1>3. DownInv'
  BY <1>a DEF UpdTypes, DownInv, ShowUpdateDialog
<1>4. Vouched'
  BY <1>a DEF UpdTypes, Vouched, ShowUpdateDialog
<1>5. StageInv'
  BY <1>a DEF UpdTypes, StageInv, Before, After, Cleared, ShowUpdateDialog
<1>6. Told'
  BY <1>a DEF UpdTypes, Told, ShowUpdateDialog
<1> QED BY <1>1, <1>2, <1>3, <1>4, <1>5, <1>6 DEF UpdInv

\* The package arrives, in whole or torn, or does not.
LEMMA DownloadFileKeeps ==
  ASSUME UpdInv, DownloadFile
  PROVE  UpdInv'
<1> USE DEF Torn, Parts, At
<1>a. UpdTypes /\ Copied /\ DownInv /\ Vouched /\ StageInv /\ Told
  BY DEF UpdInv
<1>b. box' \in BoxRec
  BY <1>a DEF UpdTypes, DownloadFile, DropStaged
<1>c. inst' \in InstRec
  BY <1>a DEF UpdTypes, DownloadFile, DropStaged
<1>d. app' \in AppRec
  BY <1>a DEF UpdTypes, DownloadFile, DropStaged
<1>e. left' \in [fail : Nat, kill : Nat, start : Nat]
  BY <1>a, Lefts DEF UpdTypes, DownloadFile, DropStaged
<1>f. dl' \in [pc : {"idle", "zip", "sum", "sig", "launch", "done", "over"}, cancel : BOOLEAN]
  BY <1>a DEF UpdTypes, DownloadFile, DropStaged
<1>1. UpdTypes'
  BY <1>b, <1>c, <1>d, <1>e, <1>f DEF UpdTypes
<1>2. Copied'
  BY <1>a DEF UpdTypes, Copied, BoxRec, DownloadFile, DropStaged
<1>3. DownInv'
  BY <1>a DEF UpdTypes, DownInv, DownloadFile, DropStaged
<1>4. Vouched'
  BY <1>a DEF UpdTypes, Vouched, DownloadFile, DropStaged
<1>5. StageInv'
  BY <1>a DEF UpdTypes, StageInv, Before, After, Cleared, DownInv, DownloadFile, DropStaged
<1>6. Told'
  BY <1>a DEF UpdTypes, Told, DownloadFile, DropStaged
<1> QED BY <1>1, <1>2, <1>3, <1>4, <1>5, <1>6 DEF UpdInv

\* The checksum is compared.
LEMMA VerifyDownloadedZipKeeps ==
  ASSUME UpdInv, VerifyDownloadedZip
  PROVE  UpdInv'
<1> USE DEF Torn, Parts, At
<1>a. UpdTypes /\ Copied /\ DownInv /\ Vouched /\ StageInv /\ Told
  BY DEF UpdInv
<1>b. box' \in BoxRec
  BY <1>a DEF UpdTypes, VerifyDownloadedZip, DropStaged
<1>c. inst' \in InstRec
  BY <1>a DEF UpdTypes, VerifyDownloadedZip, DropStaged
<1>d. app' \in AppRec
  BY <1>a DEF UpdTypes, VerifyDownloadedZip, DropStaged
<1>e. left' \in [fail : Nat, kill : Nat, start : Nat]
  BY <1>a, Lefts DEF UpdTypes, VerifyDownloadedZip, DropStaged
<1>f. dl' \in [pc : {"idle", "zip", "sum", "sig", "launch", "done", "over"}, cancel : BOOLEAN]
  BY <1>a DEF UpdTypes, VerifyDownloadedZip, DropStaged
<1>1. UpdTypes'
  BY <1>b, <1>c, <1>d, <1>e, <1>f DEF UpdTypes
<1>2. Copied'
  BY <1>a DEF UpdTypes, Copied, BoxRec, VerifyDownloadedZip, DropStaged
<1>3. DownInv'
  BY <1>a DEF UpdTypes, DownInv, VerifyDownloadedZip, DropStaged
<1>4. Vouched'
  BY <1>a DEF UpdTypes, Vouched, VerifyDownloadedZip, DropStaged
<1>5. StageInv'
  BY <1>a DEF UpdTypes, StageInv, Before, After, Cleared, DownInv, VerifyDownloadedZip, DropStaged
<1>6. Told'
  BY <1>a DEF UpdTypes, Told, VerifyDownloadedZip, DropStaged
<1> QED BY <1>1, <1>2, <1>3, <1>4, <1>5, <1>6 DEF UpdInv

\* The signature is verified.
LEMMA VerifySignedUpdateZipKeeps ==
  ASSUME UpdInv, VerifySignedUpdateZip
  PROVE  UpdInv'
<1> USE DEF Torn, Parts, At
<1>a. UpdTypes /\ Copied /\ DownInv /\ Vouched /\ StageInv /\ Told
  BY DEF UpdInv
<1>b. box' \in BoxRec
  BY <1>a DEF UpdTypes, VerifySignedUpdateZip, DropStaged
<1>c. inst' \in InstRec
  BY <1>a DEF UpdTypes, VerifySignedUpdateZip, DropStaged
<1>d. app' \in AppRec
  BY <1>a DEF UpdTypes, VerifySignedUpdateZip, DropStaged
<1>e. left' \in [fail : Nat, kill : Nat, start : Nat]
  BY <1>a, Lefts DEF UpdTypes, VerifySignedUpdateZip, DropStaged
<1>f. dl' \in [pc : {"idle", "zip", "sum", "sig", "launch", "done", "over"}, cancel : BOOLEAN]
  BY <1>a DEF UpdTypes, VerifySignedUpdateZip, DropStaged
<1>1. UpdTypes'
  BY <1>b, <1>c, <1>d, <1>e, <1>f DEF UpdTypes
<1>2. Copied'
  BY <1>a DEF UpdTypes, Copied, BoxRec, VerifySignedUpdateZip, DropStaged
<1>3. DownInv'
  BY <1>a DEF UpdTypes, DownInv, VerifySignedUpdateZip, DropStaged
<1>4. Vouched'
  BY <1>a DEF UpdTypes, Vouched, VerifySignedUpdateZip, DropStaged
<1>5. StageInv'
  BY <1>a DEF UpdTypes, StageInv, Before, After, Cleared, DownInv, VerifySignedUpdateZip, DropStaged
<1>6. Told'
  BY <1>a DEF UpdTypes, Told, VerifySignedUpdateZip, DropStaged
<1> QED BY <1>1, <1>2, <1>3, <1>4, <1>5, <1>6 DEF UpdInv

\* The progress dialog is closed, in time or when the package is about to be launched.
LEMMA ShowProgressDialogKeeps ==
  ASSUME UpdInv, ShowProgressDialog
  PROVE  UpdInv'
<1> USE DEF Torn, Parts, At
<1>a. UpdTypes /\ Copied /\ DownInv /\ Vouched /\ StageInv /\ Told
  BY DEF UpdInv
<1>b. box' \in BoxRec
  BY <1>a DEF UpdTypes, ShowProgressDialog
<1>c. inst' \in InstRec
  BY <1>a DEF UpdTypes, ShowProgressDialog
<1>d. app' \in AppRec
  BY <1>a DEF UpdTypes, AppRec, BoxRec, Versions, Copied, ShowProgressDialog
<1>e. left' \in [fail : Nat, kill : Nat, start : Nat]
  BY <1>a, Lefts DEF UpdTypes, ShowProgressDialog
<1>f. dl' \in [pc : {"idle", "zip", "sum", "sig", "launch", "done", "over"}, cancel : BOOLEAN]
  BY <1>a DEF UpdTypes, ShowProgressDialog
<1>1. UpdTypes'
  BY <1>b, <1>c, <1>d, <1>e, <1>f DEF UpdTypes
<1>2. Copied'
  BY <1>a DEF UpdTypes, Copied, BoxRec, ShowProgressDialog
<1>3. DownInv'
  BY <1>a DEF UpdTypes, DownInv, ShowProgressDialog
<1>4. Vouched'
  BY <1>a DEF UpdTypes, Vouched, ShowProgressDialog
<1>5. StageInv'
  BY <1>a DEF UpdTypes, StageInv, Before, After, Cleared, DownInv, ShowProgressDialog
<1>6. Told'
  BY <1>a DEF UpdTypes, Told, ShowProgressDialog
<1> QED BY <1>1, <1>2, <1>3, <1>4, <1>5, <1>6 DEF UpdInv

\* DownloadWithProgress returns, and the main process closes if the installer is launched.
LEMMA DownloadWithProgressKeeps ==
  ASSUME UpdInv, DownloadWithProgress
  PROVE  UpdInv'
<1> USE DEF Torn, Parts, At
<1>a. UpdTypes /\ Copied /\ DownInv /\ Vouched /\ StageInv /\ Told
  BY DEF UpdInv
<1>b. box' \in BoxRec
  BY <1>a DEF UpdTypes, DownloadWithProgress
<1>c. inst' \in InstRec
  BY <1>a DEF UpdTypes, DownloadWithProgress
<1>d. app' \in AppRec
  BY <1>a DEF UpdTypes, AppRec, BoxRec, Versions, Copied, DownloadWithProgress
<1>e. left' \in [fail : Nat, kill : Nat, start : Nat]
  BY <1>a, Lefts DEF UpdTypes, DownloadWithProgress
<1>f. dl' \in [pc : {"idle", "zip", "sum", "sig", "launch", "done", "over"}, cancel : BOOLEAN]
  BY <1>a DEF UpdTypes, DownloadWithProgress
<1>1. UpdTypes'
  BY <1>b, <1>c, <1>d, <1>e, <1>f DEF UpdTypes
<1>2. Copied'
  BY <1>a DEF UpdTypes, Copied, BoxRec, DownloadWithProgress
<1>3. DownInv'
  BY <1>a DEF UpdTypes, DownInv, DownloadWithProgress
<1>4. Vouched'
  BY <1>a DEF UpdTypes, Vouched, DownloadWithProgress
<1>5. StageInv'
  BY <1>a DEF UpdTypes, AppRec, StageInv, Before, After, Cleared, OldKept, OldBack, TsfBack, TsfThere, TsfUntouched,
     DownloadWithProgress
<1>6. Told'
  BY <1>a DEF UpdTypes, AppRec, Told, DownloadWithProgress
<1> QED BY <1>1, <1>2, <1>3, <1>4, <1>5, <1>6 DEF UpdInv

\* The package is extracted, or cannot be.
LEMMA ExtractZipKeeps ==
  ASSUME UpdInv, ExtractZip
  PROVE  UpdInv'
<1> USE DEF Torn, Parts, At
<1>a. UpdTypes /\ Copied /\ DownInv /\ Vouched /\ StageInv /\ Told
  BY DEF UpdInv
<1>b. box' \in BoxRec
  BY <1>a, BoxKeeps DEF UpdTypes, ExtractZip
<1>c. inst' \in InstRec
  BY <1>a, Goes, Rolls DEF UpdTypes, Stages, ExtractZip
<1>d. app' \in AppRec
  BY <1>a DEF UpdTypes, ExtractZip, Unmoved
<1>e. left' \in [fail : Nat, kill : Nat, start : Nat]
  BY <1>a, Lefts DEF UpdTypes, ExtractZip
<1>f. dl' \in [pc : {"idle", "zip", "sum", "sig", "launch", "done", "over"}, cancel : BOOLEAN]
  BY <1>a DEF UpdTypes, ExtractZip, Unmoved
<1>1. UpdTypes'
  BY <1>b, <1>c, <1>d, <1>e, <1>f DEF UpdTypes
<1>2. Copied'
  BY <1>a, Goes, Rolls DEF UpdTypes, Copied, Stages, ExtractZip
<1>3. DownInv'
  BY <1>a DEF UpdTypes, DownInv, ExtractZip, Unmoved
<1>4. Vouched'
  BY <1>a, Goes, Rolls DEF UpdTypes, Vouched, Stages, BoxRec, ExtractZip, Unmoved
<1>5. StageInv'
  BY <1>a, Goes, Rolls DEF UpdTypes, Vouched, StageInv, Before, After, Cleared, OldKept, OldBack, TsfBack, TsfThere,
     TsfUntouched, Stages, BoxRec, ExtractZip
<1>6. Told'
  BY <1>a DEF UpdTypes, Told, BoxRec, ExtractZip, Unmoved
<1> QED BY <1>1, <1>2, <1>3, <1>4, <1>5, <1>6 DEF UpdInv

\* The marker vouches for the TSF library stashed beside the old one.
LEMMA MarkTsfKeeps ==
  ASSUME UpdInv, MarkTsf
  PROVE  UpdInv'
<1> USE DEF Torn, Parts, At
<1>a. UpdTypes /\ Copied /\ DownInv /\ Vouched /\ StageInv /\ Told
  BY DEF UpdInv
<1>b. box' \in BoxRec
  BY <1>a, BoxKeeps DEF UpdTypes, MarkTsf
<1>c. inst' \in InstRec
  BY <1>a, Goes, Rolls DEF UpdTypes, Stages, MarkTsf
<1>d. app' \in AppRec
  BY <1>a DEF UpdTypes, MarkTsf, Unmoved
<1>e. left' \in [fail : Nat, kill : Nat, start : Nat]
  BY <1>a, Lefts DEF UpdTypes, MarkTsf
<1>f. dl' \in [pc : {"idle", "zip", "sum", "sig", "launch", "done", "over"}, cancel : BOOLEAN]
  BY <1>a DEF UpdTypes, MarkTsf, Unmoved
<1>1. UpdTypes'
  BY <1>b, <1>c, <1>d, <1>e, <1>f DEF UpdTypes
<1>2. Copied'
  BY <1>a DEF UpdTypes, Copied, BoxRec, MarkTsf
<1>3. DownInv'
  BY <1>a DEF UpdTypes, DownInv, MarkTsf, Unmoved
<1>4. Vouched'
  BY <1>a DEF UpdTypes, Vouched, Stages, BoxRec, MarkTsf, Unmoved
<1>5. StageInv'
  BY <1>a, Goes, Rolls DEF UpdTypes, Vouched, StageInv, Before, After, Cleared, OldKept, OldBack, TsfBack, TsfThere,
     TsfUntouched, Stages, BoxRec, MarkTsf
<1>6. Told'
  BY <1>a DEF UpdTypes, Told, BoxRec, MarkTsf, Unmoved
<1> QED BY <1>1, <1>2, <1>3, <1>4, <1>5, <1>6 DEF UpdInv

\* The main process tells the user what the receipt or the failure mark says.
LEMMA ConsumeUpdateOutcomeKeeps ==
  ASSUME UpdInv, ConsumeUpdateOutcome
  PROVE  UpdInv'
<1> USE DEF Torn, Parts, At
<1>a. UpdTypes /\ Copied /\ DownInv /\ Vouched /\ StageInv /\ Told
  BY DEF UpdInv
<1>b. /\ \/ box' = [box EXCEPT !.failed = FALSE, !.ok = 0]
         \/ box' = [box EXCEPT !.ok = 0]
         \/ box' = [box EXCEPT !.failed = FALSE]
         \/ box' = box
      /\ Ok \/ Bad
      /\ app.pc = "consume" /\ app' = [app EXCEPT !.pc = "clean"] /\ mishaps' = mishaps
      /\ inst' = inst /\ dl' = dl /\ pkg' = pkg
  BY DEF ConsumeUpdateOutcome, Step, Aside
<1>i. box' \in BoxRec
  BY <1>a, <1>b, BoxKeeps DEF UpdTypes
<1>c. /\ box'.exe = box.exe /\ box'.lib = box.lib /\ box'.tsf = box.tsf /\ box'.pend = box.pend
      /\ box'.mark = box.mark /\ box'.oldexe = box.oldexe /\ box'.oldlib = box.oldlib /\ box'.park = box.park
  BY <1>a, <1>b DEF UpdTypes, BoxRec
<1>h. box'.failed = FALSE \/ box'.failed = box.failed
  BY <1>a, <1>b DEF UpdTypes, BoxRec
<1>d. app' \in AppRec /\ app'.pc = "clean" /\ app'.ver = app.ver
  BY <1>a, <1>b DEF UpdTypes, AppRec
<1>e. left' \in [fail : Nat, kill : Nat, start : Nat]
  BY <1>a, <1>b, Lefts
<1>1. UpdTypes'
  BY <1>a, <1>b, <1>d, <1>e, <1>i DEF UpdTypes
<1>2. Copied'
  BY <1>a, <1>b, <1>c DEF Copied
<1>3. DownInv'
  BY <1>a, <1>b, <1>d DEF DownInv
<1>4. Vouched'
  BY <1>a, <1>b, <1>c, <1>d DEF Vouched
<1>g. "crossed" \notin mishaps => inst.pc \in {"none", "wait"}
  BY <1>a, <1>b DEF Vouched
<1>5. StageInv'
  <2>1. Before => Before'
    BY <1>b, <1>c, <1>d DEF Before
  <2>2. After => After'
    BY <1>b, <1>c, <1>d, <1>h DEF After, Cleared
  <2> QED BY <1>a, <1>b, <1>g, <2>1, <2>2 DEF StageInv, Spoilt
<1>6. Told'
  <2> SUFFICES ASSUME mishaps \cap Spoilt = {}
               PROVE  /\ said' = "ok" => app.ver = 2
                      /\ said' = "failed" => app.ver = 1 \/ "failure kept" \in mishaps
    BY <1>a, <1>b, <1>c, <1>d DEF Told
  <2>1. app.ver = box.exe /\ (Before \/ After)
    BY <1>a, <1>b, <1>g DEF Told, StageInv, Spoilt
  <2>2. box.ok \in {0, 2} /\ box.failed \in BOOLEAN /\ app.ver \in {1, 2}
    BY <1>a DEF UpdTypes, BoxRec, AppRec
  <2>3. said' = IF box.failed THEN "failed"
                ELSE IF box.ok = 0 THEN "none" ELSE IF box.ok = app.ver THEN "ok" ELSE "failed"
    BY DEF ConsumeUpdateOutcome
  <2>4. app.ver = 1 \/ Cleared
    BY <2>1 DEF Before, After
  <2> QED BY <2>2, <2>3, <2>4 DEF Cleared
<1> QED BY <1>1, <1>2, <1>3, <1>4, <1>5, <1>6 DEF UpdInv

\* The user starts the program, possibly beside the installer.
LEMMA UserStartsKeeps ==
  ASSUME UpdInv, UserStarts
  PROVE  UpdInv'
<1> USE DEF Torn, Parts, At
<1>a. UpdTypes /\ Copied /\ DownInv /\ Vouched /\ StageInv /\ Told
  BY DEF UpdInv
<1>b. box' \in BoxRec
  BY <1>a DEF UpdTypes, UserStarts
<1>c. inst' \in InstRec
  BY <1>a DEF UpdTypes, UserStarts
<1>d. app' \in AppRec
  BY <1>a DEF UpdTypes, AppRec, BoxRec, Versions, Copied, UserStarts
<1>e. left' \in [fail : Nat, kill : Nat, start : Nat]
  BY <1>a, Lefts DEF UpdTypes, UserStarts
<1>f. dl' \in [pc : {"idle", "zip", "sum", "sig", "launch", "done", "over"}, cancel : BOOLEAN]
  BY <1>a DEF UpdTypes, UserStarts
<1>1. UpdTypes'
  BY <1>b, <1>c, <1>d, <1>e, <1>f DEF UpdTypes
<1>2. Copied'
  BY <1>a DEF UpdTypes, Copied, BoxRec, UserStarts
<1>3. DownInv'
  BY <1>a DEF UpdTypes, DownInv, UserStarts
<1>4. Vouched'
  BY <1>a DEF UpdTypes, Vouched, UserStarts
<1>5. StageInv'
  BY <1>a DEF UpdTypes, StageInv, Before, After, Cleared, Spoilt, UserStarts
<1>6. Told'
  BY <1>a DEF UpdTypes, Told, UserStarts
<1> QED BY <1>1, <1>2, <1>3, <1>4, <1>5, <1>6 DEF UpdInv

\* The user ends the program.
LEMMA UserQuitsKeeps ==
  ASSUME UpdInv, UserQuits
  PROVE  UpdInv'
<1> USE DEF Torn, Parts, At
<1>a. UpdTypes /\ Copied /\ DownInv /\ Vouched /\ StageInv /\ Told
  BY DEF UpdInv
<1>b. box' \in BoxRec
  BY <1>a DEF UpdTypes, UserQuits
<1>c. inst' \in InstRec
  BY <1>a DEF UpdTypes, UserQuits
<1>d. app' \in AppRec
  BY <1>a DEF UpdTypes, AppRec, BoxRec, Versions, Copied, UserQuits
<1>e. left' \in [fail : Nat, kill : Nat, start : Nat]
  BY <1>a, Lefts DEF UpdTypes, UserQuits
<1>f. dl' \in [pc : {"idle", "zip", "sum", "sig", "launch", "done", "over"}, cancel : BOOLEAN]
  BY <1>a DEF UpdTypes, UserQuits
<1>1. UpdTypes'
  BY <1>b, <1>c, <1>d, <1>e, <1>f DEF UpdTypes
<1>2. Copied'
  BY <1>a DEF UpdTypes, Copied, BoxRec, UserQuits
<1>3. DownInv'
  BY <1>a DEF UpdTypes, DownInv, UserQuits
<1>4. Vouched'
  BY <1>a DEF UpdTypes, Vouched, UserQuits
<1>5. StageInv'
  BY <1>a DEF UpdTypes, AppRec, StageInv, Before, After, Cleared, OldKept, OldBack, TsfBack, TsfThere, TsfUntouched,
     UserQuits
<1>6. Told'
  BY <1>a DEF UpdTypes, AppRec, Told, UserQuits
<1> QED BY <1>1, <1>2, <1>3, <1>4, <1>5, <1>6 DEF UpdInv

\* The main process is killed while it starts.
LEMMA MainEndedKeeps ==
  ASSUME UpdInv, MainEnded
  PROVE  UpdInv'
<1> USE DEF Torn, Parts, At
<1>a. UpdTypes /\ Copied /\ DownInv /\ Vouched /\ StageInv /\ Told
  BY DEF UpdInv
<1>b. box' \in BoxRec
  BY <1>a DEF UpdTypes, MainEnded
<1>c. inst' \in InstRec
  BY <1>a DEF UpdTypes, MainEnded
<1>d. app' \in AppRec
  BY <1>a DEF UpdTypes, AppRec, BoxRec, Versions, Copied, MainEnded
<1>e. left' \in [fail : Nat, kill : Nat, start : Nat]
  BY <1>a, Lefts DEF UpdTypes, MainEnded
<1>f. dl' \in [pc : {"idle", "zip", "sum", "sig", "launch", "done", "over"}, cancel : BOOLEAN]
  BY <1>a DEF UpdTypes, MainEnded
<1>1. UpdTypes'
  BY <1>b, <1>c, <1>d, <1>e, <1>f DEF UpdTypes
<1>2. Copied'
  BY <1>a DEF UpdTypes, Copied, BoxRec, MainEnded
<1>3. DownInv'
  BY <1>a DEF UpdTypes, DownInv, MainEnded
<1>4. Vouched'
  BY <1>a DEF UpdTypes, Vouched, AppRec, MainEnded
<1>5. StageInv'
  BY <1>a DEF UpdTypes, StageInv, Before, After, Cleared, OldKept, OldBack, TsfBack, TsfThere, TsfUntouched, Spoilt,
     AppRec, MainEnded
<1>6. Told'
  BY <1>a DEF UpdTypes, Told, AppRec, MainEnded
<1> QED BY <1>1, <1>2, <1>3, <1>4, <1>5, <1>6 DEF UpdInv

\* The pending TSF library takes the place of the old one, which comes back if it cannot.
LEMMA SwapPendingKeeps ==
  ASSUME UpdInv, SwapPending
  PROVE  UpdInv'
<1> USE DEF Torn, Parts, At
<1>a. UpdTypes /\ Copied /\ DownInv /\ Vouched /\ StageInv /\ Told
  BY DEF UpdInv
<1>b. box' \in BoxRec
  BY <1>a, BoxKeeps DEF UpdTypes, SwapPending, Step, Aside
<1>c. inst' \in InstRec
  BY <1>a DEF UpdTypes, SwapPending, Step, Aside
<1>d. app' \in AppRec
  BY <1>a DEF UpdTypes, AppRec, SwapPending, Step, Aside
<1>e. left' \in [fail : Nat, kill : Nat, start : Nat]
  <2>1. CASE left.fail > 1 /\ left' = [left EXCEPT !.fail = @ - 2]
    BY <1>a, <2>1 DEF UpdTypes
  <2> QED BY <1>a, <2>1, Lefts DEF SwapPending
<1>f. dl' \in [pc : {"idle", "zip", "sum", "sig", "launch", "done", "over"}, cancel : BOOLEAN]
  BY <1>a DEF UpdTypes, SwapPending, Step, Aside
<1>1. UpdTypes'
  BY <1>b, <1>c, <1>d, <1>e, <1>f DEF UpdTypes
<1>2. Copied'
  BY <1>a DEF UpdTypes, Copied, BoxRec, SwapPending, Step, Aside
<1>3. DownInv'
  BY <1>a DEF UpdTypes, DownInv, SwapPending, Step, Aside
<1>4. Vouched'
  BY <1>a DEF UpdTypes, Vouched, BoxRec, AppRec, SwapPending, Step, Aside
<1>5. StageInv'
  BY <1>a DEF UpdTypes, Vouched, StageInv, Before, After, Cleared, OldKept, OldBack, TsfBack, TsfThere, TsfUntouched,
     DownInv, Copied, Spoilt, BoxRec, AppRec, SwapPending, Step, Aside
<1>6. Told'
  BY <1>a DEF UpdTypes, Told, BoxRec, AppRec, SwapPending, Step, Aside
<1> QED BY <1>1, <1>2, <1>3, <1>4, <1>5, <1>6 DEF UpdInv

\* The TSF library that is in use is stashed, in whole or torn.
LEMMA StashTsfKeeps ==
  ASSUME UpdInv, StashTsf
  PROVE  UpdInv'
<1> USE DEF Torn, Parts, At
<1>a. UpdTypes /\ Copied /\ DownInv /\ Vouched /\ StageInv /\ Told
  BY DEF UpdInv
<1>b. box' \in BoxRec
  BY <1>a, BoxKeeps DEF UpdTypes, StashTsf
<1>c. inst' \in InstRec
  BY <1>a, Goes, Rolls DEF UpdTypes, Stages, StashTsf
<1>d. app' \in AppRec
  BY <1>a DEF UpdTypes, StashTsf, Unmoved
<1>e. left' \in [fail : Nat, kill : Nat, start : Nat]
  BY <1>a, Lefts DEF UpdTypes, StashTsf
<1>f. dl' \in [pc : {"idle", "zip", "sum", "sig", "launch", "done", "over"}, cancel : BOOLEAN]
  BY <1>a DEF UpdTypes, StashTsf, Unmoved
<1>1. UpdTypes'
  BY <1>b, <1>c, <1>d, <1>e, <1>f DEF UpdTypes
<1>2. Copied'
  BY <1>a DEF UpdTypes, Copied, BoxRec, StashTsf
<1>3. DownInv'
  BY <1>a DEF UpdTypes, DownInv, StashTsf, Unmoved
<1>4. Vouched'
  BY <1>a, Goes, Rolls DEF UpdTypes, Vouched, Stages, BoxRec, StashTsf, Unmoved
<1>5. StageInv'
  BY <1>a, Goes, Rolls DEF UpdTypes, Vouched, StageInv, Before, After, Cleared, OldKept, OldBack, TsfBack, TsfThere,
     TsfUntouched, Stages, BoxRec, StashTsf
<1>6. Told'
  BY <1>a DEF UpdTypes, Told, BoxRec, StashTsf, Unmoved
<1> QED BY <1>1, <1>2, <1>3, <1>4, <1>5, <1>6 DEF UpdInv

\* What is left of the update is cleaned up.
LEMMA CleanupOldUpdateFilesKeeps ==
  ASSUME UpdInv, CleanupOldUpdateFiles
  PROVE  UpdInv'
<1> USE DEF Torn, Parts, At
<1>a. UpdTypes /\ Copied /\ DownInv /\ Vouched /\ StageInv /\ Told
  BY DEF UpdInv
<1>b. box' \in BoxRec
  BY <1>a, BoxKeeps DEF UpdTypes, CleanupOldUpdateFiles, Step, Aside
<1>c. inst' \in InstRec
  BY <1>a DEF UpdTypes, CleanupOldUpdateFiles, Step, Aside
<1>d. app' \in AppRec
  BY <1>a DEF UpdTypes, AppRec, CleanupOldUpdateFiles, Step, Aside
<1>e. left' \in [fail : Nat, kill : Nat, start : Nat]
  BY <1>a, Lefts DEF UpdTypes, CleanupOldUpdateFiles, Step, Aside
<1>f. dl' \in [pc : {"idle", "zip", "sum", "sig", "launch", "done", "over"}, cancel : BOOLEAN]
  BY <1>a DEF UpdTypes, CleanupOldUpdateFiles, Step, Aside
<1>1. UpdTypes'
  BY <1>b, <1>c, <1>d, <1>e, <1>f DEF UpdTypes
<1>2. Copied'
  BY <1>a DEF UpdTypes, Copied, BoxRec, CleanupOldUpdateFiles, Step, Aside
<1>3. DownInv'
  BY <1>a DEF UpdTypes, DownInv, CleanupOldUpdateFiles, Step, Aside
<1>4. Vouched'
  BY <1>a DEF UpdTypes, Vouched, BoxRec, AppRec, CleanupOldUpdateFiles, Step, Aside
<1>5. StageInv'
  <2>1. app.pc = "clean" /\ app'.pc = "up" /\ inst' = inst /\ mishaps' = mishaps
    BY <1>a DEF UpdTypes, AppRec, CleanupOldUpdateFiles, Step, Aside
  <2>2. /\ box'.exe = box.exe /\ box'.lib = box.lib /\ box'.tsf = box.tsf /\ box'.pend = box.pend
        /\ box'.mark = box.mark /\ box'.ok = box.ok
    BY <1>a DEF UpdTypes, BoxRec, CleanupOldUpdateFiles
  <2>3. /\ box'.oldexe \in {box.oldexe, 0} /\ box'.oldlib \in {box.oldlib, 0}
    BY <1>a DEF UpdTypes, BoxRec, CleanupOldUpdateFiles
  <2>4. box'.failed = box.failed
    BY <1>a DEF UpdTypes, BoxRec, CleanupOldUpdateFiles
  <2>5. "crossed" \notin mishaps => inst.pc \in {"none", "wait"}
    BY <1>a, <2>1 DEF Vouched
  <2>6. Before => Before'
    BY <2>1, <2>2, <2>3 DEF Before
  <2>7. After => After'
    BY <2>1, <2>2, <2>4 DEF After, Cleared
  <2> QED BY <1>a, <2>1, <2>5, <2>6, <2>7 DEF StageInv, Spoilt
<1>6. Told'
  BY <1>a DEF UpdTypes, Told, Vouched, BoxRec, AppRec, CleanupOldUpdateFiles, Step, Aside
<1> QED BY <1>1, <1>2, <1>3, <1>4, <1>5, <1>6 DEF UpdInv

\* The main process looks for a pending TSF library and its marker.
LEMMA ApplyPendingKeeps ==
  ASSUME UpdInv, ApplyPending
  PROVE  UpdInv'
<1> USE DEF Torn, Parts, At
<1>a. UpdTypes /\ Copied /\ DownInv /\ Vouched /\ StageInv /\ Told
  BY DEF UpdInv
<1>b. box' \in BoxRec
  BY <1>a, BoxKeeps DEF UpdTypes, ApplyPending, Step, Aside
<1>c. inst' \in InstRec
  BY <1>a DEF UpdTypes, ApplyPending, Step, Aside
<1>d. app' \in AppRec
  BY <1>a DEF UpdTypes, AppRec, ApplyPending, Step, Aside
<1>e. left' \in [fail : Nat, kill : Nat, start : Nat]
  BY <1>a, Lefts DEF UpdTypes, ApplyPending, Step, Aside
<1>f. dl' \in [pc : {"idle", "zip", "sum", "sig", "launch", "done", "over"}, cancel : BOOLEAN]
  BY <1>a DEF UpdTypes, ApplyPending, Step, Aside
<1>1. UpdTypes'
  BY <1>b, <1>c, <1>d, <1>e, <1>f DEF UpdTypes
<1>2. Copied'
  BY <1>a DEF UpdTypes, Copied, BoxRec, ApplyPending, Step, Aside
<1>3. DownInv'
  BY <1>a DEF UpdTypes, DownInv, ApplyPending, Step, Aside
<1>4. Vouched'
  BY <1>a DEF UpdTypes, Vouched, BoxRec, AppRec, ApplyPending, Step, Aside
<1>5. StageInv'
  <2> SUFFICES ASSUME mishaps' \cap Spoilt = {} PROVE StageInv'
    BY DEF StageInv
  <2>1. /\ mishaps \cap Spoilt = {} /\ "unread" \notin mishaps' /\ "crossed" \notin mishaps
        /\ mishaps' = mishaps
    BY DEF ApplyPending, Spoilt
  <2>2. app.pc = "apply" /\ inst' = inst /\ inst.pc \in {"none", "wait"}
    BY <1>a, <2>1 DEF ApplyPending, Aside, Vouched
  <2>3. CASE Step("consume") /\ box' = box
    <3>1. app'.pc = "consume"
      BY <1>a, <2>3 DEF UpdTypes, AppRec, Step
    <3> QED BY <1>a, <2>1, <2>2, <2>3, <3>1 DEF StageInv, Before, After, Cleared
  <2>4. CASE Step("consume") /\ box' = [box EXCEPT !.pend = 0, !.mark = 0]
    <3>1. app'.pc = "consume"
      BY <1>a, <2>4 DEF UpdTypes, AppRec, Step
    <3>2. /\ box'.exe = box.exe /\ box'.lib = box.lib /\ box'.tsf = box.tsf /\ box'.pend = 0
          /\ box'.mark = 0 /\ box'.ok = box.ok /\ box'.oldexe = box.oldexe /\ box'.oldlib = box.oldlib
      BY <1>a, <2>4 DEF UpdTypes, BoxRec
    <3>3. box'.failed = box.failed
      BY <1>a, <2>4 DEF UpdTypes, BoxRec
    <3>4. ~(box.pend # 0 /\ box.mark = box.pend)
      BY <2>1, <3>2 DEF ApplyPending
    <3>5. Before => Before'
      BY <3>1, <3>2 DEF Before
    <3>6. After => After'
      BY <2>1, <2>2, <3>1, <3>2, <3>3, <3>4 DEF After, Cleared
    <3> QED BY <1>a, <2>1, <2>2, <3>5, <3>6 DEF StageInv
  <2>5. CASE /\ box.pend # 0 /\ box.mark = box.pend /\ box.tsf # 0 /\ Step("swap")
             /\ box' = [box EXCEPT !.swapped = box.tsf, !.tsf = 0]
    <3>1. app'.pc = "swap"
      BY <1>a, <2>5 DEF UpdTypes, AppRec, Step
    <3>2. /\ box'.exe = box.exe /\ box'.lib = box.lib /\ box'.tsf = 0 /\ box'.swapped = box.tsf /\ box'.ok = box.ok
      BY <1>a, <2>5 DEF UpdTypes, BoxRec
    <3>3. box'.failed = box.failed
      BY <1>a, <2>5 DEF UpdTypes, BoxRec
    <3>4. inst.pc = "none" /\ After
      BY <1>a, <2>1, <2>2, <2>5 DEF StageInv, Before
    <3>5. After'
      BY <2>1, <2>2, <3>1, <3>2, <3>3, <3>4 DEF After, Cleared
    <3> QED BY <2>2, <3>4, <3>5 DEF StageInv
  <2> QED BY <2>3, <2>4, <2>5 DEF ApplyPending
<1>6. Told'
  BY <1>a DEF UpdTypes, Told, Vouched, StageInv, Before, After, Cleared, OldKept, OldBack, TsfBack, TsfThere,
     TsfUntouched, Copied, Spoilt, BoxRec, AppRec, ApplyPending, Step, Aside
<1> QED BY <1>1, <1>2, <1>3, <1>4, <1>5, <1>6 DEF UpdInv

\* All old files are renamed.
LEMMA BackUpDoneKeeps ==
  ASSUME UpdInv, AllDone("backup", "copy")
  PROVE  UpdInv'
<1> USE DEF Torn, Parts, At
<1>a. UpdTypes /\ Copied /\ DownInv /\ Vouched /\ StageInv /\ Told
  BY DEF UpdInv
<1>b. /\ inst' \in InstRec /\ inst'.pc = "copy" /\ inst'.todo = Parts /\ inst'.parked = inst.parked
      /\ inst.pc = "backup" /\ inst.todo = {}
  BY <1>a, Goes DEF AllDone, Stages
<1>c. UNCHANGED <<app, dl, said, box, pkg, left, mishaps>>
  BY DEF AllDone, Unmoved
<1>1. UpdTypes'
  BY <1>a, <1>b, <1>c DEF UpdTypes
<1>2. Copied'
  BY <1>a, <1>b, <1>c DEF Copied
<1>3. DownInv'
  BY <1>a, <1>b, <1>c DEF DownInv
<1>4. Vouched'
  BY <1>a, <1>b, <1>c DEF Vouched
<1>5. StageInv'
  BY <1>a, <1>b, <1>c DEF StageInv, OldKept, TsfUntouched
<1>6. Told'
  BY <1>a, <1>b, <1>c DEF Told
<1> QED BY <1>1, <1>2, <1>3, <1>4, <1>5, <1>6 DEF UpdInv

\* All new files are copied.
LEMMA CopyDoneKeeps ==
  ASSUME UpdInv, AllDone("copy", "tsf")
  PROVE  UpdInv'
<1> USE DEF Torn, Parts, At
<1>a. UpdTypes /\ Copied /\ DownInv /\ Vouched /\ StageInv /\ Told
  BY DEF UpdInv
<1>b. /\ inst' \in InstRec /\ inst'.pc = "tsf" /\ inst'.todo = Parts /\ inst'.parked = inst.parked
      /\ inst.pc = "copy" /\ inst.todo = {}
  BY <1>a, Goes DEF AllDone, Stages
<1>c. UNCHANGED <<app, dl, said, box, pkg, left, mishaps>>
  BY DEF AllDone, Unmoved
<1>1. UpdTypes'
  BY <1>a, <1>b, <1>c DEF UpdTypes
<1>2. Copied'
  BY <1>a, <1>b, <1>c DEF Copied
<1>3. DownInv'
  BY <1>a, <1>b, <1>c DEF DownInv
<1>4. Vouched'
  BY <1>a, <1>b, <1>c DEF Vouched
<1>5. StageInv'
  BY <1>a, <1>b, <1>c DEF StageInv, OldKept, TsfUntouched
<1>6. Told'
  BY <1>a, <1>b, <1>c DEF Told
<1> QED BY <1>1, <1>2, <1>3, <1>4, <1>5, <1>6 DEF UpdInv

\* All old files are back.
LEMMA RestoreDoneKeeps ==
  ASSUME UpdInv, AllDone("undo", "undotsf")
  PROVE  UpdInv'
<1> USE DEF Torn, Parts, At
<1>a. UpdTypes /\ Copied /\ DownInv /\ Vouched /\ StageInv /\ Told
  BY DEF UpdInv
<1>b. /\ inst' \in InstRec /\ inst'.pc = "undotsf" /\ inst'.todo = Parts /\ inst'.parked = inst.parked
      /\ inst.pc = "undo" /\ inst.todo = {}
  BY <1>a, Goes DEF AllDone, Stages
<1>c. UNCHANGED <<app, dl, said, box, pkg, left, mishaps>>
  BY DEF AllDone, Unmoved
<1>1. UpdTypes'
  BY <1>a, <1>b, <1>c DEF UpdTypes
<1>2. Copied'
  BY <1>a, <1>b, <1>c DEF Copied
<1>3. DownInv'
  BY <1>a, <1>b, <1>c DEF DownInv
<1>4. Vouched'
  BY <1>a, <1>b, <1>c DEF Vouched
<1>5. StageInv'
  BY <1>a, <1>b, <1>c DEF StageInv, OldBack, TsfBack
<1>6. Told'
  BY <1>a, <1>b, <1>c DEF Told
<1> QED BY <1>1, <1>2, <1>3, <1>4, <1>5, <1>6 DEF UpdInv

\* One file is renamed; a failure rolls back the ones before it.
LEMMA BackUpKeeps ==
  ASSUME UpdInv, NEW f \in Parts, BackUp(f)
  PROVE  UpdInv'
<1> USE DEF Torn, Parts, At
<1>a. UpdTypes /\ Copied /\ DownInv /\ Vouched /\ StageInv /\ Told
  BY DEF UpdInv
<1>b. inst' \in InstRec /\ inst'.pc = "backup" /\ inst'.todo = inst.todo \ {f} /\ inst'.parked = inst.parked
  BY <1>a DEF UpdTypes, InstRec, BackUp
<1>c. /\ inst.pc = "backup" /\ f \in inst.todo /\ UNCHANGED <<app, dl, said, pkg>>
  BY DEF BackUp, Unmoved
<1>d. /\ box' \in BoxRec /\ box'.tsf = box.tsf /\ box'.pend = box.pend /\ box'.mark = box.mark
  <2>1. CASE box' = box
    BY <1>a, <2>1 DEF UpdTypes
  <2>2. CASE box' = [box EXCEPT ![Old(f)] = box[f], ![f] = 0]
    BY <1>a, <2>2 DEF UpdTypes, BoxRec, Versions, Old
  <2>3. CASE box' = [box EXCEPT ![Old(f)] = 0]
    BY <1>a, <2>3 DEF UpdTypes, BoxRec, Versions, Old
  <2> QED BY <2>1, <2>2, <2>3 DEF BackUp
<1>e. UpdTypes'
  BY <1>a, <1>b, <1>c, <1>d, Lefts DEF UpdTypes, BackUp
<1>2. Copied'
  BY <1>b DEF Copied
<1>3. DownInv'
  BY <1>a, <1>b, <1>c DEF DownInv, BackUp
<1>4. Vouched'
  BY <1>a, <1>b, <1>c, <1>d DEF Vouched, BackUp
<1>5. StageInv'
  <2> SUFFICES ASSUME mishaps' \cap Spoilt = {} PROVE StageInv'
    BY DEF StageInv
  <2>1. mishaps \cap Spoilt = {} /\ "no backup" \notin mishaps'
    BY DEF BackUp, Spoilt
  <2>2. /\ TsfUntouched /\ box.pend = 0 /\ box.mark = 0
        /\ IF "exe" \in inst.todo THEN box.exe = 1 /\ box.oldexe = 0 ELSE box.oldexe = 1
        /\ IF "lib" \in inst.todo THEN box.lib = 1 /\ box.oldlib = 0 ELSE box.oldlib = 1
    BY <1>a, <1>c, <2>1 DEF StageInv
  <2>3. box[f] = 1 /\ box[f] # 0
    BY <1>c, <2>2
  <2>4. box' = [box EXCEPT ![Old(f)] = box[f], ![f] = 0]
    BY <2>1, <2>3, Zenon DEF BackUp
  <2>5. /\ f = "exe" => box'.oldexe = 1 /\ box'.lib = box.lib /\ box'.oldlib = box.oldlib
        /\ f = "lib" => box'.oldlib = 1 /\ box'.exe = box.exe /\ box'.oldexe = box.oldexe
    BY <1>a, <2>3, <2>4 DEF UpdTypes, BoxRec, Old
  <2>6. TsfUntouched' /\ box'.pend = 0 /\ box'.mark = 0
    BY <1>b, <1>d, <2>2 DEF TsfUntouched
  <2>7. IF "exe" \in inst'.todo THEN box'.exe = 1 /\ box'.oldexe = 0 ELSE box'.oldexe = 1
    BY <1>b, <2>2, <2>5
  <2>8. IF "lib" \in inst'.todo THEN box'.lib = 1 /\ box'.oldlib = 0 ELSE box'.oldlib = 1
    BY <1>b, <2>2, <2>5
  <2> QED BY <1>b, <2>6, <2>7, <2>8 DEF StageInv
<1>6. Told'
  BY <1>a, <1>c, <1>b DEF Told, Vouched, Spoilt, BackUp
<1> QED BY <1>e, <1>2, <1>3, <1>4, <1>5, <1>6 DEF UpdInv

\* One new file is copied; a failure rolls everything back.
LEMMA CopyKeeps ==
  ASSUME UpdInv, NEW f \in Parts, CopyDirectoryContents(f)
  PROVE  UpdInv'
<1> USE DEF Torn, Parts, At
<1>a. UpdTypes /\ Copied /\ DownInv /\ Vouched /\ StageInv /\ Told
  BY DEF UpdInv
<1>b. /\ inst.pc = "copy" /\ f \in inst.todo /\ UNCHANGED <<app, dl, said, pkg, mishaps>>
  BY DEF CopyDirectoryContents, Unmoved
<1>c. /\ inst' \in InstRec /\ inst'.parked = inst.parked
      /\ \/ inst'.pc = "copy" /\ inst'.todo = inst.todo \ {f} /\ box' = [box EXCEPT ![f] = 2]
         \/ inst'.pc = "undo" /\ inst'.todo = Parts
  <2>1. CASE inst' = [inst EXCEPT !.todo = @ \ {f}] /\ box' = [box EXCEPT ![f] = 2]
    BY <1>a, <1>b, <2>1 DEF UpdTypes, InstRec
  <2>2. CASE GoTo("undo")
    BY <1>a, <2>2, Goes DEF Stages
  <2> QED BY <1>a, <2>1, <2>2, Rolls DEF CopyDirectoryContents
<1>d. /\ box' \in BoxRec /\ box'.tsf = box.tsf /\ box'.pend = box.pend /\ box'.mark = box.mark
      /\ box'.oldexe = box.oldexe /\ box'.oldlib = box.oldlib
  <2>1. box \in BoxRec
    BY <1>a DEF UpdTypes
  <2>2. box' = box \/ \E v \in Versions : box' = [box EXCEPT ![f] = v]
    BY DEF CopyDirectoryContents, Versions
  <2>3. ASSUME NEW v \in Versions, box' = [box EXCEPT ![f] = v]
        PROVE  /\ box' \in BoxRec /\ box'.tsf = box.tsf /\ box'.pend = box.pend /\ box'.mark = box.mark
               /\ box'.oldexe = box.oldexe /\ box'.oldlib = box.oldlib
    <3>1. CASE f = "exe"
      BY <2>1, <2>3, <3>1 DEF BoxRec
    <3>2. CASE f = "lib"
      BY <2>1, <2>3, <3>2 DEF BoxRec
    <3> QED BY <3>1, <3>2
  <2> QED BY <2>1, <2>2, <2>3
<1>1. UpdTypes'
  BY <1>a, <1>b, <1>c, <1>d, Lefts DEF UpdTypes, CopyDirectoryContents
<1>2. Copied'
  <2>1. box' = [box EXCEPT ![f] = 2] => box'[f] = 2 /\ \A g \in Parts \ {f} : box'[g] = box[g]
    BY <1>a DEF UpdTypes, BoxRec
  <2> QED BY <1>a, <1>b, <1>c, <2>1 DEF Copied
<1>3. DownInv'
  BY <1>a, <1>b, <1>c DEF DownInv
<1>4. Vouched'
  BY <1>a, <1>b, <1>c, <1>d DEF Vouched
<1>5. StageInv'
  BY <1>a, <1>b, <1>c, <1>d DEF StageInv, OldKept, TsfUntouched, TsfBack
<1>6. Told'
  BY <1>a, <1>b DEF Told, Vouched, Spoilt
<1> QED BY <1>1, <1>2, <1>3, <1>4, <1>5, <1>6 DEF UpdInv

\* One old file is brought back.
LEMMA RestoreBackupKeeps ==
  ASSUME UpdInv, NEW f \in Parts, RestoreBackup(f)
  PROVE  UpdInv'
<1> USE DEF Torn, Parts, At
<1>a. UpdTypes /\ Copied /\ DownInv /\ Vouched /\ StageInv /\ Told
  BY DEF UpdInv
<1>b. inst' \in InstRec /\ inst'.pc = "undo" /\ inst'.todo = inst.todo \ {f} /\ inst'.parked = inst.parked
  BY <1>a DEF UpdTypes, InstRec, RestoreBackup
<1>c. /\ inst.pc = "undo" /\ f \in inst.todo /\ UNCHANGED <<app, dl, said, pkg>>
  BY DEF RestoreBackup, Unmoved
<1>d. /\ box' \in BoxRec /\ box'.tsf = box.tsf /\ box'.pend = box.pend /\ box'.mark = box.mark /\ box'.park = box.park
  BY <1>a DEF RestoreBackup, UpdTypes, BoxRec, Versions, Old
<1>1. UpdTypes'
  BY <1>a, <1>b, <1>c, <1>d, Lefts DEF UpdTypes, RestoreBackup
<1>2. Copied'
  BY <1>b DEF Copied
<1>3. DownInv'
  BY <1>a, <1>b, <1>c DEF DownInv, RestoreBackup
<1>4. Vouched'
  BY <1>a, <1>b, <1>c, <1>d DEF Vouched, RestoreBackup
<1>5. StageInv'
  <2> SUFFICES ASSUME mishaps' \cap Spoilt = {} PROVE StageInv'
    BY DEF StageInv
  <2>1. mishaps \cap Spoilt = {} /\ "no way back" \notin mishaps'
    BY DEF RestoreBackup, Spoilt
  <2>2. /\ TsfBack
        /\ IF "exe" \in inst.todo THEN box.oldexe = 1 ELSE box.exe = 1 /\ box.oldexe = 0
        /\ IF "lib" \in inst.todo THEN box.oldlib = 1 ELSE box.lib = 1 /\ box.oldlib = 0
    BY <1>a, <1>c, <2>1 DEF StageInv
  <2>3. box[Old(f)] = 1 /\ box[Old(f)] # 0
    BY <1>c, <2>2 DEF Old
  <2>4. box' = [box EXCEPT ![f] = box[Old(f)], ![Old(f)] = 0]
    BY <2>1, <2>3, Zenon DEF RestoreBackup
  <2>5. /\ f = "exe" => box'.exe = 1 /\ box'.oldexe = 0 /\ box'.lib = box.lib /\ box'.oldlib = box.oldlib
        /\ f = "lib" => box'.lib = 1 /\ box'.oldlib = 0 /\ box'.exe = box.exe /\ box'.oldexe = box.oldexe
    BY <1>a, <2>3, <2>4 DEF UpdTypes, BoxRec, Old
  <2>6. TsfBack'
    BY <1>b, <1>d, <2>2 DEF TsfBack
  <2>7. IF "exe" \in inst'.todo THEN box'.oldexe = 1 ELSE box'.exe = 1 /\ box'.oldexe = 0
    BY <1>b, <2>2, <2>5
  <2>8. IF "lib" \in inst'.todo THEN box'.oldlib = 1 ELSE box'.lib = 1 /\ box'.oldlib = 0
    BY <1>b, <2>2, <2>5
  <2> QED BY <1>b, <2>6, <2>7, <2>8 DEF StageInv
<1>6. Told'
  BY <1>a, <1>c, <1>b DEF Told, Vouched, Spoilt, RestoreBackup
<1> QED BY <1>1, <1>2, <1>3, <1>4, <1>5, <1>6 DEF UpdInv

\* The installer is killed: cut off only if its files are under way.
LEMMA InstallerEndedKeeps ==
  ASSUME UpdInv, InstallerEnded
  PROVE  UpdInv'
<1> USE DEF Torn, Parts, At
<1>a. UpdTypes /\ Copied /\ DownInv /\ Vouched /\ StageInv /\ Told
  BY DEF UpdInv
<1>b. inst' = NoInst /\ inst.pc # "none" /\ UNCHANGED <<app, dl, said, pkg>> /\ mishaps \subseteq mishaps'
      /\ mishaps' \subseteq mishaps \cup {"cut off"}
  BY DEF InstallerEnded
<1>c. /\ box' \in BoxRec /\ box'.mark = box.mark /\ (box'.pend = box.pend \/ inst.pc = "pend")
  <2>1. CASE box' = box
    BY <1>a, <2>1 DEF UpdTypes
  <2>2. CASE inst.pc = "copy" /\ \E f \in inst.todo : box' = [box EXCEPT ![f] = Torn]
    BY <1>a, <2>2 DEF UpdTypes, InstRec, BoxRec, Versions
  <2>3. CASE inst.pc = "tsfcopy" /\ box' = [box EXCEPT !["tsf"] = Torn]
    BY <1>a, <2>3 DEF UpdTypes, BoxRec, Versions
  <2>4. CASE inst.pc = "pend" /\ box' = [box EXCEPT !["pend"] = Torn]
    BY <1>a, <2>4 DEF UpdTypes, BoxRec, Versions
  <2> QED BY <2>1, <2>2, <2>3, <2>4 DEF InstallerEnded
<1>1. UpdTypes'
  BY <1>a, <1>b, <1>c, Lefts, NoInstFacts DEF UpdTypes, InstallerEnded
<1>2. Copied'
  BY <1>b, NoInstFacts DEF Copied
<1>3. DownInv'
  BY <1>a, <1>b, NoInstFacts DEF DownInv
<1>4. Vouched'
  BY <1>a, <1>b, <1>c, NoInstFacts DEF Vouched
<1>d. mishaps' \cap Spoilt = {} =>
        /\ mishaps \cap Spoilt = {} /\ inst.pc \in {"wait", "verify", "extract", "relaunch"} /\ box' = box
  BY <1>b DEF InstallerEnded, Spoilt
<1>5. StageInv'
  <2> SUFFICES ASSUME mishaps' \cap Spoilt = {} PROVE Before' \/ After'
    BY <1>b, NoInstFacts DEF StageInv
  <2>1. CASE inst.pc = "relaunch"
    <3>1. app.pc = "down"
      BY <1>a, <1>d, <2>1 DEF Vouched, Spoilt
    <3>2. /\ box.exe = 2 /\ box.lib = 2 /\ Cleared /\ TsfThere
      BY <1>a, <1>d, <2>1 DEF Copied, StageInv
    <3>3. mishaps \subseteq mishaps'
      BY DEF InstallerEnded
    <3> QED BY <1>b, <1>d, <3>1, <3>2, <3>3 DEF After, Cleared, TsfThere
  <2>2. CASE inst.pc # "relaunch"
    <3>1. Before
      BY <1>a, <1>d, <2>2 DEF StageInv
    <3> QED BY <1>b, <1>d, <3>1 DEF Before
  <2> QED BY <2>1, <2>2
<1>6. Told'
  BY <1>a, <1>b, <1>d DEF Told
<1> QED BY <1>1, <1>2, <1>3, <1>4, <1>5, <1>6 DEF UpdInv

-----------------------------------------------------------------------------
(* The behaviours.                                                          *)

\* The invariant holds of the version installed before the update.
LEMMA UpdStart == UInit => UpdInv
<1> SUFFICES ASSUME UInit PROVE UpdInv
  OBVIOUS
<1> USE DEF UInit, NoInst, At
<1>1. UpdTypes
  BY UpdateAssumption DEF UpdTypes, BoxRec, Versions, InstRec, AppRec, Stages, Parts
<1>2. Copied /\ DownInv /\ Vouched
  BY DEF Copied, DownInv, Vouched
<1>3. StageInv /\ Told
  BY DEF StageInv, Before, Told
<1> QED BY <1>1, <1>2, <1>3 DEF UpdInv

\* Every step of installer, main process, download and user keeps it.
LEMMA UpdStep == UpdInv /\ [UNext]_uvars => UpdInv'
<1> SUFFICES ASSUME UpdInv, [UNext]_uvars PROVE UpdInv'
  OBVIOUS
<1>1. CASE UNCHANGED uvars
  <2>1. UpdTypes' /\ Copied' /\ DownInv' /\ Vouched' /\ Told'
    BY <1>1 DEF uvars, UpdInv, UpdTypes, Copied, DownInv, Vouched, Told, At
  <2>2. StageInv'
    BY <1>1, Zenon DEF uvars, UpdInv, StageInv, Before, After, Cleared, OldKept, OldBack, TsfBack, TsfThere,
       TsfUntouched, At
  <2> QED BY <2>1, <2>2 DEF UpdInv
<1>2. CASE Installer
  BY <1>2, WaitForOtherProcessesKeeps, VerifyPackageKeeps, ExtractZipKeeps, BackUpKeeps, CopyKeeps,
     RestoreBackupKeeps, BackUpDoneKeeps, CopyDoneKeeps, RestoreDoneKeeps, ParkTsfKeeps, CopyTsfKeeps,
     StashTsfKeeps, MarkTsfKeeps, ReceiptKeeps, RelaunchKeeps, RestoreTsfKeeps, RollbackEndKeeps DEF
     Installer
<1>3. CASE Main
  BY <1>3, ApplyPendingKeeps, SwapPendingKeeps, ConsumeUpdateOutcomeKeeps, CleanupOldUpdateFilesKeeps DEF
     Main
<1> QED
  BY <1>1, <1>2, <1>3, ShowUpdateDialogKeeps, DownloadFileKeeps, VerifyDownloadedZipKeeps,
     VerifySignedUpdateZipKeeps, DownloadAndLaunchInstallerKeeps, ShowProgressDialogKeeps,
     DownloadWithProgressKeeps, UserStartsKeeps, UserQuitsKeeps, InstallerEndedKeeps, MainEndedKeeps DEF
     UNext

(* An update leaves one version installed: program, library and TSF library   *)
(* (or a vouched-for one waiting to be swapped in) are all old or all new     *)
(* whenever installer and main process are at rest, whichever check, copy or  *)
(* start failed and wherever the roll-back began (RunUpdateInstaller,         *)
(* RollbackRestoreAndExit, ApplyPendingDllUpdate).  Excepted are the mishaps  *)
(* in Spoilt: a file that could not be moved or brought back, an installer    *)
(* ended or the program started in the middle of it, a hash not readable at   *)
(* the start.  A library whose copy was cut off is never put in place.        *)
THEOREM UpdateStaysWhole == USpec => []UpdateIsWhole
<1>1. UpdInv => UpdateIsWhole
  <2> SUFFICES ASSUME UpdInv PROVE UpdateIsWhole
    OBVIOUS
  <2>1. UTypeOK
    <3>1. DOMAIN box \ {"temp", "failed"} =
            {"exe", "lib", "tsf", "pend", "mark", "oldexe", "oldlib", "park", "swapped", "ok"}
      BY DEF UpdInv, UpdTypes, BoxRec
    <3>2. \A f \in DOMAIN box \ {"temp", "failed"} : box[f] \in {0, 1, 2, Torn}
      BY <3>1 DEF UpdInv, UpdTypes, BoxRec, Versions
    <3>3. \A k \in DOMAIN left : left[k] \in Nat
      BY DEF UpdInv, UpdTypes
    <3> QED BY <3>2, <3>3 DEF UTypeOK, UpdInv, UpdTypes, InstRec, AppRec
  <2>2. OneVersion
    BY DEF OneVersion, AtRest, UpdInv, StageInv, Before, After
  <2>3. OnlyVouchedFor
    BY DEF OnlyVouchedFor, UpdInv, Vouched
  <2> QED BY <2>1, <2>2, <2>3 DEF UpdateIsWhole
<1> QED BY <1>1, UpdStart, UpdStep, PTL DEF USpec

(* What the user is told of an update is what is installed, outside the same  *)
(* mishaps (ConsumeUpdateOutcome), and a download that is cancelled before    *)
(* its last check launches no installer and leaves no package                 *)
(* (DownloadAndLaunchInstaller).                                              *)
THEOREM TheUserIsTold == USpec => []UserIsTold
<1>1. UpdInv => UserIsTold
  <2> SUFFICES ASSUME UpdInv PROVE UserIsTold
    OBVIOUS
  <2>1. ToldTrue
    <3> SUFFICES ASSUME app.pc = "up", mishaps \cap Spoilt = {}
                 PROVE  /\ said = "ok" => app.ver = 2 /\ box.exe = 2 /\ box.lib = 2 /\ (box.tsf = 2 \/ box.pend = 2)
                        /\ said = "failed" => app.ver = 1 \/ "failure kept" \in mishaps
      BY DEF ToldTrue
    <3>1. /\ app.ver = box.exe /\ (said = "ok" => app.ver = 2)
          /\ said = "failed" => app.ver = 1 \/ "failure kept" \in mishaps
      BY DEF UpdInv, Told
    <3>2. inst.pc \in {"none", "wait"}
      BY DEF UpdInv, Vouched, Spoilt
    <3>3. Before \/ After
      BY <3>2 DEF UpdInv, StageInv
    <3> QED BY <3>1, <3>3 DEF Before, After
  <2>2. CancelKept
    BY DEF CancelKept, UpdInv, DownInv
  <2> QED BY <2>1, <2>2 DEF UserIsTold
<1> QED BY <1>1, UpdStart, UpdStep, PTL DEF USpec
=============================================================================
