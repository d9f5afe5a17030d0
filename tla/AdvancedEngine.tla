---------------------------- MODULE AdvancedEngine --------------------------
(***************************************************************************)
(* The advanced engine: a library that is downloaded with its signature    *)
(* into the program's directory when the user asks for it, or at a start   *)
(* whose configuration asks for it.  The main process and the settings     *)
(* process may both be at it; they and the hosts of the text service load  *)
(* what lies there, once in the life of a process.                         *)
(***************************************************************************)
EXTENDS Naturals

CONSTANTS KMaxRedirects,   \* kMaxRedirects
          Budgets          \* bounds: how many calls fail or files are spoilt, how often
                           \* the user asks for the engine and copies files himself

Askers == {"main", "settings"}
Typers == {"main", "tsf"}
Users  == Askers \cup Typers

VARIABLES
  pair,    \* [dll, sig]: what the engine and the signature on disk belong to
  lib,     \* of each process: [state, kind] of its copy of the library
  desk,    \* of each asker: where EnsureInstalledWithUi is, and its worker
  level,   \* the level in the configuration file
  using,   \* the level a typing process has taken over
  eng,     \* the engine it types with; "none" while it is being created
  spare,   \* what is left of the bounds
  sins     \* what has happened that the properties set apart

avars == <<pair, lib, desk, level, using, eng, spare, sins>>

(* A release this build trusts, this build's release, another or spoilt file. *)
Kinds    == {"none", "old", "new", "bad"}
Unloaded == [state |-> "fresh", kind |-> "none"]
Failed   == [state |-> "failed", kind |-> "none"]
(* dll and sig are the staging files; they are gone when it is over. *)
AtDesk   == [pc |-> "idle", why |-> "ask", dll |-> "none", sig |-> "none",
             hops |-> 0, cancel |-> FALSE, saw |-> FALSE]

AInit ==
  /\ pair \in {[dll |-> "none", sig |-> "none"], [dll |-> "old", sig |-> "old"],
               [dll |-> "new", sig |-> "none"], [dll |-> "old", sig |-> "new"]}
  /\ lib = [p \in Users |-> Unloaded]
  /\ desk = [p \in Askers |-> IF p = "main" THEN [AtDesk EXCEPT !.pc = "down"] ELSE AtDesk]
  /\ level \in {"standard", "advanced"}
  /\ using = [p \in Typers |-> "standard"] /\ eng = [p \in Typers |-> "cpp"]
  /\ spare \in Budgets /\ sins = {}

Well   == spare' = spare
Mishap == spare.mishaps > 0 /\ spare' = [spare EXCEPT !.mishaps = @ - 1]
Sin(s) == sins' = sins \cup {s}

(* VerifyRustEngineFileHandle: the engine's digest under the signature.  The
   signature of a release below the floor counts as "bad". *)
VerifyRustEngineFileHandle(dll, sig) == dll = sig /\ dll \in {"old", "new"}
Trusted(f) == VerifyRustEngineFileHandle(f.dll, f.sig)

(* Mutant: the engine is opened so that others may write to it. *)
LockedOnceLoaded == \E p \in Users : lib[p].state = "loaded"

(* An engine that is open for verification or loaded cannot be replaced. *)
Locked == \E p \in Users : lib[p].state \in {"verified", "loaded"}

Moves(p, pc)  == desk' = [desk EXCEPT ![p].pc = pc]
Leave(p)      == desk' = [desk EXCEPT ![p] = AtDesk]
Stands(p, pc) == desk[p].pc = pc

(***************************************************************************)
(* A process loads the library: RustInputEngine::Api, once.                *)
(***************************************************************************)
(* An engine is to be created, or the installation is to be tried; a host of
   the text service also compiles the dictionary at every level. *)
Wanted(p) == (p \in Askers /\ Stands(p, "load")) \/ (p = "main" /\ eng[p] = "none") \/ p = "tsf"

(* EngineFactory::Create, with the outcome of Api. *)
Create(p, state) ==
  IF p \in Typers /\ eng[p] = "none"
  THEN eng' = [eng EXCEPT ![p] = IF state = "loaded" THEN "rust" ELSE "cpp"]
  ELSE eng' = eng

(* LoadRustEngineLibrary up to the verification. *)
OpenLibrary(p) ==
  /\ Wanted(p) /\ lib[p].state = "fresh"
  /\ \/ /\ Trusted(pair) /\ Well
        /\ lib' = [lib EXCEPT ![p] = [state |-> "verified", kind |-> pair.dll]]
        /\ UNCHANGED <<eng, sins>>
     \/ /\ ~Trusted(pair) /\ Well /\ sins' = sins
        /\ lib' = [lib EXCEPT ![p] = Failed] /\ Create(p, "failed")
     \/ /\ Trusted(pair) /\ Mishap /\ Sin("latched")
        /\ lib' = [lib EXCEPT ![p] = Failed] /\ Create(p, "failed")
  /\ UNCHANGED <<pair, desk, level, using>>

(* The rest of it, the symbols, the ABI and the runtime's own check. *)
LoadLibrary(p) ==
  /\ lib[p].state = "verified"
  /\ \/ /\ Well /\ sins' = sins
        /\ lib' = [lib EXCEPT ![p] = [state |-> "loaded", kind |-> pair.dll]] /\ Create(p, "loaded")
     \/ /\ Mishap /\ Sin("latched")
        /\ lib' = [lib EXCEPT ![p] = Failed] /\ Create(p, "failed")
  /\ UNCHANGED <<pair, desk, level, using>>

(* A typing process takes over the level and creates an engine for it. *)
TakeOver(p) ==
  /\ using[p] # level /\ eng[p] # "none" /\ (p = "main" => ~Stands(p, "down") /\ desk[p].why = "ask")
  /\ using' = [using EXCEPT ![p] = level]
  /\ eng' = [eng EXCEPT ![p] =
       IF level = "standard" \/ lib[p].state = "failed" THEN "cpp"
       ELSE IF lib[p].state = "loaded" THEN "rust" ELSE "none"]
  /\ UNCHANGED <<pair, lib, desk, level, spare, sins>>

(***************************************************************************)
(* EnsureInstalledWithUi.                                                  *)
(***************************************************************************)
(* The level "advanced" is picked in the menu or in the dialog. *)
ApplySpellCheckLevel(p) ==
  /\ Stands(p, "idle") /\ level # "advanced" /\ spare.asks > 0
  /\ spare' = [spare EXCEPT !.asks = @ - 1]
  /\ desk' = [desk EXCEPT ![p] = [AtDesk EXCEPT !.pc = "check"]]
  /\ UNCHANGED <<pair, lib, level, using, eng, sins>>

(* The main process starts; it repairs before it types. *)
StartMain ==
  /\ Stands("main", "down")
  /\ IF level = "advanced"
     THEN desk' = [desk EXCEPT !["main"] = [AtDesk EXCEPT !.pc = "check", !.why = "start"]]
     ELSE Moves("main", "idle")
  /\ UNCHANGED <<pair, lib, level, using, eng, spare, sins>>

(* Mutant: it downloads without a look at what is there. *)
IsTrustedInstalledEngineNever(p) ==
  /\ Stands(p, "check") /\ Well /\ sins' = sins
  /\ desk' = [desk EXCEPT ![p].pc = "choice", ![p].saw = Trusted(pair)]
  /\ UNCHANGED <<pair, lib, level, using, eng>>

(* IsTrustedInstalledEngine; saw is what it should have found. *)
IsTrustedInstalledEngine(p) ==
  /\ Stands(p, "check")
  /\ \/ Well /\ sins' = sins
        /\ desk' = [desk EXCEPT ![p].pc = IF Trusted(pair) THEN "load" ELSE "choice",
                                ![p].saw = Trusted(pair)]
     \/ Trusted(pair) /\ Mishap /\ Sin("unread")
        /\ desk' = [desk EXCEPT ![p].pc = "choice", ![p].saw = TRUE]
  /\ UNCHANGED <<pair, lib, level, using, eng>>

(* What the callers do with the status.  A request goes back to the old level. *)
Refused(p) ==
  /\ Leave(p) /\ lib' = lib /\ using' = using
  /\ \/ desk[p].why = "ask" /\ Well /\ level' = "standard" /\ sins' = sins
     \/ desk[p].why = "start" /\ Well /\ level' = "standard" /\ sins' = sins
     \/ desk[p].why = "start" /\ Mishap /\ level' = level /\ Sin("unsaved")

(* ShowInstallChoice, and its answers "manual" and "standard". *)
ShowInstallChoice(p) ==
  /\ Stands(p, "choice")
  /\ \/ Moves(p, "engine") /\ Well /\ UNCHANGED <<lib, level, using, sins>>
     \/ Refused(p)
  /\ UNCHANGED <<pair, eng>>

(* The progress dialog is dismissed: the flag is set and the worker awaited. *)
Working == {"engine", "signature", "activate", "verify", "replace"}
DismissProgress(p) ==
  /\ desk[p].pc \in Working /\ ~desk[p].cancel
  /\ desk' = [desk EXCEPT ![p].cancel = TRUE]
  /\ UNCHANGED <<pair, lib, level, using, eng, spare, sins>>

(* ShowInstallFailure, also for a library that cannot be loaded; nothing is
   shown where the dialog has been dismissed. *)
ShowInstallFailure(p) == Stands(p, "failed") /\ Refused(p) /\ UNCHANGED <<pair, eng>>

(* ReadyIfLoadable; the callers then ask whether to restart. *)
ReadyIfLoadable(p) ==
  /\ Stands(p, "load") /\ lib[p].state \in {"loaded", "failed"} /\ Well
  /\ \/ /\ lib[p].state = "failed" /\ Moves(p, "failed") /\ UNCHANGED <<using, eng>>
     \/ /\ lib[p].state = "loaded" /\ desk[p].why = "ask" /\ Moves(p, "prompt")
        /\ UNCHANGED <<using, eng>>
     \/ /\ lib[p].state = "loaded" /\ desk[p].why = "start"
        /\ Leave(p) /\ using' = [using EXCEPT ![p] = "advanced"] /\ eng' = [eng EXCEPT ![p] = "rust"]
  /\ UNCHANGED <<pair, lib, level, sins>>

(* The level is saved; with the answer "yes" the main process starts anew and
   the dialog closes. *)
PromptRestart(p) ==
  /\ Stands(p, "prompt") /\ level' = "advanced"
  /\ \/ Leave(p) /\ UNCHANGED <<lib, using, eng>>
     \/ /\ p = "main" \/ Stands("main", "idle")
        /\ desk' = [desk EXCEPT ![p] = AtDesk, !["main"] = [AtDesk EXCEPT !.pc = "down"]]
        /\ lib' = [q \in Users |-> IF q \in {"main", p} THEN Unloaded ELSE lib[q]]
        /\ using' = [using EXCEPT !["main"] = "standard"] /\ eng' = [eng EXCEPT !["main"] = "cpp"]
  /\ UNCHANGED <<pair, spare, sins>>

(***************************************************************************)
(* InstallEngine, on the worker's thread.                                  *)
(***************************************************************************)
Files == [engine |-> "dll", signature |-> "sig"]

(* DownloadToFile and StreamResponseToFile: it ends at a flag that is set, at
   an error or a wrong length, or with a file of the right length, which may
   be spoilt; or it is sent on. *)
DownloadToFile(p, f) ==
  /\ Stands(p, f)
  /\ \/ desk[p].cancel /\ Moves(p, "failed") /\ Well
     \/ Moves(p, "failed") /\ Mishap
     \/ ~desk[p].cancel /\ Well /\
        desk' = IF desk[p].hops = KMaxRedirects THEN [desk EXCEPT ![p].pc = "failed"]
                ELSE [desk EXCEPT ![p].hops = @ + 1]
     \/ \E k \in {"new", "bad"} :
          /\ IF k = "new" THEN Well ELSE Mishap
          /\ desk' = [desk EXCEPT ![p].pc = IF f = "engine" THEN "signature" ELSE "activate",
                                  ![p][Files[f]] = k, ![p].hops = 0]
  /\ UNCHANGED <<pair, lib, level, using, eng, sins>>

(* ActivateAs: a staged file takes the name of the one on disk. *)
ActivateAs(f, k) == pair' = [pair EXCEPT ![f] = k]

(* A signature that no longer fits the engine in place, or one that another worker
   has verified under it and is about to put in place. *)
Crosses ==
  \/ Trusted(pair) /\ ~Trusted(pair')
  \/ \E q \in Askers : Stands(q, "replace") /\ desk[q].dll # pair'.sig

(* The signature is put in place. *)
ActivateSignature(p) ==
  /\ Stands(p, "activate")
  /\ \/ /\ Well /\ ActivateAs("sig", desk[p].sig)
        /\ desk' = [desk EXCEPT ![p].pc = "verify", ![p].sig = "none"]
        /\ IF Crosses THEN Sin("crossed") ELSE sins' = sins
     \/ Mishap /\ Moves(p, "failed") /\ UNCHANGED <<pair, sins>>
  /\ UNCHANGED <<lib, level, using, eng>>

(* The engine still in its staging file, against the signature on disk. *)
VerifyStaged(p) ==
  /\ Stands(p, "verify") /\ Well
  /\ Moves(p, IF VerifyRustEngineFileHandle(desk[p].dll, pair.sig) THEN "replace" ELSE "failed")
  /\ UNCHANGED <<pair, lib, level, using, eng, sins>>

(* The last look at the flag, and ActivateAs for the engine. *)
ActivateEngine(p) ==
  /\ Stands(p, "replace")
  /\ \/ desk[p].cancel /\ Moves(p, "failed") /\ Well /\ UNCHANGED pair
     \/ Locked /\ Moves(p, "failed") /\ Well /\ UNCHANGED pair
     \/ Moves(p, "failed") /\ Mishap /\ UNCHANGED pair
     \/ /\ ~desk[p].cancel /\ ~Locked /\ Well
        /\ ActivateAs("dll", desk[p].dll)
        /\ desk' = [desk EXCEPT ![p].pc = "load", ![p].dll = "none"]
  /\ UNCHANGED <<lib, level, using, eng, sins>>

InstallEngine(p) ==
  \/ DownloadToFile(p, "engine") \/ DownloadToFile(p, "signature")
  \/ ActivateSignature(p) \/ VerifyStaged(p) \/ ActivateEngine(p)

(***************************************************************************)
(* The user, and processes that end.                                       *)
(***************************************************************************)
(* The files are copied by hand, over the ones that are there. *)
CopyByHand(f, k) ==
  /\ spare.copies > 0 /\ (f = "dll" => ~Locked)
  /\ pair[f] # k /\ pair' = [pair EXCEPT ![f] = k] /\ Sin("by hand")
  /\ spare' = [spare EXCEPT !.copies = @ - 1]
  /\ UNCHANGED <<lib, desk, level, using, eng>>

(* A process ends, whatever it is doing; what it has staged stays behind. *)
ProcessEnds(p) ==
  /\ lib' = [lib EXCEPT ![p] = Unloaded]
  /\ \/ p = "main" /\ ~Stands(p, "down") /\ Mishap /\ desk' = [desk EXCEPT ![p] = [AtDesk EXCEPT !.pc = "down"]]
     \/ p = "settings" /\ ~Stands(p, "idle") /\ Mishap /\ desk' = [desk EXCEPT ![p] = AtDesk]
     \/ p = "settings" /\ Stands(p, "idle") /\ lib[p] # Unloaded /\ Well /\ desk' = desk
     \/ p = "tsf" /\ lib[p] # Unloaded /\ Well /\ desk' = desk
  /\ eng' = IF p \in Typers THEN [eng EXCEPT ![p] = "cpp"] ELSE eng
  /\ using' = IF p \in Typers THEN [using EXCEPT ![p] = "standard"] ELSE using
  /\ UNCHANGED <<pair, level, sins>>

Loads(p) == OpenLibrary(p) \/ LoadLibrary(p)
Ensures(p) ==
  \/ IsTrustedInstalledEngine(p) \/ ShowInstallChoice(p) \/ ShowInstallFailure(p)
  \/ ReadyIfLoadable(p) \/ PromptRestart(p) \/ InstallEngine(p)

ANext ==
  \/ \E p \in Users : Loads(p) \/ ProcessEnds(p)
  \/ \E p \in Typers : TakeOver(p)
  \/ \E p \in Askers : ApplySpellCheckLevel(p) \/ Ensures(p) \/ DismissProgress(p)
  \/ StartMain
  \/ \E f \in {"dll", "sig"}, k \in {"new", "bad"} : CopyByHand(f, k)

ASpec == AInit /\ [][ANext]_avars

(***************************************************************************)
(* Properties.                                                             *)
(***************************************************************************)
(* The library a process has loaded is the one it verified: nobody puts
   another file in its place between the two.  (LoadRustEngineLibrary,
   AdvancedEngineStagingFile::ActivateAs) *)
LoadedIsTrusted == \A p \in Users : lib[p].state = "loaded" => lib[p].kind \in {"old", "new"}

(* Where the level is "advanced" the main process types with the advanced
   engine, not silently with the other one.  Set apart: a load that failed in
   this process alone, which it does not try again; a file of settings that
   could not be written; a second installation whose signature is spoilt; and
   files copied by hand.  (ReadyIfLoadable, the repair of wWinMain) *)
AdvancedWorks == using["main"] = "advanced" /\ eng["main"] = "cpp" => sins \ {"unread"} # {}

(* An installation that fails, is cancelled or cut off does not break a pair
   of files that was in order when it began.  (IsTrustedInstalledEngine,
   InstallEngine) *)
PairKept ==
  [][Trusted(pair) /\ ~Trusted(pair') =>
       \/ "by hand" \in sins' \/ "unread" \in sins
       \/ \E p \in Askers : Stands(p, "activate") /\ ~desk[p].saw]_avars

(* What types as the advanced engine is the one that was verified, and where it
   should type it does.  (LoadRustEngineLibrary, EngineFactory::Create, the repair of
   wWinMain) *)
EngineIsTrusted == LoadedIsTrusted /\ AdvancedWorks
=============================================================================
