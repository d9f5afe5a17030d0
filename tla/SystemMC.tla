------------------------------ MODULE SystemMC ------------------------------
(* The processes around the input method, for TLC: the installation of an    *)
(* update, the main processes and their watchdogs, the entries for the start *)
(* at logon, the reclaiming of the keyboard hook and the advanced engine.    *)
(* They share no state that the models keep, so one behaviour looks at one   *)
(* of them and the others stay where they began.                             *)
EXTENDS UpdateInstall, AppProcesses, StartupEntries, HookReclaim, AdvancedEngine

VARIABLE part

EngineBudgets ==
  { [mishaps |-> 2, asks |-> 1, copies |-> 0], [mishaps |-> 0, asks |-> 2, copies |-> 0],
    [mishaps |-> 1, asks |-> 0, copies |-> 1], [mishaps |-> 0, asks |-> 1, copies |-> 1] }

-----------------------------------------------------------------------------
(* Where a part is not looked at, one of its initial states stands for it; no *)
(* step that fairness is about is enabled in it.                              *)
MCInit ==
  /\ part \in {"update", "processes", "startup", "reclaim", "engine"}
  /\ UInit
  /\ PInit /\ (part # "processes" => enabled)
  /\ SInit /\ (part # "startup" => cfg.start /\ cfg.admin)
  /\ RInit
  /\ AInit /\ (part # "engine" => /\ level = "standard" /\ pair.dll = "none"
                                  /\ spare.mishaps = 0 /\ spare.asks = 2)

MCNext ==
  \/ part = "update"    /\ UNext /\ UNCHANGED <<part, pvars, svars, rvars, avars>>
  \/ part = "processes" /\ PNext /\ UNCHANGED <<part, uvars, svars, rvars, avars>>
  \/ part = "startup"   /\ SNext /\ UNCHANGED <<part, uvars, pvars, rvars, avars>>
  \/ part = "reclaim"   /\ RNext /\ UNCHANGED <<part, uvars, pvars, svars, avars>>
  \/ part = "engine"    /\ ANext /\ UNCHANGED <<part, uvars, pvars, svars, rvars>>

MCSpec ==
  /\ MCInit /\ [][MCNext]_<<part, uvars, pvars, svars, rvars, avars>>
  /\ UFairness /\ PFairness /\ RFairness

(* What was begun is brought to its end: an installer ends, what the user started
   runs and is watched, a request for the hook is answered (RunUpdateInstaller,
   TryRespawn, WatchdogController, kDorionMaxGateChecks). *)
WorkIsDone == InstallerEnds /\ WantedRuns /\ Watched /\ Answered
=============================================================================
