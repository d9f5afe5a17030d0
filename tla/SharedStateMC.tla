---------------------------- MODULE SharedStateMC ----------------------------
(* SharedStateSeqlock for TLC: either the main process alone, which may die   *)
(* and be started again, or the main process and another one that writes.     *)
EXTENDS SharedStateSeqlock

VARIABLE alone

Within == IF alone THEN \A w \in Others : wpc'[w] = "down" ELSE crashes' = 0

MCInit == alone \in BOOLEAN /\ Init
MCNext == Next /\ Within /\ UNCHANGED alone
(* What may not happen in one of the cases (the other process opens the       *)
(* mapping, a process dies) is not among the steps that fairness is about.    *)
MCSpec == MCInit /\ [][MCNext]_<<vars, alone>> /\ Fairness

(* A process that dies and another that writes, both at once. *)
FairSpec == alone = FALSE /\ Init /\ [][Next /\ UNCHANGED alone]_<<vars, alone>> /\ Fairness
==============================================================================
