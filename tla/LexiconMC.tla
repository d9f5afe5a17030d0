------------------------------ MODULE LexiconMC ------------------------------
(* LexiconTransaction for TLC.  Each instance makes another mix of operations, *)
(* crashes and failures happen; the constants of the specification are the    *)
(* largest bounds and an instance takes what it needs of them.                *)
EXTENDS LexiconTransaction

CONSTANT Instances

VARIABLE inst   \* the instance, for good

(* The operations, the files at the start, the other saves, the crashes, the  *)
(* failures, and whether a removal may be one of them.                        *)
Instance(ops, present, misc, ends, fails, removes) ==
  [ops |-> ops, present |-> present, misc |-> misc, crashes |-> ends, faults |-> fails,
   removes |-> removes]

AnyFiles  == SUBSET {"config", "dict"}
BothFiles == {{"config", "dict"}}

(* Updates and publications that crash and fail; commits that notify          *)
(* SharedState; saves beside the updates; saves of what was loaded earlier;   *)
(* removals that fail.                                                        *)
PassInstances ==
  { Instance({"update", "read", "publish"}, AnyFiles, 1, 2, 2, FALSE),
    Instance({"commit", "read"}, BothFiles, 0, 2, 3, FALSE),
    Instance({"update", "read", "save"}, AnyFiles, 2, 0, 0, FALSE),
    Instance({"read", "save", "saveStale"}, AnyFiles, 2, 1, 1, FALSE),
    Instance({"update", "read"}, AnyFiles, 0, 2, 1, TRUE),
    Instance({"update", "read"}, AnyFiles, 0, 1, 2, TRUE) }

(* A commit that notifies, where one of the files does not exist yet. *)
NewFileInstances == { Instance({"commit", "read"}, AnyFiles, 0, 1, 1, FALSE) }

Within ==
  /\ op'.kind \in inst.ops \cup {"none"} /\ ("saveStale" \in inst.ops \/ loaded' = loaded)
  /\ nextMisc' <= inst.misc + 1 /\ crashes' <= inst.crashes /\ faults' <= inst.faults
  /\ pc = "remove" /\ faults' # faults => inst.removes

MCInit == inst \in Instances /\ Init /\ \E f \in inst.present : \A p \in {"config", "dict"} :
            p \in f <=> fs[p] # Absent
MCNext == Next /\ Within /\ UNCHANGED inst
MCSpec == MCInit /\ [][MCNext]_<<vars, inst>> /\ Fairness
=============================================================================
