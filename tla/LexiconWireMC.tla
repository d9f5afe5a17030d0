---------------------------- MODULE LexiconWireMC ----------------------------
(* LexiconWire for TLC: in one behaviour either transactions fail half-way,   *)
(* or the main process ends and is started again, or readers close the        *)
(* mapping and open it again.                                                 *)
EXTENDS LexiconWire

Closes == \E r \in Readers : rpc[r] # "closed" /\ rpc'[r] = "closed"

Within == /\ failures' = 0 \/ deaths' = 0
          /\ Closes => failures = 0 /\ deaths = 0

MCSpec == Init /\ [][Next /\ Within]_vars /\ Fairness
==============================================================================
