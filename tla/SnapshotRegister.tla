--------------------------- MODULE SnapshotRegister ---------------------------
(***************************************************************************)
(* What a reader of the shared configuration may rely on: there is one     *)
(* current snapshot, published as a whole, and a read returns that whole   *)
(* snapshot as it is at one instant, or fails.                             *)
(***************************************************************************)
EXTENDS Naturals

CONSTANTS Readers, Fields

VARIABLES
  reg,   \* the snapshot published last, identified by a number
  res,   \* [Readers -> ...]: how the last read ended, "none" while one runs
  out    \* [Readers -> [Fields -> Nat]]: what the last valid read returned

Snapshot(n) == [f \in Fields |-> n]

Init == /\ reg = 0
        /\ res = [r \in Readers |-> "none"]
        /\ out = [r \in Readers |-> Snapshot(0)]

\* A publication never brings an old snapshot back.
Publish == reg' > reg /\ reg' \in Nat /\ UNCHANGED <<res, out>>

Call(r) == res' = [res EXCEPT ![r] = "none"] /\ UNCHANGED <<reg, out>>

ReadValid(r) == /\ res' = [res EXCEPT ![r] = "valid"]
                /\ out' = [out EXCEPT ![r] = Snapshot(reg)]
                /\ UNCHANGED reg

ReadInvalid(r) == res' = [res EXCEPT ![r] = "invalid"] /\ UNCHANGED <<reg, out>>

Next == Publish \/ \E r \in Readers : Call(r) \/ ReadValid(r) \/ ReadInvalid(r)

Spec == Init /\ [][Next]_<<reg, res, out>>
=============================================================================
