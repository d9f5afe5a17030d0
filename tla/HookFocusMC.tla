---------------------------- MODULE HookFocusMC ----------------------------
(* Bounds for model checking HookFocus.tla: each budget makes another mix of
   outside events happen. *)
EXTENDS HookFocus

Budget(s, b, k, t, c) ==
    [switch |-> s, background |-> b, key |-> k, toggle |-> t, settings |-> c]

AllBudgets == {Budget(2, 0, 0, 0, 0), Budget(1, 0, 2, 0, 0), Budget(0, 0, 1, 1, 1),
               Budget(1, 1, 0, 0, 0), Budget(0, 1, 1, 0, 0)}

(* A focus event of the helper during a window switch. *)
HelperBudgets == {Budget(1, 1, 0, 0, 0)}
=============================================================================
