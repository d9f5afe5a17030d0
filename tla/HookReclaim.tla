----------------------------- MODULE HookReclaim ----------------------------
(***************************************************************************)
(* The keyboard hook and its replacement.  One program (Dorion) puts a     *)
(* hook of its own before ours when it comes up; HookLifecycle then        *)
(* replaces ours once for each process of it, some time after it came to   *)
(* the foreground and in a moment of quiet.  The policy keeps which        *)
(* processes are being dealt with and which are done; the hook thread      *)
(* keeps a ticket with a timer for each.                                   *)
(***************************************************************************)
EXTENDS Naturals, FiniteSets

CONSTANTS Procs,          \* processes of the program, each an identity
          KMaxPending,    \* kMaxPending and kCapacity
          KMaxSuccessful, \* kMaxSuccessful
          GateChecks,     \* kDorionMaxGateChecks
          Faults          \* how many calls fail (bound)

ASSUME ReclaimAssumption == GateChecks \in Nat \ {0} /\ Faults \in Nat

VARIABLES
  hook,       \* [handle, count]: what we hold, and how many hooks of ours exist
  running,    \* the hook thread runs
  fg,         \* the foreground: a process or "other"
  cls,        \* the classification that is being applied
  policy,     \* [pending, successful, suppress]
  asked,      \* requests posted to the hook thread
  slots,      \* its tickets: process -> checks that remain, 0 for none
  noisy,      \* a key is down, a composition is open, input is recent
  times,      \* how often the hook has been replaced for a process
  faults      \* what is left of the bound

rvars == <<hook, running, fg, cls, policy, asked, slots, noisy, times, faults>>

NoPolicy == [pending |-> {}, successful |-> {}, suppress |-> FALSE]

RInit ==
  /\ hook = [handle |-> FALSE, count |-> 0] /\ running = FALSE
  /\ fg = "other" /\ cls = "other" /\ policy = NoPolicy /\ asked = {}
  /\ slots = [p \in Procs |-> 0] /\ noisy = FALSE
  /\ times = [p \in Procs |-> 0] /\ faults = Faults

Fault == faults > 0 /\ faults' = faults - 1
Fine  == faults' = faults

(* How many hooks there are without the one we hold, which may be gone. *)
Unhooked == IF hook.handle /\ hook.count > 0 THEN hook.count - 1 ELSE hook.count

(* HookLifecycle::Start and the head of ThreadProc. *)
StartHook ==
  /\ ~running
  /\ \/ Fine /\ running' = TRUE /\ hook' = [handle |-> TRUE, count |-> hook.count + 1]
     \/ Fault /\ UNCHANGED <<running, hook>>
  /\ UNCHANGED <<fg, cls, policy, asked, slots, noisy, times>>

(* HookLifecycle::Stop, the end of ThreadProc and HookEngine::Stop. *)
StopHook ==
  /\ running /\ Fault /\ running' = FALSE
  /\ hook' = [handle |-> FALSE, count |-> Unhooked]
  /\ policy' = NoPolicy /\ asked' = {} /\ slots' = [p \in Procs |-> 0]
  /\ times' = [p \in Procs |-> 0]
  /\ UNCHANGED <<fg, cls, noisy>>

(***************************************************************************)
(* DorionHookReclaimPolicy.                                                *)
(***************************************************************************)

Observe(p) ==
  /\ p \notin policy.pending \cup policy.successful /\ ~policy.suppress
  /\ Cardinality(policy.pending) < KMaxPending

Complete(p, succeeded) ==
  LET open == [policy EXCEPT !.pending = @ \ {p}]
  IN IF ~succeeded \/ p \in policy.successful THEN open
     ELSE IF Cardinality(policy.successful) < KMaxSuccessful
     THEN [open EXCEPT !.successful = @ \cup {p}]
     ELSE [open EXCEPT !.suppress = TRUE]

(***************************************************************************)
(* The hook thread.                                                        *)
(***************************************************************************)
(* ApplyFocusOnHookThread, RequestDorionKeyboardReclaim *)
ApplyFocusDorion ==
  /\ running /\ cls \in Procs /\ cls' = "other"
  /\ IF Observe(cls)
     THEN \/ /\ Fine /\ asked' = asked \cup {cls}
             /\ policy' = [policy EXCEPT !.pending = @ \cup {cls}]
          \/ /\ Fault /\ UNCHANGED <<asked, policy>>          \* PostThreadMessage fails
     ELSE Fine /\ UNCHANGED <<asked, policy>>
  /\ UNCHANGED <<hook, running, fg, slots, noisy, times>>

(* DorionDelayedReclaimSlots: the tickets. *)
HasPending(p) == slots[p] > 0
Arm(p, checks) == slots' = [slots EXCEPT ![p] = checks]
Take(p) == slots' = [slots EXCEPT ![p] = 0]

(* notifyResult: whatever becomes of a request, the policy is told. *)
NotifyResult(p, replaced) == policy' = Complete(p, replaced)

(* WM_APP_DORION_KEYBOARD_RECLAIM *)
ReclaimRequest(p) ==
  /\ running /\ p \in asked /\ asked' = asked \ {p}
  /\ \/ /\ HasPending(p) /\ Fine /\ UNCHANGED <<slots, policy>>
     \/ /\ ~HasPending(p) /\ fg # p /\ Fine /\ slots' = slots /\ NotifyResult(p, FALSE)
     \/ /\ ~HasPending(p) /\ fg = p /\ Fine /\ policy' = policy
        /\ Arm(p, GateChecks)
     \/ /\ ~HasPending(p) /\ fg = p /\ Fault /\ slots' = slots /\ NotifyResult(p, FALSE)
  /\ UNCHANGED <<hook, running, fg, cls, noisy, times>>

(* Mutant: a hook is installed although the old one could not be removed. *)
ReplaceSingleHookAnyway ==
  \/ Fine /\ hook' = [handle |-> TRUE, count |-> Unhooked + 1]
  \/ Fault /\ hook' = [hook EXCEPT !.count = @ + 1]

(* ReplaceSingleHook *)
ReplaceSingleHook ==
  \/ Fine /\ hook' = [handle |-> TRUE, count |-> Unhooked + 1]
  \/ Fault /\ hook.handle /\ hook' = hook                     \* UnhookFailed
  \/ Fault /\ hook' = [handle |-> FALSE, count |-> Unhooked]  \* InstallFailed

Replaced == hook'.handle /\ faults' = faults

(* WM_TIMER of a ticket *)
ReclaimTimer(p) ==
  /\ running /\ HasPending(p)
  /\ \/ /\ fg # p /\ Fine /\ Take(p) /\ NotifyResult(p, FALSE)
        /\ UNCHANGED <<hook, times>>
     \/ /\ fg = p /\ noisy /\ slots[p] = 1 /\ Fine             \* BusyTimeout
        /\ Take(p) /\ NotifyResult(p, FALSE) /\ UNCHANGED <<hook, times>>
     \/ /\ fg = p /\ noisy /\ slots[p] > 1 /\ UNCHANGED <<hook, times>>
        /\ \/ Fine /\ Arm(p, slots[p] - 1) /\ policy' = policy
           \/ Fault /\ Take(p) /\ NotifyResult(p, FALSE)
     \/ /\ fg = p /\ ~noisy /\ Take(p)
        /\ ReplaceSingleHook /\ NotifyResult(p, Replaced)
        /\ times' = IF Replaced THEN [times EXCEPT ![p] = @ + 1] ELSE times
  /\ UNCHANGED <<running, fg, cls, asked, noisy>>

(* The user, and Windows, which may remove a hook that was slow. *)
Foreground(p) ==
  /\ fg # p /\ fg' = p /\ cls' = p
  /\ UNCHANGED <<hook, running, policy, asked, slots, noisy, times, faults>>

IsDorionReclaimQuiet ==
  /\ noisy' = ~noisy /\ UNCHANGED <<hook, running, fg, cls, policy, asked, slots, times, faults>>

HookRemoved ==
  /\ hook.count > 0 /\ Fault /\ hook' = [hook EXCEPT !.count = @ - 1]
  /\ UNCHANGED <<running, fg, cls, policy, asked, slots, noisy, times>>

HookThread == ApplyFocusDorion \/ \E p \in Procs : ReclaimRequest(p)

RNext ==
  \/ StartHook \/ StopHook \/ HookThread \/ (\E p \in Procs : ReclaimTimer(p))
  \/ (\E p \in Procs \cup {"other"} : Foreground(p)) \/ IsDorionReclaimQuiet \/ HookRemoved

(* The thread handles its messages and Windows sends a timer's messages. *)
RFairness == \A p \in Procs : WF_rvars(ReclaimRequest(p)) /\ WF_rvars(ReclaimTimer(p))
RSpec == RInit /\ [][RNext]_rvars /\ RFairness

(***************************************************************************)
(* Properties.                                                             *)
(***************************************************************************)
(* There is never more than one keyboard hook of ours, which would handle
   every key twice, whatever fails while it is replaced.  (ReplaceSingleHook,
   HookLifecycle::ThreadProc) *)
OneHook == hook.count <= 1

(* A process is pending with the policy as long as the hook thread deals with
   it, and no longer: an entry that nobody answers would keep the process, and
   in the end every one, from being dealt with again.  (notifyResult,
   DorionHookReclaimPolicy::Complete) *)
PendingIsInWork == policy.pending = asked \cup {p \in Procs : HasPending(p)}

(* The hook is replaced once for a process, however often it comes back to the
   foreground.  (DorionHookReclaimPolicy::Observe) *)
OncePerProcess == \A p \in Procs : times[p] <= 1

(* Every request is answered: it waits for quiet only so long.
   (kDorionMaxGateChecks) *)
Answered == \A p \in Procs : p \in policy.pending ~> p \notin policy.pending

(* The hook is replaced once for a process, never doubled, and the policy and the
   hook thread agree on what is being dealt with.  (ReplaceSingleHook,
   DorionHookReclaimPolicy, notifyResult) *)
HookKept == OneHook /\ PendingIsInWork /\ OncePerProcess
=============================================================================
