---------------------------- MODULE AppProcesses ----------------------------
(***************************************************************************)
(* The processes of the application: main processes (VKey.exe), of which   *)
(* one may be at work, and watchdogs (VKeyWatchdog.exe), of which one may  *)
(* watch.  They meet only through named objects: the mutex of the main     *)
(* process, that of the watchdog, the event "graceful shutdown" (manual    *)
(* reset) and the event "heartbeat" (automatic reset).  The watchdog       *)
(* starts the main process again when no heartbeat comes and no process    *)
(* of that name exists.                                                    *)
(*                                                                         *)
(* The heartbeat's period and the watchdog's timeouts are left out: a      *)
(* timeout may come whenever what it waits for has not happened, which is  *)
(* more than the code allows.  Processes and the events' handles are kept  *)
(* exactly: an event is gone with its last handle, and a watchdog has no   *)
(* handle before it runs itself.                                           *)
(***************************************************************************)
EXTENDS Naturals, FiniteSets

CONSTANTS Mains, Dogs,  \* the processes that can exist at one time
          Restarts,     \* MAX_RESTARTS
          Orders,       \* how often the user or the task does something (bound)
          Crashes       \* how many processes or starts of processes fail (bound)

NoDog == "no dog"

ASSUME ProcessesAssumption ==
  /\ NoDog \notin Dogs
  /\ Restarts \in Nat \ {0} /\ {Orders, Crashes} \subseteq Nat

VARIABLES
  main,     \* [pc, restart, hdog, beats] of every main process
  dog,      \* [pc, count] of every watchdog
  graceful, \* the event "graceful shutdown" is set
  beat,     \* the event "heartbeat" is set
  enabled,  \* watchdogEnabled of the configuration
  sub,      \* a dialog's process, of the same name as the main process, exists
  want,     \* what the user asked for last: "never", "run" or "quit"
  upto,     \* what is left of the bounds: [orders, crashes]
  marks     \* what has happened that the properties set apart: "no dog", "start lost",
            \* "looking", "late" and "revived" (after the user has ended it)

pvars == <<main, dog, graceful, beat, enabled, sub, want, upto, marks>>

NoMain  == [pc |-> "none", restart |-> FALSE, hdog |-> NoDog, beats |-> FALSE]
DeadDog == [pc |-> "none", count |-> 0]

PInit ==
  /\ main = [m \in Mains |-> NoMain] /\ dog = [d \in Dogs |-> DeadDog]
  /\ graceful = FALSE /\ beat = FALSE /\ sub = FALSE /\ enabled \in BOOLEAN
  /\ want = "never" /\ upto = [orders |-> Orders, crashes |-> Crashes] /\ marks = {}

Spent(what) == upto[what] > 0 /\ upto' = [upto EXCEPT ![what] = @ - 1]

Live(m)   == main[m].pc # "none"
Owns(m)   == main[m].pc \in {"init", "up", "bye1", "bye2", "bye3"}
Going     == \E m \in Mains : main[m].pc \in {"bye1", "bye2", "bye3"}
InForce   == {"grace", "watch", "check", "look", "after", "leaving"}
Waiting   == {"grace", "watch", "after"}
FreeMain  == {m \in Mains : ~Live(m)}
FreeDog   == {d \in Dogs : dog[d].pc = "none"}

(* An event without a handle is gone.  A watchdog opens both when it runs. *)
Held(mains, dogs) ==
  (\E m \in Mains : mains[m].beats) \/ (\E d \in Dogs : dogs[d].pc \notin {"none", "new"})
EventsAre(g, b) == graceful' = (g /\ Held(main', dog')) /\ beat' = (b /\ Held(main', dog'))
SameEvents == EventsAre(graceful, beat)

(* SetEvent(graceful) lets every watchdog go that waits for it. *)
Released(dogs) ==
  [d \in Dogs |-> IF dogs[d].pc \in Waiting THEN [dogs[d] EXCEPT !.pc = "leaving"] ELSE dogs[d]]

(***************************************************************************)
(* The main process.                                                       *)
(***************************************************************************)
Start(m, restart) == [main EXCEPT ![m] = [NoMain EXCEPT !.pc = "enter", !.restart = restart]]

UserStartsMain ==
  /\ Spent("orders") /\ want' = "run"
  /\ \E m \in FreeMain : main' = Start(m, FALSE)
  /\ UNCHANGED <<dog, enabled, sub, marks>> /\ SameEvents

(* VKey_Main_Mutex: who comes second shows the first one's window and ends;
   an administrator's restart waits for the first one to end. *)
CreateMainMutex(m) ==
  /\ main[m].pc = "enter"
  /\ LET taken == \E n \in Mains : Owns(n) \/ main[n].pc = "waiting"
     IN /\ main' = IF ~taken THEN [main EXCEPT ![m].pc = "init"]
                   ELSE IF main[m].restart THEN [main EXCEPT ![m].pc = "waiting"]
                   ELSE [main EXCEPT ![m] = NoMain]
        /\ marks' = IF taken /\ ~main[m].restart /\ Going THEN marks \cup {"start lost"} ELSE marks
        /\ want' = IF taken THEN want ELSE "run"
  /\ UNCHANGED <<dog, enabled, sub, upto>> /\ SameEvents

TakeMainMutex(m) ==
  /\ main[m].pc = "waiting"
  /\ \/ /\ \A n \in Mains : ~Owns(n)
        /\ main' = [main EXCEPT ![m].pc = "init"] /\ want' = "run" /\ UNCHANGED <<marks, upto>>
     \/ /\ \E n \in Mains : Owns(n)               \* 10 s are over
        /\ Spent("crashes")
        /\ main' = [main EXCEPT ![m] = NoMain] /\ marks' = marks \cup {"start lost"} /\ want' = want
  /\ UNCHANGED <<dog, enabled, sub>> /\ SameEvents

(* LaunchWatchdogProcess *)
LaunchWatchdogProcess(m, up) ==
  \/ \E d \in FreeDog :
       /\ dog' = [dog EXCEPT ![d] = [pc |-> "new", count |-> 0]]
       /\ main' = [main EXCEPT ![m] = [up EXCEPT !.hdog = d]]
       /\ UNCHANGED <<marks, upto>>
  \/ Spent("crashes") /\ dog' = dog /\ main' = [main EXCEPT ![m] = up] /\ marks' = marks \cup {"no dog"}

(* WatchdogController::Init: HeartbeatPublisher::Start takes the event back. *)
WatchdogInit(m) ==
  /\ main[m].pc = "init"
  /\ LET up == [main[m] EXCEPT !.pc = "up", !.beats = enabled]
     IN IF enabled THEN LaunchWatchdogProcess(m, up)
        ELSE main' = [main EXCEPT ![m] = up] /\ UNCHANGED <<dog, marks, upto>>
  /\ UNCHANGED <<enabled, sub, want>> /\ EventsAre(graceful /\ ~enabled, beat)

(* HeartbeatPublisher::Run; a watchdog that waits takes the event at once. *)
HeartbeatRun(m) ==
  /\ main[m].pc = "up" /\ main[m].beats
  /\ ~beat /\ \A d \in Dogs : dog[d].pc # "watch"
  /\ UNCHANGED <<main, dog, enabled, sub, want, upto, marks>> /\ EventsAre(graceful, TRUE)

OpenDialog ==
  /\ \E m \in Mains : main[m].pc = "up"
  /\ Spent("orders") /\ ~sub /\ sub' = TRUE
  /\ UNCHANGED <<main, dog, enabled, want, marks>> /\ SameEvents

CloseDialog ==
  /\ sub /\ sub' = FALSE /\ UNCHANGED <<main, dog, enabled, want, upto, marks>> /\ SameEvents

(* A watchdog between its last look at the event and the processes. *)
Looking == \E d \in Dogs : dog[d].pc = "look"

(* SignalGracefulShutdown, first half. *)
SetGraceful(m, pc) ==
  /\ main' = [main EXCEPT ![m].pc = pc]
  /\ dog' = Released(dog)
  /\ EventsAre(TRUE, beat)

(* TrayMenuId::Exit *)
Exit(m) ==
  /\ main[m].pc = "up" /\ Spent("orders") /\ want' = "quit"
  /\ SetGraceful(m, "bye1") /\ sub' = FALSE
  /\ marks' = IF Looking THEN marks \cup {"looking"} ELSE marks
  /\ UNCHANGED enabled

(* RestartWithNewAdminMode, then Exit. *)
RestartWithNewAdminMode(m) ==
  /\ main[m].pc = "up" /\ Spent("orders")
  /\ \E n \in FreeMain :
       main' = [main EXCEPT ![n] = [NoMain EXCEPT !.pc = "enter", !.restart = TRUE], ![m].pc = "bye1"]
  /\ dog' = Released(dog) /\ EventsAre(TRUE, beat) /\ sub' = FALSE
  /\ UNCHANGED <<enabled, want, marks>>

(* SignalGracefulShutdown, second half: it waits for the watchdog that it has
   started itself, and ends it after 3 s. *)
AwaitDog(m) ==
  /\ main[m].pc \in {"bye1", "bye3"}
  /\ dog' = IF main[m].hdog = NoDog THEN dog ELSE [dog EXCEPT ![main[m].hdog] = DeadDog]
  /\ main' = [main EXCEPT ![m] = IF main[m].pc = "bye1" THEN [main[m] EXCEPT !.pc = "bye2", !.hdog = NoDog]
                                 ELSE NoMain]
  /\ UNCHANGED <<enabled, sub, want, upto, marks>> /\ SameEvents

(* The end of wWinMain. *)
MainEnding(m) ==
  /\ main[m].pc = "bye2" /\ SetGraceful(m, "bye3")
  /\ UNCHANGED <<enabled, sub, want, upto, marks>>

MainCrashes(m) ==
  /\ main[m].pc \in {"init", "up"} /\ Spent("crashes")
  /\ main' = [main EXCEPT ![m] = NoMain]
  /\ marks' = IF graceful \/ \A d \in Dogs : dog[d].pc \in {"none", "leaving"}
                THEN marks \cup {"no dog"} ELSE marks
  /\ UNCHANGED <<dog, enabled, sub, want>> /\ SameEvents

(* WatchdogController::Toggle *)
ToggleOff(m) ==
  /\ main[m].pc = "up" /\ enabled /\ Spent("orders")
  /\ dog' = [d \in Dogs |-> DeadDog]                 \* taskkill /F /IM
  /\ main' = [main EXCEPT ![m].hdog = NoDog, ![m].beats = FALSE]
  /\ enabled' = FALSE /\ UNCHANGED <<sub, want, marks>> /\ EventsAre(TRUE, beat)

ToggleOn(m) ==
  /\ main[m].pc = "up" /\ ~enabled /\ upto.orders > 0
  /\ \E d \in FreeDog :
       /\ dog' = [dog EXCEPT ![d] = [pc |-> "new", count |-> 0]]
       /\ main' = [main EXCEPT ![m].beats = TRUE, ![m].hdog = d]
  /\ upto' = [upto EXCEPT !.orders = @ - 1]
  /\ enabled' = TRUE /\ UNCHANGED <<sub, want, marks>> /\ EventsAre(FALSE, beat)

(* WatchdogController::RunScheduledTask: 10 s after logon, later where it is tried
   again, and whatever the user has done by then. *)
RunScheduledTask ==
  /\ enabled /\ Spent("orders")
  /\ \E d \in FreeDog : dog' = [dog EXCEPT ![d] = [pc |-> "new", count |-> 0]]
  /\ UNCHANGED <<main, enabled, sub, want, marks>> /\ SameEvents

MainRuns(m) ==
  CreateMainMutex(m) \/ TakeMainMutex(m) \/ WatchdogInit(m) \/ AwaitDog(m) \/ MainEnding(m)

(***************************************************************************)
(* The watchdog.                                                           *)
(***************************************************************************)
(* A handle on a process that has ended is as good as none. *)
Forgotten(d) ==
  [m \in Mains |-> IF main[m].hdog = d THEN [main[m] EXCEPT !.hdog = NoDog] ELSE main[m]]

DogGoes(d, pc) ==
  /\ dog' = [dog EXCEPT ![d] = IF pc = "none" THEN DeadDog ELSE [@ EXCEPT !.pc = pc]]
  /\ main' = IF pc = "none" THEN Forgotten(d) ELSE main

(* The first lines of wWinMain: both events, which are new and not set if nobody
   holds them, then VKeyWatchdogSingleton.  "late": the user has ended the
   application, the event that says so is gone, and no main process waits for this
   watchdog (the scheduled task's, or the child of a main process that crashed). *)
DogEnters(d) ==
  /\ dog[d].pc = "new"
  /\ LET other == \E e \in Dogs \ {d} : dog[e].pc \in InForce
     IN /\ DogGoes(d, IF other THEN "none" ELSE "grace")
        /\ marks' = IF \E e \in Dogs \ {d} : dog[e].pc = "leaving" \/ (dog[e].pc \in InForce /\ graceful)
                      THEN marks \cup {"no dog"}
                    ELSE IF want = "quit" /\ ~graceful /\ \A m \in Mains : main[m].hdog # d
                      THEN marks \cup {"late"} ELSE marks
  /\ UNCHANGED <<enabled, sub, want, upto>> /\ SameEvents

(* A wait with the event set, and the end of one that was set free. *)
DogLeaves(d) ==
  /\ dog[d].pc = "leaving" \/ (dog[d].pc \in Waiting /\ graceful)
  /\ DogGoes(d, "none") /\ UNCHANGED <<enabled, sub, want, upto, marks>> /\ SameEvents

(* WaitForWatchdogSignal *)
WaitForWatchdogSignal(d) ==
  /\ dog[d].pc = "watch" /\ ~graceful
  /\ IF beat THEN UNCHANGED <<main, dog>> /\ EventsAre(graceful, FALSE)
     ELSE DogGoes(d, "check") /\ SameEvents          \* WAIT_TIMEOUT
  /\ UNCHANGED <<enabled, sub, want, upto, marks>>

GraceOver(d) ==
  /\ dog[d].pc \in {"grace", "after"} /\ ~graceful
  /\ DogGoes(d, "watch") /\ UNCHANGED <<enabled, sub, want, upto, marks>> /\ SameEvents

(* Mutant: the event is not looked at again. *)
LastLookSkipped(d) ==
  /\ dog[d].pc = "check" /\ DogGoes(d, "look")
  /\ UNCHANGED <<enabled, sub, want, upto, marks>> /\ SameEvents

LastLook(d) ==
  /\ dog[d].pc = "check" /\ DogGoes(d, IF graceful THEN "none" ELSE "look")
  /\ UNCHANGED <<enabled, sub, want, upto, marks>> /\ SameEvents

(* Mutant: a watchdog of its own counts as a process that is alive. *)
IsProcessAliveAny == sub \/ (\E m \in Mains : Live(m)) \/ (\E d \in Dogs : dog[d].pc # "none")

IsProcessAlive == sub \/ \E m \in Mains : Live(m)

(* RestartThrottle::AllowRestart; the entries expire in WindowPasses. *)
AllowRestart(d) == dog[d].count < Restarts

TryRespawn(d) ==
  /\ dog[d].pc = "look" /\ ~IsProcessAlive
  /\ \/ /\ AllowRestart(d)
        /\ \E m \in FreeMain : main' = Start(m, FALSE)
        /\ dog' = [dog EXCEPT ![d].pc = "after", ![d].count = @ + 1]
        /\ marks' = IF want = "quit" THEN marks \cup {"revived"} ELSE marks
        /\ upto' = upto
     \/ /\ AllowRestart(d) /\ Spent("crashes")           \* CreateProcess fails
        /\ DogGoes(d, "none") /\ marks' = marks \cup {"no dog"}
     \/ /\ ~AllowRestart(d)
        /\ DogGoes(d, "none") /\ marks' = marks \cup {"no dog"} /\ upto' = upto
  /\ UNCHANGED <<enabled, sub, want>> /\ SameEvents

StillAlive(d) ==
  /\ dog[d].pc = "look" /\ IsProcessAlive
  /\ DogGoes(d, "after") /\ UNCHANGED <<enabled, sub, want, upto, marks>> /\ SameEvents

WindowPasses(d) ==
  /\ dog[d].count > 0 /\ dog' = [dog EXCEPT ![d].count = @ - 1]
  /\ UNCHANGED <<main, enabled, sub, want, upto, marks>> /\ SameEvents

DogRuns(d) ==
  \/ DogEnters(d) \/ DogLeaves(d) \/ WaitForWatchdogSignal(d) \/ GraceOver(d)
  \/ LastLook(d) \/ TryRespawn(d) \/ StillAlive(d)

PNext ==
  \/ UserStartsMain \/ OpenDialog \/ CloseDialog \/ RunScheduledTask
  \/ \E m \in Mains : \/ MainRuns(m) \/ HeartbeatRun(m) \/ Exit(m) \/ RestartWithNewAdminMode(m)
                      \/ MainCrashes(m) \/ ToggleOff(m) \/ ToggleOn(m)
  \/ \E d \in Dogs : DogRuns(d) \/ WindowPasses(d)

(* Processes run and waits end; a dialog is closed some day.  What the user
   does, and what crashes, is not promised. *)
PFairness ==
  /\ WF_pvars(CloseDialog)
  /\ \A m \in Mains : WF_pvars(MainRuns(m))
  /\ \A d \in Dogs : WF_pvars(DogRuns(d))

PSpec == PInit /\ [][PNext]_pvars /\ PFairness

(***************************************************************************)
(* Properties.                                                             *)
(***************************************************************************)
(* Processes and events; the restarts stay within the throttle. *)
PTypeOK ==
  /\ \A m \in Mains : main[m].hdog \in Dogs \cup {NoDog}
  /\ \A d \in Dogs : dog[d].pc \in InForce \cup {"none", "new"} /\ dog[d].count \in 0..Restarts
  /\ want \in {"never", "run", "quit"} /\ {graceful, beat, enabled, sub} \subseteq BOOLEAN

(* One main process is at work and one watchdog watches, whatever the user, the
   watchdog and an administrator's restart start at the same time.
   (VKey_Main_Mutex, VKeyWatchdogSingleton) *)
OnlyOne ==
  /\ \A m, n \in Mains : Owns(m) /\ Owns(n) => m = n
  /\ \A d, e \in Dogs : dog[d].pc \in InForce /\ dog[e].pc \in InForce => d = e

(* A watchdog does not start again what the user has ended, unless it had already
   looked at the event when he did, or first ran after he did and was not waited
   for.  (SignalGracefulShutdown, VKeyWatchdog wWinMain) *)
QuitKept == "revived" \in marks => "looking" \in marks \/ "late" \in marks

(* WatchdogController.cpp:99-101, "Never leave a newly scheduled supervisor to start
   after the last publisher handle dies", and docs/GUIDE.md:186, the watchdog tells a
   crash (start again) from an end that the user chose (do not): only a watchdog that
   was between its last look and its decision starts again what the user has ended. *)
QuitStaysQuit == "revived" \in marks => "looking" \in marks

(* What the user started and did not end runs, again if it crashed, as long as
   the watchdog is enabled and there is one.  (TryRespawn, CreateMainMutex) *)
WantedRuns ==
  (want = "run" /\ enabled) ~> (\/ \E m \in Mains : main[m].pc = "up"
                                \/ want = "quit" \/ ~enabled \/ "no dog" \in marks \/ "start lost" \in marks)

(* A main process that has enabled the watchdog is watched.
   (WatchdogController::Init, Toggle) *)
Watched ==
  (\E m \in Mains : main[m].pc = "up" /\ main[m].beats) ~>
     ((\E d \in Dogs : dog[d].pc \in InForce) \/ "no dog" \in marks \/ \A m \in Mains : ~main[m].beats)

(* One main process and one watchdog at a time, and none that the user has ended.
   (VKey_Main_Mutex, VKeyWatchdogSingleton, the graceful event) *)
OneAtATime == PTypeOK /\ OnlyOne /\ QuitKept
=============================================================================
