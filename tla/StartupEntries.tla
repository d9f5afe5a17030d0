--------------------------- MODULE StartupEntries ---------------------------
(***************************************************************************)
(* How the application comes up at logon: through a value of the registry  *)
(* (started as the user) or a task of the scheduler (started elevated).    *)
(* The dialog's two switches, the restart that changes the elevation and   *)
(* the repair at every start work on the two entries and on the two        *)
(* settings; the scheduler is only reached through prompts (UAC) that the  *)
(* user may decline, and Windows may lose the task.                        *)
(***************************************************************************)
EXTENDS Naturals

CONSTANTS Prompts,  \* how many prompts are declined or tasks lost (bound)
          Turns     \* how many switches are turned and starts made (bound)

VARIABLES
  reg, task,   \* the two entries exist
  cfg,         \* runAtStartup and runAsAdmin of the file: [start, admin]
  dlg,         \* the dialog's copy of them
  proc,        \* the main process: [pc, elev]
  budget,      \* [prompts, turns]
  notes        \* what has happened that the properties set apart

svars == <<reg, task, cfg, dlg, proc, budget, notes>>

SInit ==
  /\ cfg \in [start : BOOLEAN, admin : BOOLEAN] /\ dlg = cfg
  /\ reg = (cfg.start /\ ~cfg.admin) /\ task = (cfg.start /\ cfg.admin)
  /\ proc = [pc |-> "up", elev |-> cfg.admin]
  /\ budget = [prompts |-> Prompts, turns |-> Turns] /\ notes = {}

Accepts  == budget' = budget
Declines == budget.prompts > 0 /\ budget' = [budget EXCEPT !.prompts = @ - 1]
InTurn   == budget.turns > 0
Turned(b) == [b EXCEPT !.turns = @ - 1]
Note(n)  == notes' = notes \cup {n}

(* A prompt that is accepted or declined, within one turn of the user. *)
Granted == budget' = Turned(budget)
Denied  == budget.prompts > 0 /\ budget' = [Turned(budget) EXCEPT !.prompts = @ - 1]

(* RegisterRunOnStartup *)
RegisterRunOnStartup(enable, admin) ==
  \/ /\ ~enable /\ reg' = FALSE /\ task' = FALSE /\ Granted /\ notes' = notes
  \/ /\ ~enable /\ task /\ Denied /\ reg' = FALSE /\ task' = task /\ Note("left behind")
  \/ /\ enable /\ admin /\ Granted /\ task' = TRUE /\ reg' = FALSE /\ notes' = notes
  \/ /\ enable /\ admin /\ Denied /\ UNCHANGED <<reg, task>> /\ Note("declined")
  \/ /\ enable /\ ~admin /\ Granted /\ task' = FALSE /\ reg' = TRUE /\ notes' = notes
  \/ /\ enable /\ ~admin /\ task /\ Denied /\ task' = task /\ reg' = TRUE /\ Note("left behind")

(* The switch "run at startup". *)
ToggleRunStartup ==
  /\ InTurn /\ proc.pc = "up"
  /\ RegisterRunOnStartup(~dlg.start, dlg.admin)
  /\ dlg' = [dlg EXCEPT !.start = ~@] /\ cfg' = dlg'
  /\ UNCHANGED proc

(* The switch "run as administrator". *)
ToggleRunAdmin ==
  /\ InTurn /\ proc.pc = "up" /\ notes' = notes
  /\ \/ /\ ~dlg.admin /\ Granted /\ reg' = FALSE /\ task' = task
        /\ dlg' = [dlg EXCEPT !.admin = TRUE] /\ cfg' = dlg'
        /\ proc' = [proc EXCEPT !.pc = "restart"]
     \/ /\ dlg.admin /\ Granted /\ task' = FALSE /\ reg' = dlg.start
        /\ dlg' = [dlg EXCEPT !.admin = FALSE] /\ cfg' = dlg'
        /\ proc' = [proc EXCEPT !.pc = "restart"]
     \/ /\ dlg.admin /\ task /\ Denied /\ UNCHANGED <<reg, task, dlg, cfg, proc>>

(* WM_VKEY_RESTART: RestartWithNewAdminMode, and Exit if it was successful. *)
RestartElevated ==
  /\ proc.pc = "restart"
  /\ \/ /\ cfg.admin = proc.elev /\ Accepts
        /\ proc' = [proc EXCEPT !.pc = "up"] /\ Note("no restart") /\ UNCHANGED <<cfg, dlg>>
     \/ /\ cfg.admin /\ ~proc.elev /\ Accepts
        /\ proc' = [pc |-> "start", elev |-> TRUE] /\ dlg' = cfg /\ UNCHANGED <<cfg, notes>>
     \/ /\ cfg.admin /\ ~proc.elev /\ Declines
        /\ cfg' = [cfg EXCEPT !.admin = FALSE]
        /\ proc' = [proc EXCEPT !.pc = "up"] /\ dlg' = dlg /\ Note("declined")
     \/ /\ ~cfg.admin /\ proc.elev /\ Accepts
        /\ proc' = [pc |-> "start", elev |-> FALSE] /\ dlg' = cfg /\ UNCHANGED <<cfg, notes>>
     \/ /\ ~cfg.admin /\ proc.elev /\ Declines              \* DeElevationFailed
        /\ proc' = [proc EXCEPT !.pc = "up"] /\ UNCHANGED <<cfg, dlg, notes>>
  /\ UNCHANGED <<reg, task>>

(* Logon, or the user starts it; SelfElevateIfNeeded.  The dialog is gone. *)
StartProcess(elev) ==
  /\ InTurn /\ proc.pc = "up"
  /\ \/ /\ (elev \/ ~cfg.admin) /\ Granted
        /\ proc' = [pc |-> "start", elev |-> elev] /\ cfg' = cfg
     \/ /\ ~elev /\ cfg.admin /\ Granted
        /\ proc' = [pc |-> "start", elev |-> TRUE] /\ cfg' = cfg
     \/ /\ ~elev /\ cfg.admin /\ Denied
        /\ proc' = [pc |-> "start", elev |-> FALSE] /\ cfg' = [cfg EXCEPT !.admin = FALSE]
  /\ notes' = IF cfg'.admin # cfg.admin /\ task THEN notes \cup {"left behind"} ELSE notes
  /\ dlg' = cfg' /\ UNCHANGED <<reg, task>>

(* What the next start makes good. *)
Mended == {"declined", "no restart"}

(* Mutant: a task that is lost is not made again. *)
EnsureStartupRegistrationOnce ==
  /\ proc.pc = "start" /\ proc' = [proc EXCEPT !.pc = "up"]
  /\ reg' = (cfg.start /\ ~cfg.admin) /\ Accepts /\ notes' = notes \ Mended
  /\ UNCHANGED <<task, cfg, dlg>>

(* EnsureStartupRegistration *)
EnsureStartupRegistration ==
  /\ proc.pc = "start" /\ proc' = [proc EXCEPT !.pc = "up"]
  /\ \/ ~cfg.start /\ Accepts /\ UNCHANGED <<reg, task, cfg, notes>>
     \/ cfg.start /\ cfg.admin /\ task /\ Accepts /\ reg' = FALSE /\ UNCHANGED <<task, cfg, notes>>
     \/ /\ cfg.start /\ cfg.admin /\ ~task /\ proc.elev /\ reg' = FALSE /\ cfg' = cfg
        /\ \/ Accepts /\ task' = TRUE /\ notes' = notes \ Mended
           \/ Declines /\ task' = task /\ Note("declined")
     \/ /\ cfg.start /\ cfg.admin /\ ~task /\ ~proc.elev /\ Accepts
        /\ reg' = TRUE /\ cfg' = [cfg EXCEPT !.admin = FALSE] /\ task' = task
        /\ notes' = notes \ Mended
     \/ /\ cfg.start /\ ~cfg.admin /\ Accepts /\ reg' = TRUE /\ UNCHANGED <<task, cfg>>
        /\ notes' = notes \ Mended
  /\ dlg' = cfg'

(* Windows, or a tool, removes the task. *)
TaskLost ==
  /\ task /\ Declines /\ task' = FALSE /\ Note("declined")
  /\ UNCHANGED <<reg, cfg, dlg, proc>>

SNext ==
  \/ ToggleRunStartup \/ ToggleRunAdmin \/ RestartElevated
  \/ (\E elev \in BOOLEAN : StartProcess(elev)) \/ EnsureStartupRegistration \/ TaskLost

SSpec == SInit /\ [][SNext]_svars

(***************************************************************************)
(* Properties.                                                             *)
(***************************************************************************)
(* The application never has both entries, which would start it twice, unless
   the user declined to have the task removed.  (RegisterRunOnStartup,
   EnsureStartupRegistration) *)
NotTwice == proc.pc = "up" /\ "left behind" \notin notes => ~(reg /\ task)

(* If it is to come up at logon there is an entry for it, and none otherwise;
   a prompt that was declined or a task that was lost is made good by the next
   start.  (EnsureStartupRegistration) *)
StartsAtLogon ==
  proc.pc = "up" /\ notes \cap ({"left behind"} \cup Mended) = {} => (cfg.start <=> (reg \/ task))

(* The application is started at logon once if it is to be, and not otherwise.
   (RegisterRunOnStartup, EnsureStartupRegistration) *)
EntryIsRight == NotTwice /\ StartsAtLogon
=============================================================================
