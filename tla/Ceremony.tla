------------------------------- MODULE Ceremony -------------------------------
(***************************************************************************)
(* What enroll-sb.sh promises to whoever runs it: its effect on who owns   *)
(* the machine, one step per change of ownership.  SecureBoot implements   *)
(* this specification; FirstBoot, the wizard, sees no more of the script   *)
(* than this.                                                              *)
(***************************************************************************)
CONSTANTS Phases   \* the script's arguments

VARIABLES
    stage,     \* who owns the machine, and whether the script knows
    running,   \* the argument of the running script, "none" when none runs
    progress,  \* what the running script has done to the stage
    report     \* whether the last run printed "Reboot is now safe."

cvars == <<stage, running, progress, report>>

\* setup    nobody owns the firmware and no ceremony was marked
\* stuck    the PK is in, the ceremony is not marked
\* marked   the PK is in and the ceremony is marked
\* cleared  a marked ceremony's PK was cleared from the setup screen
Stages == {"setup", "stuck", "marked", "cleared"}

CTypeOK ==
    /\ stage \in Stages
    /\ running \in Phases \union {"none"}
    /\ progress \in {"none", "owned", "sealed"}
    /\ report \in BOOLEAN

CInit ==
    /\ stage = "setup"
    /\ running = "none"
    /\ progress = "none"
    /\ report = FALSE

Begin(p) ==
    /\ running = "none"
    /\ running' = p
    /\ report' = FALSE
    /\ UNCHANGED <<stage, progress>>

\* The PK is written: only where nobody owned the machine before.
TakeOwnership ==
    /\ running \in {"enroll", "all"} /\ progress = "none"
    /\ stage = "setup" /\ stage' = "stuck"
    /\ progress' = "owned"
    /\ UNCHANGED <<running, report>>

\* The run that took ownership marks the ceremony.
Seal ==
    /\ progress = "owned"
    /\ stage' = "marked"
    /\ \/ running = "all"    /\ progress' = "sealed" /\ UNCHANGED running
       \/ running = "enroll" /\ progress' = "none"   /\ running' = "none"
    /\ UNCHANGED report

\* A run that owed an enrollment only reports after it.
Report ==
    /\ running = "resign" \/ progress = "sealed"
    /\ report' = TRUE
    /\ running' = "none" /\ progress' = "none"
    /\ UNCHANGED stage

Fail ==
    /\ running # "none"
    /\ running' = "none" /\ progress' = "none"
    /\ UNCHANGED <<stage, report>>

\* The owner clears the firmware's keys, which takes a reboot.
Clear ==
    /\ stage' = CASE stage = "stuck"  -> "setup"
                  [] stage = "marked" -> "cleared"
                  [] OTHER            -> stage
    /\ running' = "none" /\ progress' = "none"
    /\ UNCHANGED report

CNext ==
    \/ \E p \in Phases : Begin(p)
    \/ TakeOwnership \/ Seal \/ Report \/ Fail
    \/ Clear

CSpec == CInit /\ [][CNext]_cvars
=============================================================================
