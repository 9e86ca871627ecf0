------------------------------- MODULE FirstBoot -------------------------------
(***************************************************************************)
(* The first-boot enrollment wizard usr/lib/yubiOS/enroll.sh, run by       *)
(* yubiOS-enroll.service: waiting for a YubiKey, four steps that are each  *)
(* offered and may be declined, and the marker that keeps the service from *)
(* starting again.                                                         *)
(*                                                                         *)
(* The Secure Boot step is the whole of enroll-sb.sh, seen through what    *)
(* Ceremony promises of it; the other steps are seen through what they     *)
(* leave behind.  A reboot or a power loss may come at any moment.         *)
(*                                                                         *)
(* An operator marked "Slip" is a plausible mistake in the definition that *)
(* follows it.  No behaviour of WSpec uses it; PROJECT.json names the      *)
(* property that notices it.                                               *)
(***************************************************************************)
EXTENDS Naturals

CONSTANTS Measured,   \* ConditionSecurity=measured-os
          MaxPolls,   \* polls wait_for_yubikey makes before it gives up
          MaxBoots    \* bound: boots after the first

ASSUME MeasuredAssumption == Measured \in BOOLEAN
ASSUME PollsAssumption    == MaxPolls \in Nat
ASSUME BootsAssumption    == MaxBoots \in Nat

VARIABLES
    stage, running, progress, report,   \* the ceremony
    firstBoot,  \* this boot's ConditionFirstBoot
    committed,  \* whether /etc/machine-id is on disk
    enrolled,   \* whether /var/lib/yubiOS/.enrolled exists
    unit,       \* what systemd knows of yubiOS-enroll.service
    at,         \* where the wizard is, "idle" when none runs
    step,       \* the step it is at
    outcome,    \* what became of each step in the last wizard
    plugged,    \* whether a YubiKey is plugged in
    authfile,   \* whether /etc/yubico/u2f_keys has a line
    polls,      \* polls of wait_for_yubikey
    userSet,    \* whether a drop-in gives the unit $USER; as shipped it has none
    boots       \* reboots so far

ceremony == <<stage, running, progress, report>>
system   == <<firstBoot, committed, plugged, userSet, boots>>
wvars    == <<stage, running, progress, report, firstBoot, committed, enrolled,
              unit, at, step, outcome, plugged, authfile, polls, userSet, boots>>

Ceremony == INSTANCE Ceremony WITH Phases <- {"enroll", "resign", "all"}

WizardSteps == {"sb", "luks", "ssh", "pam"}
After == [sb |-> "luks", luks |-> "ssh", ssh |-> "pam", pam |-> "done"]

WTypeOK ==
    /\ Ceremony!CTypeOK
    /\ firstBoot \in BOOLEAN /\ committed \in BOOLEAN /\ enrolled \in BOOLEAN
    /\ unit \in {"inactive", "activating", "active", "failed"}
    /\ at \in {"idle", "wait", "enter", "ask", "run", "appended"}
    /\ step \in WizardSteps \union {"done"}
    /\ outcome \in [WizardSteps -> {"none", "declined", "ok"}]
    /\ plugged \in BOOLEAN /\ authfile \in BOOLEAN
    /\ polls \in 0 .. MaxPolls
    /\ userSet \in BOOLEAN
    /\ boots \in 0 .. MaxBoots

WInit ==
    /\ Ceremony!CInit
    /\ firstBoot = TRUE /\ committed = FALSE /\ enrolled = FALSE
    /\ unit = "inactive"
    /\ at = "idle"
    /\ step = "sb"
    /\ outcome = [s \in WizardSteps |-> "none"]
    /\ plugged \in BOOLEAN
    /\ authfile = FALSE
    /\ polls = 0
    /\ userSet \in BOOLEAN
    /\ boots = 0

-----------------------------------------------------------------------------
(* The unit.                                                               *)

\* Slip: no ConditionPathExists=!.enrolled.
StartUnmarked ==
    /\ unit \in {"inactive", "failed"}
    /\ firstBoot /\ Measured
    /\ unit' = "activating"
    /\ at' = "wait" /\ polls' = 0 /\ step' = "sb"
    /\ outcome' = [s \in WizardSteps |-> "none"]
    /\ UNCHANGED <<ceremony, system, enrolled, authfile>>

\* Wanted at boot and by the udev rule at every plugging-in; systemd does
\* nothing when the unit is activating or active, and nothing but forget the
\* request when a condition is false.
StartService ==
    /\ unit \in {"inactive", "failed"}
    /\ firstBoot /\ ~enrolled /\ Measured
    /\ unit' = "activating"
    /\ at' = "wait" /\ polls' = 0 /\ step' = "sb"
    /\ outcome' = [s \in WizardSteps |-> "none"]
    /\ UNCHANGED <<ceremony, system, enrolled, authfile>>

\* set -e, Ctrl-C, end of file on tty1: the wizard and the script it runs are
\* gone.
WizardFails ==
    /\ at # "idle"
    /\ at' = "idle" /\ unit' = "failed"
    /\ IF running = "none" THEN UNCHANGED ceremony ELSE Ceremony!Fail
    /\ UNCHANGED <<system, enrolled, step, outcome, authfile, polls>>

\* ExecStartPost: touch .enrolled, once enroll.sh exited with 0.
MarkComplete ==
    /\ at = "ask" /\ step = "done"
    /\ at' = "idle" /\ unit' = "active"
    /\ enrolled' = TRUE
    /\ UNCHANGED <<ceremony, system, step, outcome, authfile, polls>>

-----------------------------------------------------------------------------
(* enroll.sh.                                                              *)

KeyFound ==
    /\ at = "wait" /\ plugged
    /\ at' = "enter"
    /\ UNCHANGED <<ceremony, system, enrolled, unit, step, outcome, authfile, polls>>

\* Slip: attempts is not incremented.
PollUncounted ==
    /\ at = "wait" /\ ~plugged
    /\ polls < MaxPolls
    /\ UNCHANGED wvars

\* Slip: attempts is incremented and never looked at.
PollUnbounded ==
    /\ at = "wait" /\ ~plugged
    /\ polls' = polls + 1
    /\ UNCHANGED <<ceremony, system, enrolled, unit, at, step, outcome, authfile>>

Poll ==
    /\ at = "wait" /\ ~plugged
    /\ polls < MaxPolls
    /\ polls' = polls + 1
    /\ UNCHANGED <<ceremony, system, enrolled, unit, at, step, outcome, authfile>>

WaitTimeout ==
    /\ at = "wait" /\ ~plugged
    /\ polls = MaxPolls
    /\ at' = "idle" /\ unit' = "failed"
    /\ UNCHANGED <<ceremony, system, enrolled, step, outcome, authfile, polls>>

PressEnter ==
    /\ at = "enter"
    /\ at' = "ask"
    /\ UNCHANGED <<ceremony, system, enrolled, unit, step, outcome, authfile, polls>>

Done(s, result) ==
    /\ outcome' = [outcome EXCEPT ![s] = result]
    /\ step' = After[s]
    /\ at' = "ask"

Decline(s) ==
    /\ at = "ask" /\ step = s
    /\ Done(s, "declined")
    /\ UNCHANGED <<ceremony, system, enrolled, unit, authfile, polls>>

Accept(s) ==
    /\ at = "ask" /\ step = s
    /\ s = "ssh" => userSet
    /\ at' = "run"
    /\ IF s = "sb" THEN Ceremony!Begin("all") ELSE UNCHANGED ceremony
    /\ UNCHANGED <<system, enrolled, unit, step, outcome, authfile, polls>>

\* "${SUDO_USER:-$USER}" under set -u, where neither is set.
UnboundUser ==
    /\ at = "ask" /\ step = "ssh" /\ ~userSet
    /\ at' = "idle" /\ unit' = "failed"
    /\ UNCHANGED <<ceremony, system, enrolled, step, outcome, authfile, polls>>

\* enroll-sb.sh at work.
RunCeremony ==
    /\ at = "run" /\ step = "sb"
    /\ Ceremony!TakeOwnership \/ Ceremony!Seal \/ Ceremony!Report \/ Ceremony!Fail
    /\ UNCHANGED <<system, enrolled, unit, at, step, outcome, authfile, polls>>

\* Slip: the exit status of enroll-sb.sh is lost.
CeremonyReturnsUnchecked ==
    /\ at = "run" /\ step = "sb"
    /\ running = "none"
    /\ Done("sb", "ok")
    /\ UNCHANGED <<ceremony, system, enrolled, unit, authfile, polls>>

\* It returned 0: phase_resign's last command is the report.
CeremonyReturns ==
    /\ at = "run" /\ step = "sb"
    /\ running = "none" /\ report
    /\ Done("sb", "ok")
    /\ UNCHANGED <<ceremony, system, enrolled, unit, authfile, polls>>

\* enroll-luks.sh asks once more, and returns 0 for "n" too.
RunLuks ==
    /\ at = "run" /\ step = "luks"
    /\ Done("luks", "ok") \/ Done("luks", "declined")
    /\ UNCHANGED <<ceremony, system, enrolled, unit, authfile, polls>>

RunSsh ==
    /\ at = "run" /\ step = "ssh"
    /\ Done("ssh", "ok")
    /\ UNCHANGED <<ceremony, system, enrolled, unit, authfile, polls>>

AppendLine ==
    /\ at = "run" /\ step = "pam"
    /\ plugged
    /\ authfile' = TRUE
    /\ at' = "appended"
    /\ UNCHANGED <<ceremony, system, enrolled, unit, step, outcome, polls>>

PamReturns ==
    /\ at = "appended"
    /\ Done("pam", "ok")
    /\ UNCHANGED <<ceremony, system, enrolled, unit, authfile, polls>>

WaitStep == KeyFound \/ Poll \/ WaitTimeout

-----------------------------------------------------------------------------
(* The machine.                                                            *)

Plug ==
    /\ plugged' = ~plugged
    /\ UNCHANGED <<ceremony, firstBoot, committed, enrolled, unit, at, step, outcome,
                   authfile, polls, userSet, boots>>

\* Slip: first-boot-complete.target is not ordered after the wizard.
StartupFinishedEarly ==
    /\ firstBoot
    /\ firstBoot' = FALSE /\ committed' = TRUE
    /\ UNCHANGED <<ceremony, enrolled, unit, at, step, outcome, plugged, authfile,
                   polls, userSet, boots>>

\* first-boot-complete.target wants the wizard and so waits for its end; the
\* machine ID is committed after that target.
StartupFinished ==
    /\ firstBoot
    /\ at = "idle"
    /\ unit = "inactive" => enrolled \/ ~Measured
    /\ firstBoot' = FALSE /\ committed' = TRUE
    /\ UNCHANGED <<ceremony, enrolled, unit, at, step, outcome, plugged, authfile,
                   polls, userSet, boots>>

\* A reboot, asked for or not, perhaps by way of the firmware's setup screen.
Reboot ==
    /\ boots < MaxBoots /\ boots' = boots + 1
    /\ firstBoot' = ~committed
    /\ unit' = "inactive" /\ at' = "idle"
    /\ \/ Ceremony!Clear
       \/ IF running = "none" THEN UNCHANGED ceremony ELSE Ceremony!Fail
    /\ UNCHANGED <<committed, enrolled, step, outcome, plugged, authfile, polls, userSet>>

WNext ==
    \/ StartService
    \/ WaitStep \/ PressEnter
    \/ \E s \in WizardSteps : Decline(s) \/ Accept(s)
    \/ UnboundUser
    \/ RunCeremony \/ CeremonyReturns \/ RunLuks \/ RunSsh
    \/ AppendLine \/ PamReturns
    \/ MarkComplete \/ WizardFails
    \/ Plug \/ StartupFinished \/ Reboot

WSpec == WInit /\ [][WNext]_wvars

\* wait_for_yubikey's loop runs on by itself; everything after it waits for the
\* user.
WFairSpec == WSpec /\ WF_wvars(WaitStep)

-----------------------------------------------------------------------------
(* Properties.                                                             *)

\* The marker stands for one wizard that went all the way: each step done or
\* declined by the user, and a step that counts as done did what it says, as
\* long as nobody clears the firmware's keys.
EnrolledMeansWalked ==
    enrolled => /\ \A s \in WizardSteps : outcome[s] # "none"
                /\ outcome["sb"] = "ok" => stage \in {"marked", "cleared"}
                /\ outcome["pam"] = "ok" => authfile

\* No wizard runs on an enrolled machine, not even when power was lost between
\* the marker and the commit of the machine ID and the boot is a first boot
\* again.
NoSecondWizard == enrolled => at = "idle"

\* A machine that loses power in the middle of the wizard is offered it again:
\* its next boot is still a first boot, without the marker.
InterruptedIsOfferedAgain ==
    [][at # "idle" /\ boots' # boots => firstBoot' /\ ~enrolled']_wvars

\* A boot without a YubiKey is not held up for ever.
WaitEnds == at = "wait" ~> at # "wait"

\* "Each step is skippable": a completed wizard leaves somebody whom the
\* required pam_u2f lines of sudo and login can accept.
SkippingLeavesAWayIn == unit = "active" => authfile

\* "independently re-runnable": a Secure Boot step that is accepted can succeed.
AcceptedCeremonyCanSucceed ==
    [][Accept("sb") => stage = "setup"]_wvars

\* "walks through ... SSH resident key generation": a step the wizard offers can
\* be run.
OfferedStepCanRun ==
    \A s \in WizardSteps : at = "ask" /\ step = s => ENABLED Accept(s)
=============================================================================
