---------------------------- MODULE FirstBootProofs ----------------------------
(***************************************************************************)
(* The safety properties of FirstBoot, for any number of polls and of      *)
(* boots, measured or not.                                                 *)
(*                                                                         *)
(* The marker is made by systemd long after the steps it speaks of, so the *)
(* strengthening says what the wizard has behind it at every prompt, and   *)
(* what the ceremony it started has done when it reports.                  *)
(***************************************************************************)
EXTENDS FirstBoot, TLAPS

\* A wizard only runs in a first boot that nobody has completed, and a first
\* boot is one whose machine ID is not on disk.
BootInv ==
    /\ at # "idle" => firstBoot /\ ~enrolled /\ unit = "activating"
    /\ firstBoot => ~committed

\* The steps before the one at hand are behind the wizard, all of them once the
\* marker is made.
WalkedInv ==
    /\ step \in {"luks", "ssh", "pam", "done"} => outcome["sb"] # "none"
    /\ step \in {"ssh", "pam", "done"} => outcome["luks"] # "none"
    /\ step \in {"pam", "done"} => outcome["ssh"] # "none"
    /\ step = "done" => outcome["pam"] # "none"
    /\ enrolled => step = "done"

\* A ceremony run by the wizard reports only after it sealed.
CeremonyInv ==
    /\ running \in {"none", "all"}
    /\ progress = "sealed" => stage = "marked"
    /\ at = "run" /\ step = "sb" /\ report => stage \in {"marked", "cleared"}
    /\ outcome["sb"] = "ok" => stage \in {"marked", "cleared"}

\* A line once appended to the authfile stays.
PamInv ==
    /\ at = "appended" => authfile /\ step = "pam"
    /\ outcome["pam"] = "ok" => authfile

FInv == WTypeOK /\ BootInv /\ WalkedInv /\ CeremonyInv /\ PamInv

\* The first boot of a fresh machine.
LEMMA FInvInit == WInit => FInv
<1> SUFFICES ASSUME WInit PROVE FInv
    OBVIOUS
<1>1. Ceremony!CTypeOK
    BY DEF WInit, Ceremony!CInit, Ceremony!CTypeOK, Ceremony!Stages
<1>2. polls \in 0 .. MaxPolls /\ boots \in 0 .. MaxBoots
    BY PollsAssumption, BootsAssumption DEF WInit
<1>3. outcome \in [WizardSteps -> {"none", "declined", "ok"}]
    BY DEF WInit
<1>4. WTypeOK
    BY <1>1, <1>2, <1>3 DEF WInit, WTypeOK, WizardSteps
<1> QED
    BY <1>4 DEF WInit, FInv, BootInv, WalkedInv, CeremonyInv, PamInv, WizardSteps,
                Ceremony!CInit

-----------------------------------------------------------------------------
(* One lemma per part of the strengthening.                                *)

\* Every action keeps the types.
LEMMA TypesKept == FInv /\ WNext => WTypeOK'
<1> SUFFICES ASSUME FInv, WNext PROVE WTypeOK'
    OBVIOUS
<1> USE PollsAssumption, BootsAssumption
    DEF FInv, WTypeOK, WizardSteps, After, Done, system, ceremony,
        Ceremony!CTypeOK, Ceremony!Stages
<1>0. CASE StartService \/ WaitStep
    BY <1>0 DEF StartService, WaitStep, KeyFound, Poll, WaitTimeout
<1>1. CASE PressEnter \/ UnboundUser \/ AppendLine \/ MarkComplete
    BY <1>1, ZenonT(30) DEF PressEnter, UnboundUser, AppendLine, MarkComplete
<1>2. CASE \E s \in WizardSteps : Decline(s)
    BY <1>2 DEF Decline
<1>3. ASSUME NEW s \in WizardSteps, Accept(s)
      PROVE  WTypeOK'
  <2>1. Ceremony!CTypeOK'
    BY <1>3 DEF Accept, Ceremony!Begin
  <2> QED
    BY <1>3, <2>1 DEF Accept
<1>4. CASE RunCeremony
    BY <1>4, ZenonT(30) DEF RunCeremony, Ceremony!TakeOwnership, Ceremony!Seal, Ceremony!Report, Ceremony!Fail
<1>5. CASE CeremonyReturns \/ RunLuks \/ RunSsh
    BY <1>5 DEF CeremonyReturns, RunLuks, RunSsh
<1>6. CASE WizardFails
    BY <1>6 DEF WizardFails, Ceremony!Fail
<1>7. CASE Reboot
    BY <1>7 DEF Reboot, Ceremony!Clear, Ceremony!Fail
<1>8. CASE PamReturns
    BY <1>8 DEF PamReturns
<1>9. CASE Plug
    BY <1>9 DEF Plug
<1>10. CASE StartupFinished
  <2>1. /\ firstBoot' \in BOOLEAN /\ committed' \in BOOLEAN
        /\ UNCHANGED <<stage, running, progress, report, enrolled, unit, at, step, outcome,
                       plugged, authfile, polls, userSet, boots>>
    BY <1>10 DEF StartupFinished
  <2> QED
    BY <2>1
<1> QED
    BY <1>0, <1>1, <1>2, <1>3, <1>4, <1>5, <1>6, <1>7, <1>8, <1>9, <1>10 DEF WNext

\* The service starts in a first boot without the marker; what ends a first
\* boot or makes the marker finds no wizard running.
LEMMA BootKept == FInv /\ WNext => BootInv'
<1> SUFFICES ASSUME FInv, WNext PROVE BootInv'
    OBVIOUS
<1> USE DEF FInv, WTypeOK, BootInv, Done, system
<1>1. CASE StartService \/ WaitStep \/ PressEnter \/ UnboundUser \/ AppendLine \/ PamReturns
           \/ MarkComplete \/ WizardFails \/ Plug \/ StartupFinished \/ Reboot
    BY <1>1 DEF StartService, WaitStep, KeyFound, Poll, WaitTimeout, PressEnter, UnboundUser,
                AppendLine, PamReturns, MarkComplete, WizardFails, Plug, StartupFinished, Reboot
<1>2. CASE \E s \in WizardSteps : Decline(s) \/ Accept(s)
    BY <1>2 DEF Decline, Accept
<1>3. CASE RunCeremony \/ CeremonyReturns \/ RunLuks \/ RunSsh
    BY <1>3 DEF RunCeremony, CeremonyReturns, RunLuks, RunSsh
<1> QED
    BY <1>1, <1>2, <1>3 DEF WNext

\* Done moves on from the step whose outcome it records; a new wizard starts
\* over.
LEMMA WalkedKept == FInv /\ WNext => WalkedInv'
<1> SUFFICES ASSUME FInv, WNext PROVE WalkedInv'
    OBVIOUS
<1> USE DEF FInv, WTypeOK, WalkedInv, WizardSteps, system
<1>1. ASSUME NEW s \in WizardSteps, NEW result \in {"declined", "ok"},
             step = s, Done(s, result), UNCHANGED enrolled, at # "idle"
      PROVE  WalkedInv'
    BY <1>1 DEF Done, After, BootInv
<1>2. CASE StartService
    BY <1>2 DEF StartService
<1>3. CASE WaitStep \/ PressEnter \/ UnboundUser \/ AppendLine
           \/ MarkComplete \/ WizardFails \/ Plug \/ StartupFinished \/ Reboot \/ RunCeremony
    BY <1>3 DEF WaitStep, KeyFound, Poll, WaitTimeout, PressEnter, UnboundUser, AppendLine,
                MarkComplete, WizardFails, Plug, StartupFinished, Reboot, RunCeremony
<1>4. CASE \E s \in WizardSteps : Decline(s)
    BY <1>1, <1>4 DEF Decline
<1>5. CASE \E s \in WizardSteps : Accept(s)
    BY <1>5 DEF Accept
<1>6. CASE CeremonyReturns \/ RunLuks \/ RunSsh
    BY <1>1, <1>6 DEF CeremonyReturns, RunLuks, RunSsh
<1>7. CASE PamReturns
    BY <1>1, <1>7 DEF PamReturns, PamInv
<1> QED
    BY <1>2, <1>3, <1>4, <1>5, <1>6, <1>7 DEF WNext

\* A report is of this run, and a sealed stage is never given up.
LEMMA CeremonyKept == FInv /\ WNext => CeremonyInv'
<1> SUFFICES ASSUME FInv, WNext PROVE CeremonyInv'
    OBVIOUS
<1> USE DEF FInv, WTypeOK, CeremonyInv, WizardSteps, system, ceremony,
            Ceremony!CTypeOK, Ceremony!Stages
<1>1. CASE StartService \/ WaitStep \/ PressEnter \/ UnboundUser \/ AppendLine
           \/ MarkComplete \/ Plug \/ StartupFinished
    BY <1>1 DEF StartService, WaitStep, KeyFound, Poll, WaitTimeout, PressEnter, UnboundUser,
                AppendLine, MarkComplete, Plug, StartupFinished
<1>2. CASE \E s \in WizardSteps : Decline(s)
    BY <1>2 DEF Decline, Done
<1>3. CASE \E s \in WizardSteps : Accept(s)
    BY <1>3 DEF Accept, Ceremony!Begin
<1>4. CASE RunCeremony
    BY <1>4 DEF RunCeremony, Ceremony!TakeOwnership, Ceremony!Seal, Ceremony!Report, Ceremony!Fail
<1>5. CASE CeremonyReturns \/ RunLuks \/ RunSsh \/ PamReturns
    BY <1>5 DEF CeremonyReturns, RunLuks, RunSsh, PamReturns, Done
<1>6. CASE WizardFails
    BY <1>6 DEF WizardFails, Ceremony!Fail
<1>7. CASE Reboot
    BY <1>7 DEF Reboot, Ceremony!Clear, Ceremony!Fail
<1> QED
    BY <1>1, <1>2, <1>3, <1>4, <1>5, <1>6, <1>7 DEF WNext

\* The pam step is done once the line is in.
LEMMA PamKept == FInv /\ WNext => PamInv'
<1> SUFFICES ASSUME FInv, WNext PROVE PamInv'
    OBVIOUS
<1> USE DEF FInv, WTypeOK, PamInv, WizardSteps, system
<1>1. CASE StartService \/ WaitStep \/ PressEnter \/ UnboundUser \/ AppendLine
           \/ MarkComplete \/ WizardFails \/ Plug \/ StartupFinished \/ Reboot \/ RunCeremony
    BY <1>1 DEF StartService, WaitStep, KeyFound, Poll, WaitTimeout, PressEnter, UnboundUser,
                AppendLine, MarkComplete, WizardFails, Plug, StartupFinished, Reboot, RunCeremony
<1>2. CASE \E s \in WizardSteps : Decline(s) \/ Accept(s)
    BY <1>2 DEF Decline, Accept, Done
<1>3. CASE CeremonyReturns \/ RunLuks \/ RunSsh \/ PamReturns
    BY <1>3 DEF CeremonyReturns, RunLuks, RunSsh, PamReturns, Done
<1> QED
    BY <1>1, <1>2, <1>3 DEF WNext

\* FInv is inductive.
LEMMA FInvNext == FInv /\ [WNext]_wvars => FInv'
<1> SUFFICES ASSUME FInv, [WNext]_wvars PROVE FInv'
    OBVIOUS
<1>1. CASE WNext
    BY <1>1, TypesKept, BootKept, WalkedKept, CeremonyKept, PamKept DEF FInv
<1>2. CASE UNCHANGED wvars
    BY <1>2 DEF wvars, FInv, WTypeOK, BootInv, WalkedInv, CeremonyInv, PamInv,
                Ceremony!CTypeOK
<1> QED
    BY <1>1, <1>2

-----------------------------------------------------------------------------
(* The theorems.                                                           *)

\* What the wizard and its unit may count on, in every state of the machine.
THEOREM WizardInvariance == WSpec => []FInv
<1>1. FInv /\ [WNext]_wvars => FInv'
    BY FInvNext
<1> QED
    BY <1>1, FInvInit, PTL DEF WSpec

\* The wizard's variables and what systemd and the disk keep of it have their
\* types (enroll.sh, yubiOS-enroll.service).
THEOREM WizardTypesAlways == WSpec => []WTypeOK
<1>1. FInv => WTypeOK
    BY DEF FInv
<1> QED
    BY <1>1, WizardInvariance, PTL

\* The marker touched by ExecStartPost stands for a wizard that went all the
\* way, however many boots and failures came before.
THEOREM EnrolledMeansWalkedAlways == WSpec => []EnrolledMeansWalked
<1>1. FInv => EnrolledMeansWalked
    BY DEF FInv, WalkedInv, CeremonyInv, PamInv, EnrolledMeansWalked, WizardSteps
<1> QED
    BY <1>1, WizardInvariance, PTL

\* ConditionPathExists=!.enrolled and the ordering of the boot keep a second
\* wizard away.
THEOREM NoSecondWizardAlways == WSpec => []NoSecondWizard
<1>1. FInv => NoSecondWizard
    BY DEF FInv, BootInv, NoSecondWizard
<1> QED
    BY <1>1, WizardInvariance, PTL

\* The machine ID is not committed, and the marker not made, under a running
\* wizard: a power loss in it is followed by a first boot.
THEOREM InterruptedIsOfferedAgainAlways == WSpec => InterruptedIsOfferedAgain
<1>1. FInv /\ [WNext]_wvars => [at # "idle" /\ boots' # boots => firstBoot' /\ ~enrolled']_wvars
  <2> SUFFICES ASSUME FInv, WNext, at # "idle", boots' # boots
               PROVE  firstBoot' /\ ~enrolled'
    OBVIOUS
  <2>1. Reboot
    BY DEF WNext, system, StartService, WaitStep, KeyFound, Poll, WaitTimeout, PressEnter,
           Decline, Accept, UnboundUser, RunCeremony, CeremonyReturns, RunLuks, RunSsh,
           AppendLine, PamReturns, MarkComplete, WizardFails, Plug, StartupFinished
  <2> QED
    BY <2>1 DEF Reboot, FInv, BootInv, WTypeOK
<1> QED
    BY <1>1, WizardInvariance, PTL DEF WSpec, InterruptedIsOfferedAgain

\* Polls that wait_for_yubikey has still to make, and the look at their number
\* that gives up.
PollsLeft == IF at = "wait" THEN (MaxPolls + 1) - polls ELSE 0

\* A boot without a YubiKey is not held up for ever, WaitEnds's part that needs no
\* fairness: each turn of wait_for_yubikey's loop leaves fewer, and neither a key
\* that comes and goes nor the udev rule that it triggers starts the count anew.
THEOREM FewerPollsLeft ==
    WSpec => /\ [](PollsLeft \in Nat)
             /\ [][at = "wait" => /\ PollsLeft' <= PollsLeft
                                  /\ WaitStep => PollsLeft' < PollsLeft]_wvars
<1>1. FInv => MaxPolls \in Nat /\ polls \in 0 .. MaxPolls
    BY PollsAssumption DEF FInv, WTypeOK
<1>2. FInv => PollsLeft \in Nat
    BY <1>1 DEF PollsLeft
<1>3. ASSUME FInv, [WNext]_wvars, at = "wait"
      PROVE  /\ PollsLeft' <= PollsLeft
             /\ WaitStep => PollsLeft' < PollsLeft
  <2>1. PollsLeft = (MaxPolls + 1) - polls /\ MaxPolls \in Nat /\ polls \in 0 .. MaxPolls
      BY <1>1, <1>3 DEF PollsLeft
  <2>2. CASE at' # "wait"
    <3>1. PollsLeft' = 0
        BY <2>2 DEF PollsLeft
    <3> QED
        BY <2>1, <3>1
  <2>3. CASE Poll
    <3>1. PollsLeft' = (MaxPolls + 1) - (polls + 1)
        BY <1>3, <2>3 DEF Poll, PollsLeft
    <3> QED
        BY <2>1, <3>1
  <2>4. CASE at' = at /\ polls' = polls /\ ~WaitStep
    <3>1. PollsLeft' = PollsLeft
        BY <2>4 DEF PollsLeft
    <3> QED
        BY <2>1, <2>4, <3>1
  <2>5. at' # "wait" \/ Poll \/ (at' = at /\ polls' = polls /\ ~WaitStep)
    <3>1. ~StartService
        BY <1>3 DEF FInv, BootInv, StartService
    <3>2. CASE KeyFound \/ WaitTimeout \/ WizardFails \/ Reboot
        BY <3>2 DEF KeyFound, WaitTimeout, WizardFails, Reboot
    <3>3. CASE Plug \/ UNCHANGED wvars
      <4>1. at' = at /\ polls' = polls
          BY <3>3 DEF Plug, wvars
      <4>2. WaitStep => Poll \/ at' # "wait"
          BY DEF WaitStep, KeyFound, WaitTimeout
      <4> QED
          BY <4>1, <4>2
    <3>4. ~(\E s \in WizardSteps : Decline(s) \/ Accept(s))
        BY <1>3 DEF Decline, Accept
    <3>5. ~(\/ PressEnter \/ UnboundUser \/ RunCeremony \/ CeremonyReturns \/ RunLuks
            \/ RunSsh \/ AppendLine \/ PamReturns \/ MarkComplete \/ StartupFinished)
        BY <1>3 DEF PressEnter, UnboundUser, RunCeremony, CeremonyReturns, RunLuks, RunSsh,
                    AppendLine, PamReturns, MarkComplete, StartupFinished
    <3> QED
        BY <1>3, <3>1, <3>2, <3>3, <3>4, <3>5 DEF WNext, WaitStep
  <2> QED
      BY <2>2, <2>3, <2>4, <2>5
<1> QED
    BY <1>2, <1>3, WizardInvariance, PTL DEF WSpec
================================================================================
