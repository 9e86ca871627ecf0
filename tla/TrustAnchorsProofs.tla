--------------------------- MODULE TrustAnchorsProofs ---------------------------
(***************************************************************************)
(* The safety properties of TrustAnchors, for any YubiKeys, volumes, disks,*)
(* users and host names and an authfile of any length.                     *)
(*                                                                         *)
(* The volumes keep their promises because enroll-luks.sh adds the key     *)
(* before it touches crypttab, and because no script removes a key, a      *)
(* crypttab line or a volume from the initramfs; the stacks keep theirs    *)
(* because a required pam_u2f line cannot be passed by.                    *)
(***************************************************************************)
EXTENDS TrustAnchors, FiniteSetTheorems, TLAPS

\* Between cryptenroll and dracut the volume has its key already.
EnrollingInv == at \in {"crypttab", "dracut"} => slots[vol] \intersect Keys # {}

VolumesInv == EnrollingInv /\ ConfiguredMeansEnrolled /\ WipedVolumeBoots

AInv == ATypeOK /\ VolumesInv

\* What lsblk's output gives enroll-luks.sh is a volume or nothing.
LEMMA DetectedType == Detected \in Vols \union {NoVol}
<1>1. CASE Printed = {}
    BY <1>1, FS_EmptySet DEF Detected
<1>2. CASE Printed # {}
    BY <1>2 DEF Detected, Printed
<1> QED
    BY <1>1, <1>2

\* The machine as installed.
LEMMA AInvInit == AInit => AInv
  BY LinesAssumption
     DEF AInit, AInv, ATypeOK, VolumesInv, EnrollingInv, ConfiguredMeansEnrolled, WipedVolumeBoots,
         Commands

-----------------------------------------------------------------------------
(* The types.                                                              *)

\* Every action keeps them.
LEMMA ATypesKept == ATypeOK /\ ANext => ATypeOK'
<1> SUFFICES ASSUME ATypeOK, ANext PROVE ATypeOK'
    OBVIOUS
<1> USE DEF ATypeOK, Commands, Finish, volumes
<1>1. CASE ScriptFails \/ Confirm
    BY <1>1 DEF ScriptFails, Confirm
<1>2. CASE UpdateCrypttab \/ Dracut
    BY <1>2 DEF UpdateCrypttab, Dracut
<1>3. CASE \E k \in Keys : Cryptenroll(k) \/ BackupLuks(k)
    BY <1>3 DEF Cryptenroll, BackupLuks
<1>4. CASE \E k \in Keys : EnrollPam(k) \/ BackupAppend(k)
  <2>1. PICK k \in Keys : AppendLine(k) /\ user \in Users
    BY <1>4 DEF EnrollPam, BackupAppend
  <2>2. [user |-> user, key |-> k, host |-> hostname] \in Entry
    BY <2>1 DEF Entry
  <2>3. authfile' \in Seq(Entry) /\ Len(authfile') <= MaxLines
    BY <2>1, <2>2, LinesAssumption DEF AppendLine
  <2> QED
    BY <2>1, <2>3 DEF AppendLine
<1>5. CASE \E v \in Vols \union {Detected} : StartLuks(v)
    BY <1>5, DetectedType DEF StartLuks
<1>6. CASE \E v \in Vols : WipePassword(v)
    BY <1>6 DEF WipePassword
<1>7. CASE \E u \in Users : StartPam(u)
    BY <1>7 DEF StartPam
<1>8. CASE \E u \in Users : \E v \in Vols \union {Detected} : StartBackup(u, v)
    BY <1>8, DetectedType DEF StartBackup
<1>9. CASE (\E K \in SUBSET Keys : Plug(K)) \/ \E h \in Hosts : Rename(h)
    BY <1>9 DEF Plug, Rename
<1> QED
    BY <1>1, <1>2, <1>3, <1>4, <1>5, <1>6, <1>7, <1>8, <1>9 DEF ANext, ScriptSteps

-----------------------------------------------------------------------------
(* The volumes.                                                            *)

\* Keys are only added, the passphrase is only wiped beside one, and crypttab
\* and the initramfs only learn of volumes that have one.
LEMMA VolumesKept == AInv /\ ANext => VolumesInv'
<1> SUFFICES ASSUME AInv, ANext PROVE VolumesInv'
    OBVIOUS
<1> USE DEF AInv, ATypeOK, VolumesInv, EnrollingInv, ConfiguredMeansEnrolled, WipedVolumeBoots
<1>1. ASSUME UNCHANGED volumes, at' \notin {"crypttab", "dracut"}
      PROVE  VolumesInv'
    BY <1>1 DEF volumes
<1>2. CASE ScriptFails \/ Confirm
    BY <1>1, <1>2 DEF ScriptFails, Confirm, Finish
<1>3. CASE \E k \in Keys : Cryptenroll(k) \/ BackupLuks(k)
  <2>1. PICK k \in Keys : Cryptenroll(k) \/ BackupLuks(k)
    BY <1>3
  <2>2. /\ vol \in Vols /\ slots' = [slots EXCEPT ![vol] = @ \union {k}]
        /\ UNCHANGED <<crypttab, initrd, vol>>
    BY <2>1 DEF Cryptenroll, BackupLuks
  <2>3. \A v \in Vols : slots[v] \subseteq slots'[v]
    BY <2>2
  <2>4. \A v \in Vols : Password \notin slots'[v] => Password \notin slots[v]
    BY <2>3
  <2>5. k \in slots'[vol']
    BY <2>2
  <2> QED
    BY <2>2, <2>3, <2>4, <2>5
<1>4. CASE UpdateCrypttab
    BY <1>4 DEF UpdateCrypttab
<1>5. CASE Dracut
    BY <1>5 DEF Dracut, Finish
<1>6. CASE \E k \in Keys : EnrollPam(k) \/ BackupAppend(k)
    BY <1>1, <1>6 DEF EnrollPam, BackupAppend, AppendLine, Finish
<1>7. CASE \E v \in Vols \union {Detected} : StartLuks(v)
    BY <1>1, <1>7 DEF StartLuks
<1>8. CASE \E u \in Users : StartPam(u) \/ \E v \in Vols \union {Detected} : StartBackup(u, v)
    BY <1>1, <1>8 DEF StartPam, StartBackup
<1>9. ASSUME NEW w \in Vols, WipePassword(w)
      PROVE  VolumesInv'
  <2>1. /\ at' = "idle" /\ UNCHANGED <<crypttab, initrd>> /\ initrd[w]
        /\ slots' = [slots EXCEPT ![w] = @ \ {Password}]
    BY <1>9 DEF WipePassword
  <2>2. \A v \in Vols : slots'[v] \intersect Keys = slots[v] \intersect Keys
    BY <2>1, SlotAssumption
  <2>3. \A v \in Vols \ {w} : slots'[v] = slots[v]
    BY <2>1
  <2> QED
    BY <2>1, <2>2, <2>3
<1>10. CASE (\E K \in SUBSET Keys : Plug(K)) \/ \E h \in Hosts : Rename(h)
    BY <1>10 DEF Plug, Rename, volumes
<1> QED
    BY <1>2, <1>3, <1>4, <1>5, <1>6, <1>7, <1>8, <1>9, <1>10 DEF ANext, ScriptSteps

\* AInv is inductive.
LEMMA AInvNext == AInv /\ [ANext]_avars => AInv'
<1>1. AInv /\ ANext => AInv'
    BY ATypesKept, VolumesKept DEF AInv, VolumesInv
<1>2. AInv /\ UNCHANGED avars => AInv'
    BY DEF avars, AInv, ATypeOK, VolumesInv, EnrollingInv, ConfiguredMeansEnrolled, WipedVolumeBoots
<1> QED
    BY <1>1, <1>2

\* What every script may count on.
THEOREM AnchorInvariance == ASpec => []AInv
<1>1. AInv /\ [ANext]_avars => AInv'
    BY AInvNext
<1> QED
    BY <1>1, AInvInit, PTL DEF ASpec

\* The volumes, the authfile and the running script keep their types.
THEOREM AnchorTypesAlways == ASpec => []ATypeOK
<1>1. AInv => ATypeOK
    BY DEF AInv
<1> QED
    BY <1>1, AnchorInvariance, PTL

\* enroll-luks.sh, interrupted anywhere, leaves no volume asking for a key it
\* does not have.
THEOREM ConfiguredMeansEnrolledAlways == ASpec => []ConfiguredMeansEnrolled
<1>1. AInv => ConfiguredMeansEnrolled
    BY DEF AInv, VolumesInv
<1> QED
    BY <1>1, AnchorInvariance, PTL

\* A passphrase wiped as enroll-luks.sh advises is not missed later.
THEOREM WipedVolumeBootsAlways == ASpec => []WipedVolumeBoots
<1>1. AInv => WipedVolumeBoots
    BY DEF AInv, VolumesInv
<1> QED
    BY <1>1, AnchorInvariance, PTL

-----------------------------------------------------------------------------
(* The stacks.                                                             *)

\* A login gets past the pam_u2f line and, unless homed let it by, the
\* password.
LEMMA SystemAuthNeeds ==
    ASSUME NEW u, NEW homed, NEW unix, PamAccepts(SystemAuth(u, homed, unix)), homed # "ok"
    PROVE  U2f(u, StackHost) = "ok" /\ unix = "ok"
  BY DEF PamAccepts, SystemAuth, Refuses, Ends, U2f

\* Nothing gets sudo past its own pam_u2f line.
LEMMA SudoNeeds ==
    ASSUME NEW u, NEW homed, NEW unix, PamAccepts(Sudo(u, homed, unix))
    PROVE  U2f(u, hostname) = "ok"
  BY DEF PamAccepts, Sudo, SystemAuth, Refuses, Ends, U2f

\* The shipped stacks let nobody by for whom no key of theirs was touched.
THEOREM TouchAlwaysNeededAlways == ASpec => []TouchAlwaysNeeded
<1>1. TouchAlwaysNeeded
    BY SystemAuthNeeds, SudoNeeds DEF TouchAlwaysNeeded, U2f
<1> QED
    BY <1>1, PTL

\* A user with the password has sudo when the last line of theirs is of a key
\* plugged in, and registered for both origins the stack asks for.
LEMMA SudoTakes ==
    ASSUME NEW u
    PROVE  CanSudo(u) <=> U2f(u, hostname) = "ok" /\ U2f(u, StackHost) = "ok"
<1>1. CanSudo(u) => U2f(u, hostname) = "ok" /\ U2f(u, StackHost) = "ok"
    BY DEF CanSudo, PamAccepts, Sudo, SystemAuth, Refuses, Ends, U2f
<1>2. U2f(u, hostname) = "ok" /\ U2f(u, StackHost) = "ok" => CanSudo(u)
  <2>1. ASSUME U2f(u, hostname) = "ok", U2f(u, StackHost) = "ok"
        PROVE  LET stack == Sudo(u, "ignore", "ok") IN
               /\ 4 \in 1 .. Len(stack) /\ stack[4] = <<"sufficient", "ok">>
               /\ \A m \in 1 .. 4 : ~Refuses(stack[m])
    BY <2>1 DEF Sudo, SystemAuth, Refuses
  <2> QED
    BY <2>1 DEF CanSudo, PamAccepts, Ends
<1> QED
    BY <1>1, <1>2

\* The line of an enrollment is its user's last one and nobody else's.
LEMMA LastLineAfter ==
    ASSUME ATypeOK, NEW u \in Users, NEW e \in Entry, authfile' = Append(authfile, e)
    PROVE  /\ e.user = u => LastLine(u)' = {Len(authfile) + 1}
           /\ e.user # u => LastLine(u)' = LastLine(u)
           /\ authfile'[Len(authfile) + 1] = e
           /\ \A n \in 1 .. Len(authfile) : authfile'[n] = authfile[n]
<1>1. /\ Len(authfile) \in Nat /\ Len(authfile') = Len(authfile) + 1
      /\ authfile'[Len(authfile) + 1] = e
      /\ \A n \in 1 .. Len(authfile) : authfile'[n] = authfile[n]
    BY DEF ATypeOK
<1>2. ASSUME e.user = u PROVE LastLine(u)' = {Len(authfile) + 1}
    BY <1>1, <1>2 DEF LastLine
<1>3. ASSUME e.user # u PROVE LastLine(u)' = LastLine(u)
  <2>1. {n \in 1 .. Len(authfile') : authfile'[n].user = u}
          = {n \in 1 .. Len(authfile) : authfile[n].user = u}
    BY <1>1, <1>3
  <2> QED
    BY <2>1 DEF LastLine
<1> QED
    BY <1>1, <1>2, <1>3

\* enroll-pam.sh and enroll-backup.sh take sudo from nobody who had it, with
\* the keys plugged in as they are: who had it is registered for the name the
\* machine has, and so is the new line.
THEOREM EnrollingKeepsSudoAlways == ASpec => EnrollingKeepsSudo
<1>1. ASSUME ATypeOK, NEW k \in Keys, user \in Users, AppendLine(k),
             hostname' = hostname, plugged' = plugged, NEW u \in Users, CanSudo(u)
      PROVE  U2f(u, hostname)' = "ok" /\ U2f(u, StackHost)' = "ok"
  <2> DEFINE e == [user |-> user, key |-> k, host |-> hostname]
  <2>1. e \in Entry /\ authfile' = Append(authfile, e) /\ k \in plugged
    BY <1>1 DEF Entry, ATypeOK, AppendLine
  <2>2. PICK n \in LastLine(u) : authfile[n].key \in plugged /\ authfile[n].host = hostname
    BY <1>1, SudoTakes DEF U2f
  <2>3. PICK m \in LastLine(u) : authfile[m].key \in plugged /\ authfile[m].host = StackHost
    BY <1>1, SudoTakes DEF U2f
  <2>4. n \in 1 .. Len(authfile) /\ m \in 1 .. Len(authfile) /\ m = n
    BY <2>2, <2>3 DEF LastLine
  <2>5. CASE user = u
    <3>1. LastLine(u)' = {Len(authfile) + 1} /\ authfile'[Len(authfile) + 1] = e
      BY <1>1, <2>1, <2>5, LastLineAfter
    <3> QED
      BY <1>1, <2>1, <2>2, <2>3, <2>4, <3>1 DEF U2f
  <2>6. CASE user # u
    <3>1. LastLine(u)' = LastLine(u) /\ authfile'[n] = authfile[n]
      BY <1>1, <2>1, <2>4, <2>6, LastLineAfter
    <3> QED
      BY <1>1, <2>2, <2>3, <2>4, <3>1 DEF U2f
  <2> QED
    BY <2>5, <2>6
<1>2. ASSUME ATypeOK, ANext, hostname' = hostname, plugged' = plugged, NEW u \in Users, CanSudo(u)
      PROVE  U2f(u, hostname)' = "ok" /\ U2f(u, StackHost)' = "ok"
  <2>1. CASE \E k \in Keys : EnrollPam(k) \/ BackupAppend(k)
    BY <1>1, <1>2, <2>1 DEF EnrollPam, BackupAppend, ATypeOK
  <2>2. CASE authfile' = authfile
    BY <1>2, <2>2, SudoTakes DEF U2f, LastLine
  <2>3. authfile' = authfile \/ \E k \in Keys : EnrollPam(k) \/ BackupAppend(k)
    BY <1>2 DEF ANext, ScriptSteps, ScriptFails, Confirm, UpdateCrypttab, Dracut, Cryptenroll,
                BackupLuks, StartLuks, WipePassword, StartPam, StartBackup, Plug, Rename
  <2> QED
    BY <2>1, <2>2, <2>3
<1>3. \A u : CanSudo(u) <=> U2f(u, hostname) = "ok" /\ U2f(u, StackHost) = "ok"
    BY SudoTakes
<1>4. (\A u : CanSudo(u) <=> U2f(u, hostname) = "ok" /\ U2f(u, StackHost) = "ok")'
    BY <1>3, PTL
<1>5. ATypeOK /\ [ANext]_avars =>
        [hostname' = hostname /\ plugged' = plugged /\ Cardinality(plugged) = 1
            => \A u \in Users : CanSudo(u) => CanSudo(u)']_avars
    BY <1>2, <1>4
<1> QED
    BY <1>5, AnchorTypesAlways, PTL DEF ASpec, EnrollingKeepsSudo
================================================================================
