----------------------------- MODULE TrustAnchors -----------------------------
(***************************************************************************)
(* Two other places a YubiKey is enrolled: LUKS2 volumes and the pam_u2f   *)
(* authfile, as usr/lib/yubiOS/enroll-luks.sh, enroll-pam.sh and           *)
(* enroll-backup.sh change them, and what the shipped PAM stacks make of   *)
(* the authfile.                                                           *)
(*                                                                         *)
(* One script runs at a time, at the granularity of the commands that      *)
(* leave something behind; any of them may fail, and power may be lost     *)
(* between any two.  YubiKeys are plugged in and pulled at any time, also  *)
(* while a script waits for its user.                                      *)
(*                                                                         *)
(* An operator marked "Slip" is a plausible mistake in the definition that *)
(* follows it.  No behaviour of ASpec uses it; PROJECT.json names the      *)
(* property that notices it.                                               *)
(***************************************************************************)
EXTENDS Naturals, Sequences, FiniteSets

CONSTANTS Keys,       \* YubiKeys
          Password,   \* the passphrase slot made at installation
          Vols,       \* LUKS2 partitions, in lsblk order
          Disk,       \* the disk each is on
          Users,
          NoUser,     \* the user of a script that has none
          Hosts,      \* names the machine may have
          StackHost,  \* yubiOS-system-auth pins origin=pam://yubiOS
          MaxLines    \* bound: lines in the authfile

NoVol == 0            \* a device path that names no partition

ASSUME SlotAssumption  == Password \notin Keys
ASSUME VolsAssumption  == Vols \subseteq Nat \ {NoVol}
ASSUME UsersAssumption == NoUser \notin Users
ASSUME HostAssumption  == StackHost \in Hosts
ASSUME LinesAssumption == MaxLines \in Nat

VARIABLES
    slots,     \* per volume, the keys and passphrases that open it
    crypttab,  \* per volume, its line in /etc/crypttab
    initrd,    \* per volume, whether the initramfs unlocks it through FIDO2
    authfile,  \* /etc/yubico/u2f_keys
    hostname,
    plugged,   \* YubiKeys plugged in
    at,        \* next command of the running script, "idle" when none runs
    vol,       \* its volume
    user       \* its user

volumes == <<slots, crypttab, initrd>>
avars   == <<slots, crypttab, initrd, authfile, hostname, plugged,
             at, vol, user>>

Entry == [user : Users, key : Keys, host : Hosts]

Commands == {"idle", "confirm", "cryptenroll", "crypttab", "dracut", "append",
             "backup_luks", "backup_append"}

ATypeOK ==
    /\ slots \in [Vols -> SUBSET (Keys \union {Password})]
    /\ crypttab \in [Vols -> {"absent", "plain", "fido2"}]
    /\ initrd \in [Vols -> BOOLEAN]
    /\ authfile \in Seq(Entry) /\ Len(authfile) <= MaxLines
    /\ hostname \in Hosts
    /\ plugged \subseteq Keys
    /\ at \in Commands
    /\ vol \in Vols \union {NoVol} /\ user \in Users \union {NoUser}
    /\ at \in {"crypttab", "dracut"} => vol \in Vols
    /\ at \in {"append", "backup_luks", "backup_append"} => user \in Users

AInit ==
    /\ slots = [v \in Vols |-> {Password}]
    /\ crypttab \in [Vols -> {"absent", "plain"}]
    /\ initrd = [v \in Vols |-> FALSE]
    /\ authfile = <<>>
    /\ hostname \in Hosts
    /\ plugged \in SUBSET Keys
    /\ at = "idle"
    /\ vol = NoVol /\ user = NoUser

\* What detect_luks2_partition prints: the first LUKS partition of every disk
\* that has one.  Two lines of output name no device.
Printed  == {v \in Vols : \A w \in Vols : Disk[w] = Disk[v] => v <= w}
Detected == IF Cardinality(Printed) = 1 THEN CHOOSE v \in Printed : TRUE ELSE NoVol

Finish == at' = "idle" /\ vol' = NoVol /\ user' = NoUser

\* set -e: the script ends where it stands.
ScriptFails ==
    /\ at # "idle"
    /\ Finish
    /\ UNCHANGED <<volumes, authfile, hostname, plugged>>

-----------------------------------------------------------------------------
(* enroll-luks.sh [partition]                                              *)

\* detect_fido2_device has to find a key, and some partition has to be found.
StartLuks(v) ==
    /\ at = "idle"
    /\ plugged # {}
    /\ Vols # {}
    /\ at' = "confirm" /\ vol' = v
    /\ UNCHANGED <<volumes, authfile, hostname, plugged, user>>

\* "Continue with FIDO2 enrollment?" -- declining is success.
Confirm ==
    /\ at = "confirm"
    /\ \/ at' = "cryptenroll" /\ UNCHANGED <<vol, user>>
       \/ Finish
    /\ UNCHANGED <<volumes, authfile, hostname, plugged>>

\* Slip: a failing systemd-cryptenroll does not end the script.
CryptenrollUnchecked(k) ==
    /\ at = "cryptenroll"
    /\ \/ /\ k \in plugged /\ vol \in Vols
          /\ slots' = [slots EXCEPT ![vol] = @ \union {k}]
       \/ UNCHANGED slots
    /\ at' = "crypttab"
    /\ UNCHANGED <<crypttab, initrd, authfile, hostname, plugged, vol, user>>

\* The device path was read before the prompt; whichever key is behind it by
\* now is enrolled.
Cryptenroll(k) ==
    /\ at = "cryptenroll"
    /\ k \in plugged /\ vol \in Vols
    /\ slots' = [slots EXCEPT ![vol] = @ \union {k}]
    /\ at' = "crypttab"
    /\ UNCHANGED <<crypttab, initrd, authfile, hostname, plugged, vol, user>>

\* Slip: the file is overwritten by the volume's line.
UpdateCrypttabOverwrite ==
    /\ at = "crypttab"
    /\ crypttab' = [v \in Vols |-> IF v = vol THEN "fido2" ELSE "absent"]
    /\ at' = "dracut"
    /\ UNCHANGED <<slots, initrd, authfile, hostname, plugged, vol, user>>

\* The file is left alone when any of its lines has fido2-device=auto.
UpdateCrypttab ==
    /\ at = "crypttab"
    /\ crypttab' = IF \E w \in Vols : crypttab[w] = "fido2"
                     THEN crypttab
                     ELSE [crypttab EXCEPT ![vol] = "fido2"]
    /\ at' = "dracut"
    /\ UNCHANGED <<slots, initrd, authfile, hostname, plugged, vol, user>>

\* A failing dracut only warns.
Dracut ==
    /\ at = "dracut"
    /\ \/ initrd' = [v \in Vols |-> crypttab[v] = "fido2"]
       \/ UNCHANGED initrd
    /\ Finish
    /\ UNCHANGED <<slots, crypttab, authfile, hostname, plugged>>

-----------------------------------------------------------------------------
(* enroll-pam.sh; enroll_pam_user of lib.sh appends the same line.         *)

StartPam(u) ==
    /\ at = "idle"
    /\ at' = "append" /\ user' = u
    /\ UNCHANGED <<volumes, authfile, hostname, plugged, vol>>

\* Slip: ">" for ">>".
WriteLine(k) ==
    /\ k \in plugged
    /\ authfile' = <<[user |-> user, key |-> k, host |-> hostname]>>
    /\ Finish
    /\ UNCHANGED <<volumes, hostname, plugged>>

\* pamu2fcfg without -o registers for the origin pam://<hostname>.
AppendLine(k) ==
    /\ k \in plugged
    /\ Len(authfile) < MaxLines
    /\ authfile' = Append(authfile, [user |-> user, key |-> k, host |-> hostname])
    /\ Finish
    /\ UNCHANGED <<volumes, hostname, plugged>>

EnrollPam(k) == at = "append" /\ AppendLine(k)

-----------------------------------------------------------------------------
(* enroll-backup.sh [partition], run after primary enrollment as its       *)
(* header asks: the user has a line in the authfile and the volume a key.  *)

StartBackup(u, v) ==
    /\ at = "idle"
    /\ plugged # {}
    /\ \E n \in 1 .. Len(authfile) : authfile[n].user = u
    /\ v \in Vols => slots[v] \intersect Keys # {}
    /\ at' = IF Vols # {} THEN "backup_luks" ELSE "backup_append"
    /\ vol' = v /\ user' = u
    /\ UNCHANGED <<volumes, authfile, hostname, plugged>>

\* --fido2-device=auto refuses to choose among several devices.
BackupLuks(k) ==
    /\ at = "backup_luks"
    /\ plugged = {k} /\ vol \in Vols
    /\ slots' = [slots EXCEPT ![vol] = @ \union {k}]
    /\ at' = "backup_append"
    /\ UNCHANGED <<crypttab, initrd, authfile, hostname, plugged, vol, user>>

BackupAppend(k) == at = "backup_append" /\ AppendLine(k)

ScriptSteps ==
    \/ ScriptFails
    \/ Confirm \/ UpdateCrypttab \/ Dracut
    \/ \E k \in Keys : Cryptenroll(k) \/ EnrollPam(k) \/ BackupLuks(k) \/ BackupAppend(k)

-----------------------------------------------------------------------------
(* The user and the boot.  Losing power ends the script like a failure.    *)

Plug(K) ==
    /\ plugged' = K
    /\ UNCHANGED <<volumes, authfile, hostname, at, vol, user>>

Rename(h) ==
    /\ at = "idle"
    /\ hostname' = h
    /\ UNCHANGED <<volumes, authfile, plugged, at, vol, user>>

\* systemd-cryptenroll --wipe-slot=password, "only after confirming FIDO2
\* works": after a boot whose initramfs opened the volume with a plugged key.
WipePassword(v) ==
    /\ at = "idle"
    /\ initrd[v] /\ slots[v] \intersect plugged # {}
    /\ slots' = [slots EXCEPT ![v] = @ \ {Password}]
    /\ UNCHANGED <<crypttab, initrd, authfile, hostname, plugged, at, vol, user>>

ANext ==
    \/ ScriptSteps
    \/ \E v \in Vols \union {Detected} : StartLuks(v)
    \/ \E v \in Vols : WipePassword(v)
    \/ \E u \in Users : StartPam(u) \/ \E v \in Vols \union {Detected} : StartBackup(u, v)
    \/ \E K \in SUBSET Keys : Plug(K)
    \/ \E h \in Hosts : Rename(h)

ASpec == AInit /\ [][ANext]_avars
-----------------------------------------------------------------------------
(* What the PAM stacks in usr/lib/pam.d make of the authfile.              *)

\* pam_u2f keeps the last line that names the user.
LastLine(u) ==
    LET lines == {n \in 1 .. Len(authfile) : authfile[n].user = u}
    IN  {n \in lines : \A m \in lines : m <= n}

\* The key of that line is touched, and it was registered for this origin.
U2f(u, host) ==
    IF \E n \in LastLine(u) : authfile[n].key \in plugged /\ authfile[n].host = host
      THEN "ok" ELSE "fail"

\* A failed line refuses, unless it is "sufficient"; a success refuses nothing,
\* and ends the stack unless it is "required".
Refuses(line) == line[1] # "sufficient" /\ line[2] = "fail"
Ends(line)    == line[1] # "required"   /\ line[2] = "ok"

\* A stack accepts at the first line that ends it, or at its end if some line
\* succeeded, when no line up to there refuses.
PamAccepts(stack) ==
    \E n \in 1 .. Len(stack) :
        /\ stack[n][2] = "ok"
        /\ \A m \in 1 .. IF Ends(stack[n]) THEN n ELSE Len(stack) : ~Refuses(stack[m])

\* auth lines of yubiOS-system-auth; homed is "ignore" for classic users.
SystemAuth(u, homed, unix) ==
    << <<"done", homed>>, <<"required", U2f(u, StackHost)>>,
       <<"sufficient", unix>>, <<"required", "fail">> >>

\* Slip: "sufficient" for "required" in yubiOS-sudo.
SudoSufficient(u, homed, unix) ==
    << <<"sufficient", U2f(u, hostname)>> >> \o SystemAuth(u, homed, unix)

\* auth lines of yubiOS-sudo: no origin= means pam://<hostname>.
Sudo(u, homed, unix) ==
    << <<"required", U2f(u, hostname)>> >> \o SystemAuth(u, homed, unix)

CanSudo(u) == PamAccepts(Sudo(u, "ignore", "ok"))

-----------------------------------------------------------------------------
(* Properties.                                                             *)

\* A volume is only configured for FIDO2 once a key opens it, on disk before
\* in the initramfs: an interrupted enrollment never leaves a boot waiting for
\* a credential that was not made.
ConfiguredMeansEnrolled ==
    \A v \in Vols : /\ crypttab[v] = "fido2" => slots[v] \intersect Keys # {}
                    /\ initrd[v] => crypttab[v] = "fido2"

\* A volume whose passphrase was wiped on the script's advice keeps a key and
\* an initramfs that asks for it, whatever is enrolled afterwards.
WipedVolumeBoots ==
    \A v \in Vols : Password \notin slots[v] =>
                        slots[v] \intersect Keys # {} /\ initrd[v]

\* "YubiKey touch is ALWAYS needed": whatever homed and the password say, sudo
\* needs a plugged key of the user's, and a classic login needs it and the
\* password.
TouchAlwaysNeeded ==
    \A u \in Users, homed \in {"ok", "fail", "ignore"}, unix \in {"ok", "fail"} :
        LET touched == \E n \in LastLine(u) : authfile[n].key \in plugged
        IN  /\ PamAccepts(Sudo(u, homed, unix)) => touched
            /\ PamAccepts(SystemAuth(u, homed, unix)) /\ homed # "ok"
                  => touched /\ unix = "ok"

\* Enrolling for one user, or once more for the same, with the keys plugged in
\* as they are, never takes sudo from a user who had it.
EnrollingKeepsSudo ==
    [][hostname' = hostname /\ plugged' = plugged /\ Cardinality(plugged) = 1
          => \A u \in Users : CanSudo(u) => CanSudo(u)']_avars

\* "sudo now requires YubiKey touch": a key just enrolled for a user opens sudo
\* for that user while it stays plugged in.
EnrolledKeyOpensSudo ==
    [][\A k \in Keys : EnrollPam(k) => \A u \in Users : u = user => CanSudo(u)']_avars

\* "On next boot: touch YubiKey when prompted": a run of enroll-luks.sh that
\* gets as far as saying so has left its volume's crypttab line asking for the
\* key.
EnrolledVolumeConfigured ==
    [][Dracut => crypttab'[vol] = "fido2"]_avars
=============================================================================
