------------------------------ MODULE SecureBoot ------------------------------
(***************************************************************************)
(* The owner Secure Boot ceremony of usr/lib/yubiOS/enroll-sb.sh, together *)
(* with the firmware that enforces its result.                             *)
(*                                                                         *)
(* One run of the script at a time mints the PK, KEK and db certificates   *)
(* on the YubiKey's PIV slot 9a, writes them to the firmware's variables   *)
(* (phase "enroll"), and signs every loader and UKI it finds on the ESP    *)
(* (phase "resign"); phase "all" is the one followed by the other.  The    *)
(* script runs under set -e: any command may fail, and then the run ends   *)
(* where it stands.  Power may be lost between any two steps.  The operator *)
(* swaps YubiKeys, starts the phases in any order, reboots at any time and *)
(* may clear the firmware's keys from its setup screen.                    *)
(*                                                                         *)
(* A certificate is the slot 9a key it was minted on and the number of the *)
(* minting run, since each run makes new self-signed certificates.  A      *)
(* signature is the certificate it verifies against.                       *)
(*                                                                         *)
(* An operator marked "Slip" is a plausible mistake in the definition that *)
(* follows it.  No behaviour of Spec uses it; PROJECT.json names the       *)
(* property that notices it.                                               *)
(***************************************************************************)
EXTENDS Naturals

CONSTANTS Keys,      \* YubiKeys with an RSA-2048 key in PIV slot 9a
          NoKey,     \* no YubiKey inserted, or none with a usable slot 9a
          Images,    \* ESP paths the resign phase looks at, in glob order
          Loaders,   \* those of them that are boot loaders; the others are UKIs
          MaxMints   \* bound: runs that get as far as minting certificates

ASSUME KeysAssumption   == NoKey \notin Keys
ASSUME ImagesAssumption == Images \subseteq Nat /\ Loaders \subseteq Images
ASSUME MintsAssumption  == MaxMints \in Nat

VARIABLES
    fw,      \* the firmware's PK, KEK and db variables
    boot,    \* "up", or "refused" when firmware verified no path to the OS
    esp,     \* what each ESP path holds
    dir,     \* PK.crt, KEK.crt and db.crt in KEYDIR
    mark,    \* whether ENROLLED_MARK exists
    mints,   \* minting runs so far
    token,   \* the inserted YubiKey
    pc,      \* next command of the running script, "idle" when none runs
    phase,   \* the running script's argument
    images,  \* the array phase_resign collected
    todo,    \* those of images its loop has still to sign
    tmp,     \* what the temporary signed copy verifies against
    safe     \* whether the last run printed "Reboot is now safe."

platform == <<fw, boot>>
keydir   == <<dir, mark, mints>>
run      == <<phase, images, todo, tmp, safe>>
vars     == <<fw, boot, esp, dir, mark, mints, token, pc, phase, images, todo, tmp, safe>>

Roles   == {"PK", "KEK", "db"}
NoCert  == [key |-> NoKey, mint |-> 0]
Certs   == [key : Keys, mint : 0 .. MaxMints]
Phases  == {"enroll", "resign", "all"}
Ukis    == Images \ Loaders
Content == [state : {"whole", "torn", "missing"}, sig : Certs \union {NoCert}]

Unsigned == [state |-> "whole",   sig |-> NoCert]
Torn     == [state |-> "torn",    sig |-> NoCert]
Missing  == [state |-> "missing", sig |-> NoCert]

Steps == {"idle", "check", "enroll_slot", "certPK", "signPK", "certKEK", "signKEK",
          "certDb", "signDb", "writePK", "writeKEK", "writeDb", "readvar", "touch",
          "resign_slot", "sign", "sbverify", "unlink", "copy"}

ResignSteps == {"resign_slot", "sign", "sbverify", "unlink", "copy"}

TypeOK ==
    /\ fw \in [Roles -> Certs \union {NoCert}]
    /\ boot \in {"up", "refused"}
    /\ esp \in [Images -> Content]
    /\ dir \in [Roles -> Certs \union {NoCert}]
    /\ mark \in BOOLEAN
    /\ mints \in 0 .. MaxMints
    /\ token \in Keys \union {NoKey}
    /\ pc \in Steps
    /\ phase \in Phases
    /\ images \subseteq Images
    /\ todo \subseteq images
    /\ tmp \in Certs \union {NoCert}
    /\ safe \in BOOLEAN

-----------------------------------------------------------------------------
(* The firmware.                                                           *)

\* SetupMode is 1 while no PK is enrolled.
SetupMode == fw["PK"] = NoCert

\* What the firmware executes: anything intact in setup mode, else only an
\* image whose signature verifies against db.
Accepts(f, content) ==
    /\ content.state = "whole"
    /\ f["PK"] # NoCert => content.sig # NoCert /\ content.sig = f["db"]

Boots(f, e) ==
    /\ \E l \in Loaders : Accepts(f, e[l])
    /\ \E u \in Ukis : Accepts(f, e[u])

Init ==
    /\ fw = [r \in Roles |-> NoCert]
    /\ boot = "up"
    /\ esp = [i \in Images |-> Unsigned]
    /\ dir = [r \in Roles |-> NoCert]
    /\ mark = FALSE
    /\ mints = 0
    /\ token \in Keys \union {NoKey}
    /\ pc = "idle"
    /\ phase = "all"
    /\ images = {}
    /\ todo = {}
    /\ tmp = NoCert
    /\ safe = FALSE

-----------------------------------------------------------------------------
(* One run of the script.                                                  *)

Start(p) ==
    /\ pc = "idle" /\ boot = "up"
    /\ phase' = p
    /\ pc' = IF p = "resign" THEN "resign_slot" ELSE "check"
    /\ images' = {} /\ todo' = {} /\ tmp' = NoCert
    /\ safe' = FALSE
    /\ UNCHANGED <<platform, esp, keydir, token>>

\* set -e, and every explicit exit 1: the run ends, nothing is undone.
CommandFails ==
    /\ pc \notin {"idle", "copy"}
    /\ pc' = "idle"
    /\ UNCHANGED <<platform, esp, keydir, token, run>>

\* Slip: the mark is not looked at.
CheckSetupNoMark ==
    /\ pc = "check"
    /\ SetupMode
    /\ pc' = "enroll_slot"
    /\ UNCHANGED <<platform, esp, keydir, token, run>>

\* phase_enroll refuses outside setup mode and when the mark exists.
CheckSetup ==
    /\ pc = "check"
    /\ SetupMode
    /\ ~mark
    /\ pc' = "enroll_slot"
    /\ UNCHANGED <<platform, esp, keydir, token, run>>

RequireSlot9a ==
    /\ pc = "enroll_slot"
    /\ token # NoKey
    /\ pc' = "certPK"
    /\ UNCHANGED <<platform, esp, keydir, token, run>>

\* Slip: the certificate is made although no key is inserted.
MakeCertNoKey(role) ==
    /\ dir' = [dir EXCEPT ![role] = [key |-> token, mint |-> mints']]
    /\ UNCHANGED <<platform, esp, mark, token, run>>

\* Slip: a certificate left by an earlier run is kept.
MakeCertOnce(role) ==
    /\ token # NoKey
    /\ dir' = IF dir[role] # NoCert THEN dir
              ELSE [dir EXCEPT ![role] = [key |-> token, mint |-> mints']]
    /\ UNCHANGED <<platform, esp, mark, token, run>>

\* openssl req -x509: a certificate on the key inserted now.
MakeCert(role) ==
    /\ token # NoKey
    /\ dir' = [dir EXCEPT ![role] = [key |-> token, mint |-> mints']]
    /\ UNCHANGED <<platform, esp, mark, token, run>>

\* openssl smime -sign -signer: fails when the key inserted by now is not the
\* signer certificate's.  What is inserted between the two is not looked at.
SignUpdate(signer) ==
    /\ token = dir[signer].key
    /\ UNCHANGED <<platform, esp, keydir, token, run>>

CertPK ==
    /\ pc = "certPK" /\ pc' = "signPK"
    /\ mints < MaxMints /\ mints' = mints + 1
    /\ MakeCert("PK")

CertKEK == pc = "certKEK" /\ pc' = "signKEK" /\ mints' = mints /\ MakeCert("KEK")
CertDb  == pc = "certDb"  /\ pc' = "signDb"  /\ mints' = mints /\ MakeCert("db")

SignPK  == pc = "signPK"  /\ pc' = "certKEK" /\ SignUpdate("PK")
SignKEK == pc = "signKEK" /\ pc' = "certDb"  /\ SignUpdate("PK")
SignDb  == pc = "signDb"  /\ pc' = "writePK" /\ SignUpdate("KEK")

\* efi-updatevar: the firmware takes any update in setup mode, and outside it
\* only one signed by the owner of the variable above.
Write(role, above) ==
    /\ SetupMode \/ (role # "PK" /\ dir[above] = fw[above])
    /\ fw' = [fw EXCEPT ![role] = dir[role]]
    /\ UNCHANGED <<boot, esp, keydir, token, run>>

\* Slip: the exit status of efi-updatevar is lost.
WriteDbUnchecked ==
    /\ pc = "writeDb"
    /\ pc' = "readvar"
    /\ UNCHANGED <<platform, esp, keydir, token, run>>

\* Slip: the KEK is minted once the PK is in.
SlipWritePK == pc = "writePK" /\ Write("PK", "PK") /\ pc' = "certKEK"

WritePK == pc = "writePK" /\ Write("PK", "PK") /\ pc' = "writeKEK"

WriteKEK == pc = "writeKEK" /\ Write("KEK", "PK") /\ pc' = "writeDb"
WriteDb  == pc = "writeDb"  /\ Write("db", "KEK") /\ pc' = "readvar"

VerifyVars ==
    /\ pc = "readvar"
    /\ ~SetupMode
    /\ pc' = "touch"
    /\ UNCHANGED <<platform, esp, keydir, token, run>>

MarkEnrolled ==
    /\ pc = "touch"
    /\ mark' = TRUE
    /\ pc' = IF phase = "all" THEN "resign_slot" ELSE "idle"
    /\ UNCHANGED <<platform, esp, dir, mints, token, run>>

\* phase_resign's own checks; it collects the paths that exist.
CollectImages ==
    /\ pc = "resign_slot"
    /\ token # NoKey
    /\ dir["db"] # NoCert
    /\ images' = {i \in Images : esp[i].state # "missing"}
    /\ images' # {}
    /\ todo' = images'
    /\ pc' = "sign"
    /\ UNCHANGED <<platform, esp, keydir, token, phase, tmp, safe>>

\* The image the loop is at: the first one left, in glob order.
Current(i) == i \in todo /\ \A j \in todo : i <= j

\* Signing with a key that is not db.crt's gives a copy that verifies
\* against no certificate.
SignImage(i) ==
    /\ pc = "sign" /\ Current(i)
    /\ token # NoKey
    /\ esp[i].state = "whole"
    /\ tmp' = IF token = dir["db"].key THEN dir["db"] ELSE NoCert
    /\ pc' = "sbverify"
    /\ UNCHANGED <<platform, esp, keydir, token, phase, images, todo, safe>>

\* Slip: the exit status of sbverify is lost.
VerifySignatureUnchecked ==
    /\ pc = "sbverify"
    /\ pc' = "unlink"
    /\ UNCHANGED <<platform, esp, keydir, token, run>>

VerifySignature ==
    /\ pc = "sbverify"
    /\ tmp = dir["db"]
    /\ pc' = "unlink"
    /\ UNCHANGED <<platform, esp, keydir, token, run>>

\* mv from KEYDIR to the ESP crosses file systems: it unlinks the target, then
\* copies.
UnlinkTarget(i) ==
    /\ pc = "unlink" /\ Current(i)
    /\ esp' = [esp EXCEPT ![i] = Missing]
    /\ pc' = "copy"
    /\ UNCHANGED <<platform, keydir, token, run>>

CopyImage(i) ==
    /\ pc = "copy" /\ Current(i)
    /\ esp' = [esp EXCEPT ![i] = [state |-> "whole", sig |-> tmp]]
    /\ todo' = todo \ {i}
    /\ pc' = "sign"
    /\ UNCHANGED <<platform, keydir, token, phase, images, tmp, safe>>

CopyFails(i) ==
    /\ pc = "copy" /\ Current(i)
    /\ \E left \in {Missing, Torn} : esp' = [esp EXCEPT ![i] = left]
    /\ pc' = "idle"
    /\ UNCHANGED <<platform, keydir, token, run>>

ReportResigned ==
    /\ pc = "sign" /\ todo = {}
    /\ safe' = TRUE
    /\ pc' = "idle"
    /\ UNCHANGED <<platform, esp, keydir, token, phase, images, todo, tmp>>

ScriptStep ==
    \/ CommandFails
    \/ CheckSetup \/ RequireSlot9a
    \/ CertPK \/ SignPK \/ CertKEK \/ SignKEK \/ CertDb \/ SignDb
    \/ WritePK \/ WriteKEK \/ WriteDb
    \/ VerifyVars \/ MarkEnrolled
    \/ CollectImages
    \/ \E i \in Images : SignImage(i) \/ UnlinkTarget(i) \/ CopyImage(i) \/ CopyFails(i)
    \/ VerifySignature
    \/ ReportResigned

-----------------------------------------------------------------------------
(* The operator, the power supply and the update service.                  *)

SwapToken(k) ==
    /\ boot = "up"
    /\ token' = k
    /\ UNCHANGED <<platform, esp, keydir, pc, run>>

\* A reboot, asked for or not: the script is gone, an image being copied is
\* left as far as it got, and the firmware decides what it starts.
Restart(f) ==
    /\ fw' = f
    /\ \/ UNCHANGED esp
       \/ /\ pc = "copy"
          /\ \E i \in todo : Current(i) /\ esp' = [esp EXCEPT ![i] = Torn]
    /\ boot' = IF Boots(f, esp') THEN "up" ELSE "refused"
    /\ pc' = "idle"
    /\ UNCHANGED <<keydir, token, run>>

Reboot == Restart(fw)

\* The setup screen deletes the PK alone, or every key.
ClearKeys ==
    /\ ~SetupMode
    /\ \/ Restart([fw EXCEPT !["PK"] = NoCert])
       \/ Restart([r \in Roles |-> NoCert])

\* An update puts a new, unsigned loader or UKI in place of one.
UpdateImage(i) ==
    /\ pc = "idle" /\ boot = "up"
    /\ esp' = [esp EXCEPT ![i] = Unsigned]
    /\ images' = images \ {i}
    /\ todo' = todo \ {i}
    /\ UNCHANGED <<platform, keydir, token, pc, phase, tmp, safe>>

Next ==
    \/ ScriptStep
    \/ \E p \in Phases : Start(p)
    \/ \E k \in Keys \union {NoKey} : SwapToken(k)
    \/ Reboot
    \/ ClearKeys
    \/ \E i \in Images : UpdateImage(i)

Spec == Init /\ [][Next]_vars

\* The commands that use the private key of slot 9a: each asks for the PIN and a
\* touch, and waits for as long as it takes.
Asks == \/ pc \in {"certPK", "signPK", "certKEK", "signKEK", "certDb", "signDb"}
        \/ pc = "sign" /\ todo # {}

\* The shell goes on from every command that asks for nothing.
FairSpec == Spec /\ WF_vars(~Asks /\ ScriptStep)

-----------------------------------------------------------------------------
(* Properties.                                                             *)

\* The ENROLLED_MARK file stands for a finished ceremony: while the firmware
\* enforces, its three variables are the certificates in KEYDIR, whatever
\* failed, was interrupted or was re-run before the mark was made.
MarkMeansEnrolled ==
    mark /\ ~SetupMode => \A r \in Roles : fw[r] = dir[r]

\* A marked firmware holds the three certificates of one ceremony: whatever
\* earlier runs left in KEYDIR when they failed, no variable is empty or of
\* another run.  (That they are on one YubiKey too nobody checks: whoever swaps
\* keys before each of the six commands gets a PK and a KEK of two.)
OneCeremony ==
    mark /\ ~SetupMode =>
        \A r \in Roles : fw[r] # NoCert /\ fw[r].mint = fw["PK"].mint

\* "Reboot is now safe": once the ceremony is marked, the firmware accepts
\* every image the reporting run collected, until an update replaces it.
ReportedImagesBoot ==
    mark /\ safe => \A i \in images : Accepts(fw, esp[i])

\* A marked device is never re-keyed: the certificates resign relies on and the
\* firmware's variables only change when the owner clears the latter.
EnrolledKeysStay ==
    [][mark => /\ dir' = dir
               /\ \A r \in Roles : fw'[r] \in {fw[r], NoCert}]_vars

\* "Original left in place": on a marked device a bootable image stops being
\* bootable only when an update replaces it, or when mv unlinks it for a copy
\* that the firmware accepts too: no wrong YubiKey, old certificate or failed
\* signature ever costs an image.
BootableImagesStay ==
    [][mark => \A i \in Images :
          Accepts(fw, esp[i]) /\ fw' = fw /\ ~Accepts(fw, esp'[i])
              => \/ pc = "unlink" /\ Accepts(fw, [state |-> "whole", sig |-> tmp])
                 \/ esp'[i] = Unsigned]_vars

\* A run of phase_enroll while the firmware enforces without a mark.
Halfway == ~SetupMode /\ ~mark /\ pc # "idle" /\ phase # "resign"

\* The firmware is not left between its variables by a run that waits: once the
\* PK is in, whatever the operator does or does not do, the run makes the mark or
\* ends, and nothing between the writes asks for a PIN ("Writing PK, KEK, db").
HalfwayEnds == Halfway ~> ~Halfway

\* What the wizard and the operator can tell of a run, in Ceremony's terms.
Stage == IF SetupMode THEN IF mark THEN "cleared" ELSE "setup"
                      ELSE IF mark THEN "marked" ELSE "stuck"

Running == IF pc = "idle" THEN "none" ELSE phase

Progress ==
    IF pc \in {"writeKEK", "writeDb", "readvar", "touch"} THEN "owned"
    ELSE IF phase = "all" /\ pc \in ResignSteps THEN "sealed"
    ELSE "none"

Ceremony == INSTANCE Ceremony WITH
    stage <- Stage, running <- Running, progress <- Progress, report <- safe

\* The script keeps what Ceremony promises of it, the specification the
\* first-boot wizard is written against: ownership is taken only from setup
\* mode, marked only by the run that took it, and "all" reports only after it.
CeremonyPromise == Ceremony!CSpec

\* What line 148 tells the operator of every successful resign run.
ReportMeansSafe == safe => Boots(fw, esp)
=============================================================================
