--------------------------- MODULE SecureBootProofs ---------------------------
(***************************************************************************)
(* The safety properties of SecureBoot, for any set of YubiKeys, any       *)
(* layout of the ESP and any number of minting runs.                       *)
(*                                                                         *)
(* None of the properties is inductive: the mark is made several commands  *)
(* after the checks it depends on.  The strengthening follows the script   *)
(* line by line and says what each command may count on when it is         *)
(* reached.                                                                *)
(***************************************************************************)
EXTENDS SecureBoot, Integers, FiniteSetTheorems, TLAPS

\* The commands phase_enroll has still to run, from the slot check, from the
\* first write to the firmware, and so on.
FromSlot     == {"enroll_slot", "certPK", "signPK", "certKEK", "signKEK", "certDb",
                 "signDb", "writePK", "writeKEK", "writeDb", "readvar", "touch"}
FromSignPK   == FromSlot \ {"enroll_slot", "certPK"}
FromSignKEK  == FromSignPK \ {"signPK", "certKEK"}
FromSignDb   == FromSignKEK \ {"signKEK", "certDb"}
FromWriteKEK == {"writeKEK", "writeDb", "readvar", "touch"}
FromWriteDb  == {"writeDb", "readvar", "touch"}
FromReadvar  == {"readvar", "touch"}
Signing      == {"sign", "sbverify", "unlink", "copy"}

Minted(role) == dir[role] \in Certs /\ dir[role].mint = mints

\* The certificates made so far are of this run.
MintedInv ==
    /\ pc \in FromSlot => ~mark
    /\ pc \in FromSignPK => Minted("PK")
    /\ pc \in FromSignKEK => Minted("KEK")
    /\ pc \in FromSignDb => Minted("db")

\* Each variable already written is the one in KEYDIR.
WrittenInv ==
    /\ pc \in FromSlot \ FromWriteKEK => SetupMode
    /\ pc \in FromWriteKEK => fw["PK"] = dir["PK"]
    /\ pc \in FromWriteDb => fw["KEK"] = dir["KEK"]
    /\ pc \in FromReadvar => fw["db"] = dir["db"]

\* What the mark stands for.
MarkInv ==
    mark /\ ~SetupMode =>
        \A r \in Roles : /\ fw[r] = dir[r]
                         /\ dir[r] # NoCert /\ dir[r].mint = dir["PK"].mint

Signed(i) == esp[i].state = "whole" /\ esp[i].sig = dir["db"]

\* What the loop of phase_resign has done so far.
SigningInv ==
    /\ pc \in Signing => dir["db"] # NoCert /\ \A i \in images \ todo : Signed(i)
    /\ pc \in {"unlink", "copy"} => tmp = dir["db"]
    /\ pc = "copy" => \A i \in todo : Current(i) => esp[i] = Missing

\* What the final message stands for.
ReportInv ==
    safe => /\ pc = "idle"
            /\ dir["db"] # NoCert
            /\ \A i \in images : Signed(i)

IInv == TypeOK /\ MintedInv /\ WrittenInv /\ MarkInv /\ SigningInv /\ ReportInv

-----------------------------------------------------------------------------
(* Type correctness.                                                       *)

\* The empty variable is no certificate, since no YubiKey is the absent one.
LEMMA NoCertIsNone == NoCert \notin Certs
  BY KeysAssumption DEF NoCert, Certs

\* What updates, unlinking and interrupted copies leave on the ESP is in its type.
LEMMA ContentTypes ==
    /\ Unsigned \in Content /\ Torn \in Content /\ Missing \in Content
    /\ \A c \in Certs \union {NoCert} : [state |-> "whole", sig |-> c] \in Content
  BY DEF Unsigned, Torn, Missing, Content

\* The machine as delivered, in setup mode and unsigned, has the right types.
LEMMA TypeInit == Init => TypeOK
<1> SUFFICES ASSUME Init
             PROVE  TypeOK
    OBVIOUS
<1>1. fw \in [Roles -> Certs \union {NoCert}] /\ dir \in [Roles -> Certs \union {NoCert}]
    BY DEF Init
<1>2. esp \in [Images -> Content]
    BY ContentTypes DEF Init
<1>3. mints \in 0 .. MaxMints
    BY MintsAssumption DEF Init
<1> QED
    BY <1>1, <1>2, <1>3 DEF Init, TypeOK, Steps, Phases

\* Every step keeps the variables in their types.
LEMMA TypeNext == TypeOK /\ [Next]_vars => TypeOK'
<1> SUFFICES ASSUME TypeOK, [Next]_vars
             PROVE  TypeOK'
    OBVIOUS
<1> USE DEF TypeOK, Steps, Phases, platform, keydir, run
<1>1. ASSUME NEW p \in Phases, Start(p)
      PROVE  TypeOK'
    BY <1>1 DEF Start
<1>2. CASE CommandFails
    BY <1>2 DEF CommandFails
<1>3. CASE CheckSetup
    BY <1>3 DEF CheckSetup
<1>4. CASE RequireSlot9a
    BY <1>4 DEF RequireSlot9a
<1>5. ASSUME NEW role \in Roles, MakeCert(role), mints' \in 0 .. MaxMints, pc' \in Steps
      PROVE  TypeOK'
  <2>1. [key |-> token, mint |-> mints'] \in Certs
    BY <1>5 DEF MakeCert, Certs
  <2>2. dir' \in [Roles -> Certs \union {NoCert}]
    BY <1>5, <2>1 DEF MakeCert
  <2> QED
    BY <1>5, <2>2 DEF MakeCert
<1>6. CASE CertPK
    BY <1>5, <1>6, MintsAssumption DEF CertPK, Roles
<1>7. CASE CertKEK \/ CertDb
    BY <1>5, <1>7 DEF CertKEK, CertDb, Roles
<1>8. CASE SignPK \/ SignKEK \/ SignDb
    BY <1>8 DEF SignPK, SignKEK, SignDb, SignUpdate
<1>9. ASSUME NEW role \in Roles, NEW above, Write(role, above), pc' \in Steps
      PROVE  TypeOK'
    BY <1>9 DEF Write
<1>10. CASE WritePK
    BY <1>9, <1>10 DEF WritePK, Roles
<1>11. CASE WriteKEK
    BY <1>9, <1>11 DEF WriteKEK, Roles
<1>12. CASE WriteDb
    BY <1>9, <1>12 DEF WriteDb, Roles
<1>13. CASE VerifyVars
    BY <1>13 DEF VerifyVars
<1>14. CASE MarkEnrolled
    BY <1>14 DEF MarkEnrolled
<1>15. CASE CollectImages
    BY <1>15 DEF CollectImages
<1>16. ASSUME NEW i \in Images, SignImage(i)
       PROVE  TypeOK'
  <2>1. dir["db"] \in Certs \union {NoCert}
    BY DEF Roles
  <2> QED
    BY <1>16, <2>1 DEF SignImage
<1>17. CASE VerifySignature
    BY <1>17 DEF VerifySignature
<1>18. ASSUME NEW i \in Images, UnlinkTarget(i)
       PROVE  TypeOK'
    BY <1>18, ContentTypes DEF UnlinkTarget
<1>19. ASSUME NEW i \in Images, CopyImage(i)
       PROVE  TypeOK'
    BY <1>19, ContentTypes DEF CopyImage
<1>20. ASSUME NEW i \in Images, CopyFails(i)
       PROVE  TypeOK'
    BY <1>20, ContentTypes DEF CopyFails
<1>21. CASE ReportResigned
    BY <1>21 DEF ReportResigned
<1>22. ASSUME NEW k \in Keys \union {NoKey}, SwapToken(k)
       PROVE  TypeOK'
    BY <1>22 DEF SwapToken
<1>23. ASSUME NEW f \in [Roles -> Certs \union {NoCert}], Restart(f)
       PROVE  TypeOK'
  <2>1. esp' \in [Images -> Content]
    BY <1>23, ContentTypes DEF Restart
  <2> QED
    BY <1>23, <2>1 DEF Restart
<1>24. CASE Reboot
    BY <1>23, <1>24 DEF Reboot
<1>25. CASE ClearKeys
  <2>1. [fw EXCEPT !["PK"] = NoCert] \in [Roles -> Certs \union {NoCert}]
    OBVIOUS
  <2>2. [r \in Roles |-> NoCert] \in [Roles -> Certs \union {NoCert}]
    OBVIOUS
  <2> QED
    BY <1>23, <1>25, <2>1, <2>2 DEF ClearKeys
<1>26. ASSUME NEW i \in Images, UpdateImage(i)
       PROVE  TypeOK'
    BY <1>26, ContentTypes DEF UpdateImage
<1>27. CASE UNCHANGED vars
    BY <1>27 DEF vars
<1> QED
    BY <1>1, <1>2, <1>3, <1>4, <1>6, <1>7, <1>8, <1>10, <1>11, <1>12, <1>13,
       <1>14, <1>15, <1>16, <1>17, <1>18, <1>19, <1>20, <1>21, <1>22, <1>24,
       <1>25, <1>26, <1>27 DEF Next, ScriptStep

\* Every variable of the ceremony keeps its type, for any number of YubiKeys,
\* images and minting runs.
THEOREM TypeCorrect == Spec => []TypeOK
  BY TypeInit, TypeNext, PTL DEF Spec

-----------------------------------------------------------------------------
(* The inductive invariant.                                                *)

\* Before the first run nothing is minted, written, marked or reported.
LEMMA InitInv == Init => IInv
<1> SUFFICES ASSUME Init
             PROVE  IInv
    OBVIOUS
<1>1. TypeOK
    BY TypeInit
<1>2. MintedInv /\ WrittenInv
    BY DEF Init, MintedInv, WrittenInv, FromSlot, FromSignPK, FromSignKEK,
           FromSignDb, FromWriteKEK, FromWriteDb, FromReadvar
<1>3. MarkInv /\ SigningInv /\ ReportInv
    BY DEF Init, MarkInv, SigningInv, ReportInv, Signing
<1> QED
    BY <1>1, <1>2, <1>3 DEF IInv

\* What the minting commands establish, and every later one relies on.
LEMMA MintedNext == TypeOK /\ MintedInv /\ [Next]_vars => MintedInv'
<1> SUFFICES ASSUME TypeOK, MintedInv, [Next]_vars
             PROVE  MintedInv'
    OBVIOUS
<1> USE DEF MintedInv, Minted, FromSlot, FromSignPK, FromSignKEK, FromSignDb,
            platform, keydir, run
<1>1. CASE \E p \in Phases : Start(p)
    BY <1>1 DEF Start
<1>2. CASE CommandFails
    BY <1>2 DEF CommandFails
<1>3. CASE CheckSetup
    BY <1>3 DEF CheckSetup
<1>4. CASE RequireSlot9a
    BY <1>4 DEF RequireSlot9a
<1>5. ASSUME NEW role \in Roles, MakeCert(role), mints' \in 0 .. MaxMints
      PROVE  /\ Minted(role)'
             /\ \A r \in Roles \ {role} : dir'[r] = dir[r]
    BY <1>5 DEF MakeCert, TypeOK, Certs
<1>6. CASE CertPK \/ CertKEK \/ CertDb
  <2>1. mints' \in 0 .. MaxMints
    BY <1>6, MintsAssumption DEF CertPK, CertKEK, CertDb, TypeOK
  <2>2. CASE CertPK
    BY <1>5, <2>1, <2>2 DEF CertPK, MakeCert, Roles
  <2>3. CASE CertKEK
    BY <1>5, <2>1, <2>3 DEF CertKEK, MakeCert, Roles
  <2>4. CASE CertDb
    BY <1>5, <2>1, <2>4 DEF CertDb, MakeCert, Roles
  <2> QED
    BY <1>6, <2>2, <2>3, <2>4
<1>7. CASE SignPK \/ SignKEK \/ SignDb
    BY <1>7 DEF SignPK, SignKEK, SignDb, SignUpdate
<1>8. CASE WritePK \/ WriteKEK \/ WriteDb
    BY <1>8 DEF WritePK, WriteKEK, WriteDb, Write
<1>9. CASE VerifyVars
    BY <1>9 DEF VerifyVars
<1>10. CASE MarkEnrolled
    BY <1>10 DEF MarkEnrolled
<1>11. CASE CollectImages
    BY <1>11 DEF CollectImages
<1>12. CASE \E i \in Images :
               SignImage(i) \/ UnlinkTarget(i) \/ CopyImage(i) \/ CopyFails(i)
    BY <1>12 DEF SignImage, UnlinkTarget, CopyImage, CopyFails
<1>13. CASE VerifySignature \/ ReportResigned
    BY <1>13 DEF VerifySignature, ReportResigned
<1>14. CASE \E k \in Keys \union {NoKey} : SwapToken(k)
    BY <1>14 DEF SwapToken
<1>15. CASE Reboot \/ ClearKeys
    BY <1>15 DEF Reboot, ClearKeys, Restart
<1>16. CASE \E i \in Images : UpdateImage(i)
    BY <1>16 DEF UpdateImage
<1>17. CASE UNCHANGED vars
    BY <1>17 DEF vars
<1> QED
    BY <1>1, <1>2, <1>3, <1>4, <1>5, <1>6, <1>7, <1>8, <1>9, <1>10, <1>11, <1>12,
       <1>13, <1>14, <1>15, <1>16, <1>17 DEF Next, ScriptStep

\* What the writes to the firmware establish: phase_enroll wrote all it passed.
LEMMA WrittenNext ==
    TypeOK /\ MintedInv /\ WrittenInv /\ [Next]_vars => WrittenInv'
<1> SUFFICES ASSUME TypeOK, MintedInv, WrittenInv, [Next]_vars
             PROVE  WrittenInv'
    OBVIOUS
<1> USE DEF WrittenInv, FromSlot, FromWriteKEK, FromWriteDb, FromReadvar,
            platform, keydir, run, SetupMode
<1>1. CASE \E p \in Phases : Start(p)
    BY <1>1 DEF Start
<1>2. CASE CommandFails
    BY <1>2 DEF CommandFails
<1>3. CASE CheckSetup
    BY <1>3 DEF CheckSetup
<1>4. CASE RequireSlot9a
    BY <1>4 DEF RequireSlot9a
<1>5. CASE CertPK \/ CertKEK \/ CertDb \/ SignPK \/ SignKEK \/ SignDb
    BY <1>5 DEF CertPK, CertKEK, CertDb, MakeCert,
           SignPK, SignKEK, SignDb, SignUpdate
<1>6. CASE WritePK
    BY <1>6 DEF WritePK, Write, TypeOK, Roles
<1>7. CASE WriteKEK
    BY <1>7 DEF WriteKEK, Write, TypeOK, Roles
<1>8. CASE WriteDb
    BY <1>8 DEF WriteDb, Write, TypeOK, Roles
<1>9. CASE VerifyVars
    BY <1>9 DEF VerifyVars
<1>10. CASE MarkEnrolled
    BY <1>10 DEF MarkEnrolled
<1>11. CASE CollectImages
    BY <1>11 DEF CollectImages
<1>12. CASE \E i \in Images :
               SignImage(i) \/ UnlinkTarget(i) \/ CopyImage(i) \/ CopyFails(i)
    BY <1>12 DEF SignImage, UnlinkTarget, CopyImage, CopyFails
<1>13. CASE VerifySignature \/ ReportResigned
    BY <1>13 DEF VerifySignature, ReportResigned
<1>14. CASE \E k \in Keys \union {NoKey} : SwapToken(k)
    BY <1>14 DEF SwapToken
<1>15. CASE Reboot \/ ClearKeys
    BY <1>15 DEF Reboot, ClearKeys, Restart
<1>16. CASE \E i \in Images : UpdateImage(i)
    BY <1>16 DEF UpdateImage
<1>17. CASE UNCHANGED vars
    BY <1>17 DEF vars
<1> QED
    BY <1>1, <1>2, <1>3, <1>4, <1>5, <1>6, <1>7, <1>8, <1>9, <1>10, <1>11, <1>12,
       <1>13, <1>14, <1>15, <1>16, <1>17 DEF Next, ScriptStep

\* The mark is made last, and from then on phase_enroll refuses: what it stands
\* for is never undone.
LEMMA MarkNext ==
    TypeOK /\ MintedInv /\ WrittenInv /\ MarkInv /\ [Next]_vars => MarkInv'
<1> SUFFICES ASSUME TypeOK, MintedInv, WrittenInv, MarkInv, [Next]_vars
             PROVE  MarkInv'
    OBVIOUS
<1> USE DEF MarkInv, platform, keydir, run, SetupMode
<1>1. ASSUME UNCHANGED <<fw, dir, mark>>
      PROVE  MarkInv'
    BY <1>1
<1>2. ASSUME ~mark, mark' = mark
      PROVE  MarkInv'
    BY <1>2
<1>3. CASE CertPK \/ CertKEK \/ CertDb \/ SignPK \/ SignKEK \/ SignDb
  <2>1. ~mark /\ mark' = mark
    BY <1>3 DEF CertPK, CertKEK, CertDb, MakeCert,
           SignPK, SignKEK, SignDb, SignUpdate, MintedInv, FromSlot
  <2> QED
    BY <1>2, <2>1
<1>4. CASE WritePK \/ WriteKEK \/ WriteDb
  <2>1. ~mark /\ mark' = mark
    BY <1>4 DEF WritePK, WriteKEK, WriteDb, Write, MintedInv, FromSlot
  <2> QED
    BY <1>2, <2>1
<1>5. CASE MarkEnrolled
  <2>1. \A r \in Roles : Minted(r)
    BY <1>5 DEF MarkEnrolled, MintedInv, FromSlot, FromSignPK, FromSignKEK,
       FromSignDb, Roles
  <2>2. \A r \in Roles : fw[r] = dir[r]
    BY <1>5 DEF MarkEnrolled, WrittenInv, FromWriteKEK, FromWriteDb, FromReadvar, Roles
  <2>3. \A r \in Roles : dir[r] # NoCert /\ dir[r].mint = dir["PK"].mint
    BY <2>1, NoCertIsNone DEF Minted, Roles
  <2> QED
    BY <1>5, <2>2, <2>3 DEF MarkEnrolled
<1>6. CASE \E p \in Phases : Start(p)
    BY <1>1, <1>6 DEF Start
<1>7. CASE CommandFails \/ CheckSetup \/ RequireSlot9a \/ VerifyVars
    BY <1>1, <1>7 DEF CommandFails, CheckSetup, RequireSlot9a, VerifyVars
<1>8. CASE CollectImages \/ VerifySignature \/ ReportResigned
    BY <1>1, <1>8 DEF CollectImages, VerifySignature, ReportResigned
<1>9. CASE \E i \in Images :
              SignImage(i) \/ UnlinkTarget(i) \/ CopyImage(i) \/ CopyFails(i)
    BY <1>1, <1>9 DEF SignImage, UnlinkTarget, CopyImage, CopyFails
<1>10. CASE \E k \in Keys \union {NoKey} : SwapToken(k)
    BY <1>1, <1>10 DEF SwapToken
<1>11. CASE Reboot
    BY <1>1, <1>11 DEF Reboot, Restart
<1>12. CASE ClearKeys
  <2>1. fw'["PK"] = NoCert
    BY <1>12 DEF ClearKeys, Restart, TypeOK, Roles
  <2> QED
    BY <2>1
<1>13. CASE \E i \in Images : UpdateImage(i)
    BY <1>1, <1>13 DEF UpdateImage
<1>14. CASE UNCHANGED vars
    BY <1>1, <1>14 DEF vars
<1> QED
    BY <1>3, <1>4, <1>5, <1>6, <1>7, <1>8, <1>9, <1>10, <1>11, <1>12, <1>13,
       <1>14 DEF Next, ScriptStep

\* The loop of phase_resign replaces an image only by a copy that verified.
LEMMA SigningNext == TypeOK /\ SigningInv /\ [Next]_vars => SigningInv'
<1> SUFFICES ASSUME TypeOK, SigningInv, [Next]_vars
             PROVE  SigningInv'
    OBVIOUS
<1> USE DEF SigningInv, Signed, Signing, platform, keydir, run
<1>1. ASSUME pc' \notin Signing
      PROVE  SigningInv'
    BY <1>1
<1>2. CASE \E p \in Phases : Start(p)
    BY <1>1, <1>2 DEF Start
<1>3. CASE CommandFails \/ CheckSetup \/ RequireSlot9a \/ VerifyVars
    BY <1>1, <1>3 DEF CommandFails, CheckSetup, RequireSlot9a, VerifyVars
<1>4. CASE CertPK \/ CertKEK \/ CertDb \/ SignPK \/ SignKEK \/ SignDb
    BY <1>1, <1>4 DEF CertPK, CertKEK, CertDb, MakeCert,
           SignPK, SignKEK, SignDb, SignUpdate, Roles
<1>5. CASE WritePK \/ WriteKEK \/ WriteDb
    BY <1>1, <1>5 DEF WritePK, WriteKEK, WriteDb
<1>6. CASE MarkEnrolled
    BY <1>1, <1>6 DEF MarkEnrolled
<1>7. CASE CollectImages
    BY <1>7 DEF CollectImages
<1>8. ASSUME NEW i \in Images, SignImage(i)
      PROVE  SigningInv'
    BY <1>8 DEF SignImage
<1>9. CASE VerifySignature
    BY <1>9 DEF VerifySignature
<1>10. ASSUME NEW i \in Images, UnlinkTarget(i)
       PROVE  SigningInv'
  <2>1. i \in todo /\ \A j \in todo : Current(j) => j = i
    BY <1>10, ImagesAssumption DEF UnlinkTarget, Current, TypeOK
  <2>2. esp'[i] = Missing /\ \A j \in Images : j # i => esp'[j] = esp[j]
    BY <1>10 DEF UnlinkTarget, TypeOK
  <2>3. \A j \in todo : Current(j)' => Current(j)
    BY <1>10 DEF UnlinkTarget, Current
  <2> QED
    BY <1>10, <2>1, <2>2, <2>3 DEF UnlinkTarget, TypeOK
<1>11. ASSUME NEW i \in Images, CopyImage(i)
       PROVE  SigningInv'
    BY <1>11 DEF CopyImage, Current, TypeOK
<1>12. CASE ReportResigned \/ \E i \in Images : CopyFails(i)
    BY <1>1, <1>12 DEF ReportResigned, CopyFails
<1>13. CASE \E k \in Keys \union {NoKey} : SwapToken(k)
    BY <1>13 DEF SwapToken, Current
<1>14. CASE Reboot \/ ClearKeys
    BY <1>1, <1>14 DEF Reboot, ClearKeys, Restart
<1>15. CASE \E i \in Images : UpdateImage(i)
    BY <1>1, <1>15 DEF UpdateImage
<1>16. CASE UNCHANGED vars
    BY <1>16 DEF vars, Current
<1> QED
    BY <1>2, <1>3, <1>4, <1>5, <1>6, <1>7, <1>8, <1>9, <1>10, <1>11, <1>12,
       <1>13, <1>14, <1>15, <1>16 DEF Next, ScriptStep

\* The final message stays true of the images it was printed for.
LEMMA ReportNext ==
    TypeOK /\ SigningInv /\ ReportInv /\ [Next]_vars => ReportInv'
<1> SUFFICES ASSUME TypeOK, SigningInv, ReportInv, [Next]_vars
             PROVE  ReportInv'
    OBVIOUS
<1> USE DEF ReportInv, Signed, platform, keydir, run
<1>1. ASSUME pc # "idle", safe' = safe
      PROVE  ReportInv'
    BY <1>1
<1>2. CASE \E p \in Phases : Start(p)
    BY <1>2 DEF Start
<1>3. CASE CommandFails \/ CheckSetup \/ RequireSlot9a \/ VerifyVars
    BY <1>1, <1>3 DEF CommandFails, CheckSetup, RequireSlot9a, VerifyVars
<1>4. CASE CertPK \/ CertKEK \/ CertDb \/ SignPK \/ SignKEK \/ SignDb
    BY <1>1, <1>4 DEF CertPK, CertKEK, CertDb, MakeCert,
           SignPK, SignKEK, SignDb, SignUpdate
<1>5. CASE WritePK \/ WriteKEK \/ WriteDb
    BY <1>1, <1>5 DEF WritePK, WriteKEK, WriteDb, Write
<1>6. CASE MarkEnrolled \/ CollectImages \/ VerifySignature
    BY <1>1, <1>6 DEF MarkEnrolled, CollectImages, VerifySignature
<1>7. CASE \E i \in Images :
              SignImage(i) \/ UnlinkTarget(i) \/ CopyImage(i) \/ CopyFails(i)
    BY <1>1, <1>7 DEF SignImage, UnlinkTarget, CopyImage, CopyFails
<1>8. CASE ReportResigned
    BY <1>8 DEF ReportResigned, SigningInv, Signing
<1>9. CASE \E k \in Keys \union {NoKey} : SwapToken(k)
    BY <1>9 DEF SwapToken
<1>10. CASE Reboot \/ ClearKeys
    BY <1>10 DEF Reboot, ClearKeys, Restart
<1>11. ASSUME NEW i \in Images, UpdateImage(i)
       PROVE  ReportInv'
    BY <1>11 DEF UpdateImage, TypeOK
<1>12. CASE UNCHANGED vars
    BY <1>12 DEF vars
<1> QED
    BY <1>2, <1>3, <1>4, <1>5, <1>6, <1>7, <1>8, <1>9, <1>10, <1>11, <1>12
    DEF Next, ScriptStep

\* The strengthened invariant holds throughout: every command of enroll-sb.sh
\* finds what the commands before it established.
THEOREM Invariance == Spec => []IInv
<1>1. IInv /\ [Next]_vars => IInv'
    BY TypeNext, MintedNext, WrittenNext, MarkNext, SigningNext, ReportNext DEF IInv
<1> QED
    BY InitInv, <1>1, PTL DEF Spec

-----------------------------------------------------------------------------
(* The properties of SecureBoot.                                           *)

\* Once ENROLLED_MARK exists, an enforcing firmware holds KEYDIR's certificates.
THEOREM MarkMeansEnrolledAlways == Spec => []MarkMeansEnrolled
<1>1. IInv => MarkMeansEnrolled
    BY DEF IInv, MarkInv, MarkMeansEnrolled
<1> QED
    BY Invariance, <1>1, PTL

\* Once ENROLLED_MARK exists, PK, KEK and db are the certificates of one ceremony.
THEOREM OneCeremonyAlways == Spec => []OneCeremony
<1>1. IInv => OneCeremony
    BY DEF IInv, MarkInv, OneCeremony, SetupMode, Roles
<1> QED
    BY Invariance, <1>1, PTL

\* With the mark, "Reboot is now safe" holds of every image it counted.
THEOREM ReportedImagesBootAlways == Spec => []ReportedImagesBoot
<1>1. IInv => ReportedImagesBoot
    BY DEF IInv, MarkInv, ReportInv, Signed, ReportedImagesBoot, Accepts, SetupMode,
           Roles
<1> QED
    BY Invariance, <1>1, PTL

\* A marked device is never re-keyed.
THEOREM EnrolledKeysStayAlways == Spec => EnrolledKeysStay
<1> DEFINE Kept == /\ dir' = dir
                   /\ \A r \in Roles : fw'[r] \in {fw[r], NoCert}
<1>1. IInv /\ [Next]_vars => [mark => Kept]_vars
  <2> SUFFICES ASSUME IInv, [Next]_vars, mark
               PROVE  Kept
      BY DEF vars
  <2> USE DEF platform, keydir, run
  <2>1. pc \notin FromSlot
    BY DEF IInv, MintedInv
  <2>2. CASE ScriptStep
    BY <2>1, <2>2 DEF ScriptStep, CommandFails, CheckSetup, RequireSlot9a, CertPK,
       CertKEK, CertDb, SignPK, SignKEK, SignDb, SignUpdate, WritePK, WriteKEK,
       WriteDb, VerifyVars, MarkEnrolled,
       CollectImages, SignImage, UnlinkTarget, CopyImage, CopyFails,
       VerifySignature, ReportResigned, FromSlot
  <2>3. CASE ClearKeys
    BY <2>3 DEF ClearKeys, Restart, IInv, TypeOK
  <2>4. CASE Reboot
    BY <2>4 DEF Reboot, Restart
  <2>5. CASE \E p \in Phases : Start(p)
    BY <2>5 DEF Start
  <2>6. CASE \E k \in Keys \union {NoKey} : SwapToken(k)
    BY <2>6 DEF SwapToken
  <2>7. CASE \E i \in Images : UpdateImage(i)
    BY <2>7 DEF UpdateImage
  <2>8. CASE UNCHANGED vars
    BY <2>8 DEF vars
  <2> QED
    BY <2>2, <2>3, <2>4, <2>5, <2>6, <2>7, <2>8 DEF Next
<1> QED
    BY Invariance, <1>1, PTL DEF Spec, EnrolledKeysStay

\* On a marked device a bootable image is only lost to an update, or to mv in
\* favour of a copy that boots.
THEOREM BootableImagesStayAlways == Spec => BootableImagesStay
<1> DEFINE Loses(i) == Accepts(fw, esp[i]) /\ fw' = fw /\ ~Accepts(fw, esp'[i])
           Excused(i) == \/ pc = "unlink" /\ Accepts(fw, [state |-> "whole", sig |-> tmp])
                         \/ esp'[i] = Unsigned
<1>1. IInv /\ [Next]_vars => [mark => \A i \in Images : Loses(i) => Excused(i)]_vars
  <2> SUFFICES ASSUME IInv, [Next]_vars, mark, NEW i \in Images, Loses(i)
               PROVE  Excused(i)
      BY DEF vars
  <2> USE DEF platform, keydir, run
  <2>1. esp'[i] # esp[i]
    OBVIOUS
  <2>2. ~Accepts(fw, Missing)
    BY DEF Accepts, Missing
  <2>3. ASSUME NEW j \in Images, CopyImage(j)
        PROVE  Excused(i)
    <3>1. tmp = dir["db"] /\ dir["db"] # NoCert
      BY <2>3 DEF CopyImage, IInv, SigningInv, Signing
    <3>2. i = j /\ esp'[i] = [state |-> "whole", sig |-> tmp]
      BY <2>1, <2>3 DEF CopyImage, IInv, TypeOK
    <3>3. fw["PK"] # NoCert => fw["db"] = dir["db"]
      BY DEF IInv, MarkInv, SetupMode, Roles
    <3>4. Accepts(fw, esp'[i])
      BY <3>1, <3>2, <3>3 DEF Accepts
    <3> QED
      BY <3>4
  <2>4. ASSUME NEW j \in Images, CopyFails(j)
        PROVE  Excused(i)
    <3>1. i = j
      BY <2>1, <2>4 DEF CopyFails, IInv, TypeOK
    <3>2. esp[i] = Missing
      BY <2>4, <3>1 DEF CopyFails, Current, IInv, SigningInv
    <3> QED
      BY <2>2, <3>2
  <2>5. ASSUME NEW f, Restart(f)
        PROVE  Excused(i)
    <3>1. pc = "copy" /\ i \in todo /\ Current(i)
      BY <2>1, <2>5 DEF Restart, IInv, TypeOK
    <3>2. esp[i] = Missing
      BY <3>1 DEF IInv, SigningInv
    <3> QED
      BY <2>2, <3>2
  <2>6. CASE Reboot \/ ClearKeys
    BY <2>5, <2>6 DEF Reboot, ClearKeys
  <2>7. ASSUME NEW j \in Images, SignImage(j) \/ UnlinkTarget(j)
        PROVE  Excused(i)
    <3>1. pc = "unlink"
      BY <2>1, <2>7 DEF SignImage, UnlinkTarget
    <3>2. tmp = dir["db"]
      BY <3>1 DEF IInv, SigningInv
    <3>3. dir["db"] # NoCert
      BY <3>1 DEF IInv, SigningInv, Signing
    <3>4. fw["PK"] # NoCert => fw["db"] = dir["db"]
      BY DEF IInv, MarkInv, SetupMode, Roles
    <3> QED
      BY <3>1, <3>2, <3>3, <3>4 DEF Accepts
  <2>8. ASSUME NEW j \in Images, UpdateImage(j)
        PROVE  Excused(i)
    BY <2>1, <2>8 DEF UpdateImage, IInv, TypeOK
  <2>9. CASE \/ CommandFails \/ CheckSetup \/ RequireSlot9a
             \/ CertPK \/ CertKEK \/ CertDb \/ SignPK \/ SignKEK \/ SignDb
    BY <2>1, <2>9 DEF CommandFails, CheckSetup, RequireSlot9a, CertPK, CertKEK, CertDb, MakeCert,
           SignPK, SignKEK, SignDb, SignUpdate
  <2>10. CASE WritePK \/ WriteKEK \/ WriteDb \/ VerifyVars \/ MarkEnrolled
    BY <2>1, <2>10 DEF WritePK, WriteKEK, WriteDb, Write, VerifyVars, MarkEnrolled
  <2>11. CASE CollectImages \/ VerifySignature \/ ReportResigned
    BY <2>1, <2>11 DEF CollectImages, VerifySignature, ReportResigned
  <2>12. CASE \/ \E p \in Phases : Start(p)
              \/ \E k \in Keys \union {NoKey} : SwapToken(k)
    BY <2>1, <2>12 DEF Start, SwapToken
  <2>13. CASE UNCHANGED vars
    BY <2>1, <2>13 DEF vars
  <2> QED
    BY <2>3, <2>4, <2>6, <2>7, <2>8, <2>9, <2>10, <2>11, <2>12, <2>13
    DEF Next, ScriptStep
<1> QED
    BY Invariance, <1>1, PTL DEF Spec, BootableImagesStay

-----------------------------------------------------------------------------
(* SecureBoot implements Ceremony: every command of the script, every      *)
(* reboot and every visit to the setup screen is a step of the ceremony or *)
(* leaves it alone.  Beyond the invariant above the argument needs that a  *)
(* run only reaches the commands its argument asks for.                    *)

PhaseInv ==
    /\ pc \in {"check"} \union FromSlot => phase \in {"enroll", "all"}
    /\ pc \in ResignSteps => phase \in {"resign", "all"}

\* A run of phase "enroll" never signs, a run of phase "resign" never enrolls.
LEMMA PhaseNext == PhaseInv /\ [Next]_vars => PhaseInv'
<1> SUFFICES ASSUME PhaseInv, [Next]_vars
             PROVE  PhaseInv'
    OBVIOUS
<1> USE DEF PhaseInv, FromSlot, ResignSteps, platform, keydir, run
<1>1. CASE \E p \in Phases : Start(p)
    BY <1>1 DEF Start, Phases
<1>2. CASE CommandFails \/ CheckSetup \/ RequireSlot9a
    BY <1>2 DEF CommandFails, CheckSetup, RequireSlot9a
<1>3. CASE CertPK \/ CertKEK \/ CertDb \/ SignPK \/ SignKEK \/ SignDb
    BY <1>3 DEF CertPK, CertKEK, CertDb, MakeCert, SignPK, SignKEK, SignDb, SignUpdate
<1>4. CASE WritePK \/ WriteKEK \/ WriteDb \/ VerifyVars
    BY <1>4 DEF WritePK, WriteKEK, WriteDb, Write, VerifyVars
<1>5. CASE MarkEnrolled
    BY <1>5 DEF MarkEnrolled
<1>6. CASE CollectImages \/ VerifySignature \/ ReportResigned
    BY <1>6 DEF CollectImages, VerifySignature, ReportResigned
<1>7. CASE \E i \in Images : SignImage(i) \/ UnlinkTarget(i) \/ CopyImage(i) \/ CopyFails(i)
    BY <1>7 DEF SignImage, UnlinkTarget, CopyImage, CopyFails
<1>8. CASE \E k \in Keys \union {NoKey} : SwapToken(k)
    BY <1>8 DEF SwapToken
<1>9. CASE Reboot \/ ClearKeys
    BY <1>9 DEF Reboot, ClearKeys, Restart
<1>10. CASE \E i \in Images : UpdateImage(i)
    BY <1>10 DEF UpdateImage
<1>11. CASE UNCHANGED vars
    BY <1>11 DEF vars
<1> QED
    BY <1>1, <1>2, <1>3, <1>4, <1>5, <1>6, <1>7, <1>8, <1>9, <1>10, <1>11
    DEF Next, ScriptStep

\* While the script is between writing the PK and making the mark, the machine
\* is owned and unmarked.
LEMMA OwnedStage ==
    ASSUME IInv, Progress = "owned"
    PROVE  Stage = "stuck" /\ ~SetupMode /\ ~mark /\ pc \in FromWriteKEK
<1>1. pc \in FromWriteKEK
    BY DEF Progress, FromWriteKEK
<1>2. ~mark /\ fw["PK"] = dir["PK"] /\ dir["PK"] \in Certs
    BY <1>1 DEF IInv, MintedInv, WrittenInv, FromWriteKEK, FromSlot, Minted, FromSignPK
<1> QED
    BY <1>1, <1>2, NoCertIsNone DEF Stage, SetupMode

\* One step of SecureBoot, seen as a step of Ceremony.
LEMMA RefinementNext ==
    IInv /\ PhaseInv /\ [Next]_vars
      => [Ceremony!CNext]_(<<Stage, Running, Progress, safe>>)
<1> SUFFICES ASSUME IInv, PhaseInv, [Next]_vars
             PROVE  Ceremony!CNext \/ UNCHANGED <<Stage, Running, Progress, safe>>
    OBVIOUS
<1> USE DEF platform, keydir, run, ResignSteps
<1>1. ASSUME NEW p \in Phases, Start(p)
      PROVE  Ceremony!CNext
  <2>1. /\ Running = "none" /\ Running' = p
        /\ safe' = FALSE
        /\ Stage' = Stage
        /\ Progress = "none" /\ Progress' = "none"
    BY <1>1 DEF Start, Running, Stage, Progress, SetupMode
  <2> QED
    BY <2>1 DEF Ceremony!Begin, Ceremony!CNext
\* A run that ends without a mark or a message.
<1>2. ASSUME pc # "idle", pc' = "idle",
             UNCHANGED <<fw, mark, phase, safe>>
      PROVE  Ceremony!CNext
  <2>1. /\ Running # "none" /\ Running' = "none"
        /\ Progress' = "none"
        /\ UNCHANGED <<Stage, safe>>
    BY <1>2 DEF Running, Progress, Stage, SetupMode, IInv, TypeOK, Phases
  <2> QED
    BY <2>1 DEF Ceremony!Fail, Ceremony!CNext
\* A command that goes on without touching the firmware or the mark.
<1>3. ASSUME pc # "idle", pc' # "idle", Progress' = Progress,
             UNCHANGED <<fw, mark, phase, safe>>
      PROVE  UNCHANGED <<Stage, Running, Progress, safe>>
    BY <1>3 DEF Running, Stage, SetupMode
<1>4. CASE CommandFails
    BY <1>2, <1>4 DEF CommandFails
<1>5. CASE CheckSetup \/ RequireSlot9a
    BY <1>3, <1>5 DEF CheckSetup, RequireSlot9a, Progress
<1>6. CASE CertPK \/ CertKEK \/ CertDb \/ SignPK \/ SignKEK \/ SignDb
    BY <1>3, <1>6 DEF CertPK, CertKEK, CertDb, MakeCert, SignPK, SignKEK, SignDb,
       SignUpdate, Progress
<1>7. CASE WritePK
  <2>1. SetupMode /\ ~mark /\ dir["PK"] \in Certs /\ phase \in {"enroll", "all"}
    BY <1>7 DEF WritePK, IInv, MintedInv, WrittenInv, PhaseInv, FromSlot, Minted, FromSignPK,
       FromWriteKEK
  <2>2. ~SetupMode'
    BY <1>7, <2>1, NoCertIsNone DEF WritePK, Write, SetupMode, IInv, TypeOK, Roles
  <2>3. /\ Running \in {"enroll", "all"} /\ Progress = "none"
        /\ Stage = "setup" /\ Stage' = "stuck"
        /\ Progress' = "owned"
        /\ UNCHANGED <<Running, safe>>
    BY <1>7, <2>1, <2>2 DEF WritePK, Write, Running, Progress, Stage
  <2> QED
    BY <2>3 DEF Ceremony!TakeOwnership, Ceremony!CNext
<1>8. CASE WriteKEK \/ WriteDb
  <2>1. fw'["PK"] = fw["PK"]
    BY <1>8 DEF WriteKEK, WriteDb, Write, IInv, TypeOK, Roles
  <2> QED
    BY <1>8, <2>1 DEF WriteKEK, WriteDb, Write, Running, Progress, Stage, SetupMode
<1>9. CASE VerifyVars
    BY <1>3, <1>9 DEF VerifyVars, Progress
<1>10. CASE MarkEnrolled
  <2>1. Progress = "owned" /\ ~SetupMode /\ phase \in {"enroll", "all"}
    BY <1>10, OwnedStage DEF MarkEnrolled, Progress, PhaseInv, FromSlot
  <2>2. Stage' = "marked" /\ UNCHANGED safe
    BY <1>10, <2>1 DEF MarkEnrolled, Stage, SetupMode
  <2>3. \/ Running = "all" /\ Progress' = "sealed" /\ UNCHANGED Running
        \/ Running = "enroll" /\ Progress' = "none" /\ Running' = "none"
    BY <1>10, <2>1 DEF MarkEnrolled, Running, Progress
  <2> QED
    BY <2>1, <2>2, <2>3 DEF Ceremony!Seal, Ceremony!CNext
<1>11. CASE CollectImages \/ VerifySignature
    BY <1>3, <1>11 DEF CollectImages, VerifySignature, Progress
<1>12. CASE \E i \in Images : SignImage(i) \/ UnlinkTarget(i) \/ CopyImage(i)
    BY <1>3, <1>12 DEF SignImage, UnlinkTarget, CopyImage, Progress
<1>13. CASE \E i \in Images : CopyFails(i)
    BY <1>2, <1>13 DEF CopyFails
<1>14. CASE ReportResigned
  <2>1. /\ Running = "resign" \/ Progress = "sealed"
        /\ safe' = TRUE
        /\ Running' = "none" /\ Progress' = "none"
        /\ UNCHANGED Stage
    BY <1>14 DEF ReportResigned, PhaseInv, Running, Progress, Stage, SetupMode
  <2> QED
    BY <2>1 DEF Ceremony!Report, Ceremony!CNext
<1>15. CASE \E k \in Keys \union {NoKey} : SwapToken(k)
    BY <1>15 DEF SwapToken, Stage, Running, Progress, SetupMode
<1>16. CASE \E i \in Images : UpdateImage(i)
    BY <1>16 DEF UpdateImage, Stage, Running, Progress, SetupMode
<1>17. CASE Reboot
  <2>1. CASE pc = "idle"
    BY <1>17, <2>1 DEF Reboot, Restart, Stage, Running, Progress, SetupMode
  <2>2. CASE pc # "idle"
    BY <1>2, <1>17, <2>2 DEF Reboot, Restart
  <2> QED
    BY <2>1, <2>2
<1>18. CASE ClearKeys
  <2>1. ~SetupMode /\ SetupMode'
    BY <1>18 DEF ClearKeys, Restart, SetupMode, IInv, TypeOK, Roles
  <2>2. Running' = "none" /\ Progress' = "none" /\ UNCHANGED <<mark, safe>>
    BY <1>18 DEF ClearKeys, Restart, Running, Progress
  <2>3. Stage = IF mark THEN "marked" ELSE "stuck"
    BY <2>1 DEF Stage
  <2>4. Stage' = IF mark THEN "cleared" ELSE "setup"
    BY <2>1, <2>2 DEF Stage
  <2> QED
    BY <2>2, <2>3, <2>4 DEF Ceremony!Clear, Ceremony!CNext
<1>19. CASE UNCHANGED vars
    BY <1>19 DEF vars, Stage, Running, Progress, SetupMode
<1> QED
    BY <1>1, <1>4, <1>5, <1>6, <1>7, <1>8, <1>9, <1>10, <1>11, <1>12, <1>13, <1>14,
       <1>15, <1>16, <1>17, <1>18, <1>19
    DEF Next, ScriptStep

\* enroll-sb.sh, with everything that can happen to it, implements the ceremony
\* the wizard is written against.
THEOREM ImplementsCeremony == Spec => CeremonyPromise
<1>1. Init => Ceremony!CInit
    BY DEF Init, Ceremony!CInit, Stage, Running, Progress, ResignSteps, SetupMode, Roles
<1>2. Init => PhaseInv
    BY DEF Init, PhaseInv, FromSlot, ResignSteps
<1>3. Spec => []PhaseInv
    BY <1>2, PhaseNext, PTL DEF Spec
<1> QED
    BY <1>1, <1>3, Invariance, RefinementNext, PTL DEF Spec, CeremonyPromise,
       Ceremony!CSpec, Ceremony!cvars

-----------------------------------------------------------------------------
\* The end of a run.

\* The commands from p to the end of the script, with no image to sign.
Position(p) ==
    CASE p = "idle"        -> 0
      [] p = "copy"        -> 1
      [] p = "unlink"      -> 2
      [] p = "sbverify"    -> 3
      [] p = "sign"        -> 4
      [] p = "resign_slot" -> 5
      [] p = "touch"       -> 6
      [] p = "readvar"     -> 7
      [] p = "writeDb"     -> 8
      [] p = "writeKEK"    -> 9
      [] p = "writePK"     -> 10
      [] p = "signDb"      -> 11
      [] p = "certDb"      -> 12
      [] p = "signKEK"     -> 13
      [] p = "certKEK"     -> 14
      [] p = "signPK"      -> 15
      [] p = "certPK"      -> 16
      [] p = "enroll_slot" -> 17
      [] OTHER             -> 18

\* The images whose commands are still to come: those the loop has left, and as
\* long as it has not collected them, all.
Pending == IF pc \in Signing THEN todo ELSE Images

\* The most commands that a run has still to go, four of them for each image.
CommandsLeft == IF pc = "idle" THEN 0 ELSE Position(pc) + 4 * Cardinality(Pending)

\* There are no more of them than files on the ESP.
LEMMA PendingIsFinite ==
    ASSUME IsFiniteSet(Images), TypeOK
    PROVE  /\ IsFiniteSet(Pending)
           /\ Cardinality(Pending) \in Nat
           /\ Cardinality(Pending) <= Cardinality(Images)
           /\ Cardinality(Images) \in Nat
<1>1. Pending \in SUBSET Images
    BY DEF TypeOK, Pending
<1>2. IsFiniteSet(Pending) /\ Cardinality(Pending) <= Cardinality(Images)
    BY <1>1, FS_Subset
<1> QED
    BY <1>2, FS_CardinalityType

\* A command ahead of p.
LEMMA PositionType == \A p : Position(p) \in 0 .. 18 /\ (p # "idle" => Position(p) > 0)
<1> TAKE p
<1>1. Position(p) \in 0 .. 18
    BY DEF Position
<1>2. p # "idle" => Position(p) > 0
    BY DEF Position
<1> QED
    BY <1>1, <1>2

\* Each command of the script leaves fewer.
LEMMA CommandCounts ==
    ASSUME IsFiniteSet(Images), TypeOK, TypeOK', ScriptStep
    PROVE  CommandsLeft' < CommandsLeft
<1> DEFINE P == Pending
<1>1. /\ IsFiniteSet(Pending) /\ Cardinality(Pending) \in Nat
      /\ Cardinality(Pending) <= Cardinality(Images) /\ Cardinality(Images) \in Nat
    BY PendingIsFinite
<1>2. IsFiniteSet(Images)' /\ Cardinality(Pending') \in Nat
      /\ Cardinality(Pending') <= Cardinality(Images)
  <2>1. Pending' \in SUBSET Images
      BY DEF TypeOK, Pending
  <2>2. IsFiniteSet(Pending') /\ Cardinality(Pending') <= Cardinality(Images)
      BY <2>1, FS_Subset
  <2> QED
      BY <2>2, FS_CardinalityType
<1>3. Position(pc) \in Nat /\ Position(pc') \in Nat /\ (pc # "idle" => Position(pc) > 0)
    BY PositionType
\* A run that ends has fewer.
<1>4. ASSUME pc # "idle", pc' = "idle" PROVE CommandsLeft' < CommandsLeft
  <2>1. CommandsLeft' = 0 /\ CommandsLeft = Position(pc) + 4 * Cardinality(Pending)
      BY <1>4 DEF CommandsLeft
  <2> QED
      BY <1>1, <1>3, <1>4, <2>1
\* So has one that goes on to the next command with the same images ahead.
<1>5. ASSUME pc # "idle", pc' # "idle", Position(pc') < Position(pc), Pending' = Pending
      PROVE  CommandsLeft' < CommandsLeft
  <2>1. /\ CommandsLeft' = Position(pc') + 4 * Cardinality(Pending')
        /\ CommandsLeft = Position(pc) + 4 * Cardinality(Pending)
      BY <1>5 DEF CommandsLeft
  <2> QED
      BY <1>1, <1>3, <1>5, <2>1
<1>6. CASE CommandFails \/ ReportResigned \/ \E k \in Images : CopyFails(k)
  <2>1. pc # "idle" /\ pc' = "idle"
      BY <1>6 DEF CommandFails, ReportResigned, CopyFails
  <2> QED
      BY <1>4, <2>1
<1>7. CASE CheckSetup \/ RequireSlot9a \/ CertPK \/ SignPK \/ CertKEK \/ SignKEK
  <2>1. \/ pc = "check" /\ pc' = "enroll_slot"
        \/ pc = "enroll_slot" /\ pc' = "certPK"
        \/ pc = "certPK" /\ pc' = "signPK"
        \/ pc = "signPK" /\ pc' = "certKEK"
        \/ pc = "certKEK" /\ pc' = "signKEK"
        \/ pc = "signKEK" /\ pc' = "certDb"
      BY <1>7 DEF CheckSetup, RequireSlot9a, CertPK, SignPK, CertKEK, SignKEK
  <2>2. Position(pc') < Position(pc)
      BY <2>1 DEF Position
  <2>3. pc # "idle" /\ pc' # "idle" /\ Pending' = Pending
      BY <2>1 DEF Pending, Signing
  <2> QED
      BY <1>5, <2>2, <2>3
<1>8. CASE CertDb \/ SignDb \/ WritePK \/ WriteKEK \/ WriteDb \/ VerifyVars
  <2>1. \/ pc = "certDb" /\ pc' = "signDb"
        \/ pc = "signDb" /\ pc' = "writePK"
        \/ pc = "writePK" /\ pc' = "writeKEK"
        \/ pc = "writeKEK" /\ pc' = "writeDb"
        \/ pc = "writeDb" /\ pc' = "readvar"
        \/ pc = "readvar" /\ pc' = "touch"
      BY <1>8 DEF CertDb, SignDb, WritePK, WriteKEK, WriteDb, VerifyVars
  <2>2. Position(pc') < Position(pc)
      BY <2>1 DEF Position
  <2>3. pc # "idle" /\ pc' # "idle" /\ Pending' = Pending
      BY <2>1 DEF Pending, Signing
  <2> QED
      BY <1>5, <2>2, <2>3
<1>9. CASE MarkEnrolled
  <2>1. pc = "touch" /\ (pc' = "resign_slot" \/ pc' = "idle")
      BY <1>9 DEF MarkEnrolled
  <2>2. CASE pc' = "resign_slot"
    <3>1. Position(pc') < Position(pc)
        BY <2>1, <2>2 DEF Position
    <3>2. pc # "idle" /\ pc' # "idle" /\ Pending' = Pending
        BY <2>1, <2>2 DEF Pending, Signing
    <3> QED
        BY <1>5, <3>1, <3>2
  <2> QED
      BY <1>4, <2>1, <2>2
\* The images collected are some of all.
<1>10. CASE CollectImages
  <2>1. pc = "resign_slot" /\ pc' = "sign"
      BY <1>10 DEF CollectImages
  <2>2. Position(pc) = 5 /\ Position(pc') = 4
      BY <2>1 DEF Position
  <2>3. Pending = Images
      BY <2>1 DEF Pending, Signing
  <2>4. /\ CommandsLeft = 5 + 4 * Cardinality(Images)
        /\ CommandsLeft' = 4 + 4 * Cardinality(Pending')
      BY <2>1, <2>2, <2>3 DEF CommandsLeft
  <2> QED
      BY <1>1, <1>2, <2>4
<1>11. CASE VerifySignature \/ \E k \in Images : SignImage(k) \/ UnlinkTarget(k)
  <2>1. /\ \/ pc = "sign" /\ pc' = "sbverify"
           \/ pc = "sbverify" /\ pc' = "unlink"
           \/ pc = "unlink" /\ pc' = "copy"
        /\ todo' = todo
      BY <1>11 DEF VerifySignature, SignImage, UnlinkTarget, run
  <2>2. Position(pc') < Position(pc)
      BY <2>1 DEF Position
  <2>3. pc # "idle" /\ pc' # "idle" /\ Pending' = Pending
      BY <2>1 DEF Pending, Signing
  <2> QED
      BY <1>5, <2>2, <2>3
\* The loop goes round with one image less.
<1>12. ASSUME NEW k \in Images, CopyImage(k) PROVE CommandsLeft' < CommandsLeft
  <2>1. pc = "copy" /\ pc' = "sign" /\ k \in todo /\ todo' = todo \ {k}
      BY <1>12 DEF CopyImage, Current
  <2>2. Position(pc) = 1 /\ Position(pc') = 4
      BY <2>1 DEF Position
  <2>3. Pending = todo /\ Pending' = todo'
      BY <2>1 DEF Pending, Signing
  <2>4. Cardinality(todo \ {k}) = Cardinality(todo) - 1
      BY <1>1, <2>1, <2>3, FS_RemoveElement
  <2>5. /\ CommandsLeft = 1 + 4 * Cardinality(Pending)
        /\ CommandsLeft' = 4 + 4 * Cardinality(Pending')
      BY <2>1, <2>2 DEF CommandsLeft
  <2>6. Cardinality(Pending') = Cardinality(Pending) - 1
      BY <2>1, <2>3, <2>4
  <2> QED
      BY <1>1, <1>2, <2>5, <2>6
<1> QED
    BY <1>6, <1>7, <1>8, <1>9, <1>10, <1>11, <1>12 DEF ScriptStep

\* What else happens leaves a run where it is or ends it.
LEMMA OthersAddNothing ==
    ASSUME IsFiniteSet(Images), TypeOK, [Next]_vars, ~ScriptStep, pc # "idle"
    PROVE  CommandsLeft' <= CommandsLeft
<1>1. CommandsLeft \in Nat
    BY PendingIsFinite, PositionType DEF CommandsLeft
<1>2. CASE pc' = pc /\ todo' = todo
  <2>1. CommandsLeft' = CommandsLeft
      BY <1>2 DEF CommandsLeft, Pending
  <2> QED
      BY <1>1, <2>1
<1>3. CASE pc' = "idle"
  <2>1. CommandsLeft' = 0
      BY <1>3 DEF CommandsLeft
  <2> QED
      BY <1>1, <2>1
<1>4. (pc' = pc /\ todo' = todo) \/ pc' = "idle"
    BY DEF Next, Start, SwapToken, Reboot, ClearKeys, Restart, UpdateImage, run, vars
<1> QED
    BY <1>2, <1>3, <1>4

\* A run has a natural number of commands left, every command lowers it, and nothing
\* that happens beside the run, no swapped key, reboot or cleared variable, raises
\* it.  So a run can only end or wait at a command for ever, which HalfwayEnds is
\* about: this is the part of it that needs no fairness.
THEOREM FewerCommandsLeft ==
    ASSUME IsFiniteSet(Images)
    PROVE  Spec => /\ [](CommandsLeft \in Nat)
                   /\ [][pc # "idle" => /\ CommandsLeft' <= CommandsLeft
                                        /\ ScriptStep => CommandsLeft' < CommandsLeft]_vars
<1>1. TypeOK => CommandsLeft \in Nat
    BY PendingIsFinite, PositionType DEF CommandsLeft
<1>2. ASSUME TypeOK, TypeOK', [Next]_vars, pc # "idle"
      PROVE  /\ CommandsLeft' <= CommandsLeft
             /\ ScriptStep => CommandsLeft' < CommandsLeft
  <2>1. CommandsLeft \in Nat /\ CommandsLeft' \in Nat
    <3>1. CommandsLeft \in Nat
        BY <1>1, <1>2
    <3>2. CommandsLeft' \in Nat
      <4>1. Pending' \in SUBSET Images
          BY <1>2 DEF TypeOK, Pending
      <4>2. Cardinality(Pending') \in Nat
          BY <4>1, FS_Subset, FS_CardinalityType
      <4> QED
          BY <4>2, PositionType DEF CommandsLeft
    <3> QED
        BY <3>1, <3>2
  <2>2. CASE ScriptStep
      BY <1>2, <2>1, <2>2, CommandCounts
  <2>3. CASE ~ScriptStep
      BY <1>2, <2>3, OthersAddNothing
  <2> QED
      BY <2>2, <2>3
<1> QED
    BY <1>1, <1>2, TypeCorrect, PTL DEF Spec
=============================================================================
