# yubiOS: a TLA+ model of its trust anchors, its map store and its tools

yubiOS is a bootc image whose owner, not its vendor, holds the keys: Secure
Boot, disk encryption, sudo, login and SSH are all enrolled on the owner's
YubiKeys at first boot, by shell scripts under `usr/lib/yubiOS/`. Beside the
image the repository holds the wayfinder, a web worker that stores point maps
and a ledger of predictions about them; the driver that runs a test inside a
virtual machine over its serial console; and research programs. These modules
model the enrollment scripts with the firmware, disk and PAM state they change;
the wayfinder's stores, its ledger and the arithmetic the ledger rests on; the
console driver; and, of the research programs, the triangulation they are built
on. TLC checks all of it on small instances; TLAPS proves the safety properties
for every instance, but for those of the triangulation that are plane geometry
(one of which is proved from the one geometrical fact it needs) and one that is
about when its flips end.

    tlc -config SecureBoot.cfg MCSecureBoot        a run
    tlapm SecureBootProofs.tla                     the proofs

## 1. Inventory

| Component | Source | State it keeps | Operations |
|---|---|---|---|
| Owner Secure Boot ceremony | `enroll-sb.sh` | certificates and `.sb-enrolled` in `/var/lib/yubiOS`, UEFI PK/KEK/db, the images on the ESP | phases `enroll`, `resign`, `all` |
| First-boot wizard | `enroll.sh`, `yubiOS-enroll.service`, the udev rule | `.enrolled` marker, unit state | wait for a key, offer four steps, mark |
| LUKS2 enrollment | `enroll-luks.sh` | LUKS header slots, `/etc/crypttab`, initramfs | confirm, cryptenroll, crypttab, dracut |
| PAM enrollment and stacks | `enroll-pam.sh`, `pam.d/` | `/etc/yubico/u2f_keys` | append a credential; evaluate a stack |
| Backup enrollment | `enroll-backup.sh` | LUKS slot, authfile line | one of each for a second key |
| Shared shell library | `lib.sh` | none | find keys and partitions, wait for a key, enroll a user |
| SSH enrollment | `enroll-ssh.sh` | key stub in `~/.ssh` | make a resident key |
| FIDO2-only signing | `enroll-sb-fido2.sh`, `uki/sign-uki-fido2.sh` | age-encrypted signing key | make, decrypt, sign |
| Homed, GPG, TOTP, largeBlob enrollment | other `enroll-*.sh` | on the key, or systemd-homed | single commands |
| UKI installation | `uki/install-uki.sh` | a UKI and its loader entry | write both |
| CHIPSEC check, VFIO purge, VM helpers | `chipsec/`, units | a result file; none | one guarded command each |
| Wayfinder map store | `tools/point-map/lib/map-store.mjs`, routes of `worker-base.js` | a D1 row and, when it is too large for one, a KV value per map | save, load, delete |
| Wayfinder outcomes ledger | `tools/point-map/lib/outcomes-route.mjs` | append-only rows with `supersedes` links | record, list, score |
| Transition ledger | `explainTransition` in `tools/point-map/pointmap.js` | none | the isolated-count ledger of one edit of a map |
| Delaunay triangulation | `tools/spectral-standard/centroid_walk.py` | triangles, their neighbours, a worklist of edges | insert a point, canonicalize by flips, edges |
| fTPM console driver | `tests/vm/ftpm-console-driver.py` | a buffer of what was read, a deadline | wait for a prompt, type a script in, read its exit code |
| Wayfinder embedding pipeline | `embed-pipeline.mjs` and geometry | content-hash cache of vectors | embed, project |
| Image build, CI, research texts and tools | the rest | none at run time | -- |

How they interact. udev and systemd start the wizard on a first boot; the
wizard calls the four enrollment scripts, and learns nothing of them but their
exit status. `enroll-sb.sh` shares three things with the rest of the machine:
the firmware's variables (with the setup screen), the ESP (with the bootloader
update service) and its own `KEYDIR` (with its earlier runs). `enroll-luks.sh`
and `enroll-backup.sh` share the LUKS header; `enroll-pam.sh` and
`enroll-backup.sh` share the authfile, which the sudo and login stacks read.
The human swaps YubiKeys between all of it.

The wayfinder's requests share the D1 database and the KV namespace and nothing
else; each `await` lets any other request run. A POST to the outcomes ledger
loads two stored maps through the same code as a reader, has `explainTransition`
compare them, and inserts a row. The console driver has one channel to the guest,
a serial line that acknowledges nothing. The triangulation is called by the
centroid walk with a list of points and returns edges.

What is hard. Every script runs under `set -e` and undoes nothing, so every
prefix of it is a state the next one starts from; power can be lost between any
two commands; the key behind a device path read before a prompt may be another
one after it; what a file's existence stands for (`db.crt`, `.sb-enrolled`,
`.enrolled`) outlives the state it was made in; the wizard is offered again to a
machine that an earlier wizard left half enrolled. A saved map is up to three
writes to two stores without a transaction, of which KV may answer with an old
value; a ledger row relates things read one after the other. The console loses
what is typed too early and shows what is typed while the echo is on. In the
triangulation a wrong neighbour link shows many insertions later, and its hard
inputs, points on a line or on a circle, are not what random tests hit.
PROJECT.json lists these hazards line by line with the properties that watch
them.

What makes each component correct:

- *Secure Boot*: the mark stands for one finished ceremony; what was
  signed for the firmware is accepted by it; nothing re-keys an enrolled
  machine; no failure costs a bootable image except in the middle of `mv`.
- *Wizard*: the marker stands for a wizard that went all the way; an interrupted
  one is offered again and a finished one is not; a boot without a YubiKey is
  not held up.
- *LUKS*: a boot never waits for a credential that was not made; a volume whose
  passphrase was wiped stays openable.
- *PAM*: sudo always needs a touch; enrolling takes nothing from others.
- *Map store*: the two stores together behave like one atomic archive: a reader
  gets the map that was saved under the id or nothing, an answered save stays
  until it is deleted, a deleted id never comes back.
- *Ledger*: a delta stored as the server's is about exactly the two maps and the
  edit of its row; filtering a contingency does not change which rows count.
- *Transition*: the delta derived from degrees before an edit is the recounted
  one, or the POST of a legitimate transition ends in an exception.
- *Triangulation*: the mesh has no hole, overlap or stale link between
  insertions; walk and flood find everything; the incidence lists of the flips
  are those of the triangles and no edge to flip is forgotten; what is returned
  are Delaunay edges.
- *Console driver*: a PASS was earned; the driver ends.

## 2. Modules

    Ceremony  <--refines--  SecureBoot  <--  MCSecureBoot
       ^                        ^
       | INSTANCE               +-- SecureBootProofs
    FirstBoot     <--  FirstBootProofs
    TrustAnchors  <--  MCTrustAnchors, TrustAnchorsProofs

    Archive  <--refines--  MapStore  <--  Wayfinder  <--  MCWayfinder
                                          |
    Transition  <-------------------------+

    MapStore                <--  MapStoreProofs    <--  WayfinderProofs
    Transition              <--  TransitionProofs  <--  WayfinderProofs
    Wayfinder               <--  WayfinderProofs

    Delaunay       <--  MCDelaunay, DelaunayProofs
    ConsoleDriver  <--  MCConsoleDriver, ConsoleDriverProofs

An arrow `A <-- B` is B extending A (`A <--refines-- B`: B implements A under an
INSTANCE).

**SecureBoot** is `enroll-sb.sh` command by command. `pc` is the next command of
the running script, `phase` its argument. The six signing commands of the
minting (`CertPK` .. `SignDb`: a certificate on slot 9a and its signed update,
three times; the sig-list conversions go with them), the three `efi-updatevar`
writes, the read-back of SetupMode and `touch` of the mark are actions of their
own, since any can fail and leave the ones before it in place. In phase `resign`
the glob is read once (`CollectImages`), and each image is signed to a temporary
file, verified, and moved. `mv` from `/var` to the ESP crosses file systems, so
it is an unlink and a copy (`UnlinkTarget`, `CopyImage`, `CopyFails`). Around
the script: `SwapToken`, `Reboot` and power loss (`Restart`), `ClearKeys` in the
setup screen, `UpdateImage`.

- A certificate is a pair of a slot 9a key and the number of the minting run:
  every run makes new self-signed certificates on the same key.
- A signature is the certificate it verifies against. Signing with the wrong
  key gives a copy that verifies against nothing.
- The firmware is the UEFI rule: any update in setup mode, which is the absence
  of a PK; outside it only updates signed by the variable above. Enforcing, it
  starts what verifies against db.
- A machine none of whose loaders or UKIs is accepted is `boot = "refused"`;
  only the setup screen helps then.

**Ceremony** is what the rest of the system may assume of that script: four
stages of ownership, and which runs may change them. SecureBoot implements it
under `Stage`, `Running`, `Progress`, and FirstBoot uses it in place of the
script.

**FirstBoot** is the unit's start conditions (`StartService`, wanted by the boot
and again at every plugging-in), the poll loop, the four prompts, the marker,
and reboots. `committed` is the machine ID on disk, which ends the
first boots; it is written after the target that waits for the wizard
(`StartupFinished`). `userSet` is whether somebody's drop-in gives the unit a
`$USER`: as shipped it has none. The LUKS and SSH steps have only outcomes here.

**TrustAnchors** is LUKS, PAM and backup enrollment side by side: one script at a
time, its commands as actions, any of which may fail (`ScriptFails`). The PAM
stacks are sequences of (control, result) pairs, and `PamAccepts` says which of
them libpam lets through (no required line that `Refuses` before the first one
that `Ends`), so that the properties speak of who can use sudo and not of lines
in a file. `Detected` is what `lib.sh` prints for the partition, including
the two lines it prints when two disks have one each.

**Archive** is what those who know an id may assume: ids are given out once and
in order; an id may be reserved before its map is there, stands for that map
until it is withdrawn, and for nothing afterwards. **MapStore** is
`saveStoredMap`, `loadStoredMapJson` and `DELETE /api/maps/:id` with every
`await` between two actions (`req` says where each request is): the insert of
the whole map or of a pending row, the KV write, the UPDATE that points to it;
the SELECT and the KV read of a load; the look, the KV delete and the row delete
of a DELETE. `kv` holds what was written last and `older` what it may still
serve (`Served`, until `Propagate`). A request may end between any two of its
steps (`End`: the store throws, or the worker is gone). `saved` and `fate` are
history: which map was saved under an id, and what became of it.

**Transition** is `explainTransition` on points with an abstract relation `Near`
in place of the radius test: degrees, isolated points, the edges gained and
lost, and the two ledgers of `pointmap.js` (`IsolationDeltaAdd`,
`IsolationDeltaChange`), which derive the change of the isolated count from
degrees taken before the edit. **Wayfinder** puts the ledger on top of MapStore,
whose actions it takes over unchanged: a POST that loads the baseline and then the
after map while maps are saved and deleted around it, computes the transition, and
inserts. Rows never change, so that the look at the one it supersedes is part of
the insert. The rows counted by
a filtered contingency are an operator of the state.

**Delaunay** is `bowyer_watson_delaunay` on integer coordinates, in exact
arithmetic, with the relative tolerance of its circle test: the walk
to a triangle in conflict, the flood of the cavity, the fan with its rewiring of
neighbours, the removal of the super-triangle, and the canonicalizing worklist of
edge flips with its cap. One action is one iteration of a loop of the code. All
coordinates are ten times the code's, so that the vertices of its super-triangle
are integers too. An insertion that finds no cavity raises a ValueError, for which
the code returns a path through the points (`Flooded`). `inc` is the code's
dictionary from edges to lists of triangles, with its appends and removals in
their order.

**ConsoleDriver** is `main()` against the guest it cannot see. The console
carries tokens: digits, the marker, a prompt, other text; a read may end
anywhere, time may run out anywhere, QEMU may be absent or go away. The guest
goes from boot through a login prompt to a shell (a line typed before is gone),
echoes until a `stty -echo` was taken, and prints of its own accord. `shown` is
history: the driver's last line, which contains the marker, was echoed.

Taken from outside the repository, and marked external where a definition has no
line here: UEFI variable authentication and image verification; libpam's control
words; pam_u2f using the last line that names the user; KV being eventually
consistent and D1 never giving out an id twice (AUTOINCREMENT) and reporting the one it gave out
(`RowIdAssumption`); systemd ordering a target after the units it wants, committing
the machine ID after `first-boot-complete.target`, and setting no `$USER` for a unit
without `User=`.

### Abstractions

What the model does not promise: that PK and KEK are on one YubiKey. Each update
is signed with the certificate above it and the key inserted at that moment, so
a single swap during the minting makes the run fail; but the certificate and its
update are two commands, and an operator who swaps before each of them gets a PK
and a KEK of two keys. The model takes these steps; no document promises
otherwise.

One script runs at a time in SecureBoot and TrustAnchors; a second instance of
`enroll-sb.sh` is in the plan. Writes to disk are durable in the order they are
made. Versions, PIN lengths, prompts and messages are left out, except the
message "Reboot is now safe.", which is the variable `safe` because line 11 of
the script makes a promise of it. `UpdateImage` happens between runs. A line of
the authfile is written whole. The guest of the console driver prints the marker and
the exit code in one step (`ScriptEnds`): the kernel, which shares the serial line,
may print before and after them, but a message of its own between the two is not
modelled, and digits in one would be taken for the code. `PassIsEarned` and
`CodeIsAPrefix` hold for a guest whose `echo` of the two is not broken into. In SecureBoot the images are numbers in glob
order, which is all the loop depends on. Of a map its points by name and its
frame are kept, of a body whether it fits a row; the field checks of a POST,
which depend on nothing stored, are left out, and so are titles, times and the
five final verdicts apart. Coordinates of the triangulation are integers, so
rounding is outside the model.

An operator marked *Slip* is a mistake somebody could make in the definition
after it: a dropped check, a lost exit status, `>` for `>>`. None is part of a
specification; each shows that a property would notice it.

## 3. Runs

| Run | Result | What it shows |
|---|---|---|
| `SecureBoot.cfg` | holds, 543,534 states | `MarkMeansEnrolled`, `OneCeremony`, `ReportedImagesBoot`, `EnrolledKeysStay`, `BootableImagesStay`, `HalfwayEnds`, and SecureBoot implements Ceremony |
| `SecureBoot_report.cfg` | violated | "Reboot is now safe." can be false |
| `TrustAnchors.cfg` | holds, 553,872 states | `ConfiguredMeansEnrolled`, `WipedVolumeBoots`, `TouchAlwaysNeeded`, `EnrollingKeepsSudo` |
| `TrustAnchors_crypttab.cfg` | violated | the second enrolled volume is never configured |
| `TrustAnchors_sudo.cfg` | violated | a key just enrolled may not open sudo |
| `FirstBoot.cfg` | holds, 36,196 states | `EnrolledMeansWalked`, `NoSecondWizard`, `InterruptedIsOfferedAgain`, `WaitEnds` |
| `FirstBoot_skip.cfg` | violated | skipping the last step locks sudo |
| `FirstBoot_rerun.cfg` | violated | the Secure Boot step cannot always be run again |
| `FirstBoot_ssh.cfg` | violated | the SSH step cannot be run from the unit |
| `Wayfinder.cfg` | holds, 380,280 states | `ReadsAreTheSavedMap`, `AnsweredSavesStay`, `DeletedStaysDeleted`, `ServerDeltaIsReal`, `LedgersBalance`, `FiltersAgree`, and MapStore, under the ledger, implements Archive |
| `Delaunay.cfg` | holds, 89,242 states | `MeshIsWhole`, `LinksLeadBack`, `AlwaysDelaunay`, `FloodFindsAll`, `IncidenceIsRight`, `NothingLeftToFlip`, `EdgesAreDelaunay`, `WorklistEmpties`, every input ends |
| `ConsoleDriver.cfg` | holds, 284,158 states | `PassIsEarned`, `CodeIsAPrefix`, the driver ends |

The passing runs check for deadlock as well, except `ConsoleDriver.cfg`: the
driver exits, and the guest may have nothing left to do.

**Bounds.** SecureBoot: two YubiKeys, because every mix-up is between the right
key and a wrong one; a loader and a UKI, because booting takes one of each and
the loop can be interrupted before, at and after an image; two minting runs,
because the second is what makes a `db.crt` no firmware has. The reports and the
mark are about one ceremony and one earlier one. TrustAnchors: two keys, two
volumes on two disks (one disk with two volumes behaves like one whose second is
passed by argument), two users, two host names (the one the stack pins and
another), two authfile lines, so that one line shadows another or stands next to
it. FirstBoot: two polls and three boots: one to be interrupted, one to be
offered the wizard again, one after it was completed. Wayfinder: four maps on
two frames, two of them too large for a row: a map, the map with a point added,
the map with a point moved, and one that is comparable to none; points on a line
of five places, near when at most one apart, so that an edit gains, loses and
keeps neighbours. Two clients and one poster, two requests at a time, because
every hazard is between two (one at a time once the ledger has a row, none once
it is full); two ids, so that a read of one can be mistaken for the other; two
ledger rows, the second superseding the first or not. Delaunay: every order of
up to three points of a grid of three by three, of four with a corner, and of
five and six that hold a square with its centre, a point on the axis of a square
and a two by one rectangle with its middles; five points of one circle; one
repeated point. These contain collinear, cocircular and coinciding points in the
orders in which ties bite, and on the circle a flip makes another edge one to
flip, which is what the worklist is for.
ConsoleDriver: a payload of two lines, so that one can be lost and the other
not; codes 0, 1 and 77 (the one that means SKIP elsewhere), one digit in the
guest's own output, which it prints at most twice. Symmetry over keys and users
is used in `TrustAnchors.cfg`, which has no liveness property, and over clients
in `Wayfinder.cfg`, whose temporal properties are about steps only.

**Fairness.** `SecureBoot!FairSpec` has weak fairness of the commands that ask for
nothing (`~Asks`): checks, variable writes, `sbverify` and file operations end by
themselves, and the shell goes on from each to the next. The commands that use the
slot 9a key (three `openssl req`, three `openssl smime`, `systemd-sbsign`) ask for a
PIN, since the key URI carries none and the policy is ALWAYS. They may wait for ever
and have no fairness: a run need not end, and no property says it does. `HalfwayEnds`
says where it does not wait: between the write of the PK and the mark. While it waits
at the first image in phase `all`, with the keys enrolled and nothing signed yet, a
power loss does leave a machine that starts nothing; the script says not to reboot
before it is through. `FirstBoot!WFairSpec` has weak fairness of the poll
loop alone, which sleeps and looks again; a prompt may wait for ever, and
nothing is assumed of the user, the power or the firmware. `Delaunay!DSpec` has
weak fairness of its next step, being a sequential program. `ConsoleDriver!Spec`
has weak fairness of the driver and of time; every read of the driver has a
timeout. The guest and QEMU may stop anywhere. The wayfinder has no fairness: a
worker may be gone at any await, and no liveness is claimed.

**Assumed of D1.** `RowIdAssumption`: the answer to an INSERT reports the id of the
row in `meta.last_row_id`, as D1 documents it. `map-store.mjs:31` has a fallback for
an answer without it, `SELECT MAX(id)` behind one more `await`, which is therefore
not modelled. It would answer with another save's id when that one inserted in between, and the body
of one map would be written under the id of the other: `ReadsAreTheSavedMap`,
`AnsweredSavesStay`, `ArchivePromise`, the delta of `ServerDeltaIsReal` and their
theorems all rest on the assumption. `worker-base.js:1190` has the same fallback for the
ledger; nothing here depends on the id it answers.

**Findings.**

1. *`SecureBoot_report`.* After an enroll phase that wrote the PK and failed at
   KEK or db, the resign phase only looks for a `db.crt` file. It signs,
   verifies against that file and prints "Reboot is now safe." while the
   firmware enforces an empty db. With the mark as a precondition the statement
   is true, and is proved (`ReportedImagesBoot`).
2. *`TrustAnchors_crypttab`.* `grep fido2-device=auto /etc/crypttab` matches any
   volume's line, so a second volume is never configured although the script
   says that the next boot asks for the key.
3. *`TrustAnchors_sudo`.* The credential is made for `pam://<hostname>`; the
   system-auth stack pins `pam://yubiOS`; no file of the image sets the host
   name.
4. *`FirstBoot_skip`.* "Each step is skippable", but sudo and login require the
   line only the last step writes.
5. *`FirstBoot_rerun`.* "Independently re-runnable", but the wizard runs the
   ceremony with no argument, and that refuses outside setup mode; `set -e` then
   ends the wizard before the remaining steps.
6. *`FirstBoot_ssh`.* `"${SUDO_USER:-$USER}"` under `set -u` in a unit without
   `User=`.

**Observed while modelling**, from reading and from trying variants, not stated as
runs:

- A pending row deleted before its UPDATE leaves the KV body behind for ever,
  although the comment at `worker-base.js:1214` is about not leaking it. No
  reader can see it (`ReadsAreTheSavedMap`).
- Two rows may both supersede the same pending row, and both count. Deleting a
  baseline makes a pending prediction about it impossible to settle (404).
- A POST is accepted with an after map in which nothing was added or moved, also
  when its target is an "add" (`outcomes-route.mjs:111` compares names only if
  there is one).
- `_canonicalize` promises an answer that does not depend on the order of the
  points (`centroid_walk.py:483`), but skips a needed flip when the first apex
  is right of the edge: the unit square's diagonal differs between the orders
  (0,0), (0,1), (1,0), (1,1) and (0,0), (0,1), (1,1), (1,0). `EdgesAreDelaunay`
  therefore asks only for the edges that do not depend on a tie.
- `_bowyer_watson_naive` is said to give the same edges (`centroid_walk.py:585`). It
  does for up to five points of the grid that are not on one line, where
  it returns none; it does not for some cocircular sets of eight points.
- `centroid_walk.py:832` takes the coordinates of the first kept-many points, not of
  the points kept, so nodes get wrong coordinates once duplicates were merged;
  concentric rings do have one centroid.
- A driver that reads the echo of its own last line can report a PASS the script
  did not earn: this is why `PassIsEarned` excepts `shown`. A send that fails is
  not caught and exits with 1, and a script that exits with 77 cannot be told
  from a SKIP.

## 4. Proofs

| Module | Theorems | For every |
|---|---|---|
| SecureBootProofs | `TypeCorrect`, `Invariance` (`IInv`), `MarkMeansEnrolledAlways`, `OneCeremonyAlways`, `ReportedImagesBootAlways`, `EnrolledKeysStayAlways`, `BootableImagesStayAlways`, `ImplementsCeremony`, `FewerCommandsLeft` | set of YubiKeys and of image numbers (finite in the last one), bound on minting runs |
| FirstBootProofs | `WizardInvariance` (`FInv`), `WizardTypesAlways`, `EnrolledMeansWalkedAlways`, `NoSecondWizardAlways`, `InterruptedIsOfferedAgainAlways`, `FewerPollsLeft` | number of polls and boots |
| TrustAnchorsProofs | `AnchorInvariance` (`AInv`), `AnchorTypesAlways`, `ConfiguredMeansEnrolledAlways`, `WipedVolumeBootsAlways`, `TouchAlwaysNeededAlways`, `EnrollingKeepsSudoAlways` | set of keys, volumes, disks, users and host names |
| MapStoreProofs | `MapInvariance` (`MInv`), `MapTypesAlways`, `ReadsAreTheSavedMapAlways`, `AnsweredSavesStayAlways`, `DeletedStaysDeletedAlways`, `ImplementsArchive` | set of clients and maps, number of ids |
| TransitionProofs | `AddBalances`, `ChangeBalances`, `LedgerBalances` | finite set of names, set of places, symmetric `Near` |
| WayfinderProofs | `LedgerInvariance` (`LInv`), `LedgerTypesAlways`, `ServerDeltaIsRealAlways`, `LedgersBalanceAlways`, `FiltersAgreeAlways`; `WReadsAlways`, `WSavesAlways`, `WDeletesAlways`, `WImplementsArchive` | the above, set of posters and targets, number of rows |
| ConsoleDriverProofs | `ConsoleInvariance` (`KInv`), `ConsoleTypeOK`, `CodeIsAPrefixAlways`, `PassIsEarnedAlways`, `DeadlineCounts` | length of the payload, set of exit codes, amount of chatter |
| DelaunayProofs | `DelaunayInv` (`DInv`), `DelaunayTypeOK`, `DelaunayLinks`, `DelaunayIncidence`, `DelaunaySettled`, `FinishedIsSettled`, `StarsKeepItWhole`, `TurnsOneWay`, `SuperHoldsThePoints`, `DedupKeepsEach`, `EveryStepCounts` | set of lists of points |

The assumptions are the named ones of the modules. Most say that what stands for
nothing is no member (`KeysAssumption`, `SlotAssumption`, `StatesAssumption` and
the like) or that a bound is a number. `ImagesAssumption`: images are numbers,
some of them loaders. `RowIdAssumption`: D1 reports the ids it gives out (see above).
`NearAssumption`: who is near is near in return, which
also rounding keeps. `CodesAssumption` of ConsoleDriver: no exit code but 0 has
a beginning that reads as 0, which is how the shell prints them; with a "01" a
read that ends inside it would be a PASS. `InputsAssumption` of Delaunay: a list
of points is a list of pairs of integers and is not empty; the code refuses
anything but pairs of finite numbers, and an empty list.

**Secure Boot.** None of the invariants is inductive: the mark is made long
after the checks it depends on, so the proof must remember what each command
left for the next. `IInv` does that, following the script:

- `MintedInv`: from the slot check to the mark, the machine is unmarked; the
  certificates made so far are this run's, whatever the files were before.
- `WrittenInv`: before the first write the machine is in setup mode; each
  variable written since is the one in `KEYDIR`.
- `MarkInv`: with the mark, while enforcing, all variables are `KEYDIR`'s and
  all three are of one run. It survives because `phase_enroll` refuses a marked
  machine, so the certificates never change again.
- `SigningInv`: in the loop, `db.crt` exists and every image passed is signed with
  it; what is about to replace an image has been verified; the image being copied is
  off the disk.
- `ReportInv`: once reported and until the next run or an update of an image, each
  image counted is whole and signed with `db.crt`.

Each is preserved step by step (`MintedNext` .. `ReportNext`), each using only the
ones it needs. The two action properties follow from `IInv` by the same case
split. For the refinement, `PhaseInv` adds that an `enroll` run never reaches
the signing commands nor a `resign` run the enrolling ones, and
`RefinementNext` maps each action: `WritePK` to `TakeOwnership`,
`MarkEnrolled` to `Seal`, `ReportResigned` to `Report`, failures and
reboots to `Fail`, `ClearKeys` to `Clear`, the rest to stuttering.

**First boot.** `FInv` is types and four facts: a wizard only runs in a first
boot whose machine ID is not committed (`BootInv`); the steps before the one at hand
are behind it, all of them once the marker is made (`WalkedInv`); a ceremony it ran
reports only after it sealed (`CeremonyInv`); a line once appended stays (`PamInv`).

**Trust anchors.** `AInv` adds `EnrollingInv` to the properties: between
cryptenroll and dracut the volume has its key already. Configured volumes and
wiped ones then only need that key slots never go away. `TouchAlwaysNeeded` is
about the stacks alone and needs no invariant; `EnrollingKeepsSudo` is that an
append leaves another user's last line where it is.

**Map store and ledger.** `MInv` says of each request what it may count on
between two awaits: the id it was given is its own, and what KV holds or may
still serve under an id is the map once saved there. It works because ids are
never given out twice. Every step of MapStore is then a step of Archive or a
stutter, the publishing one being the UPDATE, or the insert of a map that fits
its row. `LInv` adds the ledger's types, `PostInv` (what a POST has loaded was
saved under its ids, although it may be gone by now) and `RowsInv` (the same of
a row; what it supersedes is about its baseline). `WorkerIsMapStore` shows that
each behaviour of Wayfinder is one of MapStore, so the store's theorems carry
over without a second proof.

**Transition.** The set of isolated points after an edit is compared with the
one before, as sets: who is not near the edited point keeps the degree, and who
is near changes by one. `ChangeBalances` also shows that the ledger's own
consistency check never throws. The code cites a Lean proof of this identity;
this one is about the code's formula for it.

**Console driver.** `KInv` follows the driver: nothing but newlines was typed
before the echo was turned off (`BeforeInv`); with the echo off the file and
what is on its way are the pieces in order (`FeedingInv`, `WaitingInv`); a
marker on the console is the answer of the one command (`CodeInv`). The idea is
that an echo that is off was turned off by the first line of the script, so
nothing typed after it can have been lost, and a line that was lost shows in an
echo.

`CTypeOK` says that what the driver exits with is a byte; it reads that number off
the console digit by digit. `Status` is a recursive function of the number of
digits read, and that it has a value for any number of them (`PrefixValues`) would
be an induction; it is instead shown that no number of digits is the least for
which it fails (`Least`: a set of naturals has a least member, from the library's
well-foundedness of `<`).

**Triangulation.** `DInv` is the mesh while points are inserted (`MeshInv`) and the
triangles while edges are flipped (`FlipInv`). It holds for any list of points and
would for any answers of the orientation and circle tests, since its proof uses no
fact about them: the links and lists of this code are right even where rounding makes
a predicate wrong.

- `VertexInv`: a triangle has three different vertices, each of the super-triangle
  or inserted before.
- `LinkInv`: the cavity is of live triangles, and a live triangle and its live
  neighbour agree on the edge between them. `LinksLeadBack` is this between two
  insertions. A fan keeps it (`FanKeepsLinks`): no other side of the cavity has
  the edge of a side of the ring (`RingLists`), so the triangle outside it finds
  the one new triangle there (`RewiredIs`), and of two new triangles with an edge
  of the new point each is the other's mate or neither is (`MateIs`).
- `IncidenceIsRight`: an exchange takes two triangles out of the lists of four outer
  edges and one inner edge, and puts two in. `Exchanged` names the two triangles
  before and after, vertex by vertex; `ExchangeLists` shows that the lists are
  changed exactly where the triangles are, and that an edge
  is in the dictionary exactly if some triangle has it.
- `NothingLeftToFlip`: an edge that is not on the heap need not be flipped. An
  exchange puts the four outer edges on it and no other edge's triangles
  change (`SettledSame`); that the other order of an edge's triangles gives the same
  verdict is `FlipsSame`. With `WorklistEmpties` it says that the flips
  stop only when none is left.

`StarsKeepItWhole` is about `MeshIsWhole`, which says more than `LinksLeadBack`: two
live triangles with one edge are neighbours, no other edge than the super-triangle's
is without one (`Meshed`), and the areas add up. That depends on the shape of the
cavity, and the theorem says on how much of it: every behaviour in which the rim of
each cavity has the point on its left and leaves no vertex twice (`StarShaped`) keeps
the mesh whole. It is a hypothesis about the predicates and the flood, which TLC
checks with `MeshIsWhole` (`RingCloses`) and which is not proved; all the rest is:

- The rim closes (`StarCloses`). Every triangle is left at each of its vertices as
  often as it is come to; sides inside the cavity come in pairs of opposite directions
  (`OppositeSides`), so the same is true of the ring (`RingBalances`). If it
  leaves no vertex twice, it then comes to none twice either, and comes to each that
  it leaves.
- The mesh fits (`MeshFits`). Where a side of a closed ring ends just one starts
  (`RingInOrder`), so each new triangle finds its two mates (`MatesMeet`), the old
  triangles outside find the new one across the ring (`AcrossTheRing`, `OnTheRing`),
  and no edge is shared by three (`FanFits`).
- The area stays (`AreaInv`). A triangle is what its three sides make with any point
  (`AreaSplits`), inner sides cancel out, and what the ring makes with the new point is
  the fan (`CavityArea`, `FanArea`).

Both sums are over sets of unknown size, and `MapThenSumSet` of the community
modules is recursive. `Total` is the same recursion as a function; its laws (any
element may be taken out first, disjoint sets, images, pairs that cancel) are proved
by induction over subsets, which is first-order: of the subsets for which a law fails
one would have the least cardinality (`SubsetInduction`, `Least`). `SumIsTotal` shows
that the two agree.

What is proved about the coordinates themselves is arithmetic. `TurnsOneWay`: `Joined`
turns a triangle round where it has to, finalize drops the flat ones, and a flip asks
for two counterclockwise triangles. `SuperHoldsThePoints`: the sizes in `Super` are
large enough for every scale, with the rounding of the division counted.
`DedupKeepsEach` is about the points kept.

**Ends.** Of the four liveness properties the part without fairness is proved: a
natural number, or a lexicographic tuple of them, that every step of the program
lowers and no step of its surroundings raises. `CommandsLeft` counts what is left of
the script, with a pass of the signing loop for each image still pending, so that a
run can only end or wait at a command; `PollsLeft`
the polls; `DriverLeft`, `GuestLeft` and the length of the console what driver and
guest have still to do once the deadline has passed; and five numbers the
triangulation: its stage, the points to insert, the step of the insertion, what is left
of the walk's, the flood's or the flips' budget, and what waits to be looked at. What
TLC adds is that fairness turns this into an end: that the step it is about is enabled
until then.

Only model-checked, and why:

- Liveness itself (`HalfwayEnds`, `WaitEnds`, `EveryInputEnds`, `DriverEnds`):
  fairness and ENABLED are beyond the prover.
- `AlwaysDelaunay`, `FloodFindsAll`, `EdgesAreDelaunay`, and of `MeshIsWhole` that the
  rim of a cavity is `StarShaped`: these are facts about circles, that is polynomials of
  degree four in the coordinates with a tolerance relative to their size, which the
  solver does not decide, and they need the lemma that Delaunay locally is Delaunay
  everywhere, whose proof walks through the mesh along a line.
- `WorklistEmpties`: that the cap is never reached needs a measure which every
  flip lowers, also through ties, and a bound on the number of its values; no such
  bound is known to hold for the cap the code chose. `FinishedIsSettled` is what
  holds without it.

## 5. What is not modelled

- *FIDO2-only signing*: planned, below.
- *Homed, GPG, TOTP, largeBlob enrollment; UKI installation; CHIPSEC; VFIO*:
  straight-line or single commands whose state nothing else here reads.
- *The centroid walk around its triangulation, the other programs of
  `tools/spectral-standard`, `papers/scripts` and the other analysis tools, the
  embedding pipeline*: nearly all of the Python in the repository. These are
  single-threaded programs that read a file, fit, transform or render in
  floating point and write a report. They have no state between two runs, no
  second actor and no protocol; what could be wrong in them is a number, about
  which neither TLC nor the provers decide anything. Modelling them would mean
  replacing each formula by an arbitrary value, and whatever then held would
  hold of any code.
- *Image build, CI*: descriptions for other programs to run.
- Account, password and session stacks of PAM.

## 6. Plan

In this order:

1. The ends of the centroid walk around the triangulation: which points are
   kept, which index a node gets, with the duplicates that line 832 mishandles.
2. `SigningKey`: the FIDO2-only path, the plaintext key's life and the
   unverified move of the signed UKI.
3. A second instance of `enroll-sb.sh` sharing `KEYDIR`, and a disk that loses
   what was not synced, as variants of SecureBoot.
4. Backup enrollment's own promises: both keys unlock the system.
5. The scripts of the CI that retry and wait.
