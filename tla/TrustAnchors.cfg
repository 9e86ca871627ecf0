\* Two YubiKeys, two volumes on two disks, two users,
\* two host names, two authfile lines.
SPECIFICATION ASpec
CONSTANTS
    k1 = k1
    k2 = k2
    alice = alice
    bob = bob
    yubiOS = yubiOS
    other = other
    Password = Password
    NoUser = NoUser
    Keys <- MCKeys
    Vols <- TwoVolumes
    Disk <- OwnDisks
    Users <- TwoUsers
    Hosts <- TwoHosts
    StackHost = yubiOS
    MaxLines = 2
SYMMETRY Symmetry
INVARIANTS
    ATypeOK
    ConfiguredMeansEnrolled
    WipedVolumeBoots
    TouchAlwaysNeeded
PROPERTIES
    EnrollingKeepsSudo
