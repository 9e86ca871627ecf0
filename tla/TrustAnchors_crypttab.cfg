\* Every volume enrolled is configured, the second of them too.
SPECIFICATION ASpec
CONSTANTS
    k1 = k1
    k2 = k2
    alice = alice
    bob = bob
    yubiOS = yubiOS
    other = other
    Password = Password
    NoUser = NoUser
    Keys <- MCKeys
    Vols <- TwoVolumes
    Disk <- OwnDisks
    Users <- OneUser
    Hosts <- OneHost
    StackHost = yubiOS
    MaxLines = 0
PROPERTIES
    EnrolledVolumeConfigured
