\* A key just enrolled opens sudo.
SPECIFICATION ASpec
CONSTANTS
    k1 = k1
    k2 = k2
    alice = alice
    bob = bob
    yubiOS = yubiOS
    other = other
    Password = Password
    NoUser = NoUser
    Keys <- MCKeys
    Vols <- OneVolume
    Disk <- OneDisk
    Users <- OneUser
    Hosts <- TwoHosts
    StackHost = yubiOS
    MaxLines = 1
PROPERTIES
    EnrolledKeyOpensSudo
