SPECIFICATION Spec
CONSTANTS
    k1 = k1
    k2 = k2
    k3 = k3
    u1 = u1
    u2 = u2
    ch1 = ch1
    ch2 = ch2
    NoClient = NoClient
    NoUser = NoUser
    Clients <- MCClients
    Users <- MCUsers
    Channels <- MCChannels
SYMMETRY MCSymmetry
INVARIANT
    ReachableWhileConnected
