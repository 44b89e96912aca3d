SPECIFICATION Spec
CONSTANTS
    Session = {s1, s2}
    Id = {i1, i2}
    Player = {p1, p2}
    NoSession = NoSession
    NoPlayer = NoPlayer
    NoId = NoId
    MaxAvatars = 2
    MaxPlayers = 2
    MaxPlays = 3
    MaxStrand = 1
    Commands = {"play", "spectate", "split"}
    TakeOver = FALSE
    Annihilation = FALSE
SYMMETRY Symmetric
INVARIANTS
    TypeOK
    LinksAreConsistent
    OwnPlayerOnly
    AliveHasAvatars
    AvatarLimit
    BoardFollowsLife
    
    FreeSpaceIsSafe
