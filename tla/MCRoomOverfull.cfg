SPECIFICATION Spec
CONSTANTS
    Session = {s1, s2}
    Id = {i1, i2}
    Player = {p1, p2}
    NoSession = NoSession
    NoPlayer = NoPlayer
    NoId = NoId
    MaxAvatars = 1
    MaxPlayers = 1
    MaxPlays = 2
    MaxStrand = 1
    Commands = {"play"}
    TakeOver = FALSE
    Annihilation = FALSE

INVARIANT RoomNeverOverfull
