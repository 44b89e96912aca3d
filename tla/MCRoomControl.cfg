SPECIFICATION Spec
CONSTANTS
    Session = {s1, s2}
    Id = {i1}
    Player = {p1}
    NoSession = NoSession
    NoPlayer = NoPlayer
    NoId = NoId
    MaxAvatars = 1
    MaxPlayers = 2
    MaxPlays = 2
    MaxStrand = 1
    Commands = {"play"}
    TakeOver = TRUE
    Annihilation = FALSE

INVARIANT MainSessionControls
