------------------------------- MODULE MCRoom -------------------------------
EXTENDS Room, TLC

Symmetric == Permutations(Session) \cup Permutations(Id) \cup Permutations(Player)
=============================================================================
