------------------------------- MODULE MCView -------------------------------
(***************************************************************************)
(* Small maps for View: two sectors a side on the square one.  A position  *)
(* outside of the map is one that update() resolves, and At(7, 7) is in    *)
(* the last unit of its sector, next to the three others.                  *)
(***************************************************************************)
EXTENDS View, TLC

At(x, y) == [x |-> x, y |-> y]
SquareSpots == {At(4, 4), At(7, 7), At(20, 9)}
AnySession == Permutations(Session)
FlatSpots == {At(4, 4), At(12, 5), At(4, 7)}
=============================================================================
