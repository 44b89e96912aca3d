------------------------------ MODULE Gridmap ------------------------------
(***************************************************************************)
(* Gridmap.cpp: the map of a room is cut into square sectors, and a cell   *)
(* is listed in the sectors its bounding box touches.  The operators here  *)
(* are pure; View keeps the sectors of each cell as state.                 *)
(*                                                                         *)
(* Coordinates are whole numbers, Unit of which are the 1.0 of the code,   *)
(* so that positions between two whole ones exist: the last point of the   *)
(* map is Width - Unit, and the box of a sector ends Unit before the next. *)
(***************************************************************************)
EXTENDS Integers

CONSTANTS Width, Height,   \* m_width and m_height
          SectorSize,      \* 1 << m_power
          Unit             \* 1.0

ASSUME GridAssumption ==
  /\ SectorSize \in Nat \ {0}
  /\ Unit \in Nat \ {0}
  /\ Width \in Nat /\ Width > Unit
  /\ Height \in Nat /\ Height > Unit

(* Of sectors and of the map the sizes are whole ones in the code. *)
ASSUME WholeAssumption ==
  /\ SectorSize % Unit = 0
  /\ Width % Unit = 0 /\ Height % Unit = 0

Point == [x : Int, y : Int]
Box == [a : Point, b : Point]

(* A sector is named by its row and column; m_sectors is the array of all. *)
Rows == 0 .. (Height - 1) \div SectorSize
Columns == 0 .. (Width - 1) \div SectorSize
Sector == [row : Rows, col : Columns]
NoSector == [row |-> -1, col |-> -1]

MapBox == [a |-> [x |-> 0, y |-> 0], b |-> [x |-> Width - Unit, y |-> Height - Unit]]

SectorBox(s) ==
  LET a == [x |-> s.col * SectorSize, y |-> s.row * SectorSize]
  IN  [a |-> a, b |-> [x |-> a.x + SectorSize - Unit, y |-> a.y + SectorSize - Unit]]

Contains(box, p) ==
  /\ box.a.x <= p.x /\ p.x <= box.b.x
  /\ box.a.y <= p.y /\ p.y <= box.b.y

Around(p, r) == [a |-> [x |-> p.x - r, y |-> p.y - r], b |-> [x |-> p.x + r, y |-> p.y + r]]

(* The test of a circle against a box compares each axis by itself, also at *)
(* a corner: it is the test of the bounding box of the circle.              *)
CircleMeets(box, p, r) ==
  /\ box.a.x - p.x <= r /\ p.x - box.b.x <= r
  /\ box.a.y - p.y <= r /\ p.y - box.b.y <= r

Larger(i, j) == IF i > j THEN i ELSE j
Smaller(i, j) == IF i < j THEN i ELSE j

Clip(box) ==
  [a |-> [x |-> Larger(box.a.x, MapBox.a.x), y |-> Larger(box.a.y, MapBox.a.y)],
   b |-> [x |-> Smaller(box.b.x, MapBox.b.x), y |-> Smaller(box.b.y, MapBox.b.y)]]

IsEmpty(box) == box.a.x > box.b.x \/ box.a.y > box.b.y

SectorAt(p) == [row |-> p.y \div SectorSize, col |-> p.x \div SectorSize]

(* getSector() returns a null pointer outside of the map. *)
GetSector(p) == IF Contains(MapBox, p) THEN SectorAt(p) ELSE NoSector

(* The double loop over rows and columns of a clipped box. *)
SectorsOf(box) ==
  LET first == SectorAt(box.a)
      final == SectorAt(box.b)
  IN  [row : first.row .. final.row, col : first.col .. final.col]

GetSectors(box) == SectorsOf(Clip(box))

(* What insert() and update() list a cell in.  The box they test is one unit *)
(* larger than that of the sector.                                           *)
SectorsUnder(p, r) ==
  {s \in GetSectors(Around(p, r)) :
     LET a == SectorBox(s).a
     IN  CircleMeets([a |-> a, b |-> [x |-> a.x + SectorSize, y |-> a.y + SectorSize]], p, r)}
=============================================================================
