----------------------------- MODULE ViewProofs -----------------------------
(***************************************************************************)
(* For any map, any cells, positions and sizes and any number of sessions: *)
(* no ghost stays on the screen of the session that joined last; and on    *)
(* maps that are at least as high as wide, the grid map never fails, every *)
(* query finds what it should, and frames are exact.                       *)
(*                                                                         *)
(* The facts about the sectors of Gridmap that this needs come first.      *)
(***************************************************************************)
EXTENDS View, TLAPS

-----------------------------------------------------------------------------
\* The sectors of the grid map, for maps and sectors of every size.

\* The division of whole numbers by a positive one.
LEMMA DivBounds ==
  ASSUME NEW a \in Int, NEW n \in Nat \ {0}
  PROVE  /\ a \div n \in Int
         /\ n * (a \div n) <= a
         /\ a < n * (a \div n) + n
BY SMT

\* It is monotone.
LEMMA DivMonotone ==
  ASSUME NEW a \in Int, NEW b \in Int, NEW n \in Nat \ {0}, a <= b
  PROVE  a \div n <= b \div n
<1> DEFINE i == a \div n
           j == b \div n
<1>1. i \in Int /\ n * i <= a
  BY DivBounds
<1>2. j \in Int /\ b < n * j + n
  BY DivBounds
<1> HIDE DEF i, j
<1>3. n * i < n * (j + 1)
  BY <1>1, <1>2
<1>4. i < j + 1
  BY <1>1, <1>2, <1>3
<1> QED
  BY <1>1, <1>2, <1>4 DEF i, j

\* Adding what one sector is long leads to the next.
LEMMA DivOf ==
  ASSUME NEW a \in Int, NEW i \in Int, NEW n \in Nat \ {0}
  PROVE  /\ i <= a \div n => n * i <= a
         /\ a \div n <= i => a < n * i + n
<1> DEFINE j == a \div n
<1>1. j \in Int /\ n * j <= a /\ a < n * j + n
  BY DivBounds
<1> HIDE DEF j
<1>2. i <= j => n * i <= n * j
  BY <1>1
<1>3. j <= i => n * j <= n * i
  BY <1>1
<1> QED
  BY <1>1, <1>2, <1>3 DEF j

-----------------------------------------------------------------------------

\* A box lies on the map.
OnMap(box) == Contains(MapBox, box.a) /\ Contains(MapBox, box.b)

\* Every point of the map is in a sector of the map.
LEMMA SectorOfPoint ==
  ASSUME GridAssumption, NEW p \in Point, Contains(MapBox, p)
  PROVE  SectorAt(p) \in Sector /\ GetSector(p) = SectorAt(p)
<1>1. /\ p.x \in Int /\ 0 <= p.x /\ p.x <= Width - 1
      /\ p.y \in Int /\ 0 <= p.y /\ p.y <= Height - 1
  BY DEF GridAssumption, Point, Contains, MapBox
<1>2. SectorSize \in Nat \ {0} /\ Width - 1 \in Int /\ Height - 1 \in Int
  BY DEF GridAssumption
<1>3. p.x \div SectorSize <= (Width - 1) \div SectorSize
  BY <1>1, <1>2, DivMonotone
<1>4. p.y \div SectorSize <= (Height - 1) \div SectorSize
  BY <1>1, <1>2, DivMonotone
<1>5. 0 \div SectorSize = 0
  BY <1>2, SMT
<1>6. 0 <= p.x \div SectorSize /\ 0 <= p.y \div SectorSize
  <2>1. 0 \div SectorSize <= p.x \div SectorSize
    BY <1>1, <1>2, DivMonotone
  <2>2. 0 \div SectorSize <= p.y \div SectorSize
    BY <1>1, <1>2, DivMonotone
  <2> QED
    BY <1>5, <2>1, <2>2
<1>7. /\ p.x \div SectorSize \in Int /\ p.y \div SectorSize \in Int
      /\ (Width - 1) \div SectorSize \in Int /\ (Height - 1) \div SectorSize \in Int
  BY <1>1, <1>2, DivBounds
<1>8. p.x \div SectorSize \in Columns /\ p.y \div SectorSize \in Rows
  BY <1>3, <1>4, <1>6, <1>7 DEF Columns, Rows
<1> QED
  BY <1>8 DEF SectorAt, Sector, GetSector

\* A point is in one sector.
LEMMA PointInOneSector ==
  ASSUME GridAssumption, NEW p \in Point, Contains(MapBox, p)
  PROVE  SectorsOf([a |-> p, b |-> p]) = {SectorAt(p)}
<1>1. SectorAt(p).row \in Int /\ SectorAt(p).col \in Int
  BY SectorOfPoint DEF Sector, Rows, Columns
<1>2. /\ SectorAt(p).row .. SectorAt(p).row = {SectorAt(p).row}
      /\ SectorAt(p).col .. SectorAt(p).col = {SectorAt(p).col}
  BY <1>1
<1>3. SectorsOf([a |-> p, b |-> p]) = [row : {SectorAt(p).row}, col : {SectorAt(p).col}]
  BY <1>2 DEF SectorsOf
<1>4. \A i, j : [row : {i}, col : {j}] = {[row |-> i, col |-> j]}
  <2> SUFFICES ASSUME NEW i, NEW j, NEW s
               PROVE  s \in [row : {i}, col : {j}] <=> s = [row |-> i, col |-> j]
    OBVIOUS
  <2> QED
    OBVIOUS
<1>5. SectorAt(p) = [row |-> SectorAt(p).row, col |-> SectorAt(p).col]
  BY DEF SectorAt
<1> QED
  BY <1>3, <1>4, <1>5

\* clip() leaves a box on the map, or an empty one.
LEMMA ClipIsOnMap ==
  ASSUME GridAssumption, NEW box \in Box
  PROVE  Clip(box) \in Box /\ (~IsEmpty(Clip(box)) => OnMap(Clip(box)))
<1> DEFINE c == Clip(box)
<1>1. /\ box.a.x \in Int /\ box.a.y \in Int /\ box.b.x \in Int /\ box.b.y \in Int
      /\ Width - Unit \in Int /\ Height - Unit \in Int
  BY DEF GridAssumption, Box, Point
<1>2. /\ c.a.x = Larger(box.a.x, 0) /\ c.a.y = Larger(box.a.y, 0)
      /\ c.b.x = Smaller(box.b.x, Width - Unit) /\ c.b.y = Smaller(box.b.y, Height - Unit)
  BY DEF Clip, MapBox
<1>3. /\ c.a.x \in Int /\ 0 <= c.a.x /\ c.a.y \in Int /\ 0 <= c.a.y
      /\ c.b.x \in Int /\ c.b.x <= Width - Unit /\ c.b.y \in Int /\ c.b.y <= Height - Unit
  BY <1>1, <1>2 DEF Larger, Smaller
<1>4. c \in Box
  BY <1>2, <1>3 DEF Clip, Box, Point
<1> HIDE DEF c
<1>5. ~IsEmpty(c) => OnMap(c)
  BY <1>1, <1>3 DEF IsEmpty, OnMap, Contains, MapBox
<1> QED
  BY <1>4, <1>5 DEF c

\* A box around a point of the map is not empty when it is clipped.
LEMMA AroundIsOnMap ==
  ASSUME GridAssumption, NEW p \in Point, NEW r \in Nat, Contains(MapBox, p)
  PROVE  /\ Around(p, r) \in Box
         /\ ~IsEmpty(Clip(Around(p, r)))
         /\ OnMap(Clip(Around(p, r)))
<1>1. Around(p, r) \in Box
  BY DEF Around, Box, Point
<1>2. ~IsEmpty(Clip(Around(p, r)))
  BY DEF GridAssumption, Point, Contains, MapBox, Around, Clip, Larger, Smaller, IsEmpty
<1> QED
  BY <1>1, <1>2, ClipIsOnMap

\* The double loop of getSectors() stays within the array of sectors.
LEMMA SectorsOnMap ==
  ASSUME GridAssumption, NEW box \in Box, OnMap(box)
  PROVE  SectorsOf(box) \subseteq Sector
<1>1. box.a \in Point /\ box.b \in Point
  BY DEF Box
<1>2. SectorAt(box.a) \in Sector /\ SectorAt(box.b) \in Sector
  BY <1>1, SectorOfPoint DEF OnMap
<1>3. /\ (Height - 1) \div SectorSize \in Int
      /\ (Width - 1) \div SectorSize \in Int
  <2>1. SectorSize \in Nat \ {0} /\ Width - 1 \in Int /\ Height - 1 \in Int
    BY DEF GridAssumption
  <2> QED
    BY <2>1, DivBounds
<1> QED
  BY <1>2, <1>3 DEF SectorsOf, Sector, Rows, Columns

\* The circle test of insert() and update() never rejects a sector: a cell is
\* listed in all the sectors under its box, which its corners determine.
LEMMA FilterKeepsAll ==
  ASSUME GridAssumption, NEW p \in Point, NEW r \in Nat
  PROVE  SectorsUnder(p, r) = GetSectors(Around(p, r))
<1> DEFINE box == Clip(Around(p, r))
<1>1. /\ box.a.x \in Int /\ box.a.y \in Int /\ box.b.x \in Int /\ box.b.y \in Int
      /\ p.x - r <= box.a.x /\ p.y - r <= box.a.y
      /\ box.b.x <= p.x + r /\ box.b.y <= p.y + r
  BY DEF GridAssumption, Point, Around, Clip, MapBox, Larger, Smaller
<1> HIDE DEF box
<1>2. SectorSize \in Nat \ {0}
  BY DEF GridAssumption
<1>3. ASSUME NEW s \in SectorsOf(box)
      PROVE  LET a == SectorBox(s).a
             IN  CircleMeets([a |-> a, b |-> [x |-> a.x + SectorSize, y |-> a.y + SectorSize]], p, r)
  <2> DEFINE left == box.a.x \div SectorSize
             right == box.b.x \div SectorSize
             top == box.a.y \div SectorSize
             bottom == box.b.y \div SectorSize
  <2>1. left \in Int /\ right \in Int /\ top \in Int /\ bottom \in Int
    BY <1>1, <1>2, DivBounds
  <2>2. s.row \in top .. bottom /\ s.col \in left .. right
    BY <1>3 DEF SectorsOf, SectorAt
  <2>3. s.row \in Int /\ s.col \in Int
    BY <2>1, <2>2
  <2>4. /\ SectorSize * s.col <= box.b.x
        /\ box.a.x < SectorSize * s.col + SectorSize
    <3>1. s.col <= box.b.x \div SectorSize
      BY <2>1, <2>2
    <3>2. box.a.x \div SectorSize <= s.col
      BY <2>1, <2>2
    <3> HIDE DEF left, right
    <3>3. SectorSize * s.col <= box.b.x
      BY <1>1, <1>2, <2>3, <3>1, DivOf
    <3>4. box.a.x < SectorSize * s.col + SectorSize
      BY <1>1, <1>2, <2>3, <3>2, DivOf
    <3> QED
      BY <3>3, <3>4
  <2>5. /\ SectorSize * s.row <= box.b.y
        /\ box.a.y < SectorSize * s.row + SectorSize
    <3>1. s.row <= box.b.y \div SectorSize
      BY <2>1, <2>2
    <3>2. box.a.y \div SectorSize <= s.row
      BY <2>1, <2>2
    <3> HIDE DEF top, bottom
    <3>3. SectorSize * s.row <= box.b.y
      BY <1>1, <1>2, <2>3, <3>1, DivOf
    <3>4. box.a.y < SectorSize * s.row + SectorSize
      BY <1>1, <1>2, <2>3, <3>2, DivOf
    <3> QED
      BY <3>3, <3>4
  <2>6. /\ s.col * SectorSize = SectorSize * s.col
        /\ s.row * SectorSize = SectorSize * s.row
        /\ SectorSize * s.col \in Int /\ SectorSize * s.row \in Int
    BY <1>2, <2>3
  <2>7. p.x \in Int /\ p.y \in Int
    BY DEF Point
  <2> HIDE DEF left, right, top, bottom
  <2> DEFINE X == s.col * SectorSize
             Y == s.row * SectorSize
  <2>8. /\ X \in Int /\ Y \in Int
        /\ X - p.x <= r /\ p.x - (X + SectorSize) <= r
        /\ Y - p.y <= r /\ p.y - (Y + SectorSize) <= r
    BY <1>1, <1>2, <2>4, <2>5, <2>6, <2>7
  <2> QED
    BY <2>8 DEF SectorBox, CircleMeets
<1> QED
  BY <1>3 DEF SectorsUnder, GetSectors, box

\* Two boxes on the map that overlap have a sector in common.
LEMMA OverlapSharesSector ==
  ASSUME GridAssumption, NEW A \in Box, NEW B \in Box,
         A.a.x <= A.b.x, A.a.y <= A.b.y, B.a.x <= B.b.x, B.a.y <= B.b.y,
         A.a.x <= B.b.x, B.a.x <= A.b.x, A.a.y <= B.b.y, B.a.y <= A.b.y
  PROVE  SectorsOf(A) \cap SectorsOf(B) # {}
<1>1. SectorSize \in Nat \ {0}
  BY DEF GridAssumption
<1>2. \A i, j \in Int : i <= j => /\ i \div SectorSize \in Int
                                 /\ j \div SectorSize \in Int
                                 /\ i \div SectorSize <= j \div SectorSize
  BY <1>1, DivMonotone, DivBounds
<1>3. /\ A.a.x \in Int /\ A.a.y \in Int /\ A.b.x \in Int /\ A.b.y \in Int
      /\ B.a.x \in Int /\ B.a.y \in Int /\ B.b.x \in Int /\ B.b.y \in Int
  BY DEF Box, Point
<1>4. PICK i : /\ i \in SectorAt(A.a).col .. SectorAt(A.b).col
               /\ i \in SectorAt(B.a).col .. SectorAt(B.b).col
  <2> DEFINE la == A.a.x \div SectorSize
             ra == A.b.x \div SectorSize
             lb == B.a.x \div SectorSize
             rb == B.b.x \div SectorSize
  <2>1. /\ la \in Int /\ ra \in Int /\ lb \in Int /\ rb \in Int
        /\ la <= ra /\ lb <= rb /\ la <= rb /\ lb <= ra
    BY <1>2, <1>3
  <2> HIDE DEF la, ra, lb, rb
  <2>2. \E i : i \in la .. ra /\ i \in lb .. rb
    <3>1. CASE la <= lb
      BY <2>1, <3>1
    <3>2. CASE lb <= la
      BY <2>1, <3>2
    <3> QED
      BY <2>1, <3>1, <3>2
  <2> QED
    BY <2>2 DEF la, ra, lb, rb, SectorAt
<1>5. PICK i2 : /\ i2 \in SectorAt(A.a).row .. SectorAt(A.b).row
                /\ i2 \in SectorAt(B.a).row .. SectorAt(B.b).row
  <2> DEFINE la == A.a.y \div SectorSize
             ra == A.b.y \div SectorSize
             lb == B.a.y \div SectorSize
             rb == B.b.y \div SectorSize
  <2>1. /\ la \in Int /\ ra \in Int /\ lb \in Int /\ rb \in Int
        /\ la <= ra /\ lb <= rb /\ la <= rb /\ lb <= ra
    BY <1>2, <1>3
  <2> HIDE DEF la, ra, lb, rb
  <2>2. \E j : j \in la .. ra /\ j \in lb .. rb
    <3>1. CASE la <= lb
      BY <2>1, <3>1
    <3>2. CASE lb <= la
      BY <2>1, <3>2
    <3> QED
      BY <2>1, <3>1, <3>2
  <2> QED
    BY <2>2 DEF la, ra, lb, rb, SectorAt
<1>6. [row |-> i2, col |-> i] \in SectorsOf(A) \cap SectorsOf(B)
  BY <1>4, <1>5 DEF SectorsOf
<1> QED
  BY <1>6

-----------------------------------------------------------------------------
\* Types and ghosts.

Places == [sectors : SUBSET (Sector \cup {NoSector}),
           corners : (Sector \cup {NoSector}) \X (Sector \cup {NoSector})]

\* Whatever a box is, a lookup gives a sector of the map or none.
LEMMA LookupType ==
  ASSUME GridAssumption, NEW p \in Point
  PROVE  /\ GetSector(p) \in Sector \cup {NoSector}
         /\ GetSector(p) # NoSector => GetSector(p) \in Sector /\ Contains(MapBox, p)
BY SectorOfPoint DEF GetSector

\* A null sector is none of the map.
LEMMA NoSectorIsNone == NoSector \notin Sector
BY DEF NoSector, Sector, Rows

\* The sectors under a cell are sectors of the map, and its corners are the
\* first and the last of them.
LEMMA PlaceOnMap ==
  ASSUME GridAssumption, NEW p \in Point, NEW r \in Nat, ~IsEmpty(Clip(Around(p, r)))
  PROVE  SectorsUnder(p, r) \subseteq Sector
<1>1. Around(p, r) \in Box
  BY DEF Around, Box, Point
<1>2. Clip(Around(p, r)) \in Box /\ OnMap(Clip(Around(p, r)))
  BY <1>1, ClipIsOnMap
<1> QED
  BY <1>2, SectorsOnMap, FilterKeepsAll DEF GetSectors

\* A resolved position is a point.
LEMMA ResolvedType ==
  ASSUME GridAssumption, NEW p \in Point, NEW r \in Nat
  PROVE  Resolved(p, r) \in Point
BY DEF GridAssumption, Resolved, ResolvedOn, Point

\* Where a cell is listed before update()
LEMMA PlaceType ==
  ASSUME TypeOK, NEW c \in Cell
  PROVE  Place(c) \in Places /\ radius[c] \in Nat
BY DEF TypeOK, Place, Places

\* insert() of the grid map
LEMMA InsertedType ==
  ASSUME GridAssumption, TypeOK, NEW c \in Cell, NEW p \in Point
  PROVE  Inserted(c, p) \in Places
<1>1. Place(c) \in Places /\ radius[c] \in Nat
  BY PlaceType
<1>2. [Place(c) EXCEPT !.sectors = {GetSector(p)}] \in Places
  BY <1>1, LookupType DEF Places
<1>3. CornersAt(c, p) \in (Sector \cup {NoSector}) \X (Sector \cup {NoSector})
  <2>1. Around(p, radius[c]) \in Box
    BY <1>1 DEF Around, Box, Point
  <2>2. Clip(Around(p, radius[c])).a \in Point /\ Clip(Around(p, radius[c])).b \in Point
    BY <2>1, ClipIsOnMap DEF Box
  <2> QED
    BY <2>2, LookupType DEF CornersAt
<1>4. ~IsEmpty(Clip(Around(p, radius[c]))) =>
        [sectors |-> SectorsUnder(p, radius[c]), corners |-> CornersAt(c, p)] \in Places
  BY <1>1, <1>3, PlaceOnMap DEF Places
<1> QED
  BY <1>1, <1>2, <1>4 DEF Inserted

\* update() of the grid map
LEMMA ShiftedType ==
  ASSUME GridAssumption, TypeOK, NEW c \in Cell, NEW p \in Point, NEW place \in Places
  PROVE  Shifted(c, place, p) \in Places
<1>1. radius[c] \in Nat
  BY DEF TypeOK
<1>2. [place EXCEPT !.sectors = {GetSector(p)}] \in Places
  BY <1>1, LookupType DEF Places
<1>3. CornersAt(c, p) \in (Sector \cup {NoSector}) \X (Sector \cup {NoSector})
  <2>1. Around(p, radius[c]) \in Box
    BY <1>1 DEF Around, Box, Point
  <2>2. Clip(Around(p, radius[c])).a \in Point /\ Clip(Around(p, radius[c])).b \in Point
    BY <2>1, ClipIsOnMap DEF Box
  <2> QED
    BY <2>2, LookupType DEF CornersAt
<1>4. ~IsEmpty(Clip(Around(p, radius[c]))) =>
        [sectors |-> SectorsUnder(p, radius[c]), corners |-> CornersAt(c, p)] \in Places
  BY <1>1, <1>3, PlaceOnMap DEF Places
<1> QED
  BY <1>1, <1>2, <1>4 DEF Shifted

-----------------------------------------------------------------------------
\* A view that follows the avatar.
LEMMA FollowedType ==
  ASSUME NEW v \in Views, NEW port \in Box, NEW scale \in 0 .. 2, NEW p \in Point
  PROVE  [v EXCEPT !.viewport = port, !.scale = scale, !.position = p] \in Views
BY DEF Views

\* calcParams() moves the viewport of the player and nothing else of its view.
LEMMA CalcParamsType ==
  ASSUME GridAssumption, ViewAssumption, TypeOK, pos[Me] \in Point
  PROVE  /\ CalcParams \in Views
         /\ CalcParams.visible = view.visible
         /\ CalcParams.sectors = view.sectors
<1> DEFINE V == CalcParams
           Moved(q) == [x |-> q.x + pos[Me].x - view.position.x, y |-> q.y + pos[Me].y - view.position.y]
           scale == ScaleFor(radius[Me])
           port == IF scale # view.scale THEN Around(pos[Me], Half * scale)
                   ELSE [a |-> Moved(view.viewport.a), b |-> Moved(view.viewport.b)]
<1>1. view \in Views
  BY DEF TypeOK
<1>2. scale \in {1, 2} /\ Half * scale \in Nat
  <2>1. scale \in {1, 2}
    BY DEF ScaleFor
  <2> QED
    BY <2>1 DEF ViewAssumption
<1>3. port \in Box
  <2>1. Around(pos[Me], Half * scale) \in Box
    BY <1>2 DEF Around, Box, Point
  <2>2. \A q \in Point : Moved(q) \in Point
    BY <1>1 DEF Views, Point
  <2>3. view.viewport.a \in Point /\ view.viewport.b \in Point
    BY <1>1 DEF Views, Box
  <2> HIDE DEF Moved
  <2>4. [a |-> Moved(view.viewport.a), b |-> Moved(view.viewport.b)] \in Box
    BY <2>2, <2>3 DEF Box
  <2> QED
    BY <2>1, <2>4
<1>4. V = [view EXCEPT !.viewport = port, !.scale = scale, !.position = pos[Me]]
  BY DEF CalcParams
<1> HIDE DEF V, port, scale, Moved
<1>5. scale \in 0 .. 2
  BY <1>2
<1>6. V \in Views
  BY <1>1, <1>3, <1>4, <1>5, FollowedType
<1>7. V.visible = view.visible /\ V.sectors = view.sectors
  BY <1>1, <1>4 DEF Views
<1> QED
  BY <1>6, <1>7 DEF V

\* The corner sectors of the viewport change the corners and the box of the view.
LEMMA FocusedType ==
  ASSUME GridAssumption, NEW v \in Views,
         GetSector(Clip(v.viewport).a) # NoSector,
         GetSector(Clip(v.viewport).b) # NoSector
  PROVE  /\ Focused(v) \in Views
         /\ Focused(v).visible = v.visible
         /\ Focused(v).sectors = v.sectors
         /\ Focused(v).viewport = v.viewport
         /\ Focused(v).position = v.position
         /\ Focused(v).scale = v.scale
         /\ OnMap(Clip(v.viewport))
<1> DEFINE port == Clip(v.viewport)
           first == GetSector(port.a)
           last == GetSector(port.b)
<1>1. port \in Box
  BY ClipIsOnMap DEF Views
<1>2. /\ first \in Sector /\ last \in Sector
      /\ Contains(MapBox, port.a) /\ Contains(MapBox, port.b)
  BY <1>1, LookupType DEF Box
<1>3. SectorBox(first).a \in Point /\ SectorBox(last).b \in Point
  <2>1. \A n \in Int : n * SectorSize \in Int
    BY DEF GridAssumption
  <2>2. /\ first.row \in Int /\ first.col \in Int
        /\ last.row \in Int /\ last.col \in Int
    BY <1>2 DEF Sector, Rows, Columns
  <2> HIDE DEF first, last
  <2>3. /\ first.row * SectorSize \in Int /\ first.col * SectorSize \in Int
        /\ last.row * SectorSize \in Int /\ last.col * SectorSize \in Int
    BY <2>1, <2>2
  <2>4. SectorSize \in Int /\ Unit \in Int
    BY DEF GridAssumption
  <2> QED
    BY <2>3, <2>4 DEF SectorBox, Point
<1> DEFINE box == [a |-> SectorBox(first).a, b |-> SectorBox(last).b]
<1>4. box \in Box
  BY <1>3 DEF Box
<1>5. Focused(v) = IF v.leftTop = first /\ v.rightBottom = last THEN v
                   ELSE [v EXCEPT !.leftTop = first, !.rightBottom = last, !.viewbox = box]
  BY DEF Focused
<1> HIDE DEF first, last, box
<1>6. Focused(v) \in Views
  BY <1>2, <1>4, <1>5 DEF Views
<1> QED
  BY <1>2, <1>5, <1>6 DEF Views, OnMap, port

-----------------------------------------------------------------------------
\* The avatar of the player lives, and only cells that live are on the grid.
ListedAreLive ==
  /\ Me \in Live
  /\ \A c \in Cell : sectors[c] # {} => c \in Live

\* Who does not watch the player shows nothing.
StrangersSeeNothing == \A s \in Session \ viewers : shown[s] = NoCell

\* m_visibleIds knows all that the session shows that joined last.
ShownAreKnown ==
  latest \in viewers =>
    \A c \in Cell : shown[latest][c] # Nowhere =>
      c \in view.visible /\ c \in Live \cup dead

IInv == TypeOK /\ ListedAreLive /\ StrangersSeeNothing /\ ShownAreKnown

\* An empty room satisfies the invariant.
LEMMA InitIInv ==
  ASSUME GridAssumption, ViewAssumption, Init
  PROVE  IInv
<1>1. PICK p \in Spots, r \in Radii :
        /\ pos = [NoCell EXCEPT ![Me] = p]
        /\ radius = [c \in Cell |-> IF c = Me THEN r ELSE 0]
  BY DEF Init
<1>2. p \in Point /\ p # Nowhere /\ r \in Nat /\ Me \in Cell
  BY <1>1 DEF ViewAssumption
<1>3. Live = {Me} /\ pos \in [Cell -> Point \cup {Nowhere}] /\ radius \in [Cell -> Nat]
  BY <1>1, <1>2 DEF Live, NoCell
<1>4. view \in Views
  <2>1. Origin \in Point /\ Around(Origin, 0) \in Box
    BY DEF Origin, Around, Box, Point
  <2> QED
    BY <2>1 DEF Init, NewView, Views
<1>5. NoCell \in [Cell -> (Point \X Nat) \cup {Nowhere}]
  BY DEF NoCell
<1>6. TypeOK
  BY <1>2, <1>3, <1>4, <1>5 DEF Init, TypeOK
<1> QED
  BY <1>3, <1>6 DEF Init, IInv, ListedAreLive, StrangersSeeNothing, ShownAreKnown

\* A cell is created: on no sector yet, with an id that is not in use.
LEMMA CreateKeepsIInv ==
  ASSUME GridAssumption, ViewAssumption, IInv, NEW c \in Cell, Create(c)
  PROVE  IInv'
<1>1. PICK p \in Spots, f \in BOOLEAN, r \in Radii :
        /\ pos' = [pos EXCEPT ![c] = p]
        /\ radius' = [radius EXCEPT ![c] = IF f THEN FoodRadius ELSE r]
        /\ food' = IF f THEN food \cup {c} ELSE food \ {c}
  BY DEF Create
<1>2. p \in Point /\ p # Nowhere /\ r \in Nat /\ FoodRadius \in Nat
  BY <1>1 DEF ViewAssumption
<1>3. Live' = Live \cup {c} /\ c \notin Live /\ c \notin dead /\ c # Me
  BY <1>1, <1>2 DEF Live, Create, IInv, TypeOK, ListedAreLive
<1>4. TypeOK'
  <2>1. /\ pos' \in [Cell -> Point \cup {Nowhere}]
        /\ radius' \in [Cell -> Nat]
        /\ food' \subseteq Cell \ {Me}
    BY <1>1, <1>2, <1>3 DEF IInv, TypeOK
  <2>2. /\ sectors' \in [Cell -> SUBSET (Sector \cup {NoSector})]
        /\ corners' \in [Cell -> (Sector \cup {NoSector}) \X (Sector \cup {NoSector})]
    BY DEF Create, IInv, TypeOK
  <2>3. created' \subseteq Live' /\ modified' \subseteq Live' /\ grown' \subseteq Live'
    BY <1>3 DEF Create, IInv, TypeOK
  <2>4. dead' \subseteq Cell \ Live'
    BY <1>3 DEF Create, IInv, TypeOK
  <2> QED
    BY <2>1, <2>2, <2>3, <2>4 DEF Create, IInv, TypeOK
<1>5. ListedAreLive'
  BY <1>3 DEF Create, IInv, TypeOK, ListedAreLive
<1> QED
  BY <1>3, <1>4, <1>5 DEF Create, IInv, StrangersSeeNothing, ShownAreKnown

\* A cell that gains or loses mass stays where it is.
LEMMA ChangeMassKeepsIInv ==
  ASSUME GridAssumption, ViewAssumption, IInv, NEW c \in Cell, ChangeMass(c)
  PROVE  IInv'
<1>1. radius' \in [Cell -> Nat]
  BY DEF ChangeMass, IInv, TypeOK, ViewAssumption
<1>2. Live' = Live
  BY DEF ChangeMass, Live
<1>3. TypeOK'
  BY <1>1, <1>2 DEF ChangeMass, IInv, TypeOK
<1> QED
  BY <1>2, <1>3 DEF ChangeMass, IInv, ListedAreLive, StrangersSeeNothing, ShownAreKnown

\* A dead cell leaves the grid, but is not forgotten.
LEMMA BuryKeepsIInv ==
  ASSUME GridAssumption, ViewAssumption, IInv, NEW c \in Cell, Bury(c)
  PROVE  IInv'
<1>1. Live' = Live \ {c} /\ c # Me /\ c \in Live
  BY DEF Bury, Live, IInv, TypeOK
<1>2. TypeOK'
  <2>1. pos' \in [Cell -> Point \cup {Nowhere}]
    BY DEF Bury, IInv, TypeOK
  <2>2. /\ sectors' \in [Cell -> SUBSET (Sector \cup {NoSector})]
        /\ corners' \in [Cell -> (Sector \cup {NoSector}) \X (Sector \cup {NoSector})]
    BY DEF Bury, IInv, TypeOK
  <2>3. created' \subseteq Live' /\ modified' \subseteq Live' /\ grown' \subseteq Live'
    BY <1>1 DEF Bury, IInv, TypeOK
  <2>4. dead' \subseteq Cell \ Live'
    BY <1>1 DEF Bury, IInv, TypeOK
  <2> QED
    BY <2>1, <2>2, <2>3, <2>4 DEF Bury, IInv, TypeOK
<1>3. ListedAreLive'
  BY <1>1 DEF Bury, IInv, TypeOK, ListedAreLive
<1>4. ShownAreKnown'
  BY <1>1 DEF Bury, IInv, ShownAreKnown
<1> QED
  BY <1>2, <1>3, <1>4 DEF Bury, IInv, StrangersSeeNothing

\* What update() does to one cell, created before or moved by it or neither.
LEMMA FirstType ==
  ASSUME GridAssumption, ViewAssumption, IInv, NEW c \in Cell
  PROVE  /\ c \in Live => FirstPos(c) \in Point
         /\ c \notin Live => FirstPos(c) = Nowhere /\ FirstPlace(c) = Place(c)
         /\ FirstPlace(c) \in Places
<1>1. /\ created \subseteq Live
      /\ c \in Live => pos[c] \in Point
      /\ c \notin Live => pos[c] = Nowhere
      /\ radius[c] \in Nat
  BY DEF IInv, TypeOK, Live
<1>2. c \in created => Resolved(pos[c], radius[c]) \in Point
  BY <1>1, ResolvedType
<1>3. FirstPlace(c) \in Places
  <2>1. CASE c \in created
    <3>1. FirstPos(c) \in Point
      BY <1>2, <2>1 DEF FirstPos
    <3> QED
      BY <2>1, <3>1, InsertedType DEF FirstPlace, IInv
  <2>2. CASE c \notin created
    BY <2>2, PlaceType DEF FirstPlace, IInv
  <2> QED
    BY <2>1, <2>2
<1> QED
  BY <1>1, <1>2, <1>3 DEF FirstPos, FirstPlace

\* update() moves cells that live to points, and puts only them on the grid.
LEMMA UpdateKeepsIInv ==
  ASSUME GridAssumption, ViewAssumption, IInv, Update
  PROVE  IInv'
<1>1. PICK moving \in {{}} \cup {{c} : c \in Live} : \E to \in [moving -> Spots] :
        LET last(c) == IF c \in moving THEN Resolved(to[c], radius[c]) ELSE FirstPos(c)
            after(c) == IF c \in moving THEN Shifted(c, FirstPlace(c), last(c)) ELSE FirstPlace(c)
        IN  /\ pos' = [c \in Cell |-> last(c)]
            /\ corners' = [c \in Cell |-> after(c).corners]
            /\ sectors' = [c \in Cell |-> after(c).sectors]
            /\ modified' = modified \cup moving
                             \cup {c \in created : Touches(pos[c], radius[c])}
            /\ grown' = grown \ (created \cup moving)
            /\ status' = IF \E c \in food : NoSector \in FirstPlace(c).sectors \cup after(c).sectors
                         THEN "aborted" ELSE "running"
  BY DEF Update
<1>2. PICK to \in [moving -> Spots] :
        LET last(c) == IF c \in moving THEN Resolved(to[c], radius[c]) ELSE FirstPos(c)
            after(c) == IF c \in moving THEN Shifted(c, FirstPlace(c), last(c)) ELSE FirstPlace(c)
        IN  /\ pos' = [c \in Cell |-> last(c)]
            /\ corners' = [c \in Cell |-> after(c).corners]
            /\ sectors' = [c \in Cell |-> after(c).sectors]
            /\ modified' = modified \cup moving
                             \cup {c \in created : Touches(pos[c], radius[c])}
            /\ grown' = grown \ (created \cup moving)
            /\ status' = IF \E c \in food : NoSector \in FirstPlace(c).sectors \cup after(c).sectors
                         THEN "aborted" ELSE "running"
  BY <1>1
<1> DEFINE last(c) == IF c \in moving THEN Resolved(to[c], radius[c]) ELSE FirstPos(c)
           after(c) == IF c \in moving THEN Shifted(c, FirstPlace(c), last(c)) ELSE FirstPlace(c)
<1>3. /\ pos' = [c \in Cell |-> last(c)]
      /\ corners' = [c \in Cell |-> after(c).corners]
      /\ sectors' = [c \in Cell |-> after(c).sectors]
      /\ modified' = modified \cup moving \cup {c \in created : Touches(pos[c], radius[c])}
      /\ grown' = grown \ (created \cup moving)
      /\ status' \in {"aborted", "running"}
  BY <1>2
<1>4. UNCHANGED <<radius, food, dead, view, viewers, shown, latest>> /\ created' = {} /\ updated'
  BY DEF Update
<1>5. moving \subseteq Live /\ created \subseteq Live /\ Live \subseteq Cell
  BY DEF IInv, TypeOK, Live
<1>6. ASSUME NEW c \in Cell
      PROVE  /\ c \in Live => last(c) \in Point
             /\ c \notin Live => last(c) = Nowhere /\ after(c) = Place(c)
             /\ after(c) \in Places
  <2>1. CASE c \in moving
    <3>1. to[c] \in Point /\ radius[c] \in Nat
      BY <2>1 DEF ViewAssumption, IInv, TypeOK
    <3>2. last(c) \in Point
      BY <2>1, <3>1, ResolvedType
    <3>3. Shifted(c, FirstPlace(c), last(c)) \in Places
      BY <3>2, FirstType, ShiftedType DEF IInv
    <3> QED
      BY <1>5, <2>1, <3>2, <3>3
  <2>2. CASE c \notin moving
    BY <2>2, FirstType
  <2> QED
    BY <2>1, <2>2
<1> HIDE DEF last, after
<1>7. Live' = Live
  <2>1. \A c \in Cell : pos'[c] # Nowhere <=> pos[c] # Nowhere
    BY <1>3, <1>6 DEF ViewAssumption, Live
  <2> QED
    BY <2>1 DEF Live
<1>8. pos' \in [Cell -> Point \cup {Nowhere}]
  BY <1>3, <1>6
<1>9. /\ sectors' \in [Cell -> SUBSET (Sector \cup {NoSector})]
      /\ corners' \in [Cell -> (Sector \cup {NoSector}) \X (Sector \cup {NoSector})]
  BY <1>3, <1>6 DEF Places
<1>10. TypeOK'
  <2>1. modified' \subseteq Live' /\ grown' \subseteq Live' /\ created' \subseteq Live'
    BY <1>3, <1>4, <1>5, <1>7 DEF IInv, TypeOK
  <2> QED
    BY <1>3, <1>4, <1>7, <1>8, <1>9, <2>1 DEF IInv, TypeOK
<1>11. ListedAreLive'
  <2>1. ASSUME NEW c \in Cell, c \notin Live
        PROVE  sectors'[c] = {}
    BY <1>3, <1>6, <2>1 DEF Place, IInv, ListedAreLive
  <2> QED
    BY <1>7, <2>1 DEF IInv, ListedAreLive
<1> QED
  BY <1>4, <1>7, <1>10, <1>11 DEF IInv, StrangersSeeNothing, ShownAreKnown

\* A session that joins shows nothing yet, and the view starts from nothing.
LEMMA AddSessionKeepsIInv ==
  ASSUME GridAssumption, ViewAssumption, IInv, NEW s \in Session, AddSession(s)
  PROVE  IInv'
<1>1. view' \in Views
  BY DEF AddSession, IInv, TypeOK, Views
<1>2. Live' = Live
  BY DEF AddSession, cellVars, Live
<1>3. TypeOK'
  BY <1>1, <1>2 DEF AddSession, cellVars, IInv, TypeOK
<1>4. shown'[s] = NoCell
  BY DEF AddSession, IInv, StrangersSeeNothing
<1>5. ShownAreKnown'
  BY <1>4 DEF AddSession, ShownAreKnown, NoCell
<1> QED
  BY <1>2, <1>3, <1>5 DEF AddSession, cellVars, IInv, ListedAreLive, StrangersSeeNothing

\* A session that leaves forgets.
LEMMA RemoveSessionKeepsIInv ==
  ASSUME GridAssumption, ViewAssumption, IInv, NEW s \in Session, RemoveSession(s)
  PROVE  IInv'
<1>1. Live' = Live
  BY DEF RemoveSession, cellVars, Live
<1>2. NoCell \in [Cell -> (Point \X Nat) \cup {Nowhere}]
  BY DEF NoCell
<1>3. TypeOK'
  BY <1>1, <1>2 DEF RemoveSession, cellVars, IInv, TypeOK
<1>4. StrangersSeeNothing'
  BY DEF RemoveSession, IInv, TypeOK, StrangersSeeNothing
<1>5. ShownAreKnown'
  BY <1>1 DEF RemoveSession, cellVars, IInv, TypeOK, ShownAreKnown
<1> QED
  BY <1>1, <1>3, <1>4, <1>5 DEF RemoveSession, cellVars, IInv, ListedAreLive

\* A frame shows cells that live, and reports the dead that were visible.
LEMMA FrameType ==
  ASSUME GridAssumption, IInv, NEW v \in Views, OnMap(Clip(v.viewport))
  PROVE  /\ Frame(view, v).sectors \subseteq Sector
         /\ Frame(view, v).cells \subseteq Live
         /\ dead \cap view.visible \subseteq Frame(view, v).removed
<1> DEFINE turned == v.leftTop # view.leftTop \/ v.rightBottom # view.rightBottom
           now == IF turned THEN GetSectors(v.viewport) ELSE view.sectors
           In(area) == {c \in Cell : sectors[c] \cap area # {}}
           F == [sectors |-> now,
                 cells |-> In(now \ view.sectors)
                             \cup {c \in modified : c = Me \/ Meets(c, v.viewbox)},
                 removed |-> {c \in In(view.sectors \ now) : ~Meets(c, v.viewbox)}
                               \cup (dead \cap view.visible)]
<1>1. Frame(view, v) = F
  BY DEF Frame
<1>2. now \subseteq Sector
  <2>1. GetSectors(v.viewport) \subseteq Sector
    BY ClipIsOnMap, SectorsOnMap DEF Views, GetSectors
  <2>2. view.sectors \subseteq Sector
    BY DEF IInv, TypeOK, Views
  <2> QED
    BY <2>1, <2>2
<1>3. \A area : In(area) \subseteq Live
  BY DEF IInv, ListedAreLive
<1>4. modified \subseteq Live
  BY DEF IInv, TypeOK
<1> HIDE DEF now, In
<1>5. F.sectors \subseteq Sector /\ F.cells \subseteq Live /\ dead \cap view.visible \subseteq F.removed
  BY <1>2, <1>3, <1>4
<1> QED
  BY <1>1, <1>5

\* A frame that is sent keeps the pictures of the clients and m_visibleIds in
\* step: a cell of an earlier frame that died is removed by this one.
LEMMA SynchronizeKeepsIInv ==
  ASSUME GridAssumption, ViewAssumption, IInv, Synchronize
  PROVE  IInv'
<1>1. UNCHANGED <<pos, radius, food, sectors, corners, created, grown, viewers, latest>>
  BY DEF Synchronize
<1>2. Live' = Live
  BY <1>1 DEF Live
<1>3. pos[Me] \in Point
  BY DEF IInv, ListedAreLive, TypeOK, Live
<1>4. /\ CalcParams \in Views
      /\ CalcParams.visible = view.visible
      /\ CalcParams.sectors = view.sectors
  BY <1>3, CalcParamsType DEF IInv
<1>5. ASSUME view' = CalcParams, status' = "stalled", UNCHANGED <<modified, dead, updated, shown>>
      PROVE  IInv'
  <2>1. TypeOK'
    BY <1>1, <1>2, <1>4, <1>5 DEF IInv, TypeOK
  <2> QED
    BY <1>1, <1>2, <1>4, <1>5, <2>1 DEF IInv, ListedAreLive, StrangersSeeNothing, ShownAreKnown
<1>6. ASSUME GetSector(Clip(CalcParams.viewport).a) # NoSector,
             GetSector(Clip(CalcParams.viewport).b) # NoSector,
             Send, modified' = {}, dead' = {}, updated' = FALSE, UNCHANGED status
      PROVE  IInv'
  <2> DEFINE v == Focused(CalcParams)
             frame == Frame(view, v)
  <2>1. /\ v \in Views
        /\ v.visible = view.visible
        /\ v.viewport = CalcParams.viewport
        /\ OnMap(Clip(v.viewport))
    BY <1>4, <1>6, FocusedType
  <2>2. /\ frame.sectors \subseteq Sector
        /\ frame.cells \subseteq Live
        /\ dead \cap view.visible \subseteq frame.removed
    BY <2>1, FrameType
  <2>3. \/ viewers = {} /\ view' = v /\ UNCHANGED shown
        \/ /\ viewers # {}
           /\ view' = [v EXCEPT !.sectors = frame.sectors,
                                !.visible = (@ \ dead) \cup frame.cells]
           /\ shown' = [s \in Session |->
                          IF s \in viewers THEN Applied(shown[s], frame) ELSE shown[s]]
    BY <1>6 DEF Send
  <2> HIDE DEF v, frame
  <2>4. ASSUME shown' \in [Session -> [Cell -> (Point \X Nat) \cup {Nowhere}]], view' \in Views
        PROVE  TypeOK'
    BY <1>1, <1>2, <1>6, <2>4 DEF IInv, TypeOK
  <2>5. CASE viewers = {}
    <3>1. view' = v /\ UNCHANGED shown
      BY <2>3, <2>5
    <3>2. TypeOK'
      BY <2>1, <2>4, <3>1 DEF IInv, TypeOK
    <3> QED
      BY <1>1, <1>2, <2>5, <3>1, <3>2 DEF IInv, ListedAreLive, StrangersSeeNothing, ShownAreKnown
  <2>6. CASE viewers # {}
    <3>1. /\ view' = [v EXCEPT !.sectors = frame.sectors,
                               !.visible = (v.visible \ dead) \cup frame.cells]
          /\ shown' = [s \in Session |->
                          IF s \in viewers THEN Applied(shown[s], frame) ELSE shown[s]]
      BY <2>3, <2>6
    <3>2. view' \in Views /\ view'.visible = (v.visible \ dead) \cup frame.cells
      <4>1. (v.visible \ dead) \cup frame.cells \subseteq Cell
        BY <2>1, <2>2 DEF Views, Live
      <4> QED
        BY <2>1, <2>2, <3>1, <4>1 DEF Views
    <3>3. \A s \in Session : Applied(shown[s], frame) \in [Cell -> (Point \X Nat) \cup {Nowhere}]
      <4>1. \A c \in frame.cells : Look(c) \in Point \X Nat
        BY <2>2 DEF Look, Live, IInv, TypeOK
      <4> QED
        BY <4>1 DEF Applied, IInv, TypeOK
    <3>4. TypeOK'
      BY <2>4, <3>1, <3>2, <3>3 DEF IInv, TypeOK
    <3>5. StrangersSeeNothing'
      BY <1>1, <3>1 DEF IInv, StrangersSeeNothing
    <3>6. ShownAreKnown'
      <4> SUFFICES ASSUME latest \in viewers, NEW c \in Cell, shown'[latest][c] # Nowhere
                   PROVE  c \in view'.visible /\ c \in Live
        BY <1>1, <1>2 DEF ShownAreKnown
      <4>1. latest \in Session
        BY DEF IInv, TypeOK
      <4>2. shown'[latest][c] = IF c \in frame.removed THEN Nowhere
                                ELSE IF c \in frame.cells THEN Look(c)
                                ELSE shown[latest][c]
        BY <3>1, <4>1 DEF Applied
      <4>3. CASE c \in frame.cells
        BY <2>2, <3>2, <4>3
      <4>4. CASE c \notin frame.cells
        <5>1. c \notin frame.removed /\ shown[latest][c] # Nowhere
          BY <4>2, <4>4
        <5>2. c \in view.visible /\ c \in Live \cup dead
          BY <5>1 DEF IInv, ShownAreKnown
        <5> QED
          BY <2>1, <2>2, <3>2, <5>1, <5>2
      <4> QED
        BY <4>3, <4>4
    <3> QED
      BY <1>1, <1>2, <3>4, <3>5, <3>6 DEF IInv, ListedAreLive
  <2> QED
    BY <2>5, <2>6
<1> QED
  BY <1>5, <1>6 DEF Synchronize

\* Every step preserves the invariant.
LEMMA StepIInv ==
  ASSUME GridAssumption, ViewAssumption, IInv, [Next]_vars
  PROVE  IInv'
<1>1. CASE UNCHANGED vars
  BY <1>1 DEF vars, cellVars, IInv, TypeOK, ListedAreLive, StrangersSeeNothing, ShownAreKnown, Live
<1>2. ASSUME NEW c \in Cell, Create(c) \/ ChangeMass(c) \/ Bury(c)
      PROVE  IInv'
  BY <1>2, CreateKeepsIInv, ChangeMassKeepsIInv, BuryKeepsIInv
<1>3. ASSUME NEW s \in Session, AddSession(s) \/ RemoveSession(s)
      PROVE  IInv'
  BY <1>3, AddSessionKeepsIInv, RemoveSessionKeepsIInv
<1> QED
  BY <1>1, <1>2, <1>3, UpdateKeepsIInv, SynchronizeKeepsIInv DEF Next

-----------------------------------------------------------------------------
\* Types of the cells on the grid, the view of the player and the pictures of
\* its clients, on every map.
THEOREM ViewTypeOK ==
  ASSUME GridAssumption, ViewAssumption
  PROVE  Spec => []TypeOK
<1>1. Init => IInv
  BY InitIInv
<1>2. IInv /\ [Next]_vars => IInv'
  BY StepIInv
<1>3. IInv => TypeOK
  BY DEF IInv
<1> QED
  BY <1>1, <1>2, <1>3, PTL DEF Spec

\* Player::synchronize() leaves no dead cell on the screen of the session that
\* was added last (GhostsAreReported), whatever the order of deaths, frames,
\* reused ids and sessions that come and go.
THEOREM ViewGhostsAreReported ==
  ASSUME GridAssumption, ViewAssumption
  PROVE  Spec => []GhostsAreReported
<1>1. Init => IInv
  BY InitIInv
<1>2. IInv /\ [Next]_vars => IInv'
  BY StepIInv
<1>3. IInv => GhostsAreReported
  BY DEF IInv, ShownAreKnown, GhostsAreReported
<1> QED
  BY <1>1, <1>2, <1>3, PTL DEF Spec

-----------------------------------------------------------------------------
\* The lookups of the grid map need a map that is at least as high as wide,
\* and cells that fit into it and are larger than its border of one unit.
MapFits ==
  /\ Width <= Height
  /\ \A r \in Radii \cup {FoodRadius} : Unit <= r /\ r <= Width - Unit

Between(k) == [row : k[1].row .. k[2].row, col : k[1].col .. k[2].col]

\* A piece of food is in the sector of its position, another cell in all
\* sectors between its corners.
Right(c, place, p) ==
  IF c \in food THEN place.sectors = {SectorAt(p)}
  ELSE place.corners \in Sector \X Sector /\ place.sectors = Between(place.corners)

\* Its corners are those of its position and size.
Exact(c, place, p) == c \in food \/ place.corners = CornersAt(c, p)

OnTheMap(p) == p \in Point /\ Contains(MapBox, p)

ViewportFollows == view.viewport = Around(view.position, Half * view.scale)

MapInv ==
  /\ IInv
  /\ status = "running"
  /\ \A c \in Live : Unit <= radius[c] /\ radius[c] <= Width - Unit
  /\ OnTheMap(pos[Me])
  /\ \A c \in Live \ created :
        /\ OnTheMap(pos[c])
        /\ Right(c, Place(c), pos[c])
        /\ c \notin grown => Exact(c, Place(c), pos[c])
  /\ ViewportFollows

\* resolveCellPosition() takes every cell that fits to the map.
LEMMA ResolvedOnTheMap ==
  ASSUME GridAssumption, MapFits, NEW p \in Point,
         NEW r \in Nat, Unit <= r, r <= Width - Unit
  PROVE  OnTheMap(Resolved(p, r))
<1>1. /\ p.x \in Int /\ p.y \in Int /\ Width \in Int /\ Height \in Int /\ Unit \in Int
      /\ 0 < Unit /\ Width <= Height
  BY DEF GridAssumption, MapFits, Point
<1>2. ASSUME NEW x \in Int
      PROVE  ResolvedOn(x, r) \in Int /\ 0 <= ResolvedOn(x, r) /\ ResolvedOn(x, r) <= Width - Unit
  BY <1>1 DEF ResolvedOn
<1>3. /\ ResolvedOn(p.x, r) \in Int /\ 0 <= ResolvedOn(p.x, r)
      /\ ResolvedOn(p.x, r) <= Width - Unit
      /\ ResolvedOn(p.y, r) \in Int /\ 0 <= ResolvedOn(p.y, r)
      /\ ResolvedOn(p.y, r) <= Width - Unit
  BY <1>1, <1>2
<1>4. Width - Unit <= Height - Unit
  BY <1>1
<1>5. ResolvedOn(p.y, r) <= Height - Unit
  BY <1>1, <1>3, <1>4
<1> QED
  BY <1>3, <1>5 DEF Resolved, OnTheMap, Contains, MapBox, Point

\* A cell on the map has a box on the map, with corners in sectors, and the
\* sectors under it are those between its corners.
LEMMA CornersOnTheMap ==
  ASSUME GridAssumption, NEW c \in Cell, NEW p, OnTheMap(p), radius[c] \in Nat
  PROVE  LET box == Clip(Around(p, radius[c]))
         IN  /\ box \in Box /\ OnMap(box) /\ ~IsEmpty(box)
             /\ CornersAt(c, p) = <<SectorAt(box.a), SectorAt(box.b)>>
             /\ CornersAt(c, p) \in Sector \X Sector
             /\ Between(CornersAt(c, p)) = SectorsOf(box)
             /\ SectorsUnder(p, radius[c]) = SectorsOf(box)
<1> DEFINE box == Clip(Around(p, radius[c]))
<1>1. p \in Point /\ Contains(MapBox, p)
  BY DEF OnTheMap
<1>2. box \in Box /\ OnMap(box) /\ ~IsEmpty(box)
  BY <1>1, AroundIsOnMap, ClipIsOnMap
<1>3. SectorsUnder(p, radius[c]) = SectorsOf(box)
  BY <1>1, FilterKeepsAll DEF GetSectors
<1>4. CornersAt(c, p) = <<GetSector(box.a), GetSector(box.b)>>
  BY DEF CornersAt
<1> HIDE DEF box
<1>5. /\ GetSector(box.a) = SectorAt(box.a) /\ SectorAt(box.a) \in Sector
      /\ GetSector(box.b) = SectorAt(box.b) /\ SectorAt(box.b) \in Sector
  BY <1>2, SectorOfPoint DEF Box, OnMap
<1>6. CornersAt(c, p) = <<SectorAt(box.a), SectorAt(box.b)>>
  BY <1>4, <1>5
<1>7. Between(CornersAt(c, p)) = SectorsOf(box)
  <2>1. CornersAt(c, p)[1] = SectorAt(box.a) /\ CornersAt(c, p)[2] = SectorAt(box.b)
    BY <1>6
  <2> QED
    BY <2>1 DEF Between, SectorsOf
<1> QED
  BY <1>2, <1>3, <1>5, <1>6, <1>7 DEF box

\* insert() lists a cell where it is.
LEMMA InsertedRight ==
  ASSUME GridAssumption, TypeOK, NEW c \in Cell, NEW p, OnTheMap(p)
  PROVE  Right(c, Inserted(c, p), p) /\ Exact(c, Inserted(c, p), p)
<1>1. Place(c) \in Places /\ radius[c] \in Nat
  BY PlaceType
<1>2. CASE c \in food
  <2>1. GetSector(p) = SectorAt(p)
    BY SectorOfPoint DEF OnTheMap
  <2> QED
    BY <1>1, <1>2, <2>1 DEF Inserted, Right, Exact, Places
<1>3. CASE c \notin food
  <2>1. /\ ~IsEmpty(Clip(Around(p, radius[c])))
        /\ CornersAt(c, p) \in Sector \X Sector
        /\ SectorsUnder(p, radius[c]) = Between(CornersAt(c, p))
    BY <1>1, CornersOnTheMap
  <2> QED
    BY <1>3, <2>1 DEF Inserted, Right, Exact
<1> QED
  BY <1>2, <1>3

\* update() lists it where it is now, and may return early when the corners
\* are the same: so are then all the sectors between them.
LEMMA ShiftedRight ==
  ASSUME GridAssumption, TypeOK, NEW c \in Cell, NEW p, OnTheMap(p),
         NEW place \in Places, NEW q, Right(c, place, q)
  PROVE  Right(c, Shifted(c, place, p), p) /\ Exact(c, Shifted(c, place, p), p)
<1>1. radius[c] \in Nat
  BY PlaceType
<1>2. CASE c \in food
  <2>1. GetSector(p) = SectorAt(p)
    BY SectorOfPoint DEF OnTheMap
  <2> QED
    BY <1>2, <2>1 DEF Shifted, Right, Exact, Places
<1>3. CASE c \notin food
  <2>1. /\ ~IsEmpty(Clip(Around(p, radius[c])))
        /\ CornersAt(c, p) \in Sector \X Sector
        /\ SectorsUnder(p, radius[c]) = Between(CornersAt(c, p))
    BY <1>1, CornersOnTheMap
  <2>2. CASE place.corners = CornersAt(c, p)
    BY <1>3, <2>1, <2>2 DEF Shifted, Right, Exact
  <2>3. CASE place.corners # CornersAt(c, p)
    BY <1>3, <2>1, <2>3 DEF Shifted, Right, Exact
  <2> QED
    BY <2>2, <2>3
<1> QED
  BY <1>2, <1>3

-----------------------------------------------------------------------------
\* A room with the avatar alone, which is not on the grid yet.
LEMMA InitMapInv ==
  ASSUME GridAssumption, ViewAssumption, MapFits, Init
  PROVE  MapInv
<1>1. PICK p \in {q \in Spots : Contains(MapBox, q)}, r \in Radii :
        /\ pos = [NoCell EXCEPT ![Me] = p]
        /\ radius = [c \in Cell |-> IF c = Me THEN r ELSE 0]
  BY DEF Init
<1>2. p \in Point /\ OnTheMap(p) /\ Me \in Cell /\ p # Nowhere
  BY <1>1 DEF ViewAssumption, OnTheMap
<1>3. Live = {Me} /\ created = {Me} /\ pos[Me] = p /\ radius[Me] = r
  BY <1>1, <1>2 DEF Init, Live, NoCell
<1>4. Unit <= r /\ r <= Width - Unit
  BY DEF MapFits
<1>5. ViewportFollows
  <2>1. Half * 0 = 0
    BY DEF ViewAssumption
  <2> QED
    BY <2>1 DEF Init, NewView, ViewportFollows
<1> QED
  BY <1>2, <1>3, <1>4, <1>5, InitIInv DEF MapInv, Init

\* A created cell waits for its position to be resolved.
LEMMA CreateKeepsMapInv ==
  ASSUME GridAssumption, ViewAssumption, MapFits, MapInv, NEW c \in Cell, Create(c)
  PROVE  MapInv'
<1>1. IInv /\ IInv'
  BY CreateKeepsIInv DEF MapInv
<1>2. PICK p \in Spots, f \in BOOLEAN, r \in Radii :
        /\ pos' = [pos EXCEPT ![c] = p]
        /\ radius' = [radius EXCEPT ![c] = IF f THEN FoodRadius ELSE r]
        /\ food' = IF f THEN food \cup {c} ELSE food \ {c}
  BY DEF Create
<1>3. Live' = Live \cup {c} /\ c \notin Live /\ c # Me
  BY <1>1, <1>2 DEF Live, Create, IInv, ListedAreLive, TypeOK, ViewAssumption
<1>4. ASSUME NEW d \in Live'
      PROVE  Unit <= radius'[d] /\ radius'[d] <= Width - Unit
  BY <1>1, <1>2, <1>3, <1>4 DEF MapInv, MapFits, IInv, TypeOK
<1>5. ASSUME NEW d \in Live' \ created'
      PROVE  /\ d \in Live \ created
             /\ pos'[d] = pos[d] /\ radius'[d] = radius[d]
             /\ d \in food' <=> d \in food
             /\ sectors'[d] = sectors[d] /\ corners'[d] = corners[d]
  BY <1>1, <1>2, <1>3, <1>5 DEF Create, IInv, TypeOK, Live
<1>6. ASSUME NEW d \in Live' \ created'
      PROVE  /\ OnTheMap(pos'[d])
             /\ Right(d, Place(d), pos[d])'
             /\ d \notin grown' => Exact(d, Place(d), pos[d])'
  <2>1. /\ OnTheMap(pos[d])
        /\ Right(d, Place(d), pos[d])
        /\ d \notin grown => Exact(d, Place(d), pos[d])
    BY <1>5, <1>6 DEF MapInv
  <2>2. grown' = grown
    BY DEF Create
  <2> QED
    BY <1>5, <1>6, <2>1, <2>2 DEF Right, Exact, Place, CornersAt
<1>7. pos'[Me] = pos[Me]
  BY <1>1, <1>2, <1>3 DEF IInv, TypeOK
<1>8. status' = "running" /\ view' = view
  BY DEF Create
<1> QED
  BY <1>1, <1>4, <1>6, <1>7, <1>8 DEF MapInv, ViewportFollows

\* A cell of another size is still listed in the sectors between its corners.
LEMMA ChangeMassKeepsMapInv ==
  ASSUME GridAssumption, ViewAssumption, MapFits, MapInv, NEW c \in Cell, ChangeMass(c)
  PROVE  MapInv'
<1>1. IInv /\ IInv'
  BY ChangeMassKeepsIInv DEF MapInv
<1>2. PICK r \in Radii : radius' = [radius EXCEPT ![c] = r]
  BY DEF ChangeMass
<1>3. Live' = Live
  BY DEF ChangeMass, Live
<1>4. ASSUME NEW d \in Live'
      PROVE  Unit <= radius'[d] /\ radius'[d] <= Width - Unit
  BY <1>1, <1>2, <1>3, <1>4 DEF MapInv, MapFits, IInv, TypeOK, Live
<1>5. ASSUME NEW d \in Live' \ created'
      PROVE  /\ OnTheMap(pos'[d])
             /\ Right(d, Place(d), pos[d])'
             /\ d \notin grown' => Exact(d, Place(d), pos[d])'
  <2>1. /\ OnTheMap(pos[d])
        /\ Right(d, Place(d), pos[d])
        /\ d \notin grown => Exact(d, Place(d), pos[d])
    BY <1>3, <1>5 DEF MapInv, ChangeMass
  <2>2. UNCHANGED <<pos, food, sectors, corners>> /\ grown' = grown \cup {c}
    BY DEF ChangeMass
  <2>3. d \notin grown' => d \notin grown /\ radius'[d] = radius[d]
    BY <1>1, <1>2, <1>5, <2>2 DEF IInv, TypeOK, Live
  <2>4. Right(d, Place(d), pos[d])'
    BY <2>1, <2>2 DEF Right, Place
  <2>5. d \notin grown' => Exact(d, Place(d), pos[d])'
    BY <2>1, <2>2, <2>3 DEF Exact, Place, CornersAt
  <2> QED
    BY <2>1, <2>2, <2>4, <2>5
<1>6. UNCHANGED <<pos, view, status>>
  BY DEF ChangeMass
<1> QED
  BY <1>1, <1>4, <1>5, <1>6 DEF MapInv, ViewportFollows

\* A cell that dies leaves the others where they are.
LEMMA BuryKeepsMapInv ==
  ASSUME GridAssumption, ViewAssumption, MapInv, NEW c \in Cell, Bury(c)
  PROVE  MapInv'
<1>1. IInv /\ IInv'
  BY BuryKeepsIInv DEF MapInv
<1>2. Live' = Live \ {c} /\ c # Me
  BY <1>1 DEF Bury, Live, IInv, TypeOK
<1>3. ASSUME NEW d \in Live'
      PROVE  Unit <= radius'[d] /\ radius'[d] <= Width - Unit
  BY <1>2, <1>3 DEF MapInv, Bury
<1>4. ASSUME NEW d \in Live' \ created'
      PROVE  /\ OnTheMap(pos'[d])
             /\ Right(d, Place(d), pos[d])'
             /\ d \notin grown' => Exact(d, Place(d), pos[d])'
  <2>1. d \in Live \ created /\ (d \notin grown' => d \notin grown)
    BY <1>2, <1>4 DEF Bury
  <2>2. /\ OnTheMap(pos[d])
        /\ Right(d, Place(d), pos[d])
        /\ d \notin grown => Exact(d, Place(d), pos[d])
    BY <2>1 DEF MapInv
  <2>3. /\ pos'[d] = pos[d] /\ radius' = radius /\ food' = food
        /\ sectors'[d] = sectors[d] /\ corners'[d] = corners[d]
    BY <1>1, <1>2, <1>4 DEF Bury, IInv, TypeOK, Live
  <2> QED
    BY <2>1, <2>2, <2>3 DEF Right, Exact, Place, CornersAt
<1>5. pos'[Me] = pos[Me] /\ UNCHANGED <<view, status>>
  BY <1>1, <1>2 DEF Bury, IInv, TypeOK
<1> QED
  BY <1>1, <1>3, <1>4, <1>5 DEF MapInv, ViewportFollows

\* The loop over the created cells puts every cell that lives on the grid.
LEMMA FirstRight ==
  ASSUME GridAssumption, ViewAssumption, MapFits, MapInv, NEW c \in Live
  PROVE  /\ OnTheMap(FirstPos(c))
         /\ Right(c, FirstPlace(c), FirstPos(c))
         /\ c \notin grown \ created => Exact(c, FirstPlace(c), FirstPos(c))
<1>1. /\ c \in Cell /\ pos[c] \in Point /\ radius[c] \in Nat /\ TypeOK
      /\ Unit <= radius[c] /\ radius[c] <= Width - Unit
  BY DEF MapInv, IInv, TypeOK, Live
<1>2. CASE c \in created
  <2>1. FirstPos(c) = Resolved(pos[c], radius[c]) /\ FirstPlace(c) = Inserted(c, FirstPos(c))
    BY <1>2 DEF FirstPos, FirstPlace
  <2>2. OnTheMap(FirstPos(c))
    BY <1>1, <2>1, ResolvedOnTheMap
  <2> QED
    BY <1>1, <2>1, <2>2, InsertedRight
<1>3. CASE c \notin created
  BY <1>3 DEF FirstPos, FirstPlace, MapInv
<1> QED
  BY <1>2, <1>3

\* A place that is right for a piece of food has a sector of the map.
LEMMA RightIsOnMap ==
  ASSUME GridAssumption, NEW c \in food, NEW place, NEW p, OnTheMap(p), Right(c, place, p)
  PROVE  NoSector \notin place.sectors
BY SectorOfPoint, NoSectorIsNone DEF OnTheMap, Right

\* update() leaves every cell on the map and listed where it is.
LEMMA UpdateKeepsMapInv ==
  ASSUME GridAssumption, ViewAssumption, MapFits, MapInv, Update
  PROVE  MapInv'
<1>1. IInv /\ IInv'
  BY UpdateKeepsIInv DEF MapInv
<1>2a. PICK moving \in {{}} \cup {{c} : c \in Live} : \E to \in [moving -> Spots] :
        LET last(c) == IF c \in moving THEN Resolved(to[c], radius[c]) ELSE FirstPos(c)
            after(c) == IF c \in moving THEN Shifted(c, FirstPlace(c), last(c)) ELSE FirstPlace(c)
        IN  /\ pos' = [c \in Cell |-> last(c)]
            /\ corners' = [c \in Cell |-> after(c).corners]
            /\ sectors' = [c \in Cell |-> after(c).sectors]
            /\ modified' = modified \cup moving
                             \cup {c \in created : Touches(pos[c], radius[c])}
            /\ grown' = grown \ (created \cup moving)
            /\ status' = IF \E c \in food : NoSector \in FirstPlace(c).sectors \cup after(c).sectors
                         THEN "aborted" ELSE "running"
  BY DEF Update
<1>2. PICK to \in [moving -> Spots] :
        LET last(c) == IF c \in moving THEN Resolved(to[c], radius[c]) ELSE FirstPos(c)
            after(c) == IF c \in moving THEN Shifted(c, FirstPlace(c), last(c)) ELSE FirstPlace(c)
        IN  /\ pos' = [c \in Cell |-> last(c)]
            /\ corners' = [c \in Cell |-> after(c).corners]
            /\ sectors' = [c \in Cell |-> after(c).sectors]
            /\ modified' = modified \cup moving
                             \cup {c \in created : Touches(pos[c], radius[c])}
            /\ grown' = grown \ (created \cup moving)
            /\ status' = IF \E c \in food : NoSector \in FirstPlace(c).sectors \cup after(c).sectors
                         THEN "aborted" ELSE "running"
  BY <1>2a
<1> DEFINE last(c) == IF c \in moving THEN Resolved(to[c], radius[c]) ELSE FirstPos(c)
           after(c) == IF c \in moving THEN Shifted(c, FirstPlace(c), last(c)) ELSE FirstPlace(c)
<1>3. /\ pos' = [c \in Cell |-> last(c)]
      /\ corners' = [c \in Cell |-> after(c).corners]
      /\ sectors' = [c \in Cell |-> after(c).sectors]
      /\ grown' = grown \ (created \cup moving)
      /\ status' = IF \E c \in food : NoSector \in FirstPlace(c).sectors \cup after(c).sectors
                   THEN "aborted" ELSE "running"
  BY <1>2
<1>4. UNCHANGED <<radius, food, view>> /\ created' = {}
  BY DEF Update
<1>5. moving \subseteq Live /\ Live \subseteq Cell /\ Me \in Live
  BY <1>1 DEF IInv, ListedAreLive, Live
<1>6. ASSUME NEW c \in Live
      PROVE  /\ OnTheMap(last(c))
             /\ Right(c, after(c), last(c))
             /\ c \notin grown \ (created \cup moving) => Exact(c, after(c), last(c))
  <2>1. /\ OnTheMap(FirstPos(c))
        /\ Right(c, FirstPlace(c), FirstPos(c))
        /\ c \notin grown \ created => Exact(c, FirstPlace(c), FirstPos(c))
    BY FirstRight
  <2>2. CASE c \in moving
    <3>1. /\ to[c] \in Point /\ radius[c] \in Nat
          /\ Unit <= radius[c] /\ radius[c] <= Width - Unit
      BY <1>1, <1>5, <2>2 DEF ViewAssumption, MapInv, IInv, TypeOK
    <3>2. last(c) = Resolved(to[c], radius[c]) /\ after(c) = Shifted(c, FirstPlace(c), last(c))
      BY <2>2
    <3> HIDE DEF last, after
    <3>3. OnTheMap(last(c))
      BY <3>1, <3>2, ResolvedOnTheMap
    <3>4. FirstPlace(c) \in Places /\ c \in Cell /\ TypeOK
      BY <1>1, <1>5, FirstType DEF IInv
    <3>5. Right(c, after(c), last(c)) /\ Exact(c, after(c), last(c))
      BY <2>1, <3>2, <3>3, <3>4, ShiftedRight
    <3> QED
      BY <3>3, <3>5
  <2>3. CASE c \notin moving
    BY <2>1, <2>3
  <2> QED
    BY <2>2, <2>3
<1>7. status' = "running"
  <2>1. ASSUME NEW c \in food
        PROVE  NoSector \notin FirstPlace(c).sectors \cup after(c).sectors
    <3>1. CASE c \in Live
      <4>1. NoSector \notin FirstPlace(c).sectors
        BY <2>1, <3>1, FirstRight, RightIsOnMap
      <4>2. NoSector \notin after(c).sectors
        <5>1. OnTheMap(last(c)) /\ Right(c, after(c), last(c))
          BY <1>6, <3>1
        <5> HIDE DEF last, after
        <5> QED
          BY <2>1, <5>1, RightIsOnMap
      <4> QED
        BY <4>1, <4>2
    <3>2. CASE c \notin Live
      <4>1. c \in Cell /\ sectors[c] = {}
        BY <1>1, <2>1, <3>2 DEF IInv, TypeOK, ListedAreLive
      <4>2. FirstPlace(c) = Place(c)
        BY <1>1, <3>2, <4>1, FirstType
      <4>3. after(c) = FirstPlace(c)
        BY <1>5, <3>2
      <4> QED
        BY <4>1, <4>2, <4>3 DEF Place
    <3> QED
      BY <3>1, <3>2
  <2> HIDE DEF after
  <2> QED
    BY <1>3, <2>1
<1> HIDE DEF last, after
<1>8. Live' = Live
  <2>1. \A c \in Cell : c \in Live => last(c) # Nowhere
    BY <1>6 DEF OnTheMap, ViewAssumption
  <2>2. \A c \in Cell : c \notin Live => last(c) = Nowhere
    <3> SUFFICES ASSUME NEW c \in Cell, c \notin Live
                 PROVE  last(c) = Nowhere
      OBVIOUS
    <3> QED
      BY <1>1, <1>5, FirstType DEF last
  <2> QED
    BY <1>3, <2>1, <2>2 DEF Live
<1>9. ASSUME NEW c \in Live'
      PROVE  /\ OnTheMap(pos'[c])
             /\ Right(c, Place(c), pos[c])'
             /\ c \notin grown' => Exact(c, Place(c), pos[c])'
  <2>1. /\ c \in Cell /\ c \in Live /\ pos'[c] = last(c)
        /\ sectors'[c] = after(c).sectors /\ corners'[c] = after(c).corners
    BY <1>3, <1>5, <1>8, <1>9
  <2>2. /\ OnTheMap(last(c))
        /\ Right(c, after(c), last(c))
        /\ c \notin grown' => Exact(c, after(c), last(c))
    BY <1>3, <1>6, <2>1
  <2>3. Right(c, Place(c), pos[c])'
    BY <1>4, <2>1, <2>2 DEF Right, Place
  <2>4. c \notin grown' => Exact(c, Place(c), pos[c])'
    BY <1>4, <2>1, <2>2 DEF Exact, Place, CornersAt
  <2> QED
    BY <2>1, <2>2, <2>3, <2>4
<1>10. ASSUME NEW c \in Live'
       PROVE  Unit <= radius'[c] /\ radius'[c] <= Width - Unit
  BY <1>4, <1>8, <1>10 DEF MapInv
<1>11. OnTheMap(pos'[Me])
  BY <1>5, <1>8, <1>9
<1>12. ViewportFollows'
  BY <1>4 DEF MapInv, ViewportFollows
<1> QED
  BY <1>1, <1>7, <1>9, <1>10, <1>11, <1>12 DEF MapInv

\* calcParams() puts the viewport around the avatar.
LEMMA ViewportAround ==
  ASSUME GridAssumption, ViewAssumption, MapInv
  PROVE  /\ CalcParams.position = pos[Me]
         /\ CalcParams.viewport = Around(pos[Me], Half * CalcParams.scale)
         /\ CalcParams.scale \in {1, 2}
<1> DEFINE Moved(q) == [x |-> q.x + pos[Me].x - view.position.x, y |-> q.y + pos[Me].y - view.position.y]
           scale == ScaleFor(radius[Me])
           port == IF scale # view.scale THEN Around(pos[Me], Half * scale)
                   ELSE [a |-> Moved(view.viewport.a), b |-> Moved(view.viewport.b)]
<1>1. /\ view \in Views /\ view.position \in Point /\ view.scale \in 0 .. 2
      /\ view.viewport = Around(view.position, Half * view.scale)
      /\ pos[Me] \in Point
  BY DEF MapInv, IInv, TypeOK, Views, ViewportFollows, OnTheMap
<1>2. scale \in {1, 2}
  BY DEF ScaleFor
<1>3. CalcParams = [view EXCEPT !.viewport = port, !.scale = scale, !.position = pos[Me]]
  BY DEF CalcParams
<1>4. CASE scale # view.scale
  <2>1. port = Around(pos[Me], Half * scale)
    BY <1>4
  <2> HIDE DEF port, scale, Moved
  <2> QED
    BY <1>1, <1>2, <1>3, <2>1 DEF Views
<1>5. CASE scale = view.scale
  <2> DEFINE h == Half * scale
  <2>1. h \in Int
    BY <1>2 DEF ViewAssumption
  <2>2. view.viewport = Around(view.position, h)
    BY <1>1, <1>5
  <2>3. port = [a |-> Moved(view.viewport.a), b |-> Moved(view.viewport.b)]
    BY <1>5
  <2> HIDE DEF h
  <2>4. Moved(view.viewport.a) = [x |-> pos[Me].x - h, y |-> pos[Me].y - h]
    BY <1>1, <2>1, <2>2 DEF Around, Point
  <2>5. Moved(view.viewport.b) = [x |-> pos[Me].x + h, y |-> pos[Me].y + h]
    BY <1>1, <2>1, <2>2 DEF Around, Point
  <2>6. port = Around(pos[Me], h)
    BY <2>3, <2>4, <2>5 DEF Around
  <2> HIDE DEF port, scale, Moved
  <2> QED
    BY <1>1, <1>2, <1>3, <2>6 DEF Views, h
<1> QED
  BY <1>4, <1>5

\* synchronize() finds the sectors of the viewport, and keeps it.
LEMMA SynchronizeKeepsMapInv ==
  ASSUME GridAssumption, ViewAssumption, MapInv, Synchronize
  PROVE  MapInv'
<1>1. IInv /\ IInv'
  BY SynchronizeKeepsIInv DEF MapInv
<1>2. UNCHANGED <<pos, radius, food, sectors, corners, created, grown, viewers, latest>>
  BY DEF Synchronize
<1>3. /\ CalcParams \in Views
      /\ CalcParams.position = pos[Me]
      /\ CalcParams.viewport = Around(pos[Me], Half * CalcParams.scale)
      /\ CalcParams.scale \in {1, 2}
  <2>1. pos[Me] \in Point
    BY DEF MapInv, OnTheMap
  <2> QED
    BY <1>1, <2>1, CalcParamsType, ViewportAround DEF IInv
<1>4. /\ GetSector(Clip(CalcParams.viewport).a) \in Sector
      /\ GetSector(Clip(CalcParams.viewport).b) \in Sector
  <2>1. pos[Me] \in Point /\ Contains(MapBox, pos[Me]) /\ Half * CalcParams.scale \in Nat
    BY <1>3 DEF MapInv, OnTheMap, ViewAssumption
  <2>2. /\ Clip(CalcParams.viewport) \in Box
        /\ OnMap(Clip(CalcParams.viewport))
    <3>1. /\ CalcParams.viewport \in Box
          /\ OnMap(Clip(CalcParams.viewport))
      BY <1>3, <2>1, AroundIsOnMap
    <3> QED
      BY <3>1, ClipIsOnMap
  <2> QED
    BY <2>2, SectorOfPoint DEF OnMap, Box
<1>5. /\ GetSector(Clip(CalcParams.viewport).a) # NoSector
      /\ GetSector(Clip(CalcParams.viewport).b) # NoSector
  BY <1>4, NoSectorIsNone
<1>6. Send /\ UNCHANGED status
  BY <1>5 DEF Synchronize
<1>7. /\ view'.viewport = CalcParams.viewport
      /\ view'.position = CalcParams.position
      /\ view'.scale = CalcParams.scale
  <2> DEFINE v == Focused(CalcParams)
  <2>1. /\ v \in Views
        /\ v.viewport = CalcParams.viewport
        /\ v.position = CalcParams.position
        /\ v.scale = CalcParams.scale
    BY <1>3, <1>5, FocusedType
  <2>2. \/ view' = v
        \/ view' = [v EXCEPT !.sectors = Frame(view, v).sectors,
                             !.visible = (@ \ dead) \cup Frame(view, v).cells]
    BY <1>6 DEF Send
  <2> HIDE DEF v
  <2> QED
    BY <2>1, <2>2 DEF Views
<1>8. ViewportFollows'
  BY <1>3, <1>7 DEF ViewportFollows
<1>9. Live' = Live
  BY <1>2 DEF Live
<1>10. ASSUME NEW c \in Live' \ created'
       PROVE  /\ OnTheMap(pos'[c])
              /\ Right(c, Place(c), pos[c])'
              /\ c \notin grown' => Exact(c, Place(c), pos[c])'
  <2>1. /\ OnTheMap(pos[c])
        /\ Right(c, Place(c), pos[c])
        /\ c \notin grown => Exact(c, Place(c), pos[c])
    BY <1>2, <1>9, <1>10 DEF MapInv
  <2> QED
    BY <1>2, <2>1 DEF Right, Exact, Place, CornersAt
<1>11. ASSUME NEW c \in Live'
       PROVE  Unit <= radius'[c] /\ radius'[c] <= Width - Unit
  BY <1>2, <1>9, <1>11 DEF MapInv
<1> QED
  BY <1>1, <1>2, <1>6, <1>8, <1>10, <1>11 DEF MapInv

\* Neither a session that joins nor one that leaves touches the grid.
LEMMA SessionKeepsMapInv ==
  ASSUME GridAssumption, ViewAssumption, MapInv, NEW s \in Session,
         AddSession(s) \/ RemoveSession(s)
  PROVE  MapInv'
<1>1. IInv /\ IInv'
  BY AddSessionKeepsIInv, RemoveSessionKeepsIInv DEF MapInv
<1>2. UNCHANGED <<pos, radius, food, sectors, corners, created, grown, status>>
  BY DEF AddSession, RemoveSession, cellVars
<1>3. /\ view'.viewport = view.viewport
      /\ view'.position = view.position
      /\ view'.scale = view.scale
  BY <1>1 DEF AddSession, RemoveSession, IInv, TypeOK, Views
<1>4. ViewportFollows'
  BY <1>3 DEF MapInv, ViewportFollows
<1>5. Live' = Live
  BY <1>2 DEF Live
<1>6. ASSUME NEW c \in Live' \ created'
      PROVE  /\ OnTheMap(pos'[c])
             /\ Right(c, Place(c), pos[c])'
             /\ c \notin grown' => Exact(c, Place(c), pos[c])'
  <2>1. /\ OnTheMap(pos[c])
        /\ Right(c, Place(c), pos[c])
        /\ c \notin grown => Exact(c, Place(c), pos[c])
    BY <1>2, <1>5, <1>6 DEF MapInv
  <2> QED
    BY <1>2, <2>1 DEF Right, Exact, Place, CornersAt
<1>7. ASSUME NEW c \in Live'
      PROVE  Unit <= radius'[c] /\ radius'[c] <= Width - Unit
  BY <1>2, <1>5, <1>7 DEF MapInv
<1> QED
  BY <1>1, <1>2, <1>4, <1>6, <1>7 DEF MapInv

\* Every step preserves the invariant, on a map that fits.
LEMMA StepMapInv ==
  ASSUME GridAssumption, ViewAssumption, MapFits, MapInv, [Next]_vars
  PROVE  MapInv'
<1>1. CASE UNCHANGED vars
  <2>1. IInv'
    BY StepIInv DEF MapInv
  <2> QED
    BY <1>1, <2>1 DEF vars, cellVars, MapInv, ViewportFollows, Live, Right, Exact, Place, CornersAt
<1>2. ASSUME NEW c \in Cell, Create(c) \/ ChangeMass(c) \/ Bury(c)
      PROVE  MapInv'
  BY <1>2, CreateKeepsMapInv, ChangeMassKeepsMapInv, BuryKeepsMapInv
<1>3. ASSUME NEW s \in Session, AddSession(s) \/ RemoveSession(s)
      PROVE  MapInv'
  BY <1>3, SessionKeepsMapInv
<1> QED
  BY <1>1, <1>2, <1>3, UpdateKeepsMapInv, SynchronizeKeepsMapInv DEF Next

\* Neither the assertions of Gridmap::insert() and update() fail nor does
\* Player::synchronize() throw (NeverFails): every position is resolved to one
\* on the map before its sector is asked for, provided the map fits.  Where it
\* is wider than high they do fail, as the run view_flat shows.
THEOREM ViewNeverFails ==
  ASSUME GridAssumption, ViewAssumption, MapFits
  PROVE  Spec => []NeverFails
<1>1. Init => MapInv
  BY InitMapInv
<1>2. MapInv /\ [Next]_vars => MapInv'
  BY StepMapInv
<1>3. MapInv => NeverFails
  BY DEF MapInv, NeverFails
<1> QED
  BY <1>1, <1>2, <1>3, PTL DEF Spec

-----------------------------------------------------------------------------
\* Two cells that touch are listed in a common sector.
LEMMA TouchingAreFound ==
  ASSUME GridAssumption, MapInv,
         NEW c \in Live \ created, NEW d \in Live \ (created \cup grown),
         Meets(d, Clip(Around(pos[c], radius[c])))
  PROVE  sectors[d] \cap GetSectors(Around(pos[c], radius[c])) # {}
<1> DEFINE A == Clip(Around(pos[c], radius[c]))
           p == pos[d]
           r == radius[d]
           D == Clip(Around(p, r))
<1>1. /\ OnTheMap(pos[c]) /\ radius[c] \in Nat
      /\ OnTheMap(p) /\ r \in Nat /\ d \in Cell
      /\ Right(d, Place(d), p) /\ Exact(d, Place(d), p)
  BY DEF MapInv, IInv, TypeOK, Live
<1>2. A \in Box /\ OnMap(A) /\ ~IsEmpty(A)
  <2>1. pos[c] \in Point /\ Contains(MapBox, pos[c])
    BY <1>1 DEF OnTheMap
  <2>2. Around(pos[c], radius[c]) \in Box /\ ~IsEmpty(A) /\ OnMap(A)
    BY <1>1, <2>1, AroundIsOnMap
  <2> QED
    BY <2>2, ClipIsOnMap
<1>3. p \in Point /\ Contains(MapBox, p)
  BY <1>1 DEF OnTheMap
<1>4. Meets(d, A)
  OBVIOUS
<1> HIDE DEF A, p, r
<1>5. CASE d \in food
  <2> DEFINE P == [a |-> p, b |-> p]
  <2>1. Contains(A, p)
    BY <1>4, <1>5 DEF Meets, p
  <2>2. P \in Box
    BY <1>3 DEF Box
  <2>3. SectorsOf(A) \cap SectorsOf(P) # {}
    <3>1. /\ A.a.x <= A.b.x /\ A.a.y <= A.b.y
          /\ A.a.x <= p.x /\ p.x <= A.b.x /\ A.a.y <= p.y /\ p.y <= A.b.y
          /\ p.x <= p.x /\ p.y <= p.y
      BY <1>2, <1>3, <2>1 DEF IsEmpty, Contains, Box, Point
    <3> QED
      BY <1>2, <2>2, <3>1, OverlapSharesSector
  <2>4. SectorsOf(P) = {SectorAt(p)}
    BY <1>3, PointInOneSector
  <2>5. sectors[d] = {SectorAt(p)}
    BY <1>1, <1>5 DEF Right, Place
  <2> QED
    BY <2>3, <2>4, <2>5 DEF GetSectors, A
<1>6. CASE d \notin food
  <2>1. D \in Box /\ OnMap(D) /\ ~IsEmpty(D) /\ Between(CornersAt(d, p)) = SectorsOf(D)
    BY <1>1, CornersOnTheMap DEF r
  <2>2. sectors[d] = SectorsOf(D)
    BY <1>1, <1>6, <2>1 DEF Right, Exact, Place
  <2>3. CircleMeets(A, p, r)
    BY <1>4, <1>6 DEF Meets, p, r
  <2>4. /\ A.a.x <= A.b.x /\ A.a.y <= A.b.y /\ D.a.x <= D.b.x /\ D.a.y <= D.b.y
    <3>1. /\ A.a.x \in Int /\ A.b.x \in Int /\ A.a.y \in Int /\ A.b.y \in Int
          /\ D.a.x \in Int /\ D.b.x \in Int /\ D.a.y \in Int /\ D.b.y \in Int
      BY <1>2, <2>1 DEF Box, Point
    <3> HIDE DEF D
    <3> QED
      BY <1>2, <2>1, <3>1 DEF IsEmpty
  <2>5. /\ A.a.x <= D.b.x /\ D.a.x <= A.b.x /\ A.a.y <= D.b.y /\ D.a.y <= A.b.y
    <3>1. /\ D.a.x = Larger(p.x - r, 0) /\ D.a.y = Larger(p.y - r, 0)
          /\ D.b.x = Smaller(p.x + r, Width - Unit) /\ D.b.y = Smaller(p.y + r, Height - Unit)
      BY DEF Clip, MapBox, Around
    <3>2. /\ A.a.x \in Int /\ A.b.x \in Int /\ A.a.y \in Int /\ A.b.y \in Int
          /\ p.x \in Int /\ p.y \in Int /\ r \in Int
          /\ Width - Unit \in Int /\ Height - Unit \in Int
      BY <1>1, <1>2, <1>3 DEF Box, Point, GridAssumption
    <3>3. /\ 0 <= A.b.x /\ 0 <= A.b.y /\ A.a.x <= Width - Unit /\ A.a.y <= Height - Unit
      BY <1>2 DEF OnMap, Contains, MapBox
    <3>4. /\ A.a.x - p.x <= r /\ p.x - A.b.x <= r
          /\ A.a.y - p.y <= r /\ p.y - A.b.y <= r
      BY <2>3 DEF CircleMeets
    <3> HIDE DEF D
    <3> QED
      BY <3>1, <3>2, <3>3, <3>4 DEF Larger, Smaller
  <2> HIDE DEF D
  <2>6. SectorsOf(A) \cap SectorsOf(D) # {}
    BY <1>2, <2>1, <2>4, <2>5, OverlapSharesSector
  <2> QED
    BY <2>2, <2>6 DEF GetSectors, A
<1> QED
  BY <1>5, <1>6

\* A cell that looks for what it touches finds it (QueryFindsAll), although
\* Gridmap::update() leaves a cell in its sectors until its corners change.
THEOREM ViewQueryFindsAll ==
  ASSUME GridAssumption, ViewAssumption, MapFits
  PROVE  Spec => []QueryFindsAll
<1>1. Init => MapInv
  BY InitMapInv
<1>2. MapInv /\ [Next]_vars => MapInv'
  BY StepMapInv
<1>3. MapInv => QueryFindsAll
  <2> SUFFICES ASSUME MapInv,
                      NEW c \in Live \ created, NEW d \in Live \ (created \cup grown),
                      Meets(d, Clip(Around(pos[c], radius[c])))
               PROVE  d \in Query(Around(pos[c], radius[c]))
    BY DEF QueryFindsAll
  <2>1. sectors[d] \cap GetSectors(Around(pos[c], radius[c])) # {}
    BY TouchingAreFound
  <2> QED
    BY <2>1 DEF Query, Live
<1> QED
  BY <1>1, <1>2, <1>3, PTL DEF Spec

-----------------------------------------------------------------------------
\* Whole numbers of units.
Whole(n) == \E i \in Int : n = Unit * i

\* They are not closer than one unit.
LEMMA WholeSteps ==
  ASSUME GridAssumption, NEW a \in Int, NEW b \in Int, Whole(a), Whole(b), a < b + Unit
  PROVE  a <= b
<1>1. PICK i \in Int, j \in Int : a = Unit * i /\ b = Unit * j
  BY DEF Whole
<1>2. Unit \in Nat \ {0}
  BY DEF GridAssumption
<1>3. Unit * i < Unit * (j + 1)
  BY <1>1, <1>2
<1>4. i < j + 1
  BY <1>2, <1>3
<1> QED
  BY <1>1, <1>2, <1>4

\* Sums and multiples of them are whole.
LEMMA WholeSums ==
  ASSUME GridAssumption, NEW a \in Int, Whole(a), NEW b \in Int, Whole(b), NEW k \in Int
  PROVE  Whole(a + b) /\ Whole(k * a) /\ Whole(Unit)
<1>1. PICK i \in Int, j \in Int : a = Unit * i /\ b = Unit * j
  BY DEF Whole
<1>2. Unit \in Nat \ {0}
  BY DEF GridAssumption
<1>3. a + b = Unit * (i + j) /\ i + j \in Int
  BY <1>1, <1>2
<1>4. k * a = Unit * (k * i) /\ k * i \in Int
  <2>1. \A x, y, z \in Int : x * (y * z) = y * (x * z) /\ x * z \in Int
    OBVIOUS
  <2> QED
    BY <1>1, <1>2, <2>1
<1>5. Unit = Unit * 1
  BY <1>2
<1>6. Whole(a + b)
  BY <1>3 DEF Whole
<1>7. Whole(k * a)
  BY <1>4 DEF Whole
<1>8. Whole(Unit)
  BY <1>5 DEF Whole
<1> QED
  BY <1>6, <1>7, <1>8

\* So are the sizes of the map and of its sectors.
LEMMA WholeMap ==
  ASSUME GridAssumption, WholeAssumption
  PROVE  Whole(SectorSize) /\ Whole(Width) /\ Whole(Height)
<1>1. \A a \in Nat, n \in Nat \ {0} : a % n = 0 => a = n * (a \div n)
  BY Z3
<1>2. \A a \in Nat : a % Unit = 0 => Whole(a)
  <2> SUFFICES ASSUME NEW a \in Nat, a % Unit = 0
               PROVE  Whole(a)
    OBVIOUS
  <2>1. Unit \in Nat \ {0}
    BY DEF GridAssumption
  <2>2. a = Unit * (a \div Unit) /\ a \div Unit \in Int
    BY <1>1, <2>1, DivBounds
  <2> QED
    BY <2>2 DEF Whole
<1> QED
  BY <1>2 DEF GridAssumption, WholeAssumption

-----------------------------------------------------------------------------
\* The extent of a cell on one axis of length n: a point within the box of its
\* sector, or at least one unit long unless it ends with the map.
Extent(a, b, n) ==
  /\ a \in Int /\ b \in Int /\ 0 <= a /\ a <= b /\ b <= n - Unit
  /\ \/ a = b /\ a <= (a \div SectorSize) * SectorSize + SectorSize - Unit
     \/ b >= a + Unit
     \/ b = n - Unit

\* It overlaps the boxes of the sectors from l to r.
Overlaps(a, b, l, r) == l * SectorSize <= b /\ a <= r * SectorSize + SectorSize - Unit

\* What overlaps the boxes of some sectors is in one of them; and if it is in
\* none of them but those from k to m, then it overlaps their boxes also.
LEMMA AxisReach ==
  ASSUME GridAssumption, WholeAssumption, NEW n \in Nat, n > Unit, Whole(n),
         NEW a, NEW b, Extent(a, b, n),
         NEW l \in 0 .. (n - 1) \div SectorSize, NEW r \in 0 .. (n - 1) \div SectorSize,
         l <= r, Overlaps(a, b, l, r)
  PROVE  LET I == (a \div SectorSize .. b \div SectorSize) \cap (l .. r)
         IN  /\ I # {}
             /\ \A k, m \in 0 .. (n - 1) \div SectorSize :
                   I \subseteq k .. m => Overlaps(a, b, k, m)
<1> DEFINE S == SectorSize
           i == a \div S
           j == b \div S
           I == (i .. j) \cap (l .. r)
<1>1. /\ S \in Nat \ {0} /\ Unit \in Nat \ {0} /\ a \in Int /\ b \in Int /\ a <= b
      /\ l \in Int /\ r \in Int /\ n - 1 \in Int
      /\ S * l \in Int /\ S * r \in Int
  <2>1. (n - 1) \div S \in Int
    BY DivBounds DEF GridAssumption
  <2> QED
    BY <2>1 DEF GridAssumption, Extent
<1>2. /\ i \in Int /\ j \in Int /\ i <= j
      /\ S * i \in Int /\ S * i <= a /\ a < S * i + S
      /\ S * j \in Int /\ S * j <= b /\ b < S * j + S
  <2>1. i \in Int /\ j \in Int /\ i <= j
    BY <1>1, DivBounds, DivMonotone
  <2> QED
    BY <1>1, <2>1, DivBounds
<1>3. S * l <= b /\ a <= S * r + S - Unit
  BY <1>1 DEF Overlaps
<1>4. l <= j /\ i <= r
  <2>1. \A p, q \in Int : p < q => S * p + S <= S * q
    <3> SUFFICES ASSUME NEW p \in Int, NEW q \in Int, p < q
                 PROVE  S * p + S <= S * q
      OBVIOUS
    <3>1. p + 1 <= q /\ S * (p + 1) <= S * q /\ S * (p + 1) = S * p + S
      BY <1>1
    <3> QED
      BY <1>1, <3>1
  <2> HIDE DEF i, j, S
  <2>2. ASSUME j < l
        PROVE  FALSE
    BY <1>1, <1>2, <1>3, <2>1, <2>2
  <2>3. ASSUME r < i
        PROVE  FALSE
    BY <1>1, <1>2, <1>3, <2>1, <2>3
  <2> QED
    BY <1>1, <1>2, <2>2, <2>3
<1>5. PICK c : c \in I
  <2> HIDE DEF i, j, S
  <2>1. CASE i <= l
    <3>1. l \in i .. j /\ l \in l .. r
      BY <1>1, <1>2, <1>4, <2>1
    <3> QED
      BY <3>1
  <2>2. CASE l <= i
    <3>1. i \in i .. j /\ i \in l .. r
      BY <1>1, <1>2, <1>4, <2>2
    <3> QED
      BY <3>1
  <2> QED
    BY <1>1, <1>2, <2>1, <2>2
<1>6. ASSUME NEW k \in 0 .. (n - 1) \div S, NEW m \in 0 .. (n - 1) \div S, I \subseteq k .. m
      PROVE  Overlaps(a, b, k, m)
  <2>1. k \in Int /\ m \in Int /\ S * k \in Int /\ S * m \in Int
    BY <1>1
  <2>2. c \in Int /\ k <= c /\ c <= m /\ i <= c /\ c <= j /\ l <= c /\ c <= r
    BY <1>2, <1>5, <1>6
  <2> HIDE DEF i, j, I, S
  <2>3. S * k <= b
    <3>1. k <= j
      BY <1>2, <2>1, <2>2
    <3>2. S * k <= S * j
      BY <1>1, <1>2, <2>1, <3>1
    <3> QED
      BY <1>1, <1>2, <2>1, <3>2
  <2>4. ASSUME a > S * m + S - Unit
        PROVE  FALSE
    <3>1. m < r
      <4>1. ASSUME r <= m
            PROVE  FALSE
        <5>1. S * r <= S * m
          BY <1>1, <2>1, <4>1
        <5> QED
          BY <1>1, <1>3, <2>1, <2>4, <5>1
      <4> QED
        BY <1>1, <2>1, <4>1
    <3>2. S * (m + 1) = S * m + S /\ S * (m + 1) \in Int /\ m + 1 \in Int
      BY <1>1, <2>1
    <3>3. i = m
      <4>1. ASSUME i < m
            PROVE  FALSE
        <5>1. S * (i + 1) <= S * m /\ S * (i + 1) = S * i + S
          BY <1>1, <1>2, <2>1, <4>1
        <5>2. Unit <= S
          <6>1. Whole(S) /\ Whole(Unit)
            BY <1>1, WholeMap, WholeSums DEF S
          <6>2. Unit < S + Unit
            BY <1>1
          <6> QED
            BY <1>1, <6>1, <6>2, WholeSteps
        <5> QED
          BY <1>1, <1>2, <2>1, <2>4, <5>1, <5>2
      <4> QED
        BY <1>2, <2>1, <2>2, <4>1
    <3>4. S * (m + 1) <= b
      <4>1. CASE a = b /\ a <= i * S + S - Unit
        BY <1>1, <1>2, <2>1, <2>4, <3>3, <4>1
      <4>2. CASE b >= a + Unit
        BY <1>1, <2>1, <2>4, <3>2, <4>2
      <4>3. CASE b = n - Unit
        <5>1. S * (m + 1) <= S * r
          BY <1>1, <2>1, <3>1, <3>2
        <5>2. S * r <= n - 1
          <6>1. r <= (n - 1) \div S
            BY <1>1 DEF S
          <6> QED
            BY <1>1, <6>1, DivOf
        <5>3. Whole(S * r + Unit)
          <6>1. Whole(S) /\ Whole(Unit)
            BY <1>1, WholeMap, WholeSums DEF S
          <6>2. Whole(r * S) /\ r * S = S * r
            BY <1>1, <6>1, WholeSums
          <6> QED
            BY <1>1, <6>1, <6>2, WholeSums
        <5>4. S * r + Unit \in Int /\ S * r + Unit < n + Unit
          BY <1>1, <5>2
        <5>5. S * r + Unit <= n
          BY <1>1, <5>3, <5>4, WholeSteps
        <5> QED
          BY <1>1, <2>1, <3>2, <4>3, <5>1, <5>5
      <4> QED
        BY <4>1, <4>2, <4>3 DEF Extent, i, S
    <3>5. m + 1 <= j
      <4>1. ASSUME j < m + 1
            PROVE  FALSE
        <5>1. j + 1 <= m + 1 /\ S * (j + 1) = S * j + S /\ S * (j + 1) <= S * (m + 1)
          BY <1>1, <1>2, <2>1, <4>1
        <5> QED
          BY <1>1, <1>2, <2>1, <3>2, <3>4, <5>1
      <4> QED
        BY <1>2, <2>1, <4>1
    <3>6. m + 1 \in I
      BY <1>1, <1>2, <2>1, <2>2, <3>1, <3>3, <3>5 DEF I
    <3> QED
      BY <1>6, <2>1, <3>6
  <2>5. a <= S * m + S - Unit
    BY <1>1, <2>1, <2>4
  <2> QED
    BY <1>1, <2>1, <2>3, <2>5 DEF Overlaps, S
<1> QED
  BY <1>5, <1>6

\* The box of the sectors from one to another, which m_viewbox is.
Hull(s, t) == [a |-> SectorBox(s).a, b |-> SectorBox(t).b]

\* The sectors of a map of length n begin on it, and are not smaller than a unit.
LEMMA SectorEdges ==
  ASSUME GridAssumption, WholeAssumption, NEW n \in Nat, n > Unit, Whole(n),
         NEW l \in 0 .. (n - 1) \div SectorSize
  PROVE  /\ l \in Int /\ l * SectorSize \in Int /\ 0 <= l * SectorSize
         /\ l * SectorSize <= n - Unit /\ Unit <= SectorSize
<1>1. SectorSize \in Nat \ {0} /\ Unit \in Nat \ {0} /\ n - 1 \in Int
  BY DEF GridAssumption
<1>2. (n - 1) \div SectorSize \in Int
  BY <1>1, DivBounds
<1>3. l \in Nat /\ l <= (n - 1) \div SectorSize
  BY <1>2
<1>4. SectorSize * l <= n - 1
  BY <1>1, <1>3, DivOf
<1>5. l * SectorSize = SectorSize * l /\ l * SectorSize \in Nat
  BY <1>1, <1>3
<1>6. Whole(SectorSize) /\ Whole(Unit) /\ SectorSize \in Int /\ Unit \in Int
  BY <1>1, WholeMap, WholeSums
<1>7. Unit <= SectorSize
  <2>1. Unit < SectorSize + Unit
    BY <1>1
  <2> QED
    BY <1>6, <2>1, WholeSteps
<1>8. l * SectorSize + Unit <= n
  <2> DEFINE e == l * SectorSize
  <2>1. Whole(e) /\ e \in Int
    BY <1>3, <1>5, <1>6, WholeSums
  <2> HIDE DEF e
  <2>2. Whole(e + Unit) /\ e + Unit \in Int
    BY <1>6, <2>1, WholeSums
  <2>3. e + Unit < n + Unit
    BY <1>1, <1>4, <1>5, <2>1 DEF e
  <2> QED
    BY <2>2, <2>3, WholeSteps DEF e
<1> QED
  BY <1>1, <1>3, <1>5, <1>7, <1>8

\* What a cell at p with radius r overlaps.
ReachOf(a, b, n, p, r) ==
  \A l, m \in 0 .. (n - 1) \div SectorSize :
    Overlaps(a, b, l, m) <=> /\ l * SectorSize - p <= r
                             /\ p - (m * SectorSize + SectorSize - Unit) <= r

\* The box of a cell, clipped on one axis, overlaps the boxes of the same sectors.
LEMMA AxisOfCell ==
  ASSUME GridAssumption, WholeAssumption, NEW n \in Nat, n > Unit, Whole(n),
         NEW p \in Int, 0 <= p, p <= n - Unit, NEW r \in Nat, Unit <= r,
         NEW a, a = Larger(p - r, 0), NEW b, b = Smaller(p + r, n - Unit)
  PROVE  /\ Extent(a, b, n)
         /\ ReachOf(a, b, n, p, r)
<1>1. SectorSize \in Nat \ {0} /\ Unit \in Nat \ {0}
  BY DEF GridAssumption
<1>2. /\ a \in Int /\ b \in Int /\ 0 <= a /\ a <= b /\ b <= n - Unit
      /\ b >= a + Unit \/ b = n - Unit
  BY <1>1 DEF Larger, Smaller
<1>3. ASSUME NEW l \in 0 .. (n - 1) \div SectorSize, NEW m \in 0 .. (n - 1) \div SectorSize
      PROVE  Overlaps(a, b, l, m) <=>
               /\ l * SectorSize - p <= r
               /\ p - (m * SectorSize + SectorSize - Unit) <= r
  <2> DEFINE i == l * SectorSize
             j == m * SectorSize
  <2>1. /\ i \in Int /\ 0 <= i /\ i <= n - Unit /\ j \in Int /\ 0 <= j
        /\ Unit <= SectorSize
    BY SectorEdges
  <2> HIDE DEF i, j
  <2>2. i <= b <=> i - p <= r
    BY <1>1, <2>1 DEF Smaller
  <2>3. a <= j + SectorSize - Unit <=> p - (j + SectorSize - Unit) <= r
    BY <1>1, <2>1 DEF Larger
  <2> QED
    BY <2>2, <2>3 DEF Overlaps, i, j
<1> QED
  BY <1>2, <1>3 DEF Extent, ReachOf

\* D is the box of c on the map: c is listed in the sectors under it, and meets
\* the boxes of the sectors that it overlaps.
Covers(D, c) ==
  /\ Extent(D.a.x, D.b.x, Width) /\ Extent(D.a.y, D.b.y, Height)
  /\ sectors[c] = SectorsOf(D)
  /\ \A s, t \in Sector :
        Meets(c, Hull(s, t)) <=> /\ Overlaps(D.a.x, D.b.x, s.col, t.col)
                                 /\ Overlaps(D.a.y, D.b.y, s.row, t.row)

\* A cell on the grid that did not change its size since has such a box, food
\* if it lies in the box of its sector.
LEMMA CellIsCovered ==
  ASSUME GridAssumption, WholeAssumption, MapInv,
         NEW c \in Live \ (created \cup grown), Boxed(c)
  PROVE  \E D : Covers(D, c)
<1> DEFINE p == pos[c]
           r == radius[c]
<1>1. /\ OnTheMap(p) /\ r \in Nat /\ Unit <= r /\ c \in Cell
      /\ Right(c, Place(c), p) /\ Exact(c, Place(c), p)
  BY DEF MapInv, IInv, TypeOK, Live
<1>2. /\ p \in Point /\ Contains(MapBox, p)
      /\ p.x \in Int /\ 0 <= p.x /\ p.x <= Width - Unit
      /\ p.y \in Int /\ 0 <= p.y /\ p.y <= Height - Unit
  BY <1>1 DEF OnTheMap, Point, Contains, MapBox
<1>3. /\ Width \in Nat /\ Width > Unit /\ Whole(Width)
      /\ Height \in Nat /\ Height > Unit /\ Whole(Height)
      /\ SectorSize \in Nat \ {0} /\ Unit \in Nat \ {0}
  BY WholeMap DEF GridAssumption
<1>4. \A s, t \in Sector :
        /\ s.col \in 0 .. (Width - 1) \div SectorSize /\ t.col \in 0 .. (Width - 1) \div SectorSize
        /\ s.row \in 0 .. (Height - 1) \div SectorSize /\ t.row \in 0 .. (Height - 1) \div SectorSize
        /\ Hull(s, t).a.x = s.col * SectorSize
        /\ Hull(s, t).a.y = s.row * SectorSize
        /\ Hull(s, t).b.x = t.col * SectorSize + SectorSize - Unit
        /\ Hull(s, t).b.y = t.row * SectorSize + SectorSize - Unit
  BY DEF Sector, Rows, Columns, Hull, SectorBox
<1>5. CASE c \in food
  <2> DEFINE D == [a |-> p, b |-> p]
  <2>1. /\ p.x <= (p.x \div SectorSize) * SectorSize + SectorSize - Unit
        /\ p.y <= (p.y \div SectorSize) * SectorSize + SectorSize - Unit
    BY <1>5 DEF Boxed, Contains, SectorBox, SectorAt
  <2>2. Extent(D.a.x, D.b.x, Width) /\ Extent(D.a.y, D.b.y, Height)
    BY <1>2, <2>1 DEF Extent
  <2>3. sectors[c] = SectorsOf(D)
    BY <1>1, <1>2, <1>5, PointInOneSector DEF Right, Place
  <2>4. ASSUME NEW s \in Sector, NEW t \in Sector
        PROVE  Meets(c, Hull(s, t)) <=> /\ Overlaps(D.a.x, D.b.x, s.col, t.col)
                                        /\ Overlaps(D.a.y, D.b.y, s.row, t.row)
    BY <1>4, <1>5 DEF Meets, Contains, Overlaps
  <2> QED
    BY <2>2, <2>3, <2>4 DEF Covers
<1>6. CASE c \notin food
  <2> DEFINE D == Clip(Around(p, r))
  <2>1. sectors[c] = SectorsOf(D)
    <3>1. Between(CornersAt(c, p)) = SectorsOf(D)
      BY <1>1, CornersOnTheMap
    <3> QED
      BY <1>1, <1>6, <3>1 DEF Right, Exact, Place
  <2>2. /\ D.a.x = Larger(p.x - r, 0) /\ D.a.y = Larger(p.y - r, 0)
        /\ D.b.x = Smaller(p.x + r, Width - Unit) /\ D.b.y = Smaller(p.y + r, Height - Unit)
    BY DEF Clip, MapBox, Around
  <2> HIDE DEF D
  <2>3. /\ Extent(D.a.x, D.b.x, Width)
        /\ ReachOf(D.a.x, D.b.x, Width, p.x, r)
    BY <1>1, <1>2, <1>3, <2>2, AxisOfCell
  <2>4. /\ Extent(D.a.y, D.b.y, Height)
        /\ ReachOf(D.a.y, D.b.y, Height, p.y, r)
    BY <1>1, <1>2, <1>3, <2>2, AxisOfCell
  <2>5. ASSUME NEW s \in Sector, NEW t \in Sector
        PROVE  Meets(c, Hull(s, t)) <=> /\ Overlaps(D.a.x, D.b.x, s.col, t.col)
                                        /\ Overlaps(D.a.y, D.b.y, s.row, t.row)
    <3>1. Meets(c, Hull(s, t)) <=>
            /\ s.col * SectorSize - p.x <= r
            /\ p.x - (t.col * SectorSize + SectorSize - Unit) <= r
            /\ s.row * SectorSize - p.y <= r
            /\ p.y - (t.row * SectorSize + SectorSize - Unit) <= r
      BY <1>4, <1>6 DEF Meets, CircleMeets
    <3> QED
      BY <1>4, <2>3, <2>4, <3>1 DEF ReachOf
  <2> QED
    BY <2>1, <2>3, <2>4, <2>5 DEF Covers
<1> QED
  BY <1>5, <1>6

\* So a cell that meets the box of a view is in one of its sectors; and if it is
\* only in sectors of an older view too, then it met the box of that.
LEMMA ViewReach ==
  ASSUME GridAssumption, WholeAssumption, MapInv,
         NEW c \in Live \ (created \cup grown), Boxed(c),
         NEW s \in Sector, NEW t \in Sector, s.row <= t.row, s.col <= t.col,
         Meets(c, Hull(s, t))
  PROVE  /\ sectors[c] \cap Between(<<s, t>>) # {}
         /\ \A u, v \in Sector :
               sectors[c] \cap Between(<<s, t>>) \subseteq Between(<<u, v>>) =>
                 Meets(c, Hull(u, v))
<1>1. PICK D : Covers(D, c)
  BY CellIsCovered
<1> DEFINE C == (D.a.x \div SectorSize .. D.b.x \div SectorSize) \cap (s.col .. t.col)
           R == (D.a.y \div SectorSize .. D.b.y \div SectorSize) \cap (s.row .. t.row)
<1>2. /\ Width \in Nat /\ Width > Unit /\ Whole(Width)
      /\ Height \in Nat /\ Height > Unit /\ Whole(Height)
  BY WholeMap DEF GridAssumption
<1>3. \A u \in Sector : /\ u.col \in 0 .. (Width - 1) \div SectorSize
                        /\ u.row \in 0 .. (Height - 1) \div SectorSize
  BY DEF Sector, Rows, Columns
<1>4. /\ Overlaps(D.a.x, D.b.x, s.col, t.col) /\ Overlaps(D.a.y, D.b.y, s.row, t.row)
      /\ Extent(D.a.x, D.b.x, Width) /\ Extent(D.a.y, D.b.y, Height)
  BY <1>1 DEF Covers
<1>5. /\ C # {}
      /\ \A k, m \in 0 .. (Width - 1) \div SectorSize :
            C \subseteq k .. m => Overlaps(D.a.x, D.b.x, k, m)
  BY <1>2, <1>3, <1>4, AxisReach
<1>6. /\ R # {}
      /\ \A k, m \in 0 .. (Height - 1) \div SectorSize :
            R \subseteq k .. m => Overlaps(D.a.y, D.b.y, k, m)
  BY <1>2, <1>3, <1>4, AxisReach
<1>7. \A i, j : i \in R /\ j \in C => [row |-> i, col |-> j] \in sectors[c] \cap Between(<<s, t>>)
  BY <1>1 DEF Covers, SectorsOf, SectorAt, Between
<1> HIDE DEF C, R
<1>8. ASSUME NEW u \in Sector, NEW v \in Sector,
             sectors[c] \cap Between(<<s, t>>) \subseteq Between(<<u, v>>)
      PROVE  Meets(c, Hull(u, v))
  <2>1. \A i, j : i \in R /\ j \in C => i \in u.row .. v.row /\ j \in u.col .. v.col
    <3> SUFFICES ASSUME NEW i \in R, NEW j \in C
                 PROVE  i \in u.row .. v.row /\ j \in u.col .. v.col
      OBVIOUS
    <3> DEFINE y == [row |-> i, col |-> j]
    <3>1. y \in Between(<<u, v>>)
      BY <1>7, <1>8
    <3> QED
      BY <3>1 DEF Between
  <2>2. R \subseteq u.row .. v.row /\ C \subseteq u.col .. v.col
    BY <1>5, <1>6, <2>1
  <2>3. Overlaps(D.a.x, D.b.x, u.col, v.col) /\ Overlaps(D.a.y, D.b.y, u.row, v.row)
    BY <1>3, <1>5, <1>6, <2>2
  <2> QED
    BY <1>1, <2>3 DEF Covers
<1> QED
  BY <1>5, <1>6, <1>7, <1>8

-----------------------------------------------------------------------------
\* While somebody watches, the view is about the sectors between its corners, or
\* about none since a session was added.
FocusInv ==
  viewers # {} =>
    \/ view.leftTop = NoSector /\ view.sectors = {}
    \/ /\ view.leftTop \in Sector /\ view.rightBottom \in Sector
       /\ view.sectors = Between(<<view.leftTop, view.rightBottom>>)
       /\ view.viewbox = Hull(view.leftTop, view.rightBottom)

\* What was created since the last frame is reported by the next: an update()
\* that makes a frame due has put all on the grid.
NewsInv == updated => created \subseteq modified

\* What a client has to show: a cell in the box of the view, if it waits for the
\* grid or is in a sector of the view, and did not change since the last frame.
Due(c) ==
  /\ c \in Live \ modified
  /\ Boxed(c) /\ Meets(c, view.viewbox)
  /\ c \in created \/ (c \notin grown /\ sectors[c] \cap view.sectors # {})
PictureInv ==
  view.sectors # {} => \A s \in viewers, c \in Cell : Due(c) => shown[s][c] = Look(c)

FrameInv == FocusInv /\ NewsInv /\ PictureInv

\* Nobody watches at first.
LEMMA InitFrameInv ==
  ASSUME Init
  PROVE  FrameInv
BY DEF Init, FrameInv, FocusInv, NewsInv, PictureInv, NewView

\* A cell that comes or changes is modified, and one that dies is gone.
LEMMA CellKeepsFrameInv ==
  ASSUME IInv, FrameInv, NEW d \in Cell, Create(d) \/ ChangeMass(d) \/ Bury(d)
  PROVE  FrameInv'
<1>1. UNCHANGED <<view, viewers, shown, updated>>
  BY DEF Create, ChangeMass, Bury
<1>2. FocusInv'
  BY <1>1 DEF FrameInv, FocusInv
<1>3. NewsInv'
  BY DEF Create, ChangeMass, Bury, FrameInv, NewsInv
<1>4. ASSUME NEW c \in Cell, Due(c)'
      PROVE  Due(c) /\ Look(c)' = Look(c)
  <2>1. c # d
    BY <1>4 DEF Due, Create, ChangeMass, Bury, Live, IInv, TypeOK
  <2>2. /\ pos'[c] = pos[c] /\ radius'[c] = radius[c] /\ sectors'[c] = sectors[c]
        /\ c \in food' <=> c \in food
        /\ c \in modified' <=> c \in modified
        /\ c \in created' <=> c \in created
        /\ c \in grown' <=> c \in grown
    BY <2>1 DEF Create, ChangeMass, Bury, IInv, TypeOK
  <2>3. Boxed(c)' = Boxed(c) /\ Meets(c, view.viewbox)' = Meets(c, view.viewbox)
    BY <1>1, <2>2 DEF Boxed, Meets
  <2> QED
    BY <1>1, <1>4, <2>2, <2>3 DEF Due, Live, Look
<1>5. PictureInv'
  BY <1>1, <1>4 DEF FrameInv, PictureInv
<1> QED
  BY <1>2, <1>3, <1>5 DEF FrameInv

\* update() moves what it adds to the modified cells, and nothing else: a created
\* cell whose position is resolved to another one touches the border.
LEMMA UpdateKeepsFrameInv ==
  ASSUME GridAssumption, ViewAssumption, IInv, FrameInv, Update
  PROVE  FrameInv'
<1>1. UNCHANGED <<view, viewers, shown, radius, food>> /\ created' = {}
  BY DEF Update
<1>2. FocusInv'
  BY <1>1 DEF FrameInv, FocusInv
<1>3. NewsInv'
  BY <1>1 DEF NewsInv
<1>4. PICK moving \in {{}} \cup {{c} : c \in Live} : \E to \in [moving -> Spots] :
        LET last(c) == IF c \in moving THEN Resolved(to[c], radius[c]) ELSE FirstPos(c)
            after(c) == IF c \in moving THEN Shifted(c, FirstPlace(c), last(c)) ELSE FirstPlace(c)
        IN  /\ pos' = [c \in Cell |-> last(c)]
            /\ sectors' = [c \in Cell |-> after(c).sectors]
            /\ modified' = modified \cup moving
                             \cup {c \in created : Touches(pos[c], radius[c])}
            /\ grown' = grown \ (created \cup moving)
  BY DEF Update
<1>5. ASSUME NEW c \in Cell, Due(c)'
      PROVE  Due(c) /\ Look(c)' = Look(c)
  <2>1. c \notin moving /\ c \notin modified /\ ~(c \in created /\ Touches(pos[c], radius[c]))
    BY <1>4, <1>5 DEF Due
  <2>2. pos'[c] = FirstPos(c) /\ sectors'[c] = FirstPlace(c).sectors
    BY <1>4, <2>1
  <2>3. FirstPos(c) = pos[c]
    <3>1. CASE c \notin created
      BY <3>1 DEF FirstPos
    <3>2. CASE c \in created
      <4>1. pos[c] \in Point /\ radius[c] \in Nat /\ Width \in Nat
        BY <3>2 DEF IInv, TypeOK, Live, GridAssumption
      <4>2. /\ ~(radius[c] - pos[c].x >= 0) /\ ~(pos[c].x + radius[c] - Width >= 0)
            /\ ~(radius[c] - pos[c].y >= 0) /\ ~(pos[c].y + radius[c] - Width >= 0)
        BY <2>1, <3>2 DEF Touches
      <4>3. Resolved(pos[c], radius[c]) = [x |-> pos[c].x, y |-> pos[c].y]
        BY <4>2 DEF Resolved, ResolvedOn
      <4> QED
        BY <3>2, <4>1, <4>3 DEF FirstPos, Point
    <3> QED
      BY <3>1, <3>2
  <2>4. c \in Live
    BY <1>5, <2>2, <2>3 DEF Due, Live
  <2>5. Boxed(c)' = Boxed(c) /\ Meets(c, view.viewbox)' = Meets(c, view.viewbox)
    BY <1>1, <2>2, <2>3 DEF Boxed, Meets
  <2>6. c \notin created => c \notin grown /\ sectors'[c] = sectors[c]
    BY <1>1, <1>4, <1>5, <2>1, <2>2 DEF Due, FirstPlace, Place
  <2>7. Due(c)
    BY <1>1, <1>5, <2>1, <2>4, <2>5, <2>6 DEF Due
  <2> QED
    BY <1>1, <2>2, <2>3, <2>7 DEF Look
<1>6. PictureInv'
  BY <1>1, <1>5 DEF FrameInv, PictureInv
<1> QED
  BY <1>2, <1>3, <1>6 DEF FrameInv

\* A session that joins makes the view forget its sectors.
LEMMA SessionKeepsFrameInv ==
  ASSUME IInv, FrameInv, NEW s \in Session, AddSession(s) \/ RemoveSession(s)
  PROVE  FrameInv'
<1>1. UNCHANGED cellVars /\ UNCHANGED updated
  BY DEF AddSession, RemoveSession
<1>2. NewsInv'
  BY <1>1 DEF cellVars, FrameInv, NewsInv
<1>3. view \in Views /\ shown \in [Session -> [Cell -> (Point \X Nat) \cup {Nowhere}]]
  BY DEF IInv, TypeOK
<1>4. CASE AddSession(s)
  <2>1. view'.leftTop = NoSector /\ view'.sectors = {}
    BY <1>3, <1>4 DEF AddSession, Views
  <2> QED
    BY <1>2, <2>1 DEF FrameInv, FocusInv, PictureInv
<1>5. CASE RemoveSession(s)
  <2>1. UNCHANGED view /\ viewers' = viewers \ {s} /\ \A t \in viewers' : shown'[t] = shown[t]
    BY <1>3, <1>5 DEF RemoveSession, IInv, TypeOK
  <2>2. FocusInv'
    BY <2>1 DEF FrameInv, FocusInv
  <2>3. \A c \in Cell : Due(c)' = Due(c) /\ Look(c)' = Look(c)
    BY <1>1, <2>1 DEF cellVars, Due, Live, Boxed, Meets, Look
  <2>4. PictureInv'
    BY <2>1, <2>3 DEF FrameInv, PictureInv
  <2> QED
    BY <1>2, <2>2, <2>4 DEF FrameInv
<1> QED
  BY <1>4, <1>5

\* One axis of the screen, which is one unit smaller than the viewport.
LEMMA AxisOfScreen ==
  ASSUME GridAssumption, WholeAssumption, NEW n \in Nat, n > Unit, Whole(n),
         NEW p \in Int, NEW h \in Int,
         NEW a, a = Larger(p - h, 0), a <= n - Unit,
         NEW b, b = Smaller(p + h, n - Unit), 0 <= b
  PROVE  /\ (a \div SectorSize) * SectorSize <= Larger(p - (h - Unit), 0)
         /\ Smaller(p + (h - Unit), n - Unit)
              <= (b \div SectorSize) * SectorSize + SectorSize - Unit
<1>1. SectorSize \in Nat \ {0} /\ Unit \in Nat \ {0} /\ a \in Int /\ b \in Int
  BY DEF GridAssumption, Larger, Smaller
<1>2. PICK i \in Int : i = a \div SectorSize
  BY <1>1, DivBounds
<1>3. PICK j \in Int : j = b \div SectorSize
  BY <1>1, DivBounds
<1>4. /\ SectorSize * i <= a /\ b < SectorSize * j + SectorSize
      /\ i * SectorSize = SectorSize * i /\ i * SectorSize \in Int
      /\ j * SectorSize = SectorSize * j /\ j * SectorSize \in Int
  <2>1. SectorSize * (a \div SectorSize) <= a
    BY <1>1, DivBounds
  <2>2. b < SectorSize * (b \div SectorSize) + SectorSize
    BY <1>1, DivBounds
  <2>3. /\ i * SectorSize = SectorSize * i /\ i * SectorSize \in Int
        /\ j * SectorSize = SectorSize * j /\ j * SectorSize \in Int
    BY <1>1
  <2> QED
    BY <1>2, <1>3, <2>1, <2>2, <2>3
<1>5. i * SectorSize <= Larger(p - (h - Unit), 0)
  BY <1>1, <1>4 DEF Larger
<1> DEFINE e == j * SectorSize + SectorSize
<1>6. Whole(e) /\ e \in Int
  <2>1. Whole(SectorSize) /\ SectorSize \in Int
    BY <1>1, WholeMap
  <2>2. Whole(j * SectorSize) /\ j * SectorSize \in Int
    BY <1>4, <2>1, WholeSums
  <2> QED
    BY <1>1, <2>1, <2>2, WholeSums
<1>7. b < e
  BY <1>1, <1>4
<1> HIDE DEF e
<1>8. Smaller(p + (h - Unit), n - Unit) <= e - Unit
  <2>1. CASE b = p + h
    BY <1>1, <1>6, <1>7, <2>1 DEF Smaller
  <2>2. CASE b = n - Unit
    <3>1. n < e + Unit
      BY <1>1, <1>6, <1>7, <2>2
    <3>2. n <= e
      BY <1>6, <3>1, WholeSteps
    <3> QED
      BY <1>1, <1>6, <3>2 DEF Smaller
  <2> QED
    BY <2>1, <2>2 DEF Smaller
<1> QED
  BY <1>2, <1>3, <1>5, <1>8 DEF e

\* A box within another one.
Within(box, hull) ==
  /\ hull.a.x <= box.a.x /\ hull.a.y <= box.a.y
  /\ box.b.x <= hull.b.x /\ box.b.y <= hull.b.y

\* What meets it, meets the other one.
LEMMA MeetsHull ==
  ASSUME TypeOK, NEW c \in Live, NEW box \in Box, NEW hull \in Box,
         Within(box, hull), Meets(c, box)
  PROVE  Meets(c, hull)
<1>1. /\ pos[c].x \in Int /\ pos[c].y \in Int /\ radius[c] \in Int
      /\ box.a.x \in Int /\ box.a.y \in Int /\ box.b.x \in Int /\ box.b.y \in Int
      /\ hull.a.x \in Int /\ hull.a.y \in Int /\ hull.b.x \in Int /\ hull.b.y \in Int
  <2>1. pos[c] \in Point /\ radius[c] \in Nat
    BY DEF TypeOK, Live
  <2> QED
    BY <2>1 DEF Box, Point
<1> QED
  BY <1>1 DEF Within, Meets, Contains, CircleMeets

\* The viewport of synchronize(), clipped: the sectors of its corners, which the
\* screen is within.
LEMMA PortOnMap ==
  ASSUME GridAssumption, WholeAssumption, ViewAssumption, MapInv,
         NEW port, port = Clip(CalcParams.viewport),
         NEW s, s = SectorAt(port.a), NEW t, t = SectorAt(port.b)
  PROVE  /\ s \in Sector /\ GetSector(port.a) = s
         /\ t \in Sector /\ GetSector(port.b) = t
         /\ s.row <= t.row /\ s.col <= t.col
         /\ SectorsOf(port) = Between(<<s, t>>)
         /\ Clip(Screen) \in Box /\ Hull(s, t) \in Box
         /\ Within(Clip(Screen), Hull(s, t))
<1> DEFINE P == pos[Me]
           h == Half * CalcParams.scale
<1>1. /\ P \in Point /\ Contains(MapBox, P) /\ h \in Nat
      /\ CalcParams.viewport = Around(P, h) /\ CalcParams.scale = ScaleFor(radius[Me])
  <2>1. /\ CalcParams.viewport = Around(P, h) /\ CalcParams.scale \in {1, 2}
    BY ViewportAround
  <2>2. CalcParams.scale = ScaleFor(radius[Me])
    BY DEF CalcParams, MapInv, IInv, TypeOK, Views
  <2> QED
    BY <2>1, <2>2 DEF MapInv, OnTheMap, ViewAssumption
<1>2. Screen = Around(P, h - Unit)
  BY <1>1 DEF Screen
<1> HIDE DEF P, h
<1>3. port \in Box /\ OnMap(port) /\ ~IsEmpty(port)
  <2>1. /\ Around(P, h) \in Box
        /\ ~IsEmpty(Clip(Around(P, h)))
        /\ OnMap(Clip(Around(P, h)))
    BY <1>1, AroundIsOnMap
  <2> QED
    BY <1>1, <2>1, ClipIsOnMap
<1>4. /\ port.a.x \in Int /\ port.a.y \in Int /\ port.b.x \in Int /\ port.b.y \in Int
      /\ port.a.x <= port.b.x /\ port.a.y <= port.b.y
      /\ 0 <= port.b.x /\ 0 <= port.b.y
      /\ port.a.x <= Width - Unit /\ port.a.y <= Height - Unit
  BY <1>3 DEF Box, Point, IsEmpty, OnMap, Contains, MapBox
<1>5. /\ s \in Sector /\ GetSector(port.a) = s
      /\ t \in Sector /\ GetSector(port.b) = t
  BY <1>3, SectorOfPoint DEF Box, OnMap
<1>6. s.row <= t.row /\ s.col <= t.col
  BY <1>4, DivMonotone DEF SectorAt, GridAssumption
<1>7. SectorsOf(port) = Between(<<s, t>>)
  BY DEF SectorsOf, Between
<1>8. /\ Width \in Nat /\ Width > Unit /\ Whole(Width)
      /\ Height \in Nat /\ Height > Unit /\ Whole(Height)
      /\ P.x \in Int /\ P.y \in Int /\ h \in Int
  BY <1>1, WholeMap DEF GridAssumption, Point
<1>9. /\ port.a.x = Larger(P.x - h, 0) /\ port.a.y = Larger(P.y - h, 0)
      /\ port.b.x = Smaller(P.x + h, Width - Unit) /\ port.b.y = Smaller(P.y + h, Height - Unit)
  BY <1>1 DEF Clip, MapBox, Around
<1>10. /\ Clip(Screen).a.x = Larger(P.x - (h - Unit), 0)
       /\ Clip(Screen).a.y = Larger(P.y - (h - Unit), 0)
       /\ Clip(Screen).b.x = Smaller(P.x + (h - Unit), Width - Unit)
       /\ Clip(Screen).b.y = Smaller(P.y + (h - Unit), Height - Unit)
  BY <1>2 DEF Clip, MapBox, Around
<1>11. /\ Hull(s, t).a.x = (port.a.x \div SectorSize) * SectorSize
       /\ Hull(s, t).a.y = (port.a.y \div SectorSize) * SectorSize
       /\ Hull(s, t).b.x = (port.b.x \div SectorSize) * SectorSize + SectorSize - Unit
       /\ Hull(s, t).b.y = (port.b.y \div SectorSize) * SectorSize + SectorSize - Unit
  BY DEF Hull, SectorBox, SectorAt
<1>12. Hull(s, t).a.x <= Clip(Screen).a.x /\ Clip(Screen).b.x <= Hull(s, t).b.x
  BY <1>4, <1>8, <1>9, <1>10, <1>11, AxisOfScreen
<1>13. Hull(s, t).a.y <= Clip(Screen).a.y /\ Clip(Screen).b.y <= Hull(s, t).b.y
  BY <1>4, <1>8, <1>9, <1>10, <1>11, AxisOfScreen
<1>14. Clip(Screen) \in Box
  <2>1. Screen \in Box
    BY <1>2, <1>8 DEF GridAssumption, Around, Box, Point
  <2> QED
    BY <2>1, ClipIsOnMap
<1>15. Hull(s, t) \in Box
  <2>1. \A i \in Int : i * SectorSize \in Int
    BY DEF GridAssumption
  <2>2. s.row \in Int /\ s.col \in Int /\ t.row \in Int /\ t.col \in Int
    BY <1>5 DEF Sector, Rows, Columns
  <2>3. /\ s.row * SectorSize \in Int /\ s.col * SectorSize \in Int
        /\ t.row * SectorSize \in Int /\ t.col * SectorSize \in Int
        /\ SectorSize \in Int /\ Unit \in Int
    BY <2>1, <2>2 DEF GridAssumption
  <2> QED
    BY <2>3 DEF Hull, SectorBox, Box, Point
<1> QED
  BY <1>5, <1>6, <1>7, <1>12, <1>13, <1>14, <1>15 DEF Within

\* A frame shows what is due: cells that changed and cells of new sectors, and of
\* the others those that were in the box of the view before.
LEMMA SynchronizeKeepsFrameInv ==
  ASSUME GridAssumption, WholeAssumption, ViewAssumption, MapInv, FrameInv, Synchronize
  PROVE  /\ FrameInv'
         /\ updated /\ ~updated' =>
              \A s \in viewers : \A c \in Live \ (created \cup grown) :
                Boxed(c) /\ Meets(c, Clip(Screen)) => shown'[s][c] = Look(c)
<1>1. /\ UNCHANGED <<pos, radius, food, sectors, corners, created, grown, viewers, latest>>
      /\ updated
  BY DEF Synchronize
<1>2. PICK port, s, t : port = Clip(CalcParams.viewport) /\ s = SectorAt(port.a) /\ t = SectorAt(port.b)
  OBVIOUS
<1>3. /\ s \in Sector /\ GetSector(port.a) = s
      /\ t \in Sector /\ GetSector(port.b) = t
      /\ s.row <= t.row /\ s.col <= t.col
      /\ SectorsOf(port) = Between(<<s, t>>)
      /\ Clip(Screen) \in Box /\ Hull(s, t) \in Box
      /\ Within(Clip(Screen), Hull(s, t))
  BY <1>2, PortOnMap
<1>4. Send /\ modified' = {} /\ dead' = {} /\ updated' = FALSE
  BY <1>2, <1>3, NoSectorIsNone DEF Synchronize
<1>5. /\ CalcParams \in Views
      /\ CalcParams.leftTop = view.leftTop /\ CalcParams.rightBottom = view.rightBottom
      /\ CalcParams.viewbox = view.viewbox
  <2>1. pos[Me] \in Point /\ TypeOK
    BY DEF MapInv, IInv, OnTheMap
  <2>2. CalcParams \in Views
    BY <2>1, CalcParamsType
  <2> QED
    BY <2>1, <2>2 DEF CalcParams, TypeOK, Views
<1>6. CASE viewers = {}
  BY <1>1, <1>4, <1>6 DEF FrameInv, FocusInv, NewsInv, PictureInv
<1>7. CASE viewers # {}
  <2>1. PICK v : v = Focused(CalcParams)
    OBVIOUS
  <2>2. PICK f : f = Frame(view, v)
    OBVIOUS
  <2>3. /\ v \in Views /\ v.viewport = CalcParams.viewport
        /\ v.leftTop = s /\ v.rightBottom = t /\ v.viewbox = Hull(s, t)
    <3>1. v \in Views /\ v.viewport = CalcParams.viewport
      BY <1>2, <1>3, <1>5, <2>1, FocusedType, NoSectorIsNone
    <3>2. v = IF view.leftTop = s /\ view.rightBottom = t THEN CalcParams
              ELSE [CalcParams EXCEPT !.leftTop = s, !.rightBottom = t, !.viewbox = Hull(s, t)]
      BY <1>2, <1>3, <1>5, <2>1 DEF Focused, Hull
    <3>3. CASE view.leftTop = s /\ view.rightBottom = t
      <4>1. view.viewbox = Hull(s, t)
        BY <1>3, <1>7, <3>3, NoSectorIsNone DEF FrameInv, FocusInv
      <4> QED
        BY <1>5, <3>1, <3>2, <3>3, <4>1
    <3>4. CASE ~(view.leftTop = s /\ view.rightBottom = t)
      BY <1>5, <3>1, <3>2, <3>4 DEF Views
    <3> QED
      BY <3>3, <3>4
  <2>4. /\ f.sectors = Between(<<s, t>>)
        /\ f.cells = {c \in Cell : sectors[c] \cap (Between(<<s, t>>) \ view.sectors) # {}}
                       \cup {c \in modified : c = Me \/ Meets(c, Hull(s, t))}
        /\ \A c \in Live : Meets(c, Hull(s, t)) => c \notin f.removed
    <3>1. GetSectors(v.viewport) = Between(<<s, t>>)
      BY <1>2, <1>3, <2>3 DEF GetSectors
    <3>2. (IF v.leftTop # view.leftTop \/ v.rightBottom # view.rightBottom
           THEN GetSectors(v.viewport) ELSE view.sectors) = Between(<<s, t>>)
      BY <1>3, <1>7, <2>3, <3>1, NoSectorIsNone DEF FrameInv, FocusInv
    <3>3. dead \cap Live = {}
      BY DEF MapInv, IInv, TypeOK
    <3> QED
      BY <2>2, <2>3, <3>2, <3>3 DEF Frame
  <2>5. /\ view' = [v EXCEPT !.sectors = f.sectors, !.visible = (@ \ dead) \cup f.cells]
        /\ shown' = [u \in Session |-> IF u \in viewers THEN Applied(shown[u], f) ELSE shown[u]]
    BY <1>4, <1>7, <2>1, <2>2 DEF Send
  <2>6. /\ view'.leftTop = s /\ view'.rightBottom = t /\ view'.viewbox = Hull(s, t)
        /\ view'.sectors = Between(<<s, t>>)
    BY <2>3, <2>4, <2>5 DEF Views
  <2>7. FocusInv'
    BY <1>3, <2>6 DEF FocusInv
  <2>8. NewsInv'
    BY <1>4 DEF NewsInv
  <2>9. ASSUME NEW u \in viewers, NEW c \in Live, Boxed(c), Meets(c, Hull(s, t)),
               c \in created \/ (c \notin grown /\ sectors[c] \cap Between(<<s, t>>) # {})
        PROVE  shown'[u][c] = Look(c)
    <3>1. /\ c \in Cell /\ u \in Session
          /\ shown'[u][c] = IF c \in f.cells THEN Look(c) ELSE shown[u][c]
      <4>1. c \in Cell /\ u \in Session /\ c \notin f.removed
        BY <2>4, <2>9 DEF Live, MapInv, IInv, TypeOK
      <4> QED
        BY <2>5, <2>9, <4>1 DEF Applied
    <3>2. CASE c \in modified
      BY <2>4, <2>9, <3>1, <3>2
    <3>3. CASE sectors[c] \cap (Between(<<s, t>>) \ view.sectors) # {}
      BY <2>4, <3>1, <3>3
    <3>4. CASE c \notin modified /\ sectors[c] \cap (Between(<<s, t>>) \ view.sectors) = {}
      <4>1. c \in Live \ (created \cup grown)
        BY <1>1, <2>9, <3>4 DEF FrameInv, NewsInv
      <4>2. /\ sectors[c] \cap Between(<<s, t>>) # {}
            /\ sectors[c] \cap Between(<<s, t>>) \subseteq view.sectors
        BY <2>9, <3>4, <4>1
      <4>3. /\ view.leftTop \in Sector /\ view.rightBottom \in Sector
            /\ view.sectors = Between(<<view.leftTop, view.rightBottom>>)
            /\ view.viewbox = Hull(view.leftTop, view.rightBottom)
        BY <1>7, <4>2 DEF FrameInv, FocusInv
      <4>4. Meets(c, view.viewbox)
        BY <1>3, <2>9, <4>1, <4>2, <4>3, ViewReach
      <4>5. Due(c)
        BY <2>9, <3>4, <4>1, <4>2, <4>4 DEF Due
      <4>6. shown[u][c] = Look(c)
        BY <2>9, <3>1, <4>2, <4>5 DEF FrameInv, PictureInv
      <4> QED
        BY <3>1, <4>6
    <3> QED
      BY <3>2, <3>3, <3>4
  <2>10. PictureInv'
    <3> SUFFICES ASSUME NEW u \in viewers', NEW c \in Cell, Due(c)'
                 PROVE  shown'[u][c] = Look(c)'
      BY DEF PictureInv
    <3>1. /\ c \in Live /\ Boxed(c) /\ Meets(c, Hull(s, t))
          /\ c \in created \/ (c \notin grown /\ sectors[c] \cap Between(<<s, t>>) # {})
      BY <1>1, <2>6 DEF Due, Live, Boxed, Meets
    <3>2. shown'[u][c] = Look(c)
      BY <1>1, <2>9, <3>1
    <3> QED
      BY <1>1, <3>2 DEF Look
  <2>11. ASSUME NEW u \in viewers, NEW c \in Live \ (created \cup grown),
                Boxed(c), Meets(c, Clip(Screen))
         PROVE  shown'[u][c] = Look(c)
    <3>1. Meets(c, Hull(s, t))
      BY <1>3, <2>11, MeetsHull DEF MapInv, IInv
    <3>2. sectors[c] \cap Between(<<s, t>>) # {}
      BY <1>3, <2>11, <3>1, ViewReach
    <3> QED
      BY <2>9, <2>11, <3>1, <3>2
  <2> QED
    BY <2>7, <2>8, <2>10, <2>11 DEF FrameInv
<1> QED
  BY <1>6, <1>7

\* Every step preserves the invariant, and a frame is exact.
LEMMA StepFrameInv ==
  ASSUME GridAssumption, WholeAssumption, ViewAssumption, MapInv, FrameInv, [Next]_vars
  PROVE  /\ FrameInv'
         /\ updated /\ ~updated' =>
              \A s \in viewers : \A c \in Live \ (created \cup grown) :
                Boxed(c) /\ Meets(c, Clip(Screen)) => shown'[s][c] = Look(c)
<1>1. IInv
  BY DEF MapInv
<1>2. CASE UNCHANGED vars
  <2>1. \A c \in Cell : Due(c)' = Due(c) /\ Look(c)' = Look(c)
    BY <1>2 DEF vars, cellVars, Due, Live, Boxed, Meets, Look
  <2> QED
    BY <1>2, <2>1 DEF vars, cellVars, FrameInv, FocusInv, NewsInv, PictureInv
<1>3. ASSUME NEW c \in Cell, Create(c) \/ ChangeMass(c) \/ Bury(c)
      PROVE  FrameInv' /\ updated' = updated
  BY <1>1, <1>3, CellKeepsFrameInv DEF Create, ChangeMass, Bury
<1>4. ASSUME NEW s \in Session, AddSession(s) \/ RemoveSession(s)
      PROVE  FrameInv' /\ updated' = updated
  BY <1>1, <1>4, SessionKeepsFrameInv DEF AddSession, RemoveSession
<1>5. CASE Update
  BY <1>1, <1>5, UpdateKeepsFrameInv DEF Update
<1> QED
  BY <1>2, <1>3, <1>4, <1>5, SynchronizeKeepsFrameInv DEF Next

\* A frame leaves every client that receives frames with all cells on its screen
\* as they are (FramesAreExact), for any cells, maps, sessions and orders of steps:
\* though Player::synchronize() sends only the cells that changed and those of
\* sectors that were not in view before, it sends enough.
THEOREM ViewFramesAreExact ==
  ASSUME GridAssumption, WholeAssumption, ViewAssumption, MapFits
  PROVE  Spec => FramesAreExact
<1>1. Init => MapInv /\ FrameInv
  BY InitMapInv, InitFrameInv
<1>2. MapInv /\ FrameInv /\ [Next]_vars => MapInv' /\ FrameInv'
  BY StepMapInv, StepFrameInv
<1>3. MapInv /\ FrameInv /\ [Next]_vars =>
        [updated /\ ~updated' =>
           \A s \in viewers : \A c \in Live \ (created \cup grown) :
             Boxed(c) /\ Meets(c, Clip(Screen)) => shown'[s][c] = Look(c)]_vars
  BY StepFrameInv
<1> QED
  BY <1>1, <1>2, <1>3, PTL DEF Spec, FramesAreExact
=============================================================================
