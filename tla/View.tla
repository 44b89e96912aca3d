-------------------------------- MODULE View --------------------------------
(***************************************************************************)
(* What the sessions of one player see: the cells of a room on the grid    *)
(* map, the player that follows its avatar, and the frames it sends.       *)
(*                                                                         *)
(* A cell is named by its id, which is given to another cell after it.     *)
(* The player has one avatar, Me, which does not die here: Room models     *)
(* lives, and sessions that come and go stand for both ends of one.  The   *)
(* client is external: it keeps what the last frame said of each id.       *)
(***************************************************************************)
EXTENDS Gridmap

CONSTANTS Cell, Me,       \* ids of cells; the avatar of the player
          Session,        \* connections that may watch the player
          Nowhere,        \* the position of a cell that is not there
          Nobody,         \* no session
          Spots,          \* positions a cell is created at or moves to
          Radii,          \* radii of the cells that are not food
          FoodRadius,     \* config.food.radius
          MaxRadius,      \* config.maxRadius: from here on the view is scaled
          Half            \* half of a side of the unscaled viewport

ASSUME ViewAssumption ==
  /\ Me \in Cell
  /\ Nobody \notin Session
  /\ Nowhere \notin Point
  /\ Spots \subseteq Point
  /\ Radii \subseteq Nat
  /\ FoodRadius \in Nat
  /\ MaxRadius \in Nat
  /\ Half \in Nat

VARIABLES
  pos,        \* Cell::position, or Nowhere
  radius,     \* Cell::radius
  food,       \* the cells with Cell::materialPoint
  sectors,    \* Cell::sectors (and with it Sector::cells)
  corners,    \* Cell::leftTopSector and Cell::rightBottomSector
  created,    \* m_createdCells: not on the grid yet
  modified,   \* m_modifiedCells
  dead,       \* the ids of m_deadCells, to be reported
  view,       \* the fields of the player about its view
  viewers,    \* Player::m_sessions
  shown,      \* what the client of each session shows
  updated,    \* an update() took place since the last synchronize()
  status,     \* "running", "aborted" (assertion), "stalled" (synchronize() threw)
  grown,      \* history: cells that changed size since they were put on the grid
  latest      \* history: the session that was added last

cellVars == <<pos, radius, food, sectors, corners, created, modified, dead, grown>>
vars == <<cellVars, view, viewers, shown, updated, status, latest>>

Live == {c \in Cell : pos[c] # Nowhere}
Look(c) == <<pos[c], radius[c]>>
NoCell == [c \in Cell |-> Nowhere]

Views == [leftTop : Sector \cup {NoSector}, rightBottom : Sector \cup {NoSector},
          viewbox : Box, viewport : Box, position : Point, scale : 0 .. 2,
          sectors : SUBSET Sector, visible : SUBSET Cell]

TypeOK ==
  /\ pos \in [Cell -> Point \cup {Nowhere}]
  /\ radius \in [Cell -> Nat]
  /\ food \subseteq Cell \ {Me}
  /\ sectors \in [Cell -> SUBSET (Sector \cup {NoSector})]
  /\ corners \in [Cell -> (Sector \cup {NoSector}) \X (Sector \cup {NoSector})]
  /\ created \subseteq Live /\ modified \subseteq Live /\ grown \subseteq Live
  /\ dead \subseteq Cell \ Live
  /\ view \in Views
  /\ viewers \subseteq Session
  /\ shown \in [Session -> [Cell -> (Point \X Nat) \cup {Nowhere}]]
  /\ updated \in BOOLEAN
  /\ status \in {"running", "aborted", "stalled"}
  /\ latest \in Session \cup {Nobody}

Origin == [x |-> 0, y |-> 0]
NewView == [leftTop |-> NoSector, rightBottom |-> NoSector,
            viewbox |-> Around(Origin, 0), viewport |-> Around(Origin, 0),
            position |-> Origin, scale |-> 0, sectors |-> {}, visible |-> {}]

Init ==
  /\ \E p \in {q \in Spots : Contains(MapBox, q)}, r \in Radii :
       /\ pos = [NoCell EXCEPT ![Me] = p]
       /\ radius = [c \in Cell |-> IF c = Me THEN r ELSE 0]
  /\ food = {}
  /\ sectors = [c \in Cell |-> {}]
  /\ corners = [c \in Cell |-> <<NoSector, NoSector>>]
  /\ created = {Me} /\ modified = {Me} /\ dead = {} /\ grown = {}
  /\ view = NewView
  /\ viewers = {} /\ shown = [s \in Session |-> NoCell] /\ latest = Nobody
  /\ updated = FALSE
  /\ status = "running"

-----------------------------------------------------------------------------
(* Cells *)

(* Cell::intersects, which Food overrides: a piece of food is a point. *)
Meets(c, box) == IF c \in food THEN Contains(box, pos[c]) ELSE CircleMeets(box, pos[c], radius[c])

(* Gridmap::query *)
Query(box) ==
  {c \in Cell : /\ sectors[c] \cap GetSectors(box) # {}
                /\ Meets(c, Clip(box))}

(* Both limits are taken from the width: box.b.x, twice. *)
ResolvedOn(x, r) ==
  IF r - x >= 0 THEN r
  ELSE IF x + r - Width >= 0 THEN Width - r
  ELSE x
(* Mutant of Resolved: a position beyond the right or lower limit is left there. *)
ResolvedAtZero(p, r) == [x |-> Larger(p.x, r), y |-> Larger(p.y, r)]

Resolved(p, r) == [x |-> ResolvedOn(p.x, r), y |-> ResolvedOn(p.y, r)]
Touches(p, r) == \/ r - p.x >= 0 \/ p.x + r - Width >= 0
                 \/ r - p.y >= 0 \/ p.y + r - Width >= 0

Create(c) ==
  /\ status = "running"
  /\ c \notin Live \cup dead
  /\ \E p \in Spots, f \in BOOLEAN, r \in Radii :
       /\ pos' = [pos EXCEPT ![c] = p]
       /\ radius' = [radius EXCEPT ![c] = IF f THEN FoodRadius ELSE r]
       /\ food' = IF f THEN food \cup {c} ELSE food \ {c}
  /\ sectors' = [sectors EXCEPT ![c] = {}]
  /\ corners' = [corners EXCEPT ![c] = <<NoSector, NoSector>>]
  /\ created' = created \cup {c}
  /\ modified' = modified \cup {c}
  /\ UNCHANGED <<dead, grown, view, viewers, shown, updated, status, latest>>

(* A cell that gains or loses mass stays in the sectors it is listed in. *)
ChangeMass(c) ==
  /\ status = "running"
  /\ c \in Live \ food
  /\ \E r \in Radii \ {radius[c]} : radius' = [radius EXCEPT ![c] = r]
  /\ modified' = modified \cup {c}
  /\ grown' = grown \cup {c}
  /\ UNCHANGED <<pos, food, sectors, corners, created, dead, view, viewers, shown,
                 updated, status, latest>>

(* Mutant of Bury: the dead cell is still among the modified ones. *)
BuryStillModified(c) ==
  /\ status = "running"
  /\ c \in Live \ {Me}
  /\ pos' = [pos EXCEPT ![c] = Nowhere]
  /\ sectors' = [sectors EXCEPT ![c] = {}]
  /\ corners' = [corners EXCEPT ![c] = <<NoSector, NoSector>>]
  /\ created' = created \ {c}
  /\ grown' = grown \ {c}
  /\ dead' = dead \cup {c}
  /\ UNCHANGED <<radius, food, modified, view, viewers, shown, updated, status, latest>>

(* The end of a cell: its death is handled at the end of an update(). *)
Bury(c) ==
  /\ status = "running"
  /\ c \in Live \ {Me}
  /\ pos' = [pos EXCEPT ![c] = Nowhere]
  /\ sectors' = [sectors EXCEPT ![c] = {}]
  /\ corners' = [corners EXCEPT ![c] = <<NoSector, NoSector>>]
  /\ created' = created \ {c}
  /\ modified' = modified \ {c}
  /\ grown' = grown \ {c}
  /\ dead' = dead \cup {c}
  /\ UNCHANGED <<radius, food, view, viewers, shown, updated, status, latest>>

(* The place of a cell: the sectors and corners Gridmap keeps in it. *)
Place(c) == [sectors |-> sectors[c], corners |-> corners[c]]
CornersAt(c, p) ==
  LET box == Clip(Around(p, radius[c]))
  IN  <<GetSector(box.a), GetSector(box.b)>>

(* Gridmap::insert *)
Inserted(c, p) ==
  IF c \in food THEN [Place(c) EXCEPT !.sectors = {GetSector(p)}]
  ELSE IF IsEmpty(Clip(Around(p, radius[c]))) THEN Place(c)
  ELSE [sectors |-> SectorsUnder(p, radius[c]), corners |-> CornersAt(c, p)]

(* Mutant of Shifted: only the first corner is compared. *)
ShiftedOneCorner(c, place, p) ==
  IF c \in food THEN [place EXCEPT !.sectors = {GetSector(p)}]
  ELSE IF IsEmpty(Clip(Around(p, radius[c]))) \/ place.corners[1] = CornersAt(c, p)[1] THEN place
  ELSE [sectors |-> SectorsUnder(p, radius[c]), corners |-> CornersAt(c, p)]

(* Gridmap::update, which returns early when the corners are where they were. *)
Shifted(c, place, p) ==
  IF c \in food THEN [place EXCEPT !.sectors = {GetSector(p)}]
  ELSE IF IsEmpty(Clip(Around(p, radius[c]))) \/ place.corners = CornersAt(c, p) THEN place
  ELSE [sectors |-> SectorsUnder(p, radius[c]), corners |-> CornersAt(c, p)]

(* The loop over m_createdCells *)
FirstPos(c) == IF c \in created THEN Resolved(pos[c], radius[c]) ELSE pos[c]
FirstPlace(c) == IF c \in created THEN Inserted(c, FirstPos(c)) ELSE Place(c)

(* update(): the created cells go on the grid, a moving cell goes to one of    *)
(* the Spots.  An update that moves several is a sequence of these: none looks *)
(* at another before all have moved.                                           *)
Update ==
  /\ status = "running"
  /\ \E moving \in {{}} \cup {{c} : c \in Live} : \E to \in [moving -> Spots] :
       LET last(c) == IF c \in moving THEN Resolved(to[c], radius[c]) ELSE FirstPos(c)
           after(c) == IF c \in moving THEN Shifted(c, FirstPlace(c), last(c)) ELSE FirstPlace(c)
       IN  /\ pos' = [c \in Cell |-> last(c)]
           /\ corners' = [c \in Cell |-> after(c).corners]
           /\ sectors' = [c \in Cell |-> after(c).sectors]
           /\ modified' = modified \cup moving
                            \cup {c \in created : Touches(pos[c], radius[c])}
           /\ grown' = grown \ (created \cup moving)
           /\ status' = IF \E c \in food : NoSector \in FirstPlace(c).sectors \cup after(c).sectors
                        THEN "aborted" ELSE "running"
  /\ created' = {}
  /\ updated' = TRUE
  /\ UNCHANGED <<radius, food, dead, view, viewers, shown, latest>>

-----------------------------------------------------------------------------
(* The player *)

(* Mutant of AddSession: the sectors the others see are not sent again. *)
AddSessionQuietly(s) ==
  /\ s \notin viewers
  /\ viewers' = viewers \cup {s}
  /\ latest' = s
  /\ UNCHANGED <<cellVars, view, shown, updated, status>>

AddSession(s) ==
  /\ s \notin viewers
  /\ viewers' = viewers \cup {s}
  /\ view' = [view EXCEPT !.leftTop = NoSector, !.rightBottom = NoSector,
                          !.sectors = {}, !.visible = {}]
  /\ latest' = s
  /\ UNCHANGED <<cellVars, shown, updated, status>>

(* A client that left forgets what it saw. *)
RemoveSession(s) ==
  /\ s \in viewers
  /\ viewers' = viewers \ {s}
  /\ shown' = [shown EXCEPT ![s] = NoCell]
  /\ UNCHANGED <<cellVars, view, updated, status, latest>>

ScaleFor(r) == IF r > MaxRadius THEN 2 ELSE 1

(* The viewport is built anew when its size changes, and moved otherwise. *)
CalcParams ==
  LET p == pos[Me]
      scale == ScaleFor(radius[Me])
      Moved(q) == [x |-> q.x + p.x - view.position.x, y |-> q.y + p.y - view.position.y]
      port == IF scale # view.scale THEN Around(p, Half * scale)
              ELSE [a |-> Moved(view.viewport.a), b |-> Moved(view.viewport.b)]
  IN  [view EXCEPT !.viewport = port, !.scale = scale, !.position = p]

(* The sectors v is about to show. *)
Focused(v) ==
  LET port == Clip(v.viewport)
      leftTop == GetSector(port.a)
      rightBottom == GetSector(port.b)
  IN  IF v.leftTop = leftTop /\ v.rightBottom = rightBottom THEN v
      ELSE [v EXCEPT !.leftTop = leftTop, !.rightBottom = rightBottom,
                     !.viewbox = [a |-> SectorBox(leftTop).a, b |-> SectorBox(rightBottom).b]]

(* Mutant of Frame: the dead are looked for among the cells of this frame. *)
FrameOfTheLiving(old, v) ==
  LET turned == v.leftTop # old.leftTop \/ v.rightBottom # old.rightBottom
      now == IF turned THEN GetSectors(v.viewport) ELSE old.sectors
      In(area) == {c \in Cell : sectors[c] \cap area # {}}
  IN  [sectors |-> now,
       cells |-> In(now \ old.sectors) \cup {c \in modified : Meets(c, v.viewbox)},
       removed |-> {c \in In(old.sectors \ now) : ~Meets(c, v.viewbox)}]

(* The frame for the sectors old, of which v is the new view. *)
Frame(old, v) ==
  LET turned == v.leftTop # old.leftTop \/ v.rightBottom # old.rightBottom
      now == IF turned THEN GetSectors(v.viewport) ELSE old.sectors
      In(area) == {c \in Cell : sectors[c] \cap area # {}}
  IN  [sectors |-> now,
       cells |-> In(now \ old.sectors)
                   \cup {c \in modified : c = Me \/ Meets(c, v.viewbox)},
       removed |-> {c \in In(old.sectors \ now) : ~Meets(c, v.viewbox)}
                     \cup (dead \cap old.visible)]

(* The client takes the cells of a frame, then what is removed. *)
Applied(picture, frame) ==
  [c \in Cell |-> IF c \in frame.removed THEN Nowhere
                  ELSE IF c \in frame.cells THEN Look(c)
                  ELSE picture[c]]

(* Player::synchronize without an exception *)
Send ==
  LET v == Focused(CalcParams)
      frame == Frame(view, v)
  IN  IF viewers = {} THEN view' = v /\ UNCHANGED shown
      ELSE /\ view' = [v EXCEPT !.sectors = frame.sectors,
                                !.visible = (@ \ dead) \cup frame.cells]
           /\ shown' = [s \in Session |->
                          IF s \in viewers THEN Applied(shown[s], frame) ELSE shown[s]]

(* Without a sector for a corner an exception leaves the handler of the timer, *)
(* which is not armed again.                                                   *)
Synchronize ==
  /\ status = "running"
  /\ updated
  /\ LET port == Clip(CalcParams.viewport)
     IN  IF NoSector \in {GetSector(port.a), GetSector(port.b)}
         THEN /\ view' = CalcParams
              /\ status' = "stalled"
              /\ UNCHANGED <<modified, dead, updated, shown>>
         ELSE /\ Send
              /\ modified' = {}
              /\ dead' = {}
              /\ updated' = FALSE
              /\ UNCHANGED status
  /\ UNCHANGED <<pos, radius, food, sectors, corners, created, grown, viewers, latest>>

Next ==
  \/ \E c \in Cell : Create(c) \/ ChangeMass(c) \/ Bury(c)
  \/ Update
  \/ Synchronize
  \/ \E s \in Session : AddSession(s) \/ RemoveSession(s)

Spec == Init /\ [][Next]_vars

-----------------------------------------------------------------------------
(* Properties *)

(* No assertion of the grid map fails: whatever position update() leaves a    *)
(* piece of food at, it lies in a sector of the map.                          *)
AssertionsHold == status # "aborted"

(* Neither an assertion nor the "Invalid sector" of synchronize(), after      *)
(* which the room would never synchronize again: positions are resolved       *)
(* before anybody looks for their sector.                                     *)
NeverFails == status = "running"

(* A cell that looks for what it touches finds it, although cells stay in     *)
(* their sectors until the corners of their box enter others: of two cells    *)
(* on the grid that touch, each finds the other.  A cell that changed its     *)
(* size is found for sure only after its next move (ChangeMass).              *)
QueryFindsAll ==
  \A c \in Live \ created, d \in Live \ (created \cup grown) :
    LET box == Around(pos[c], radius[c])
    IN  Meets(d, Clip(box)) => d \in Query(box)

(* What the player looks at.  The box of a sector ends one unit before the    *)
(* next sector, so that the outermost unit of the viewport is not promised.   *)
Screen == Around(pos[Me], Half * ScaleFor(radius[Me]) - Unit)

(* A piece of food is a point, and the last unit of its sector is not in the  *)
(* box of the sector.  There it is not shown while m_viewbox ends with its    *)
(* sector, nor when the next sector comes into view: its own is not new then. *)
Boxed(c) == c \in food => Contains(SectorBox(SectorAt(pos[c])), pos[c])

(* After a frame every client that receives frames shows each cell on its     *)
(* screen where it is and as large as it is, food between the boxes of two    *)
(* sectors excepted: although only changes are sent, sectors enter and leave  *)
(* the view, sessions join at any time, the view grows with the avatar, and   *)
(* ids are used again.                                                        *)
FramesAreExact ==
  [][updated /\ ~updated' =>
       \A s \in viewers : \A c \in Live \ (created \cup grown) :
         Boxed(c) /\ Meets(c, Clip(Screen)) => shown'[s][c] = Look(c)]_vars

(* A dead cell does not stay on the screen of the session that was added      *)
(* last: whatever it shows is alive or will be reported to it by the next     *)
(* frame, m_visibleIds being what decides.  Of sessions that were there       *)
(* before another was added this cannot be said, since m_visibleIds is        *)
(* emptied for all of them.                                                   *)
GhostsAreReported ==
  latest \in viewers =>
    \A c \in Cell : shown[latest][c] # Nowhere =>
      c \in Live \/ c \in dead \cap view.visible
=============================================================================
