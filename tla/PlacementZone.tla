--------------------------- MODULE PlacementZone ---------------------------
(***************************************************************************)
(* One zone of gen_pcb_placement.py and the calls of its place() method,   *)
(* with parts of any size in any order.                                    *)
(***************************************************************************)
EXTENDS ZonePlace, Sequences

CONSTANTS
    Coordinate,   \* corners a zone may have
    Length        \* widths and heights of parts

VARIABLES
    zone,         \* the Zone object
    placed        \* the boxes place() has returned, in order

zoneVars == <<zone, placed>>

ZoneInit ==
    /\ \E a, b, c, d \in Coordinate : zone = Zone(a, b, c, d)
    /\ placed = <<>>

\* place() finds room.
PlaceFits(w, h) ==
    LET row == Wrapped(zone, w)
    IN  /\ Fits(row, h)
        /\ zone' = Advanced(row, w, h)
        /\ placed' = Append(placed, BoxAt(row, w, h))

\* place() returns None.
PlaceNone(w, h) ==
    LET row == Wrapped(zone, w)
    IN  /\ ~Fits(row, h)
        /\ zone' = row
        /\ UNCHANGED placed

ZoneNext == \E w, h \in Length : PlaceFits(w, h) \/ PlaceNone(w, h)

ZoneSpec == ZoneInit /\ [][ZoneNext]_zoneVars

-----------------------------------------------------------------------------
Box == [x : Int, y : Int, w : Nat, h : Nat]

ZoneTypeOK ==
    /\ zone \in [x_min : Int, x_max : Int, y_max : Int, cursor_x : Int, cursor_y : Int, row_height : Nat]
    /\ placed \in Seq(Box)

\* Parts that place() put into one zone never overlap, also after calls that
\* found no room and left a new row begun.
NoOverlap ==
    \A i, j \in 1 .. Len(placed) : i < j => Apart(placed[i], placed[j])

\* A part that is narrower than the zone stays inside it on the left, the right
\* and at the bottom.  (place() does not look at the width again after a wrap.)
InsideZone ==
    \A i \in 1 .. Len(placed) :
        LET b == placed[i]
        IN  /\ b.x >= zone.x_min + mm
            /\ b.w + mm + margin <= zone.x_max - zone.x_min => b.x + b.w + margin <= zone.x_max
            /\ b.y + b.h + margin <= zone.y_max

\* A box is in an earlier row than the cursor, or to the left of it in the same.
Before(b, z) ==
    \/ b.y + b.h + margin <= z.cursor_y
    \/ b.y = z.cursor_y /\ b.x + b.w + margin <= z.cursor_x /\ b.h + margin <= z.row_height

\* What keeps the next box apart from all others.
RoomAhead ==
    /\ zone.cursor_x >= zone.x_min + mm
    /\ \A i \in 1 .. Len(placed) : Before(placed[i], zone)
=============================================================================
