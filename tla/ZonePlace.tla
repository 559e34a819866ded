----------------------------- MODULE ZonePlace -----------------------------
(***************************************************************************)
(* class Zone of hardware/cirradio-devboard/gen_pcb_placement.py: parts go *)
(* into a rectangle row by row, left to right.  Lengths are in 1/40 mm, in *)
(* which every size and position of the script is a whole number.          *)
(***************************************************************************)
EXTENDS Integers

mm == 40
margin == 20        \* 0.5 mm

\* Zone.__init__(): an empty rectangle.
Zone(x_min, y_min, x_max, y_max) ==
    [x_min |-> x_min, x_max |-> x_max, y_max |-> y_max,
     cursor_x |-> x_min + mm, cursor_y |-> y_min + mm, row_height |-> 0]

\* Faulty variant of Wrapped: a new row starts one margin below the last one.
WrappedFlat(z, w) ==
    IF z.cursor_x + w + margin > z.x_max
    THEN [z EXCEPT !.cursor_x = z.x_min + mm, !.cursor_y = @ + margin, !.row_height = 0]
    ELSE z

\* place(), first half: a part that is too wide for the row starts a new one.
Wrapped(z, w) ==
    IF z.cursor_x + w + margin > z.x_max
    THEN [z EXCEPT !.cursor_x = z.x_min + mm,
                   !.cursor_y = @ + z.row_height + margin,
                   !.row_height = 0]
    ELSE z

\* place() returns None when the part is too high.  The new row stays begun.
Fits(z, h) == z.cursor_y + h + margin <= z.y_max

\* place(), second half: where the part goes, and the zone after it.
BoxAt(z, w, h) == [x |-> z.cursor_x, y |-> z.cursor_y, w |-> w, h |-> h]
Advanced(z, w, h) ==
    [z EXCEPT !.cursor_x = @ + w + margin,
              !.row_height = IF @ >= h + margin THEN @ ELSE h + margin]

\* The parts, with the courtyard generate_footprint() draws 0.25 mm around
\* each, do not overlap.
Apart(a, b) ==
    \/ a.x + a.w + margin <= b.x \/ b.x + b.w + margin <= a.x
    \/ a.y + a.h + margin <= b.y \/ b.y + b.h + margin <= a.y
=============================================================================
