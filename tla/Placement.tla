----------------------------- MODULE Placement -----------------------------
(***************************************************************************)
(* gen_pcb_placement.py: where the parts of a set of sheets go.  A part    *)
(* has a position written in the script, or the next free one of its       *)
(* sheet's zone, or one of the overflow zone, or a last resort.            *)
(***************************************************************************)
EXTENDS Sheets, ZonePlace

\* Width and height in 1/40 mm.
estimate_footprint_size(fp) ==
    CASE fp = "0402"                                        -> <<40, 20>>
      [] fp \in {"0603", "D_SMA"}                           -> <<64, 32>>
      [] fp = "0805"                                        -> <<80, 50>>
      [] fp \in {"1206", "1210"}                            -> <<128, 64>>
      [] fp = "BGA-144"                                     -> <<400, 400>>
      [] fp = "BGA-96"                                      -> <<320, 520>>
      [] fp \in {"BGA-153", "LCC-16"}                       -> <<480, 640>>
      [] fp = "QFN-48"                                      -> <<280, 280>>
      [] fp \in {"QFN-32", "SMA", "TGA2594"}                -> <<200, 200>>
      [] fp \in {"QFN-24", "QFN-16", "SOT-23-5", "U.FL"}    -> <<120, 120>>
      [] fp = "SOIC-8"                                      -> <<200, 160>>
      [] fp = "WSON-8_2x2"                                  -> <<80, 80>>
      [] fp = "WSON-8-1EP_6x5"                              -> <<240, 200>>
      [] fp = "DIP-14"                                      -> <<320, 800>>
      [] fp = "PinHeader_2x20"                              -> <<204, 2032>>
      [] fp = "PinHeader_2x07"                              -> <<100, 356>>
      [] fp = "BarrelJack"                                  -> <<360, 440>>
      [] fp = "USB_A"                                       -> <<480, 560>>
      [] fp = "USB_Micro"                                   -> <<320, 240>>
      [] fp = "RJ45"                                        -> <<640, 560>>
      [] fp = "microSD"                                     -> <<560, 600>>
      [] fp = "TestPoint"                                   -> <<60, 60>>
      [] fp = "CP_Radial"                                   -> <<320, 320>>
      [] fp \in {"Crystal", "VDFN"}                         -> <<128, 60>>
      [] fp = "SW_DIP"                                      -> <<400, 200>>
      [] fp \in {"SW_Push", "SW_SPST"}                      -> <<160, 120>>
      [] OTHER                                              -> <<80, 40>>

is_passive(p) == p.ref[1] \in {"R", "C", "L"}

RefsOf(parts) == {parts[i].ref : i \in 1 .. Len(parts)}

\* Of the parts of a sheet those whose designator is neither taken nor on the sheet before.
NewParts(parts, taken) ==
    {i \in 1 .. Len(parts) : parts[i].ref \notin taken /\ \A j \in 1 .. i - 1 : parts[j].ref # parts[i].ref}

\* main(): the parts of sheet s that are kept, given those on the sheets read before.
\* LastWins is a faulty variant in which a later sheet overrides an earlier one.
ReadBefore(s) == {SCHEMATIC_FILES[i] : i \in 1 .. (CHOOSE k \in 1 .. Len(SCHEMATIC_FILES) : SCHEMATIC_FILES[k] = s) - 1}
LastWins(S, s) ==
    NewParts(Numbered(s), UNION {RefsOf(Numbered(t)) : t \in S \ ({s} \union ReadBefore(s))})
Kept(S, s) == NewParts(Numbered(s), UNION {RefsOf(Numbered(t)) : t \in S \intersect ReadBefore(s)})

-----------------------------------------------------------------------------
(* build_placement_plan()                                                   *)

\* The zones, by their corners in mm.
ZoneName == {"rf", "ad9361", "zynq", "ddr3l", "power", "conn", "periph", "overflow"}
Zones ==
    LET Z(a, b, c, d) == Zone(a * mm, b * mm, c * mm, d * mm)
    IN  [z \in ZoneName |->
           CASE z = "rf"       -> Z(2, 2, 58, 38)
             [] z = "ad9361"   -> Z(62, 2, 98, 30)
             [] z = "zynq"     -> Z(42, 34, 98, 78)
             [] z = "ddr3l"    -> Z(102, 27, 138, 53)
             [] z = "power"    -> Z(2, 62, 58, 98)
             [] z = "conn"     -> Z(102, 62, 158, 98)
             [] z = "periph"   -> Z(102, 62, 158, 68)
             [] z = "overflow" -> Z(2, 42, 40, 60)]

\* The zones a sheet's parts are offered to, in order.
ZonesFor(s) ==
    CASE s = "rf-frontend" -> <<"rf">>
      [] s = "peripherals" -> <<"periph", "conn">>
      [] s = "connectors"  -> <<"conn">>
      [] OTHER             -> <<s>>

\* Positions written in the script, in mm: sheet, prefix, number, x, y.
Positions ==
    {<<"zynq", "U", 1, 80, 50>>, <<"ddr3l", "U", 2, 112, 35>>, <<"ddr3l", "U", 3, 128, 35>>,
     <<"ad9361", "U", 9, 80, 16>>, <<"ad9361", "Y", 1, 92, 10>>, <<"ad9361", "Y", 2, 92, 22>>,
     <<"rf-frontend", "U", 16, 15, 10>>, <<"rf-frontend", "U", 17, 30, 10>>, <<"rf-frontend", "FL", 1, 42, 10>>,
     <<"rf-frontend", "U", 18, 30, 25>>, <<"rf-frontend", "U", 19, 15, 25>>, <<"rf-frontend", "J", 1, 5, 18>>,
     <<"power", "U", 4, 10, 72>>, <<"power", "U", 5, 10, 82>>, <<"power", "U", 6, 28, 68>>,
     <<"power", "U", 7, 28, 76>>, <<"power", "U", 8, 28, 84>>, <<"power", "U", 20, 44, 68>>,
     <<"power", "U", 21, 44, 78>>, <<"power", "U", 22, 44, 88>>, <<"power", "J", 2, 8, 94>>,
     <<"peripherals", "U", 10, 148, 10>>, <<"peripherals", "U", 11, 138, 22>>, <<"peripherals", "U", 12, 110, 80>>,
     <<"peripherals", "U", 13, 130, 80>>, <<"peripherals", "U", 14, 110, 90>>, <<"peripherals", "U", 15, 148, 80>>,
     <<"peripherals", "U", 23, 130, 90>>, <<"peripherals", "Y", 3, 140, 86>>,
     <<"connectors", "J", 3, 156, 40>>, <<"connectors", "J", 4, 150, 94>>, <<"connectors", "J", 5, 120, 96>>,
     <<"connectors", "J", 6, 108, 96>>, <<"connectors", "J", 7, 135, 70>>, <<"connectors", "J", 8, 115, 70>>,
     <<"connectors", "J", 9, 125, 96>>}

\* The written position of part p, if it has one.
SpotsOf(p) ==
    LET n == p.ref[2]
    IN  {<<t[4], t[5]>> : t \in {q \in Positions : q[1] = p.sheet /\ <<q[2], q[3]>> = p.ref}}
        \union (IF p.sheet = "peripherals" /\ p.ref[1] = "J" /\ p.fp = "U.FL" THEN {<<155, 10>>} ELSE {})
        \union (IF p.sheet # "connectors" THEN {}
                ELSE CASE p.ref[1] = "TP"  -> {<<62 + 4 * n, 96>>}
                       [] p.ref[1] = "LED" -> {<<102 + 3 * n, 60>>}
                       [] p.ref[1] = "SW"  -> {<<102 + 8 * n, 56>>}
                       [] OTHER            -> {})

\* A part's place: its sheet, its box, the side of the board, and who put it there.
Put(p, box, by) ==
    [ref |-> p.ref, sheet |-> p.sheet, box |-> box, by |-> by,
     layer |-> IF p.sheet \in {"zynq", "ddr3l"} /\ is_passive(p) /\ by \in {"zynq", "ddr3l"}
               THEN "B.Cu" ELSE "F.Cu"]

Centred(p, x, y) ==
    LET s == estimate_footprint_size(p.fp)
    IN  [x |-> x * mm - s[1] \div 2, y |-> y * mm - s[2] \div 2, w |-> s[1], h |-> s[2]]

\* Offer p to zone z: the plan st with p in it, or with only the zone changed.
Offer(st, p, z) ==
    LET s == estimate_footprint_size(p.fp)
        row == Wrapped(st.zones[z], s[1])
    IN  IF Fits(row, s[2])
        THEN [zones |-> [st.zones EXCEPT ![z] = Advanced(row, s[1], s[2])],
              plan  |-> Append(st.plan, Put(p, BoxAt(row, s[1], s[2]), z))]
        ELSE [st EXCEPT !.zones[z] = row]

\* Passives of the zynq sheet are not offered to a zone that is full.
Full(st, p) ==
    /\ p.sheet = "zynq" /\ is_passive(p)
    /\ st.zones["zynq"].cursor_y + estimate_footprint_size(p.fp)[2] >= 78 * mm

\* One part: its written position, else its zones in order.
Plan1(st, p) ==
    LET spots == SpotsOf(p)
        zs == ZonesFor(p.sheet)
        first == Offer(st, p, zs[1])
    IN  CASE spots # {} ->
               LET xy == CHOOSE t \in spots : TRUE
               IN  [st EXCEPT !.plan = Append(@, Put(p, Centred(p, xy[1], xy[2]), "fixed"))]
          [] spots = {} /\ Full(st, p) -> st
          [] OTHER -> IF first.plan = st.plan /\ Len(zs) = 2 THEN Offer(first, p, zs[2]) ELSE first

\* main(): a part left over goes to the overflow zone, or to one spot.
Overflow(st, p) ==
    LET next == Offer(st, p, "overflow")
    IN  IF next.plan # st.plan THEN next
        ELSE [next EXCEPT !.plan = Append(@, Put(p, Centred(p, 5, 50), "last"))]

\* What is done to the parts of one sheet after another: they are planned, and
\* then main() goes through the sheets once more in reading order.
PlanOrder == <<"zynq", "ddr3l", "ad9361", "rf-frontend", "power", "peripherals", "connectors">>
Stages == [k \in 1 .. 14 |-> IF k <= 7 THEN <<"plan", PlanOrder[k]>> ELSE <<"leftover", SCHEMATIC_FILES[k - 7]>>]

PlanNext(st, p, how) ==
    IF how = "plan" THEN Plan1(st, p)
    ELSE IF p.ref \in RefsOf(st.plan) THEN st
    ELSE Overflow(st, p)

\* One stage: the plan after each part kept in turn.  CHOOSE from a singleton makes
\* TLC evaluate each state of the plan once.
PlanStage(start, S, how, s) ==
    LET parts == Numbered(s)
        kept  == IF s \in S THEN Kept(S, s) ELSE {}
        Part(i) == [ref |-> parts[i].ref, fp |-> parts[i].fp, sheet |-> s]
        after[i \in 0 .. Len(parts)] ==
            IF i = 0 THEN start
            ELSE IF i \notin kept THEN after[i - 1]
            ELSE CHOOSE next \in {PlanNext(st, Part(i), how) : st \in {after[i - 1]}} : TRUE
    IN  after[Len(parts)]

\* The plan after all stages.
EmptyPlan == [zones |-> Zones, plan |-> <<>>]
Placed(S) ==
    LET after[k \in 0 .. 14] ==
            IF k = 0 THEN EmptyPlan
            ELSE CHOOSE next \in {PlanStage(st, S, Stages[k][1], Stages[k][2]) : st \in {after[k - 1]}} : TRUE
    IN  after[14].plan
=============================================================================
