------------------------------ MODULE Routing ------------------------------
(***************************************************************************)
(* The copper of the board: the net table that gen_pcb_netlist.py writes   *)
(* and what gen_pcb_planes.py and gen_pcb_routing.py draw on it.           *)
(*                                                                         *)
(* Both scripts know nets by number.  The planes script has the numbers    *)
(* written in it; the routing script looks a net's name up in the file and *)
(* either skips a net that is missing or takes a number written in it.     *)
(* Lengths are in 1/200 mm, in which every offset is a whole number.       *)
(***************************************************************************)
EXTENDS Sheets

-----------------------------------------------------------------------------
(* gen_pcb_netlist.py                                                       *)

\* main(): the nets of the sheets of S, and always GND.
NetNames(S) == {GND} \union UNION {NetsOf(s) : s \in S}

\* The first names of the sorted net list.  '+' sorts before every letter, and
\* generate_pcb() moves GND to the front.  RailsSorted is a faulty variant that
\* leaves GND where it sorts.
RailsSorted ==
    <<"+12V", "+1V0", "+1V0_EN", "+1V0_PG", "+1V35", "+1V35_EN", "+1V35_PG", "+1V3_AD",
      "+1V5", "+1V5_EN", "+1V5_PG", "+1V8", "+1V8_EN", "+1V8_PG", "+3V3", "+3V3A", "+3V3_EN",
      "+3V3_PG", "+5V", "+5V_EN", "+5V_PA", "+5V_PG", "GND">>

RailOrder ==
    <<"GND", "+12V", "+1V0", "+1V0_EN", "+1V0_PG", "+1V35", "+1V35_EN", "+1V35_PG", "+1V3_AD",
      "+1V5", "+1V5_EN", "+1V5_PG", "+1V8", "+1V8_EN", "+1V8_PG", "+3V3", "+3V3A", "+3V3_EN",
      "+3V3_PG", "+5V", "+5V_EN", "+5V_PA", "+5V_PG">>

\* generate_pcb(): the number a rail gets, counting from 1.
NetNumber(S, rail) ==
    LET k == CHOOSE i \in 1 .. Len(RailOrder) : RailOrder[i] = rail
    IN  Cardinality({i \in 1 .. k : Net(RailOrder[i]) \in NetNames(S)})

IsDdr(n) == n \in DdrLanes(0 .. 3) \union DdrControl

\* classify_net().  The pattern for the DDR pairs ends in P or N, so it meets
\* DDR_CK_P but not DDR_DQS_P0.  ClassByName is a faulty variant that also has
\* the P lines of the strobes.
ClassByName(n) ==
    IF n[1] = "DDR_DQS_P" \/ n \in DdrClock THEN "DDR3_DiffPair"
    ELSE IF IsDdr(n) THEN "DDR3" ELSE "Default"

classify_net(n) ==
    CASE n = Net("+12V") -> "Power_Wide"
      [] n \in Rails({"+5V", "+3V3", "+3V3A", "+1V8", "+1V5", "+1V35", "+1V0", "VTT", "VTTREF",
                      "+5V_PA", "+1V3_AD"}) -> "Power"
      [] n \in DdrClock -> "DDR3_DiffPair"
      [] IsDdr(n) /\ n \notin DdrClock -> "DDR3"
      [] n \in AdLvds.nets -> "LVDS"
      [] n \in AdRf -> "RF_50ohm"
      [] OTHER -> "Default"

-----------------------------------------------------------------------------
(* gen_pcb_planes.py                                                        *)

\* generate_all_zones(): the number and name of each zone's net.
Planes ==
    [i \in 1 .. 5 |-> <<1, "GND">>]
    \o << <<3, "+1V0">>, <<6, "+1V35">>, <<10, "+1V5">>, <<13, "+1V8">>, <<13, "+1V8">>,
          <<16, "+3V3">>, <<16, "+3V3">>, <<20, "+5V">> >>

\* The zones whose number is another net's when the sheets of S were read.
MisplacedPlanes(S) ==
    {i \in 1 .. Len(Planes) :
        Net(Planes[i][2]) \notin NetNames(S) \/ NetNumber(S, Planes[i][2]) # Planes[i][1]}

-----------------------------------------------------------------------------
(* gen_pcb_routing.py                                                       *)

\* A trace of net n from one point to another, x and y in 1/200 mm, in pieces of
\* at most max mm.  It is drawn when all of needs are in the net table; a trace
\* with no needs is drawn on net number alt when its own net is missing.
Trace(n, needs, alt, layer, from, to, max) ==
    [net |-> n, needs |-> needs, alt |-> alt, layer |-> layer, from |-> from, to |-> to, max |-> 200 * max]
At(x, y) == <<200 * x, 200 * y>>
Shift(p, dx, dy) == <<p[1] + dx, p[2] + dy>>

\* Byte lane k: eight data lines, the strobe pair and the mask, from the Zynq to
\* chip 0 or 1.
gen_ddr3l_lane(k) ==
    LET layer == IF k < 2 THEN "In2.Cu" ELSE "In4.Cu"
        chip  == At(IF k < 2 THEN 112 ELSE 128, 35)
        y     == 300 * k
        pair  == {<<"DDR_DQS_P", k>>, <<"DDR_DQS_N", k>>}
        Gap(n) == IF n[1] = "DDR_DQS_P" THEN -15 ELSE 15
        Line(n, needs, from, to) == Trace(n, needs, 0, layer, from, to, 5)
    IN  {Line(<<"DDR_DQ", 8 * k + bit>>, {<<"DDR_DQ", 8 * k + bit>>},
              Shift(At(90, 45), 80 * bit, y), Shift(chip, 80 * bit - 800, y)) : bit \in 0 .. 7}
        \union {Line(n, pair, Shift(At(92, 45), 0, y + 100 + Gap(n)), Shift(chip, -400, y + 100 + Gap(n))) : n \in pair}
        \union {Line(<<"DDR_DM", k>>, {<<"DDR_DM", k>>}, Shift(At(93, 46), 0, y), Shift(chip, -200, y + 200))}

\* Address and command lines, in the order they are drawn.
DdrBus ==
    [i \in 1 .. 15 |-> <<"DDR_A", i - 1>>] \o [i \in 1 .. 3 |-> <<"DDR_BA", i - 1>>]
    \o <<Net("DDR_CAS_B"), Net("DDR_RAS_B"), Net("DDR_WE_B"), Net("DDR_CKE"), Net("DDR_CS_B"),
         Net("DDR_ODT"), Net("DDR_RESET_B")>>

\* Fly-by: Zynq to chip 0, chip 0 to chip 1.
FlyBy(n, needs, y0, y1) ==
    {Trace(n, needs, 0, "In4.Cu", <<200 * 94, y0>>, <<200 * 112, y1>>, 5),
     Trace(n, needs, 0, "In4.Cu", <<200 * 114, y1>>, <<200 * 128, y1>>, 5)}

\* ClockNoGap is a faulty variant that draws both lines of the clock at one place.
ClockNoGap ==
    (UNION {FlyBy(DdrBus[i], {DdrBus[i]}, 200 * 58 + 70 * (i - 1), 200 * 45 + 70 * (i - 1)) : i \in 1 .. Len(DdrBus)})
    \union UNION {FlyBy(n, DdrClock, 200 * 56 - 15, 200 * 43 - 15) : n \in DdrClock}

gen_ddr3l_flyby ==
    (UNION {FlyBy(DdrBus[i], {DdrBus[i]}, 200 * 58 + 70 * (i - 1), 200 * 45 + 70 * (i - 1)) : i \in 1 .. Len(DdrBus)})
    \union FlyBy(Net("DDR_CK_P"), DdrClock, 200 * 56 - 15, 200 * 43 - 15)
    \union FlyBy(Net("DDR_CK_N"), DdrClock, 200 * 56 + 15, 200 * 43 + 15)

\* The pairs between transceiver and Zynq.  All four clock and frame pairs have
\* the same coordinates: x_base is set again in every turn of the loop.
gen_lvds_routing ==
    LET Line(name, i, needs, x, y0, y1) == Trace(<<name, i>>, needs, 0, "In2.Cu", <<x, 200 * y0>>, <<x, 200 * y1>>, 5)
        Pair(names, i, x, y0, y1) ==
            {Line(names[1], i, Pairs(names, {i}), x, y0, y1), Line(names[2], i, Pairs(names, {i}), x + 40, y0, y1)}
    IN  (UNION {Pair(AdData, i, 200 * 72 + 240 * i, 20, 38) : i \in 0 .. 11})
        \union (UNION {Pair(names, 0, 200 * 88, 21, 40) : names \in AdTiming})

\* The receive and the transmit path, each a chain of points.
RxPath == <<At(10, 10), At(22, 10), At(34, 10), At(46, 12), At(58, 14), At(80, 16)>>
TxPath == <<At(80, 16), At(58, 8), At(46, 8), At(34, 10), At(22, 16), At(10, 20)>>
gen_rf_routing ==
    LET Chain(n, alt, path) == {Trace(n, {}, alt, "F.Cu", path[i], path[i + 1], 3) : i \in 1 .. Len(path) - 1}
    IN  Chain(Net("AD_RX1A_P"), 178, RxPath) \union Chain(Net("AD_TX1A"), 180, TxPath)

\* Rails fan out from one point, where +12V arrives.
gen_power_routing ==
    LET Rail(n, alt, from, to) == Trace(Net(n), {}, alt, "In5.Cu", from, to, 10)
        reg == At(135, 80)
    IN  {Rail("+1V0", 3, reg, At(80, 50)), Rail("+1V35", 6, reg, At(120, 35)), Rail("+1V8", 13, reg, At(80, 60)),
         Rail("+3V3", 16, reg, At(80, 75)), Rail("+5V", 20, reg, At(80, 85)), Rail("+1V3_AD", 9, reg, At(80, 16)),
         Rail("+3V3A", 17, reg, At(90, 16)), Rail("+12V", 2, At(150, 10), reg)}

gen_general_io_routing ==
    LET Line(n, alt, layer, from, to) == Trace(n, {}, alt, layer, from, to, 5)
        spi  == << <<Net("AD_SCLK"), 179>>, <<Net("AD_MOSI"), 176>>, <<Net("AD_MISO"), 175>>, <<Net("AD_CS_N"), 174>> >>
        uart == << <<Net("PS_UART0_RX"), 392>>, <<Net("PS_UART0_TX"), 393>>,
                   << <<"UART0_MIO", 46>>, 416>>, << <<"UART0_MIO", 47>>, 417>> >>
        i2c  == << <<Net("PS_I2C_SCL"), 385>>, <<Net("PS_I2C_SDA"), 386>> >>
        jtag == [i \in 1 .. 4 |-> << <<"MIO", 9 + i>>, 348 + i>>]
        Y(i) == 100 * (i - 1)
    IN  {Line(spi[i][1], spi[i][2], "In6.Cu", Shift(At(75, 42), 0, Y(i)), Shift(At(75, 24), 0, Y(i))) : i \in 1 .. 4}
        \union {Line(uart[i][1], uart[i][2], "In8.Cu", At(69 + i, 65), At(18 + 2 * i, 92)) : i \in 1 .. 4}
        \union {Line(i2c[i][1], i2c[i][2], "In6.Cu", Shift(At(85, 62), 0, Y(i)), At(38 + 2 * i, 92)) : i \in 1 .. 2}
        \union {Line(jtag[i][1], jtag[i][2], "In8.Cu", Shift(At(68, 60), 0, Y(i)), At(8 + 2 * i, 92)) : i \in 1 .. 4}

Traces ==
    (UNION {gen_ddr3l_lane(k) : k \in 0 .. 3}) \union gen_ddr3l_flyby \union gen_lvds_routing
    \union gen_rf_routing \union gen_power_routing \union gen_general_io_routing

Vector(t) == <<t.to[1] - t.from[1], t.to[2] - t.from[2]>>
Square(v) == v[1] * v[1] + v[2] * v[2]

\* How often a length goes into a vector: int(dist / length), but at least once.
\* StepsUp is a faulty variant that rounds up.
StepsUp(v, length) ==
    CHOOSE k \in 1 .. 200 : (k - 1) * (k - 1) * length * length < Square(v) /\ k * k * length * length >= Square(v)

Steps(v, length) ==
    LET n == CHOOSE k \in 0 .. 200 : k * k * length * length <= Square(v) /\ (k + 1) * (k + 1) * length * length > Square(v)
    IN  IF n = 0 THEN 1 ELSE n

\* The traces one run draws on a net table read from the sheets of S.
Drawable(S) == LET names == NetNames(S) IN {t \in Traces : t.needs \subseteq names}

\* route_point_to_point(): the segments of all of them.
Segments(S) == Cardinality(UNION {{t} \X (1 .. Steps(Vector(t), t.max)) : t \in Drawable(S)})

\* Ground vias: along the receive path every mm on both sides, and every 2 mm
\* around the board, 4 mm from its edge.
Vias ==
    LET Leg(i) == Steps(<<RxPath[i + 1][1] - RxPath[i][1], RxPath[i + 1][2] - RxPath[i][2]>>, 200) + 1
    IN  2 * Cardinality(UNION {{i} \X (1 .. Leg(i)) : i \in 1 .. Len(RxPath) - 1})
        + 2 * Cardinality({x \in 4 .. 156 : x % 2 = 0}) + 2 * Cardinality({y \in 6 .. 94 : y % 2 = 0})

\* Traces that are drawn on another net than their own, or on none.
Misrouted(S) == LET names == NetNames(S) IN {t \in Drawable(S) : t.net \notin names}
=============================================================================
