------------------------------ MODULE PcbFlow ------------------------------
(***************************************************************************)
(* The scripts that make the dev board (hardware/README.md): sheet         *)
(* generators, netlist, placement, planes, routing and the design rule     *)
(* check.  They share files and nothing else: each reads what is there,    *)
(* in whatever order and however often they are started.                   *)
(*                                                                         *)
(* The board file is known by the sheets that were there when its net      *)
(* table and when its footprints were written, and by the copper in it.    *)
(***************************************************************************)
EXTENDS Placement, Routing

CONSTANTS
    Late,        \* sheets that do not exist at the start
    MaxRouting   \* bound: runs of the routing script on one board file

ASSUME LateAssumption == Late \subseteq Sheet \ {"power"}

VARIABLES
    present,     \* the sheets that exist
    pcb,         \* cirradio-devboard.kicad_pcb
    verdict      \* how the last design rule check ended

pcbVars == <<present, pcb, verdict>>

NoFile == [exists |-> FALSE, nets |-> {}, placed |-> FALSE, parts |-> {}, planes |-> FALSE, routed |-> 0]

PcbInit ==
    /\ present = Sheet \ Late
    /\ pcb = NoFile
    /\ verdict = "none"

\* A generator writes its sheet, the same one every time.  power.kicad_sch has
\* no generator.
gen(s) ==
    /\ s # "power"
    /\ present' = present \union {s}
    /\ UNCHANGED <<pcb, verdict>>

\* gen_pcb_netlist.py skips missing sheets and writes the file anew, without
\* footprints, planes or traces.
netlist ==
    /\ pcb' = [NoFile EXCEPT !.exists = TRUE, !.nets = present]
    /\ UNCHANGED <<present, verdict>>

\* gen_pcb_placement.py replaces all footprints but the mounting holes.  It fails
\* without a board file.
placement ==
    /\ pcb.exists
    /\ pcb' = [pcb EXCEPT !.placed = TRUE, !.parts = present]
    /\ UNCHANGED <<present, verdict>>

\* gen_pcb_planes.py removes the zones it finds and draws them again.
planes ==
    /\ pcb.exists
    /\ pcb' = [pcb EXCEPT !.planes = TRUE]
    /\ UNCHANGED <<present, verdict>>

\* gen_pcb_routing.py adds its traces to those in the file.
routing ==
    /\ pcb.exists
    /\ pcb.routed < MaxRouting
    /\ pcb' = [pcb EXCEPT !.routed = @ + 1]
    /\ UNCHANGED <<present, verdict>>

\* gen_pcb_drc.py: parentheses and outline are right in every file the other
\* scripts write, and the pattern that looks for net references matches none.
drc ==
    /\ verdict' = IF pcb.exists THEN "PASS" ELSE "ERROR"
    /\ UNCHANGED <<present, pcb>>

PcbNext ==
    \/ \E s \in Sheet : gen(s)
    \/ netlist \/ placement \/ planes \/ routing \/ drc

PcbSpec == PcbInit /\ [][PcbNext]_pcbVars

-----------------------------------------------------------------------------
(* What the board file holds.  What a script draws depends only on the      *)
(* sheets it finds, so it is worked out once for each set of sheets that    *)
(* can be there.                                                            *)

Inputs == {Sheet \ missing : missing \in SUBSET Late}
Layouts == [S \in Inputs |-> Placed(S)]

MountingHoles == 4

\* What gen_pcb_drc.py prints.  Net 0 is the empty net.
Report ==
    [nets       |-> Cardinality(NetNames(pcb.nets)) + 1,
     components |-> MountingHoles + (IF pcb.placed THEN Len(Layouts[pcb.parts]) ELSE 0),
     segments   |-> pcb.routed * Segments(pcb.nets),
     vias       |-> pcb.routed * Vias,
     zones      |-> IF pcb.planes THEN Len(Planes) ELSE 0]

-----------------------------------------------------------------------------
(* Properties.                                                              *)

InputsWithPlanesRight == {S \in Inputs : MisplacedPlanes(S) = {}}
InputsWithTracesRight == {S \in Inputs : Misrouted(S) = {}}

\* Copper is on the net it was drawn for.  The planes go by numbers that are
\* right only while the net list begins with every rail of the power and of the
\* ad9361 sheet; the traces that do not look for their net first need the zynq and
\* connectors sheets too.
CopperOnItsNet ==
    /\ pcb.planes /\ {"power", "ad9361"} \subseteq pcb.nets => pcb.nets \in InputsWithPlanesRight
    /\ pcb.routed > 0 /\ {"power", "zynq", "ad9361", "connectors"} \subseteq pcb.nets
          => pcb.nets \in InputsWithTracesRight

\* Two parts on one side may share ground only where one of them is at a
\* position written in the script, or where one is in the peripherals' zone and the
\* other in the connectors' zone around it.
MayMeet(a, b) == {a.by, b.by} \intersect {"fixed", "last"} # {} \/ {a.by, b.by} = {"periph", "conn"}
OnBoard(box) == box.x >= 0 /\ box.x + box.w <= 160 * mm /\ box.y >= 0 /\ box.y + box.h <= 100 * mm
Clear(layout) ==
    \A i \in DOMAIN layout :
        /\ OnBoard(layout[i].box)
        /\ \A j \in 1 .. i - 1 :
              \/ layout[i].layer # layout[j].layer
              \/ Apart(layout[i].box, layout[j].box)
              \/ MayMeet(layout[i], layout[j])

\* The board has every designator of the sheets of S once, and under it the part of
\* the sheet that was read first of those that have it.
AsRead(layout, S) ==
    LET refs == [s \in S |-> RefsOf(Numbered(s))]
        drawn == UNION {refs[s] : s \in S}
    IN  /\ {p.ref : p \in ToSet(layout)} = drawn /\ Len(layout) = Cardinality(drawn)
        /\ \A p \in ToSet(layout) :
              /\ p.sheet \in S /\ p.ref \in refs[p.sheet]
              /\ \A t \in S \intersect ReadBefore(p.sheet) : p.ref \notin refs[t]

InputsAsRead == {S \in Inputs : AsRead(Layouts[S], S)}
InputsApart == {S \in Inputs : Clear(Layouts[S])}

\* gen_pcb_placement.py:812: whichever sheets exist and wherever their parts go, a
\* designator is on the board once, and it is the part of the sheet read first.  A
\* later sheet's other part of that name is lost: so are 106 of the 418 parts of all
\* sheets, the Zynq (U1 on power.kicad_sch is a converter) and U10 to U13 among them.
EarlierSheetWins == pcb.placed => pcb.parts \in InputsAsRead

\* The courtyards of parts that placement found room for in zones do not overlap,
\* and no part is beyond the edge of the board.
PartsApart == pcb.placed => pcb.parts \in InputsApart

\* hardware/README.md:45: the check of a board made of all sheets, with routing run
\* once, counts 316 components, 717 segments, 394 vias and 13 zones.  The fifth
\* number there, 434 nets, is wrong: the sheets have 437.
DocumentedCounts ==
    pcb.nets = Sheet /\ pcb.parts = Sheet /\ pcb.planes /\ pcb.routed = 1
        => /\ Report.components = 316 /\ Report.segments = 717
           /\ Report.vias = 394 /\ Report.zones = 13

\* The differential pairs, by the names of their lines, and how the second line of
\* a pair lies off the first: 0.15 mm below or 0.2 mm to the right.
Strobes == <<"DDR_DQS_P", "DDR_DQS_N">>
MemoryClock == <<"DDR_CK_P", "DDR_CK_N">>
PairsOfLines == {Strobes, MemoryClock, AdData} \union AdTiming
Gap(names) == IF names \in {Strobes, MemoryClock} THEN <<0, 30>> ELSE <<40, 0>>

\* u runs on t's layer, from end to end at that distance.
Beside(t, u, gap) ==
    /\ u.layer = t.layer
    /\ u.from = Shift(t.from, gap[1], gap[2]) /\ u.to = Shift(t.to, gap[1], gap[2])

\* Of the traces drawn each first line of a pair has its second line beside it, in
\* the same net class, and each second line its first.
Together(drawn, names) ==
    LET Lines(k) == {t \in drawn : t.net[1] = names[k]}
        Mates(t, u) ==
            /\ t.net[2] = u.net[2] /\ Beside(t, u, Gap(names))
            /\ classify_net(t.net) = classify_net(u.net)
    IN  /\ \A t \in Lines(1) : \E u \in Lines(2) : Mates(t, u)
        /\ \A u \in Lines(2) : \E t \in Lines(1) : Mates(t, u)

InputsMatched ==
    {S \in Inputs :
        LET drawn == Drawable(S)
        IN  /\ \A k \in 0 .. 3 : \A t, u \in gen_ddr3l_lane(k) : Vector(t) = Vector(u)
            /\ \A t, u \in gen_ddr3l_flyby : t.from[1] = u.from[1] => Square(Vector(t)) = Square(Vector(u))
            /\ \A names \in PairsOfLines : Together(drawn, names)}

\* Notes 2 and 4 of gen_ddr3l.py:542 and gen_pcb_routing.py: within a byte lane the
\* traces are of one length, the clock is as long as the address lines, and the two
\* lines of a pair are drawn both or not at all, side by side and in one net class.
\* Not that this class is a differential one: the strobes are classed as single
\* lines, against note 4.
MatchedTraces == pcb.routed > 0 => pcb.nets \in InputsMatched
=============================================================================
