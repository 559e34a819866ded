------------------------------- MODULE Sheets -------------------------------
(***************************************************************************)
(* What the sheet generators of hardware/cirradio-devboard draw.           *)
(*                                                                         *)
(* A generator keeps one counter for each designator prefix and draws its  *)
(* sections in order.  A section is here the symbols it draws, in order,   *)
(* and the nets its labels and power symbols name; coordinates, wires and  *)
(* symbol graphics are left out.  A symbol either has its number written   *)
(* in the code or takes the next one of the sheet's counter.               *)
(*                                                                         *)
(* A net is <<name, index>>, the index 0 for a net that is not in a bus.   *)
(***************************************************************************)
EXTENDS Integers, Sequences, FiniteSets, SequencesExt, TLC

Net(n) == <<n, 0>>
Bus(n, S) == {<<n, i>> : i \in S}
Pairs(names, S) == Bus(names[1], S) \union Bus(names[2], S)   \* differential pairs
Rails(S) == {Net(n) : n \in S}
GND == Net("GND")

\* A symbol that takes the next number of prefix p, and one with number k.
Next1(p, fp) == <<[prefix |-> p, num |-> -1, fp |-> fp]>>
Fixed(p, k, fp) == <<[prefix |-> p, num |-> k, fp |-> fp]>>
Times(n, parts) == FlattenSeq([i \in 1 .. n |-> parts])

Section(parts, nets) == [parts |-> parts, nets |-> nets]
Joined(secs) ==
    [parts |-> FlattenSeq([i \in 1 .. Len(secs) |-> secs[i].parts]),
     nets  |-> UNION {secs[i].nets : i \in 1 .. Len(secs)}]

\* Footprint "" is none: the placement then takes the default size.
C == Next1("C", "0402")
C0805 == Next1("C", "0805")
R == Next1("R", "")
R0402 == Next1("R", "0402")
L == Next1("L", "0402")
L0805 == Next1("L", "0805")
L1210 == Next1("L", "1210")

\* A rail's decoupling capacitors: n of 100 nF, then m of 10 uF.
decoupling_group(rail, n, m) ==
    Section(Times(n, C) \o Times(m, C0805), {Net(rail), GND})

-----------------------------------------------------------------------------
(* power.kicad_sch, which no generator in the repository writes.            *)

\* The converter of a rail, with its enable and power good signals.
Converter(nets, u, enable) ==
    Section(u \o C0805 \o enable \o L1210 \o C0805 \o C0805, Rails(nets) \union {GND})

\* Barrel jack, reverse polarity diode, input capacitors and LED.
PowerInput ==
    Section(Next1("J", "BarrelJack") \o Next1("D", "D_SMA") \o Times(2, Next1("C", "1206"))
            \o Next1("C", "CP_Radial") \o Next1("LED", "0603") \o R0402,
            {Net("+12V"), GND})

\* +5V and +3V3 from the input; the filtered +5V_PA and +3V3A.
PowerMain ==
    LET U == Next1("U", "SOIC-8")
    IN  Joined(<<
          Converter({"+5V", "+5V_EN", "+5V_PG"}, U, R0402 \o C \o R0402 \o C),
          Section(R0402 \o R0402 \o L0805 \o C \o L0805, {Net("+5V_PA")}),
          Converter({"+3V3", "+3V3_EN", "+3V3_PG"}, U, R0402 \o C \o R0402 \o C),
          Section(R0402 \o R0402 \o Next1("FB", "0402") \o C, {Net("+3V3A")}) >>)

\* The four core rails, each with its feedback divider.
PowerCore ==
    LET Buck(nets) == Converter(nets, Next1("U", "WSON-8_2x2"), C)
        Divider == Section(Times(3, R0402), {})
    IN  Joined(<<Buck({"+1V0", "+1V0_EN", "+1V0_PG"}), Divider, Buck({"+1V5", "+1V5_EN", "+1V5_PG"}), Divider,
                 Buck({"+1V8", "+1V8_EN", "+1V8_PG"}), Divider, Buck({"+1V35", "+1V35_EN", "+1V35_PG"}), Divider>>)

\* DDR termination regulator and reset supervisor.
PowerVtt ==
    Section(Next1("U", "QFN-16") \o C0805 \o R0402 \o R0402 \o C \o C0805 \o R0402
            \o Next1("U", "SOT-23-5") \o C \o R0402 \o C \o C \o R0402,
            Rails({"VTT", "VTTREF", "PS_POR_B"}))

Power == Joined(<<PowerInput, PowerMain, PowerCore, PowerVtt>>)

-----------------------------------------------------------------------------
(* gen_zynq.py.  The SoC is drawn as nine units, all of them U1.            *)

Zynq == Fixed("U", 1, "")

\* Configuration: clock, reset button, boot switch, DONE LED.
ZynqConfig ==
    Section(Zynq \o Fixed("Y", 1, "VDFN") \o C \o R \o Fixed("SW", 2, "SW_SPST") \o R \o C
            \o Fixed("SW", 1, "SW_DIP") \o Times(6, R) \o Fixed("D", 3, "0603") \o R \o R,
            Rails({"GND", "+3V3", "+1V8", "PS_POR_B"}))

ZynqJtag == Section(Fixed("J", 2, "PinHeader_2x07") \o Times(3, R), Rails({"GND", "+3V3"}))

ZynqMio ==
    Section(Zynq,
            Bus("QSPI_MIO", 1 .. 6) \union Bus("ETH_MIO", 16 .. 27) \union Bus("USB_MIO", 28 .. 39)
            \union Bus("SD_MIO", 40 .. 45) \union Bus("UART0_MIO", 46 .. 47)
            \union Bus("UART1_MIO", 48 .. 49) \union Bus("I2C_MIO", 50 .. 51)
            \union Bus("MIO", (7 .. 15) \union (52 .. 53)))

DdrAddress == Bus("DDR_A", 0 .. 14) \union Bus("DDR_BA", 0 .. 2)
DdrCommand == Rails({"DDR_CAS_B", "DDR_RAS_B", "DDR_WE_B", "DDR_CKE", "DDR_CS_B", "DDR_ODT"})
DdrClock == Rails({"DDR_CK_P", "DDR_CK_N"})
DdrLanes(S) ==
    Bus("DDR_DQ", {i \in 0 .. 31 : i \div 8 \in S}) \union Bus("DDR_DM", S)
    \union Bus("DDR_DQS_P", S) \union Bus("DDR_DQS_N", S)
DdrControl == DdrAddress \union DdrCommand \union DdrClock \union {Net("DDR_RESET_B")}

ZynqDdr == Section(Zynq \o R \o R, DdrLanes(0 .. 3) \union DdrControl \union Rails({"VTTREF", "+1V35", "GND"}))

\* PL banks 33 and 34 (LVDS), 13 and 12 (single ended), and the spare one.
ZynqBanks ==
    Section(Times(5, Zynq),
            Pairs(<<"AD9361_B33_LP", "AD9361_B33_LN">>, 0 .. 24) \union Pairs(<<"AD9361_B34_LP", "AD9361_B34_LN">>, 0 .. 24)
            \union Bus("AD9361_B13_IO", 0 .. 49) \union Bus("GPIO_B12_IO", 0 .. 49))

ZynqPower == Section(Zynq, Rails({"+1V0", "+1V5", "+1V8", "+3V3", "GND"}))

ZynqDecoupling ==
    LET Bank(rail) == decoupling_group(rail, 4, 1)
    IN  Joined(<<decoupling_group("+1V0", 20, 4), decoupling_group("+1V5", 8, 2),
                 Bank("+1V8"), Bank("+1V8"), Bank("+3V3"), Bank("+3V3"), Bank("+1V8"), Bank("+1V8"),
                 decoupling_group("+1V0", 8, 2), Bank("+1V8"), Bank("+1V0"), Bank("+1V8")>>)

ZynqSheet ==
    Joined(<<ZynqConfig, ZynqJtag, ZynqMio, ZynqDdr, ZynqBanks, ZynqPower, ZynqDecoupling>>)

-----------------------------------------------------------------------------
(* gen_ddr3l.py                                                             *)

\* One chip, with its ZQ resistor and reference divider, on two byte lanes.
place_ddr_chip(k, lanes) ==
    Section(Fixed("U_DDR", k, "BGA-96") \o Times(3, R0402) \o C,
            DdrLanes(lanes) \union DdrControl \union Rails({"+1V35", "GND"}))

\* A series resistor to VTT on each address and command line.
place_vtt_termination ==
    LET lines == DdrAddress \union DdrCommand
    IN  Section(Times(Cardinality(lines), R0402), lines \union {Net("VTT")})

DdrDecoupling == Joined([i \in 1 .. 4 |-> decoupling_group("+1V35", 4, 1)])

DdrSheet ==
    Joined(<<place_ddr_chip(0, {0, 1}), place_ddr_chip(1, {2, 3}), DdrDecoupling, place_vtt_termination>>)

-----------------------------------------------------------------------------
(* gen_ad9361.py.  The transceiver is drawn as four units, all of them U10. *)

Ad9361 == Fixed("U", 10, "BGA-144")

\* The data pairs, and those of clocks and frames.
AdData == <<"P0_D_P", "P0_D_N">>
AdTiming ==
    {<<"DATA_CLK_P", "DATA_CLK_N">>, <<"FB_CLK_P", "FB_CLK_N">>,
     <<"RX_FRAME_P", "RX_FRAME_N">>, <<"TX_FRAME_P", "TX_FRAME_N">>}

AdLvds == Section(Ad9361, Pairs(AdData, 0 .. 11) \union UNION {Pairs(names, {0}) : names \in AdTiming})

AdSpi == Rails({"AD_SCLK", "AD_MOSI", "AD_MISO", "AD_CS_N"})

AdControl ==
    Section(Ad9361 \o Times(5, R),
            AdSpi \union Rails({"EN_AGC", "ENABLE", "TXNRX", "RESETB", "+1V3_AD"})
            \union Bus("CTRL_IN", 0 .. 3) \union Bus("CTRL_OUT", 0 .. 7))

AdRf == Rails({"AD_RX1A_P", "AD_RX1A_N", "AD_TX1A"})

\* RF ports and the 40 MHz oscillator.
AdClock ==
    Section(Ad9361 \o Fixed("Y", 2, "DIP-14") \o C \o C0805 \o C \o R \o C,
            AdRf \union Rails({"+3V3A", "GND"}))

\* Supplies and the 1.3 V regulator.
AdPower ==
    Section(Ad9361 \o Next1("U", "SOT-23-5") \o C0805 \o C \o C0805 \o C \o C \o R,
            Rails({"+1V3_AD", "+1V8", "+3V3A", "GND"}))

AdDecoupling ==
    Joined(<<decoupling_group("+1V3_AD", 4, 1), decoupling_group("+1V3_AD", 4, 1),
             decoupling_group("+1V8", 4, 1), decoupling_group("+3V3A", 4, 1),
             decoupling_group("+1V3_AD", 2, 0), decoupling_group("+3V3A", 2, 1)>>)

AdSheet == Joined(<<AdLvds, AdControl, AdClock, AdPower, AdDecoupling>>)

-----------------------------------------------------------------------------
(* gen_rf.py                                                                *)

RfAntenna == Section(Fixed("J", 1, "SMA"), {GND})
RfBandpass == Section(Times(3, L \o C), {GND})
RfSwitch == Section(Next1("U", "QFN-16") \o C, Rails({"GND", "+3V3", "TR_V1", "TR_V2"}))
RfLna == Section(Next1("U", "QFN-16") \o L \o Times(4, C), Rails({"GND", "+3V3A"}))
RfSaw == Section(Fixed("FL", 1, ""), {GND})
RfRxOut == Section(C \o C, Rails({"AD_RX1A_P", "AD_RX1A_N"}))
RfTxIn == Section(C, {Net("AD_TX1A")})
RfDriver == Section(Next1("U", "QFN-24") \o Times(3, C) \o R, Rails({"GND", "+5V_PA", "TX_DRV_PWDN"}))
RfPa == Section(Next1("U", "TGA2594") \o C0805 \o C \o C, Rails({"GND", "+5V_PA"}))
RfLowpass == Section(C \o L \o C, {GND})

RfSheet ==
    Joined(<<RfAntenna, RfBandpass, RfSwitch, RfLna, RfSaw, RfRxOut, RfTxIn, RfDriver, RfPa, RfLowpass>>)

-----------------------------------------------------------------------------
(* gen_peripherals.py                                                       *)

build_qspi ==
    Section(Next1("U", "WSON-8-1EP_6x5") \o C \o R \o R, Bus("QSPI_MIO", 1 .. 6) \union Rails({"+1V8", "GND"}))

build_emmc ==
    Section(Next1("U", "BGA-153") \o C \o C \o R,
            Bus("EMMC_DAT", 0 .. 7) \union Rails({"EMMC_CLK", "EMMC_CMD", "+3V3", "+1V8", "GND"}))

build_usb_phy ==
    Section(Next1("U", "QFN-32") \o C \o C \o R \o R \o Next1("J", "USB_A") \o R \o R,
            Bus("USB_MIO", 28 .. 39) \union Rails({"+3V3", "+5V", "GND"}))

build_ethernet ==
    Section(Next1("U", "QFN-48") \o C \o C0805 \o C \o R \o Next1("Y", "Crystal") \o C \o C \o Next1("J", "RJ45"),
            Bus("ETH_MIO", 16 .. 27) \union Rails({"ETH_MDIO", "ETH_MDC", "+1V8", "GND"}))

build_uart_usb ==
    Section(Next1("U", "QFN-32") \o C \o C0805 \o R \o C \o Next1("J", "USB_Micro") \o R \o R,
            Bus("UART1_MIO", 48 .. 49) \union Rails({"+3V3", "+5V", "GND"}))

build_gps ==
    Section(Next1("U", "LCC-16") \o C \o C0805 \o Next1("J", "U.FL") \o R,
            Rails({"GPS_TXD", "GPS_RXD", "GPS_1PPS", "+3V3A", "GND"}))

build_microsd ==
    Section(Next1("J", "microSD") \o C \o Times(6, R),
            Bus("SD_MIO", 40 .. 45) \union Rails({"SD_CD_N", "+3V3", "GND"}))

generate_tamper_section ==
    Section(R \o R, Rails({"GPIO_TAMPER_MESH", "GPIO_TAMPER_LID", "GPIO_ENV_ALERT", "GND"}))

PeripheralSheet ==
    Joined(<<build_qspi, build_emmc, build_usb_phy, build_ethernet, build_uart_usb, build_gps,
             build_microsd, generate_tamper_section>>)

-----------------------------------------------------------------------------
(* gen_connectors.py                                                        *)

\* The 2x20 header: twenty PL lines through a resistor, the PS signals.
GpioHeader ==
    Section(Next1("J", "PinHeader_2x20") \o Times(20, R0402),
            Bus("GPIO_B12_IO", 0 .. 19)
            \union Rails({"PS_UART0_TX", "PS_UART0_RX", "PS_I2C_SDA", "PS_I2C_SCL", "PS_SPI_CE0",
                          "PS_SPI_MISO", "PS_SPI_MOSI", "PS_SPI_SCLK", "+3V3", "+5V", "GND"}))

StatusLeds == Section(Times(4, R0402 \o Next1("D", "0603")), Bus("GPIO_B12_IO", 40 .. 42) \union Rails({"+3V3", "GND"}))

UserButtons ==
    Section(Times(2, R0402 \o Next1("SW", "SW_Push") \o C), Bus("GPIO_B12_IO", {44, 45}) \union Rails({"+3V3", "GND"}))

\* One test point for each rail and for two signals.
TestPoints ==
    LET nets == Rails({"+12V", "+5V", "+3V3", "+1V8", "+1V35", "+1V0", "+1V5", "VTT", "GND", "GPS_1PPS", "PS_CLK"})
    IN  Section(Times(Cardinality(nets), Next1("TP", "TestPoint")), nets)

ConnectorSheet == Joined(<<GpioHeader, StatusLeds, UserButtons, TestPoints>>)

-----------------------------------------------------------------------------
(* The sheets, and their parts once numbered.                               *)

\* The order in which the netlist and the placement read the sheets.
SCHEMATIC_FILES == <<"power", "zynq", "ddr3l", "ad9361", "rf-frontend", "peripherals", "connectors">>
Sheet == ToSet(SCHEMATIC_FILES)

Drawn ==
    LET sheets == <<Power, ZynqSheet, DdrSheet, AdSheet, RfSheet, PeripheralSheet, ConnectorSheet>>
    IN  [s \in Sheet |-> sheets[CHOOSE i \in 1 .. 7 : SCHEMATIC_FILES[i] = s]]

\* Where a sheet's counter of prefix p starts.
FirstNumber(s, p) ==
    CASE s = "power"       -> 1
      [] s = "zynq"        -> 100
      [] s = "rf-frontend" -> IF p = "U" THEN 10 ELSE 300
      [] s = "ad9361"      -> IF p = "U" THEN 11 ELSE 200
      [] OTHER             -> CASE p \in {"C", "R"}        -> 200
                                [] p \in {"D", "SW", "TP"} -> 1
                                [] OTHER                   -> 10

\* The parts of a sheet with their designators, as they stand in its file.
WithNumbers(s, parts) ==
    LET Earlier(i) == Cardinality({j \in 1 .. i - 1 : parts[j].prefix = parts[i].prefix /\ parts[j].num = -1})
    IN  [i \in 1 .. Len(parts) |->
           [ref |-> <<parts[i].prefix,
                      IF parts[i].num = -1 THEN FirstNumber(s, parts[i].prefix) + Earlier(i) ELSE parts[i].num>>,
            fp  |-> parts[i].fp]]

Numbered(s) == WithNumbers(s, Drawn[s].parts)

NetsOf(s) == Drawn[s].nets
=============================================================================
