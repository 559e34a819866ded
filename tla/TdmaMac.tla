------------------------------ MODULE TdmaMac -------------------------------
(***************************************************************************)
(* The transmitter side of fpga/src/tdma_mac/tdma_mac.sv on top of the     *)
(* EMCON latch of module Emcon: power amplifier gate, T/R switch, ramp and *)
(* preamble.  The inputs change between clock edges; one edge updates all  *)
(* the registers below.  The FPGA's edge that takes a register write is    *)
(* an edge of this clock followed by the write.                            *)
(***************************************************************************)
EXTENDS Emcon

CONSTANTS
    Slot,            \* slot numbers, 0 among them (0 .. 19)
    FullAtten,       \* attenuation of the closed amplifier (0x0FA0)
    RampStep,        \* pa_ramp_steps_i (4 after reset)
    AttenRange,      \* values of the attenuation register (2^16)
    PREAMBLE_CYCLES  \* length of the preamble in clock cycles (3000)

\* The ramp step the register map describes: never 0, and small enough that
\* pa_atten_x100_o + pa_ramp_steps_i does not wrap.
ASSUME RampAssumption ==
    /\ 0 \in Slot
    /\ {FullAtten, RampStep, PREAMBLE_CYCLES} \subseteq Nat \ {0}
    /\ AttenRange \in Nat /\ FullAtten + RampStep < AttenRange

VARIABLES
    slot_bitmap_i,     \* the slots this radio owns (REG_SLOT_BITMAP)
    current_slot_i,    \* the slot under way
    txnrx_o,           \* transmit; tr_switch_o always has the same value
    pa_atten_x100_o,   \* attenuation of the amplifier
    preamble_cnt,
    preamble_tx_o,
    prev_tx_slot

inputs == <<slot_bitmap_i, current_slot_i>>
mac == <<txnrx_o, pa_atten_x100_o, preamble_cnt, preamble_tx_o, prev_tx_slot>>
macVars == <<vars, inputs, mac>>

MacInit ==
    /\ Init
    /\ slot_bitmap_i = {} /\ current_slot_i = 0
    /\ txnrx_o = FALSE
    /\ pa_atten_x100_o = FullAtten
    /\ preamble_cnt = 0 /\ preamble_tx_o = FALSE /\ prev_tx_slot = FALSE

-----------------------------------------------------------------------------
tx_slot == current_slot_i \in slot_bitmap_i

\* Faulty variant of pa_enable_o: silence still lets the beacon slot through.
PaBeacon == tx_slot /\ (emcon_level_q = 2 \/ current_slot_i = 0)

\* Level 0: never.  Level 1: slot 0 only.  Level 2: every owned slot.
pa_enable_o ==
    /\ tx_slot
    /\ \/ emcon_level_q = 2
       \/ emcon_level_q = 1 /\ current_slot_i = 0

\* The attenuation after the next edge: down to 0 while the amplifier is
\* enabled, up to FullAtten while it is not.
Ramp ==
    IF pa_enable_o THEN IF pa_atten_x100_o >= RampStep THEN pa_atten_x100_o - RampStep ELSE 0
    ELSE LET up == (pa_atten_x100_o + RampStep) % AttenRange
         IN  IF up <= FullAtten THEN up ELSE FullAtten

\* Faulty variant of Preamble: every owned cycle starts the preamble anew.
PreambleAnew ==
    IF tx_slot
    THEN preamble_cnt' = PREAMBLE_CYCLES - 1 /\ preamble_tx_o' = TRUE
    ELSE preamble_cnt' = 0 /\ preamble_tx_o' = FALSE

\* A rising edge of tx_slot starts the preamble; it runs to its end even if the
\* slot is lost meanwhile, and EMCON does not gate it.
Preamble ==
    IF tx_slot /\ ~prev_tx_slot
    THEN preamble_cnt' = PREAMBLE_CYCLES - 1 /\ preamble_tx_o' = TRUE
    ELSE IF preamble_cnt > 0
    THEN preamble_cnt' = preamble_cnt - 1 /\ preamble_tx_o' = TRUE
    ELSE preamble_cnt' = 0 /\ preamble_tx_o' = FALSE

\* One clock edge.
Clock ==
    /\ txnrx_o' = pa_enable_o
    /\ pa_atten_x100_o' = Ramp
    /\ Preamble
    /\ prev_tx_slot' = tx_slot
    /\ UNCHANGED <<vars, inputs>>

\* The slot counter moves on; software writes REG_SLOT_BITMAP.
NextSlot ==
    /\ current_slot_i' \in Slot
    /\ UNCHANGED <<vars, slot_bitmap_i, mac>>
set_slot_bitmap ==
    /\ slot_bitmap_i' \in SUBSET Slot
    /\ UNCHANGED <<vars, current_slot_i, mac>>

MacNext ==
    \/ Next /\ UNCHANGED <<inputs, mac>>
    \/ Clock \/ NextSlot \/ set_slot_bitmap

\* The clock goes on.  A zeroize asks for it to stop before it forces silence,
\* but the bit it sets (ctrl_o of axi_regs.sv) is connected to nothing in fpga/src.
\* Only PreambleEnds rests on this fairness.
MacSpec == MacInit /\ [][MacNext]_macVars /\ WF_macVars(Clock)

-----------------------------------------------------------------------------
(* Properties *)

\* Once the tamper thread has forced silence the next edge turns the switch to
\* receive, and no later edge turns it back, whatever calls without unlock are
\* in flight and whichever slots this radio owns.
SilentOnAir == [][Clock /\ quiet => ~txnrx_o']_macVars

\* A preamble comes to its end while the slot lasts, so that the payload can
\* follow: "assert for first 3000 cycles of owned TX slot".
PreambleEnds == preamble_tx_o ~> (~preamble_tx_o \/ ~tx_slot)
=============================================================================
