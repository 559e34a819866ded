SPECIFICATION MacSpec
CONSTANTS
    op = op
    tamper = tamper
    Setter <- JustOp
    Forcer <- JustTamper
    Slot <- TwoSlots
    FullAtten = 4
    RampStep = 3
    AttenRange = 8
    PREAMBLE_CYCLES = 2
INVARIANTS
    TamperSilence
    NeverLooser
PROPERTIES
    SilentOnAir
    PreambleEnds
    ImplementsPolicy
