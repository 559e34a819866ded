SPECIFICATION Spec
CONSTANTS
    op = op
    tamper = tamper
    Setter <- JustOp
    Forcer <- JustTamper
PROPERTIES
    UnlockRequired
