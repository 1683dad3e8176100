CONSTANTS
    CAPACITY <- MC_CAPACITY
    Keys <- MC_Keys
    MAX_TYPED <- MC_MAX_TYPED
    WIDTH <- MC_WIDTH
    HEIGHT <- MC_HEIGHT
SPECIFICATION Spec
INVARIANTS
    DecodeFaithful
    VgaInBounds
PROPERTY EventsConsumed
