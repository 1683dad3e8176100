CONSTANTS
    WIDTH <- MC_WIDTH
    HEIGHT <- MC_HEIGHT
    Moves <- MC_Moves
    Wheels <- MC_Wheels
    MAX_PACKETS <- MC_MAX_PACKETS
SPECIFICATION Spec
INVARIANT ScrollConserved
