\* A movement of 8 counts: its delta byte has bit 3 set, as a first byte must.
CONSTANTS
    WIDTH <- MC_WIDTH
    HEIGHT <- MC_HEIGHT
    Moves <- MC_Moves_Fast
    Wheels <- MC_Wheels
    MAX_PACKETS <- MC_MAX_PACKETS
SPECIFICATION Spec
INVARIANT PacketIntegrity
