------------------------------ MODULE MCMouse ------------------------------
EXTENDS Mouse

\* A 4 x 3 screen, so that clamping happens at both edges.
MC_WIDTH == 4
MC_HEIGHT == 3

\* Small movements: each delta byte is 0x00, 0x01 or 0xFF.
MC_Moves == {<<0, 0>>, <<1, -1>>, <<-1, 1>>}
MC_Wheels == {-1, 0, 1}

\* A movement of 8 counts (delta byte 0x08, bit 3 set).
MC_Moves_Fast == {<<0, 8>>, <<0, 0>>}

MC_MAX_PACKETS == 2
====
