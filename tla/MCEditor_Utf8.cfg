\* Byte-indexed cursor movement over a UTF-8 file.
CONSTANTS
    Chars <- MC_Chars
    InitFiles <- MC_InitFilesUtf8
    VIS_LINES = 2
    VIS_COLS = 2
    PAGE = 1
    UNDO_LIMIT = 2
    MAX_CHARS = 3
SPECIFICATION Spec
INVARIANT CursorOnCharBoundary
