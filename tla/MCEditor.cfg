\* The editor's cursor against every sequence of inputs.
CONSTANTS
    Chars <- MC_Chars
    InitFiles <- MC_InitFiles
    VIS_LINES = 2
    VIS_COLS = 2
    PAGE = 1
    UNDO_LIMIT = 2
    MAX_CHARS = 2
SPECIFICATION Spec
INVARIANT CursorInBounds
