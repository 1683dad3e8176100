\* The Delete key against the GUI loop's two handlers.
CONSTANTS
    Chars <- MC_Chars
    InitFiles <- MC_InitFiles
    VIS_LINES = 2
    VIS_COLS = 2
    PAGE = 1
    UNDO_LIMIT = 2
    MAX_CHARS = 3
SPECIFICATION Spec
PROPERTY DeleteRemovesOne
