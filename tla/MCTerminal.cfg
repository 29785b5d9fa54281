SPECIFICATION Spec
CONSTANTS
    INPUT_BUF = 8
    COLS = 4
    ROWS = 3
    Readers = {1, 2}
    Strokes <- StrokesDef
    CATBUF = 3
    NBUF = 7
    GBUF = 9
    MAXARGS = 3
    Readable <- ReadableDef
    Starts <- StartsDef
    Events = 5
INVARIANTS ScreenShowsLine NobodySleepsOnInput RunsTheLine FiltersAgree
PROPERTIES EditsLines
CHECK_DEADLOCK FALSE
