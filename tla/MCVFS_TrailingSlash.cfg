\* `mkdir /tmp/` links an entry named "" under /tmp, which no path reaches,
\* and reports success.
CONSTANTS
    Inputs <- MC_InputsSlash
    Data <- MC_Data
    HOSTNAME <- MC_HOSTNAME
    VERSION <- MC_VERSION
    MAX_OPS = 3
SPECIFICATION Spec
PROPERTY FileTreeSpec
