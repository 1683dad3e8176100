\* `rm /dev` unlinks the root's shadowed "dev" entry and reports success;
\* /dev still resolves through the mount, but readdir("/") no longer lists it.
CONSTANTS
    Inputs <- MC_InputsMount
    Data <- MC_Data
    HOSTNAME <- MC_HOSTNAME
    VERSION <- MC_VERSION
    MAX_OPS = 3
SPECIFICATION Spec
PROPERTY FileTreeSpec
