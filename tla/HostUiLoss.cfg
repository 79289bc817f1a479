CONSTANTS
    Slots = {1, 2}
    Imports = {file}
    Virgin = virgin
    NoFile = nofile
    MountBound = 3
    RomBound = 2

SPECIFICATION Spec

PROPERTIES
    LossIsSignalled
