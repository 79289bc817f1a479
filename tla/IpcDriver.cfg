\* Short fields: a status of two bits, keys of one bit, two keys a read.
CONSTANTS
    StatusWidth = 2
    SerialWidth = 1
    CountWidth = 2
    KeyWidth = 1
    ReadLimit = 2
    ShortArguments = 1
    TestWidth = 2
    SoundArguments = 2
    DurationBits = {1}
    RandomWidth = 3
    Nibbles = {1, 12, 14}
    Keys = {0, 1}
    QueueBound = 4
    PressBound = 4

SPECIFICATION DriverSpec

INVARIANTS
    OneTransfer
    HostHearsSound
    Aligned
    KeysInOrder
    AnswerIsForCommand

PROPERTIES
    EveryKeyArrives
