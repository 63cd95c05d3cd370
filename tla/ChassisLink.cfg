CONSTANTS
    Byte <- ThreeBits
    ExclusiveOr <- XorBits
    FRAME_HEADER = 3
    FRAME_TAIL = 5
    AutoCharge_HEADER = 4
    AutoCharge_TAIL = 7
    RECEIVE_DATA_SIZE = 5
    AutoCharge_DATA_SIZE = 4
    Payloads <- CodeData
    ChargePayloads <- CodeCharge
    MaxFrames = 6
    MaxGlitches = 2
SPECIFICATION Spec
CHECK_DEADLOCK FALSE
INVARIANTS
    Resynchronises
PROPERTIES
    DeliversWhatWasSent
