\* Two-byte nodes and up to three of them: values of one and two bytes,
\* varints of one and two bytes (64 zigzags to 128), strings with a
\* two-byte or a varint length field, and socket transfers of one and three
\* bytes, so that writes and reads both end on and cross node boundaries.
CONSTANTS
    b1 = b1
    b2 = b2
    undef = undef
    BaseSize = 2
    Bytes = {b1, b2}
    Undef = undef
    Widths = {1, 2}
    Lengths = {1, 3}
    VarintValues <- VarintSmall
    LengthFields = {"F16", "Vint"}
    HighBytes = {b2}
    StreamCalls = 2
    MaxCapacity = 6
SPECIFICATION Spec
PROPERTY BufferSpec
\* A crashed process makes no further calls.
CHECK_DEADLOCK FALSE
