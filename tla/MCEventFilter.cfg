\* Three bit positions, one of them in the low nibble; bytes 0xFF, 0x00 and a sensor type.
SPECIFICATION Spec
CONSTANTS
    Bits = {b0, b1, b2}
    OffsetBits = {b0}
    Wildcard = FF
    ZeroCode = Z00
    Code = {FF, Z00, temperature}
INVARIANT DataMatchMeetsDefinition
PROPERTY MaskedBitsIgnored
