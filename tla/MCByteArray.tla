----------------------------- MODULE MCByteArray -----------------------------
EXTENDS ByteArray

CONSTANTS b1, b2, undef

\* -1 zigzags to a one-byte varint; 64 is one byte unsigned, two signed.
VarintSmall == {-1, 64}
=============================================================================
