--------------------------- MODULE MCSerialNumber ---------------------------
EXTENDS SerialNumberProps

=============================================================================
