------------------------- MODULE MCNetworkInterface -------------------------
EXTENDS NetworkInterface

=============================================================================
