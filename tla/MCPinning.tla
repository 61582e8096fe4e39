------------------------------ MODULE MCPinning ------------------------------
EXTENDS Pinning

\* A program has the name of a map.
MCMapNames == <<"m", "n">>
MCProgNames == <<"p", "m">>
==============================================================================
