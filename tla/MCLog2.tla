------------------------------- MODULE MCLog2 -------------------------------
EXTENDS Log2
=============================================================================
