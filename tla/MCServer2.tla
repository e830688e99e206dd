------------------------------ MODULE MCServer2 ------------------------------
EXTENDS Server2
=============================================================================
