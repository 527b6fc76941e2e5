------------------------- MODULE MCPostgresWrites -------------------------
EXTENDS MCPostgresStorage
CallsMC == WriteCalls
=============================================================================
