------------------------ MODULE MCPostgresStorage ------------------------
EXTENDS PostgresStorage, MCSubscriptions
Symmetry == Permutations(Procs)
=============================================================================
