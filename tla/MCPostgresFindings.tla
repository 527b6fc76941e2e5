------------------------ MODULE MCPostgresFindings ------------------------
EXTENDS MCPostgresStorage
CallsMC == {CreateOf(s1, 1, 3), ShortYear, ListOf(NoValue, NoValue), FilterOf(4, NilUser, s1)}
=============================================================================
