-------------------------- MODULE MCPostgresCalls --------------------------
EXTENDS MCPostgresStorage
CallsMC == WriteCalls \cup RefusedCalls \cup {TooDear, ShortYear} \cup ReadCalls
=============================================================================
