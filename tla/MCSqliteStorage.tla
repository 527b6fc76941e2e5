-------------------------- MODULE MCSqliteStorage --------------------------
EXTENDS SqliteStorage, MCSubscriptions
CallsMC == WriteCalls \cup RefusedCalls \cup ReadCalls \cup {ShortYear, FilterOf(4, NilUser, s1)}
=============================================================================
