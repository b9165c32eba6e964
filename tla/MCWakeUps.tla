----------------------------- MODULE MCWakeUps -----------------------------
EXTENDS WakeUps
MCPeriod == [r \in Rules |-> r]
=============================================================================
