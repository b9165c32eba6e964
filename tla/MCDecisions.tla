---------------------------- MODULE MCDecisions ----------------------------
EXTENDS Decisions
=============================================================================
