-------------------------- MODULE MCAgentLifecycle --------------------------
\* Small instances of AgentLifecycle for TLC.
EXTENDS AgentLifecycle

CONSTANTS r1, r2, r3  \* requests

MCRequests == {r1, r2, r3}
=============================================================================
