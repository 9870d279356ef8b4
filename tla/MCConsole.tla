----------------------------- MODULE MCConsole -----------------------------
\* Small instances of Console for TLC.
EXTENDS Console

CONSTANTS h1, h2  \* handlers

MCHandlers == {h1, h2}
Symmetric  == Permutations(Handlers)
=============================================================================
