--------------------------- MODULE MCPromptBroker ---------------------------
EXTENDS PromptBroker, TLC

CONSTANTS t1, x1, x2, yes, no

Symmetry == Permutations({x1, x2}) \cup Permutations({yes, no})
=============================================================================
