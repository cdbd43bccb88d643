------------------------- MODULE MCSessionLifecycle -------------------------
\* Instances of SessionLifecycle for TLC.
EXTENDS SessionLifecycle

CONSTANTS c1, c2
=============================================================================
