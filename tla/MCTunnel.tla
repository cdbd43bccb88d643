------------------------------ MODULE MCTunnel ------------------------------
\* Instances of Tunnel for TLC.
EXTENDS Tunnel

CONSTANTS a, t1, t2
=============================================================================
