---------------------------- MODULE MCRelayServer ----------------------------
(* Instances of RelayServer for TLC.                                        *)
EXTENDS RelayServer, TLC
CONSTANTS r1, r2, r3, ip, root, user

RequestSymmetry == Permutations(Requests)
==============================================================================
