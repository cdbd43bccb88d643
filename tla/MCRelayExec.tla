----------------------------- MODULE MCRelayExec -----------------------------
(* Two relay requests, one user, one tab.                                  *)
EXTENDS RelayExec, TLC

CONSTANTS r1, r2

RequestSymmetry == Permutations(Requests)
==============================================================================
