--------------------------- MODULE MCSessionReplay ---------------------------
(* One bastion with two hosts and one context.                              *)
EXTENDS SessionReplay, TLC

CONSTANTS h1, h2, sudo

HostSymmetry == Permutations(Hosts)

\* Of the tasks spawned at most two have not run yet, and a tab that has
\* slipped is followed only while it is the only one there has been.
MCConstraint ==
  /\ Cardinality(writes) <= 2
  /\ minted > 1 => \A t \in Ids : ~tabs[t].slipped
==============================================================================
