----------------------------- MODULE MCAppFiles -----------------------------
(* Two connections and one OneKey entry, two runs of the application.        *)
EXTENDS AppFiles, TLC

CONSTANTS c1, c2, k1

MCConnections == {c1, c2}
MCKeys        == {k1}
MCSymmetry    == Permutations(MCConnections)

\* What follows a forgiven failure is of no interest to the properties.
MCConstraint  == ~forgiven
=============================================================================
