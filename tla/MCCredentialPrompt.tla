------------------------- MODULE MCCredentialPrompt -------------------------
(* Two entries with a pattern each. Both answer the sudo prompt, which alone is *)
(* specific enough to be remembered; one answers the other prompt as well, by   *)
(* the same pattern.                                                            *)
EXTENDS CredentialPrompt, TLC

CONSTANTS s1, sudo, generic, k1, k2, e1, e2

MCSession    == {s1}
MCPrompt     == {sudo, generic}
MCKey        == {k1, k2}
MCExpect     == {e1, e2}
MCExpectOf   == (k1 :> e1) @@ (k2 :> e2)
MCAnswers    == (sudo :> MCKey) @@ (generic :> {k1})
MCSafe       == {sudo}
MCPersistent == {sudo}

\* Two changes of the library, or one and a restart.
MCConstraint == edits + restarts <= 2
=============================================================================
