--------------------------- MODULE MCCommandStatus ---------------------------
(* A command the user types and one the AI panel suggests, in one tab.     *)
EXTENDS CommandStatus

CONSTANTS typed, suggested

\* Out of step on its last connection, a tab gets back in step no more: what can
\* follow is explored on the connection before.
MCConstraint == slipped => reconnects < MaxReconnects
==============================================================================
