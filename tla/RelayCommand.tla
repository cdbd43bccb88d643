---------------------------- MODULE RelayCommand ----------------------------
(***************************************************************************)
(* What the relay API promises of every command it is asked to run,        *)
(* whatever becomes of tabs, connections, clients and deadlines on the     *)
(* way: the command is started at most once, in the terminal of the tab or *)
(* on a connection of its own; it is typed only while every other command  *)
(* in that terminal was abandoned by its client; and its one answer says   *)
(* what became of it.                                                      *)
(***************************************************************************)

CONSTANT Requests

VARIABLE command    \* of each request: its fate, its answer and its client

\* open: not sent, and still may be. typed: it waits in the terminal; lost: it
\* was sent and will not run. ran, own: it ran in the tab, or elsewhere. never:
\* it will not run, and nothing of it was sent or nobody is left to tell.
Sent == {"typed", "lost", "running", "ran"}
Fates == Sent \union {"idle", "open", "own", "never"}
Answers == {"none", "done", "timed_out", "unknown", "refused", "error", "elevate"}

CommandRecords ==
    [fate : Fates, answer : Answers, required : BOOLEAN, client : {"listens", "gone"}]

Init ==
    command = [r \in Requests |->
                 [fate |-> "idle", answer |-> "none",
                  required |-> FALSE, client |-> "listens"]]

Becomes(r, c) == command' = [command EXCEPT ![r] = c]
Ends(r, f, a) == Becomes(r, [command[r] EXCEPT !.fate = f, !.answer = a])

Ask(r) ==
    /\ command[r].fate = "idle"
    /\ \E q \in BOOLEAN :
         Becomes(r, [command[r] EXCEPT !.fate = "open", !.required = q])

\* An open command may be past its last chance to be sent already.
HangUp(r) ==
    /\ command[r].fate # "idle"
    /\ \/ Becomes(r, [command[r] EXCEPT !.client = "gone"])
       \/ /\ command[r].fate = "open"
          /\ Becomes(r, [command[r] EXCEPT !.client = "gone", !.fate = "never"])

GiveUp(r) ==
    /\ command[r].client = "gone" /\ command[r].answer = "none"
    /\ command[r].fate \in {"open", "lost"}
    /\ Becomes(r, [command[r] EXCEPT !.fate = "never"])

Type(r) ==
    /\ command[r].fate = "open"
    /\ \A s \in Requests \ {r} :
         command[s].fate \in {"typed", "running"} => command[s].client = "gone"
    /\ \E f \in {"typed", "lost"} : Becomes(r, [command[r] EXCEPT !.fate = f])

Start(r) ==
    /\ command[r].fate = "typed"
    /\ Becomes(r, [command[r] EXCEPT !.fate = "running"])

\* A command ended, or the terminal did.
Stops(c, d) ==
    \/ d = c
    \/ c.fate = "running" /\ d = [c EXCEPT !.fate = "ran"]
    \/ c.fate = "typed" /\ d = [c EXCEPT !.fate = "lost"]
    \/ /\ c.fate = "typed" /\ c.client = "gone" /\ c.answer = "none"
       /\ d = [c EXCEPT !.fate = "never"]

Stop ==
    /\ \A r \in Requests : Stops(command[r], command'[r])
    /\ command' \in [Requests -> CommandRecords]

\* The answer to a command that was sent to the tab.
Report(r) ==
    /\ command[r].answer = "none" /\ command[r].fate \in Sent
    /\ \E a \in {"done", "elevate", "timed_out", "unknown"} :
         /\ a \in {"done", "elevate"} => command[r].fate = "ran"
         /\ a = "elevate" => command[r].required
         /\ Becomes(r, [command[r] EXCEPT !.answer = a])

\* A command for the tab of a bastion runs there or nowhere.
Refuse(r) ==
    /\ command[r].fate = "open" /\ command[r].required
    /\ Ends(r, "never", "refused")

RunElsewhere(r) ==
    /\ command[r].fate = "open" /\ ~command[r].required
    /\ \/ \E a \in {"done", "timed_out", "error"} : Ends(r, "own", a)
       \/ \E a \in {"error", "elevate"} : Ends(r, "never", a)

Next ==
    \/ Stop
    \/ \E r \in Requests :
         \/ Ask(r) \/ HangUp(r) \/ GiveUp(r) \/ Type(r) \/ Start(r)
         \/ Report(r) \/ Refuse(r) \/ RunElsewhere(r)

Spec == Init /\ [][Next]_command
=============================================================================
