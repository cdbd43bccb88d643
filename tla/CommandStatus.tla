---------------------------- MODULE CommandStatus ----------------------------
(* What becomes of the commands of one tab: they are written to the shell, the *)
(* shell's output comes back in chunks through the event loop, and the exit    *)
(* markers in it (OSC 133;D) decide what is recorded as history, what the      *)
(* badge shows, and what a command run for the AI panel ended with.            *)
(*                                                                             *)
(* A marker carries a status and no command: it is taken to be of the command  *)
(* that has waited longest. The output is a sequence of items, each a screen   *)
(* line that is no prompt, a line at a prompt, or a marker.                    *)
EXTENDS Integers, SequencesExt, FiniteSets

CONSTANTS
    Commands,       \* every submission of a command, each with an id of its own
    Compound,       \* those that contain |, ||, && or ;
    Dangerous,      \* those the safety checker asks the user about
    Suggested,      \* those that come from the AI panel
    MaxPending,     \* how many commands wait for a marker (32)
    MaxBatch,       \* how much output one turn of the loop takes (1 MiB)
    MaxBacklog,     \* how much of the rest it keeps (8 MiB)
    MaxChan,        \* bound: output on its way when the shell goes on
    MaxOthers,      \* bound: lines that reach the shell without being tracked
    MaxReconnects,  \* bound
    Nobody          \* no command

ASSUME CommandStatusAssumption ==
    /\ {Compound, Dangerous, Suggested} \subseteq SUBSET Commands
    /\ Commands \cap {Nobody, "other", "prompt"} = {}
    /\ {MaxPending, MaxBatch, MaxBacklog, MaxChan} \subseteq Nat \ {0}
    /\ {MaxOthers, MaxReconnects} \subseteq Nat

VARIABLES
    conn,           \* the tab: "up", "down" or "closed"
    shell,          \* the remote's end: alive, typed lines, what runs, integrated
    chan,           \* Output events on their way to the loop
    hangup,         \* the Disconnected event behind them
    pending_event,  \* the output the loop kept from its last turn
    pending,        \* pending_exit_check, oldest first
    evidence,       \* the session is in exit_code_sessions
    at_prompt,      \* the terminal's current line looks like a shell prompt
    record,         \* what is known of each command
    own,            \* how each command ended in the shell
    badge,          \* last_command_status
    dangerous,      \* pending_dangerous_command
    sandbox,        \* ShadowSandbox::phase
    screen,         \* the render that is shown and the one in pending_renders
    slipped,        \* markers and waiting commands have got out of step
    others,         \* untracked lines so far
    reconnects

vars == <<conn, shell, chan, hangup, pending_event, pending, evidence, at_prompt,
          record, own, badge, dangerous, sandbox, screen, slipped, others,
          reconnects>>

loopVars == <<chan, hangup, pending_event, at_prompt, screen>>
bounds   == <<others, reconnects>>

Other   == "other"     \* an untracked line: an empty one, the relay's, a script's
Lines   == Commands \cup {Other}
Results == {"ok", "failed"}

\* The elements of the sequence s that are in S, in their order.
Only(s, S) ==
    LET kept[n \in 0..Len(s)] ==
            IF n = 0 THEN <<>>
            ELSE kept[n - 1] \o (IF s[n] \in S THEN <<s[n]>> ELSE <<>>)
    IN  kept[Len(s)]

Items == [kind : {"text", "prompt", "mark"}, by : Lines, result : Results]

Marks        == [kind : {"mark"}, by : Lines, result : Results]
CommandMarks == [kind : {"mark"}, by : Commands, result : Results]

Text       == [kind |-> "text", by |-> Other, result |-> "ok"]
Prompt     == [kind |-> "prompt", by |-> Other, result |-> "ok"]
Mark(l, r) == [kind |-> "mark", by |-> l, result |-> r]

NoSandbox == [phase |-> "Idle", cmd |-> Nobody, exit |-> "none"]

Init ==
    /\ conn = "up"
    /\ shell \in [alive : {TRUE}, typed : {<<>>}, running : {"prompt"},
                  integrated : BOOLEAN]
    /\ chan = <<>> /\ hangup = FALSE /\ pending_event = <<>>
    /\ pending = <<>> /\ evidence = FALSE /\ at_prompt = FALSE
    /\ record = [c \in Commands |-> "new"]
    /\ own = [c \in Commands |-> "none"]
    /\ badge = "Success"
    /\ dangerous = Nobody
    /\ sandbox = NoSandbox
    /\ screen = [shown |-> "latest", stash |-> "none"]
    /\ slipped = FALSE /\ others = 0 /\ reconnects = 0

-----------------------------------------------------------------------------
(* The shell and its terminal.                                             *)

\* The shell reads the next line. What was typed ahead of the Enter may only now
\* be echoed behind the prompt; then the cursor leaves that line.
RunNext ==
    /\ shell.alive /\ shell.running = "prompt" /\ shell.typed # <<>>
    /\ Len(chan) < MaxChan
    /\ LET l == Head(shell.typed)
       IN  /\ shell' = [shell EXCEPT !.running = l, !.typed = Tail(@)]
           /\ \E echo \in {<<>>, <<Prompt>>} : chan' = chan \o echo \o <<Text>>
    /\ UNCHANGED <<conn, hangup, pending_event, pending, evidence, at_prompt,
                   record, own, badge, dangerous, sandbox, screen, slipped,
                   bounds>>

\* The running program reads the next line as its own input.
ReadByProgram ==
    /\ shell.alive /\ shell.running \in Lines /\ shell.typed # <<>>
    /\ shell' = [shell EXCEPT !.typed = Tail(@)]
    /\ slipped' = (slipped \/ Head(shell.typed) \in Commands)
    /\ UNCHANGED <<conn, loopVars, pending, evidence, record, own, badge, dangerous,
                   sandbox, bounds>>

\* The line ends; an untracked one may be the set-up of the shell integration. An
\* integrated shell then writes the marker; every shell writes its prompt.
Finish ==
    /\ shell.alive /\ shell.running \in Lines
    /\ Len(chan) < MaxChan
    /\ \E r \in Results, setup \in BOOLEAN :
           LET l == shell.running
               integrated == shell.integrated \/ (setup /\ l = Other)
           IN  /\ shell' = [shell EXCEPT !.running = "prompt",
                                         !.integrated = integrated]
               /\ own' = IF l \in Commands THEN [own EXCEPT ![l] = r] ELSE own
               /\ chan' = chan \o (IF integrated THEN <<Mark(l, r), Prompt>>
                                                 ELSE <<Prompt>>)
               /\ slipped' = (slipped \/ (l \in Commands /\ ~integrated))
    /\ UNCHANGED <<conn, hangup, pending_event, pending, evidence, at_prompt,
                   record, badge, dangerous, sandbox, screen, bounds>>

\* The transport goes, or its task follows a disconnect.
ConnectionEnds ==
    /\ shell.alive
    /\ shell' = [shell EXCEPT !.alive = FALSE, !.typed = <<>>, !.running = "prompt"]
    /\ hangup' = TRUE
    /\ UNCHANGED <<conn, chan, pending_event, pending, evidence, at_prompt, record,
                   own, badge, dangerous, sandbox, screen, slipped, bounds>>

\* A line that enters the shell without a waiting command: an empty Enter, a relay
\* command, a login script, a replay, the set-up of the shell integration.
UntrackedLine ==
    /\ conn = "up" /\ shell.alive
    /\ others < MaxOthers
    /\ others' = others + 1
    /\ shell' = [shell EXCEPT !.typed = Append(@, Other)]
    /\ UNCHANGED <<conn, loopVars, pending, evidence, record, own, badge, dangerous,
                   sandbox, slipped, reconnects>>

-----------------------------------------------------------------------------
(* Submitting commands.                                                    *)

\* Whether the input sender takes the line; for a moment it outlives the reader.
SendOk == IF conn # "up" THEN {FALSE} ELSE IF shell.alive THEN {TRUE} ELSE BOOLEAN

enqueue_pending_exit(c) ==
    Append(IF Len(pending) >= MaxPending THEN Tail(pending) ELSE pending, c)

rollback_pending_exit(q, c) == IF Last(q) = c THEN Front(q) ELSE q

\* The command waits for its marker before it is sent.
dispatch_approved_command(c, sent) ==
    LET q == enqueue_pending_exit(c)
    IN  /\ pending' = IF sent THEN q ELSE rollback_pending_exit(q, c)
        /\ shell' = IF sent /\ shell.alive
                    THEN [shell EXCEPT !.typed = Append(@, c)] ELSE shell
        /\ badge' = IF sent THEN "Idle" ELSE badge
        /\ slipped' = (slipped \/ Len(pending) >= MaxPending)

\* Enter, the Send panel, the history: a command the checker warns about waits for
\* the user, in the place of an earlier one that did.
request_command_submission(c) ==
    /\ conn # "closed"
    /\ c \notin Suggested /\ record[c] = "new"
    /\ record' = [record EXCEPT ![c] = "asked"]
    /\ IF c \in Dangerous
       THEN /\ dangerous' = c
            /\ UNCHANGED <<pending, shell, badge, slipped, sandbox>>
       ELSE /\ UNCHANGED <<dangerous, sandbox>>
            /\ \E sent \in SendOk : dispatch_approved_command(c, sent)
    /\ UNCHANGED <<conn, loopVars, evidence, own, bounds>>

\* DangerousCommandDialog.
Proceed ==
    /\ dangerous # Nobody
    /\ dangerous' = Nobody
    /\ UNCHANGED sandbox
    /\ \E sent \in SendOk : dispatch_approved_command(dangerous, sent)
    /\ UNCHANGED <<conn, loopVars, evidence, record, own, bounds>>

Cancel ==
    /\ dangerous # Nobody
    /\ dangerous' = Nobody
    /\ UNCHANGED <<conn, shell, loopVars, pending, evidence, record, own, badge,
                   sandbox, slipped, bounds>>

\* The AI panel's two dialogs.
propose(c) ==
    /\ conn # "closed"
    /\ c \in Suggested /\ record[c] = "new" /\ sandbox.phase = "Idle"
    /\ record' = [record EXCEPT ![c] = "asked"]
    /\ sandbox' = [phase |-> "AwaitingExecution", cmd |-> c, exit |-> "none"]
    /\ UNCHANGED <<conn, shell, loopVars, pending, evidence, own, badge, dangerous,
                   slipped, bounds>>

approve_execution ==
    /\ sandbox.phase = "AwaitingExecution"
    /\ \E sent \in SendOk :
           /\ sandbox' = [sandbox EXCEPT !.phase =
                             IF sent THEN "Capturing" ELSE "AwaitingResultSharing"]
           /\ dispatch_approved_command(sandbox.cmd, sent)
    /\ UNCHANGED <<conn, loopVars, evidence, record, own, dangerous, bounds>>

reject_execution ==
    /\ sandbox.phase = "AwaitingExecution"
    /\ sandbox' = NoSandbox
    /\ UNCHANGED <<conn, shell, loopVars, pending, evidence, record, own, badge,
                   dangerous, slipped, bounds>>

\* The result goes to the model's context, or nowhere.
ResultIsReviewed ==
    /\ sandbox.phase = "AwaitingResultSharing"
    /\ sandbox' = NoSandbox
    /\ UNCHANGED <<conn, shell, loopVars, pending, evidence, record, own, badge,
                   dangerous, slipped, bounds>>

-----------------------------------------------------------------------------
(* The event loop.                                                         *)

\* Keep the most recent output, drop the rest.
shed_backlog_overflow(surplus) ==
    LET n == IF Len(surplus) > MaxBacklog THEN Len(surplus) - MaxBacklog ELSE 0
    IN  [kept |-> SubSeq(surplus, n + 1, Len(surplus)),
         shed |-> SubSeq(surplus, 1, n)]

\* One turn takes an event, or what it kept, and what else of the first k events
\* there is room for. What is kept of the surplus waits for the next turn, unless
\* the Disconnected event waits too.
drain_output_batch(k, ended) ==
    LET start   == IF pending_event = <<>> THEN 1 ELSE 0
        seed    == pending_event \o SubSeq(chan, 1, start)
        room    == IF Len(seed) < MaxBatch THEN MaxBatch - Len(seed) ELSE 0
        taken   == IF k < start + room THEN k ELSE start + room
        batch   == seed \o SubSeq(chan, start + 1, taken)
        backlog == shed_backlog_overflow(SubSeq(chan, taken + 1, k))
    IN  [batch |-> IF ended THEN batch \o backlog.kept ELSE batch,
         tail  |-> IF ended THEN <<>> ELSE backlog.kept,
         shed  |-> backlog.shed]

flush_pending_renders(s) ==
    IF s.stash = "none" THEN s ELSE [shown |-> s.stash, stash |-> "none"]

\* open: 16 ms have passed since the last render. Time is a choice.
apply_throttled_render(s, open) ==
    IF open THEN [shown |-> "latest", stash |-> "none"]
            ELSE [shown |-> "older", stash |-> "latest"]

\* Of several markers in one batch only the last is seen.
take_exit_code(marks) == Last(marks).result

\* Mutant: any marker ends what the panel is at.
finish_execution_AnyPhase(exit) ==
    [sandbox EXCEPT !.phase = "AwaitingResultSharing", !.exit = exit]

finish_execution(exit) ==
    IF sandbox.phase = "Capturing"
    THEN [sandbox EXCEPT !.phase = "AwaitingResultSharing", !.exit = exit]
    ELSE sandbox

decide_command_status(c, exit) ==
    IF exit = "ok" \/ c \in Compound THEN "success" ELSE "failed"

\* Mutant: the marker is taken to be that of the command typed last.
process_session_exit_code_Newest(exit) ==
    /\ evidence' = TRUE
    /\ sandbox' = finish_execution(exit)
    /\ IF pending = <<>>
       THEN UNCHANGED <<pending, record, badge>>
       ELSE LET s == decide_command_status(Last(pending), exit)
            IN  /\ pending' = Front(pending)
                /\ record' = [record EXCEPT ![Last(pending)] = s]
                /\ badge' = IF s = "success" THEN "Success" ELSE "Failed"

\* The marker is that of the command that has waited longest; without one waiting
\* it changes neither history nor badge.
process_session_exit_code(exit) ==
    /\ evidence' = TRUE
    /\ sandbox' = finish_execution(exit)
    /\ IF pending = <<>>
       THEN UNCHANGED <<pending, record, badge>>
       ELSE LET c == Head(pending)
                s == decide_command_status(c, exit)
            IN  /\ pending' = Tail(pending)
                /\ record' = [record EXCEPT ![c] = s]
                /\ badge' = IF s = "success" THEN "Success" ELSE "Failed"

prompt_return_completion_target(line) == ~evidence /\ pending # <<>> /\ line

resolve_pending_command_via_prompt(line) ==
    /\ UNCHANGED <<evidence, sandbox>>
    /\ IF prompt_return_completion_target(line)
       THEN /\ pending' = Tail(pending)
            /\ record' = [record EXCEPT ![Head(pending)] = "unknown"]
            /\ badge' = "Success"
       ELSE UNCHANGED <<pending, record, badge>>

\* A batch puts markers and waiting commands out of step when one of its markers
\* is not seen or not of a waiting command, or when a prompt is taken for an end.
Slips(marks, shed, line) ==
    \/ Len(marks) > 1
    \/ \E i \in DOMAIN shed : shed[i] \in Marks
    \/ marks # <<>> /\ Last(marks).by = Other
       /\ (pending # <<>> \/ sandbox.phase = "Capturing")
    \/ marks = <<>> /\ prompt_return_completion_target(line)

\* A turn of the loop finds the first k events. The last one may not have arrived;
\* that more have not is the turn taken before the shell's later steps.
HandleOutput ==
    /\ conn # "closed"
    /\ pending_event # <<>> \/ chan # <<>>
    /\ \E k \in 0..Len(chan), ended, open \in BOOLEAN :
           /\ k >= Len(chan) - 1
           /\ pending_event = <<>> => k > 0
           /\ ended => hangup /\ k = Len(chan) /\ k > MaxBatch - Len(pending_event)
           /\ chan' = SubSeq(chan, k + 1, Len(chan))
           /\ LET d     == drain_output_batch(k, ended)
                  marks == Only(d.batch, Marks)
                  lines == Only(d.batch, Items \ Marks)
                  line  == IF lines = <<>> THEN at_prompt
                           ELSE Last(lines).kind = "prompt"
                  \* a new event flushes first what the window has let go
                  flush == pending_event = <<>> /\ open /\ screen.stash # "none"
                  now   == IF flush THEN flush_pending_renders(screen) ELSE screen
              IN  /\ pending_event' = d.tail
                  /\ at_prompt' = line
                  /\ IF marks = <<>>
                     THEN resolve_pending_command_via_prompt(line)
                     ELSE process_session_exit_code(take_exit_code(marks))
                  /\ screen' = apply_throttled_render(now, open /\ ~flush)
                  /\ slipped' = (slipped \/ Slips(marks, d.shed, line))
    /\ UNCHANGED <<conn, shell, hangup, own, dangerous, bounds>>

\* The loop's timer is set to the end of the window while a render waits, and fires
\* between events only.
TimerFires ==
    /\ screen.stash # "none" /\ pending_event = <<>>
    /\ screen' = flush_pending_renders(screen)
    /\ UNCHANGED <<conn, shell, chan, hangup, pending_event, pending, evidence,
                   at_prompt, record, own, badge, dangerous, sandbox, slipped,
                   bounds>>

-----------------------------------------------------------------------------
(* The end of a connection, and the next one.                              *)

fail_execution ==
    IF sandbox.phase = "Capturing"
    THEN [sandbox EXCEPT !.phase = "AwaitingResultSharing"] ELSE sandbox

GoesDown ==
    /\ conn' = "down"
    /\ badge' = "Disconnected"
    /\ sandbox' = fail_execution
    /\ screen' = flush_pending_renders(screen)

HandleDisconnected ==
    /\ conn # "closed"
    /\ hangup /\ chan = <<>> /\ pending_event = <<>>
    /\ hangup' = FALSE
    /\ GoesDown
    /\ UNCHANGED <<shell, chan, pending_event, pending, evidence, at_prompt, record,
                   own, dangerous, slipped, bounds>>

disconnect_session ==
    /\ conn = "up"
    /\ GoesDown
    /\ UNCHANGED <<shell, chan, hangup, pending_event, pending, evidence, at_prompt,
                   record, own, dangerous, slipped, bounds>>

\* Mutant: the commands of the old connection keep waiting.
reconnect_session_KeepsQueue ==
    /\ conn = "down" /\ ~shell.alive
    /\ ~hangup /\ chan = <<>> /\ pending_event = <<>>
    /\ reconnects < MaxReconnects
    /\ reconnects' = reconnects + 1
    /\ conn' = "up"
    /\ shell' \in [alive : {TRUE}, typed : {<<>>}, running : {"prompt"},
                   integrated : BOOLEAN]
    /\ UNCHANGED pending
    /\ at_prompt' = FALSE
    /\ badge' = "Success"
    /\ slipped' = FALSE
    /\ UNCHANGED <<chan, hangup, pending_event, evidence, record, own, dangerous,
                   sandbox, screen, others>>

\* A new connection, once the loop of the old one is through (the modules on the
\* session's life have the case that it is not): a new terminal, no command waits,
\* and the session keeps its place in exit_code_sessions.
reconnect_session ==
    /\ conn = "down" /\ ~shell.alive
    /\ ~hangup /\ chan = <<>> /\ pending_event = <<>>
    /\ reconnects < MaxReconnects
    /\ reconnects' = reconnects + 1
    /\ conn' = "up"
    /\ shell' \in [alive : {TRUE}, typed : {<<>>}, running : {"prompt"},
                   integrated : BOOLEAN]
    /\ pending' = <<>>
    /\ at_prompt' = FALSE
    /\ badge' = "Success"
    /\ slipped' = FALSE
    /\ UNCHANGED <<chan, hangup, pending_event, evidence, record, own, dangerous,
                   sandbox, screen, others>>

close_session ==
    /\ conn # "closed"
    /\ conn' = "closed"
    /\ shell' = [shell EXCEPT !.alive = FALSE, !.typed = <<>>, !.running = "prompt"]
    /\ chan' = <<>> /\ hangup' = FALSE /\ pending_event' = <<>>
    /\ pending' = <<>> /\ evidence' = FALSE /\ at_prompt' = FALSE
    /\ sandbox' = NoSandbox
    /\ UNCHANGED <<record, own, badge, dangerous, screen, slipped, bounds>>

-----------------------------------------------------------------------------
Loop == HandleOutput \/ TimerFires \/ HandleDisconnected

Shell == RunNext \/ ReadByProgram \/ Finish \/ ConnectionEnds

User ==
    \/ \E c \in Commands : request_command_submission(c) \/ propose(c)
    \/ Proceed \/ Cancel
    \/ approve_execution \/ reject_execution \/ ResultIsReviewed
    \/ disconnect_session \/ reconnect_session \/ close_session

Next == Loop \/ Shell \/ User \/ UntrackedLine

Spec == Init /\ [][Next]_vars

-----------------------------------------------------------------------------
(* Properties.                                                             *)

\* Every variable has the shape the code gives it; no command waits twice, and the
\* queue keeps its limit.
TypeOK ==
    /\ conn \in {"up", "down", "closed"}
    /\ shell \in [alive : BOOLEAN, typed : Seq(Lines),
                 running : Lines \cup {"prompt"}, integrated : BOOLEAN]
    /\ chan \in Seq(Items) /\ pending_event \in Seq(Items) /\ hangup \in BOOLEAN
    /\ pending \in Seq(Commands) /\ IsInjective(pending) /\ Len(pending) <= MaxPending
    /\ evidence \in BOOLEAN /\ at_prompt \in BOOLEAN
    /\ record \in [Commands -> {"new", "asked", "success", "failed", "unknown"}]
    /\ own \in [Commands -> Results \cup {"none"}]
    /\ badge \in {"Idle", "Success", "Failed", "Disconnected"}
    /\ dangerous \in Commands \cup {Nobody}
    /\ sandbox \in [phase : {"Idle", "AwaitingExecution", "Capturing",
                             "AwaitingResultSharing"},
                    cmd : Commands \cup {Nobody}, exit : Results \cup {"none"}]
    /\ sandbox.cmd = Nobody <=> sandbox.phase = "Idle"
    /\ screen \in [shown : {"latest", "older"}, stash : {"none", "latest", "older"}]
    /\ slipped \in BOOLEAN
    /\ others \in 0..MaxOthers /\ reconnects \in 0..MaxReconnects

Authors(marks) == [i \in DOMAIN marks |-> marks[i].by]

\* The commands whose markers are in a piece of output.
Due(output) == Authors(Only(output, CommandMarks))

\* Those whose markers are on their way, and those the shell has to run.
Coming  == Due(pending_event \o chan)
InShell == Only(<<shell.running>> \o shell.typed, Commands)

\* The markers still to come on this connection belong to the commands that wait,
\* in their order, as long as nothing has put the two out of step; a line that the
\* shell has not finished comes after them.
InStep ==
    shell.integrated /\ ~slipped /\ conn = "up" /\ shell.alive
        => pending = Coming \o InShell

\* As long as nothing has put the markers and the waiting commands out of step, a
\* command is recorded with the status it ended with, and so is the result of a
\* command that was run for the AI panel.
ResultsAreOwn ==
    [][ ~slipped' =>
          /\ \A c \in Commands :
                 record'[c] # record[c] /\ record'[c] \in {"success", "failed"} =>
                     /\ own[c] # "none"
                     /\ c \notin Compound => (record'[c] = "success") = (own[c] = "ok")
          /\ sandbox'.exit # sandbox.exit /\ sandbox'.exit # "none"
             /\ pending # <<>> /\ Head(pending) = sandbox.cmd =>
                 sandbox'.exit = own[sandbox.cmd] ]_vars

=============================================================================
