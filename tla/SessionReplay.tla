---------------------------- MODULE SessionReplay ----------------------------
(***************************************************************************)
(* How a tab finds its way back (rusterm-ui/src/state.rs and app.rs, with  *)
(* the event streams of rusterm-analytics/src/lib.rs).  On a bastion the   *)
(* user walks from a menu to a host and, with commands such as "sudo -i",  *)
(* into contexts on it.  A recorder keeps the inputs that led there; they  *)
(* are typed again after a reconnect, in a copy of the tab and after the   *)
(* application was restarted.  Each change of the recorder is also an      *)
(* event of the tab's stream in a database, written by a task of its own,  *)
(* and a snapshot of the tabs is saved every two seconds: a restore folds  *)
(* the stream and falls back to the snapshot.                              *)
(*                                                                         *)
(* The remote is external: a menu, hosts under it and contexts, each of    *)
(* which asks for a password.  Sessions are SSH or Telnet sessions of one  *)
(* bastion without a login script, and the safety checker finds every      *)
(* recorded input safe.                                                    *)
(***************************************************************************)
EXTENDS Naturals, FiniteSets, SequencesExt

\* A menu input that leads nowhere: a search, a page, a wrong number.
Fruitless == "other"

\* Lines at a shell that are no context commands; a row without an op.
Exit == "exit"
Plain == "plain"
NoOp == "null"

CONSTANTS
  Hosts,           \* menu inputs that lead to a host
  Contexts,        \* shell commands that is_context_command accepts
  REPLAY_MAX_OPS,  \* the window of the recorder (10 in the code)
  MaxTabs,         \* bound: session ids minted
  MaxInputs,       \* bound: lines the user submits
  MaxStarts,       \* bound: times the application is started again
  MaxFaults        \* bound: things that go wrong: what Fault counts

ASSUME ReplayAssumption ==
  /\ {REPLAY_MAX_OPS, MaxTabs} \subseteq Nat \ {0}
  /\ {MaxInputs, MaxStarts, MaxFaults} \subseteq Nat
  /\ Hosts \cap Contexts = {}
  /\ {Fruitless, Exit, Plain} \cap (Hosts \cup Contexts) = {}

Ids == 1..MaxTabs

Inputs == Hosts \cup Contexts \cup {Fruitless}

VARIABLES
  tabs,      \* of each id: its tab, its recorder, and where its remote is
  rows,      \* session_replay_events: of each id, its events
  writes,    \* the spawned tasks that write events and have not run
  snapshot,  \* the session state on disk: the id and the ops of each tab
  app,       \* "dead", "asking" (restore_pending) or "running"
  minted,    \* ids given out; they are never given out again
  inputs, starts, faults, \* what the bounds count
  torn,      \* ids with a row that was refused or dropped by the sanitizer
  held,      \* of each id: what its recorder held when the application died,
             \* until its user is asked whether to restore
  sure       \* ids all of whose events were on disk then

replayVars == <<tabs, rows, writes, snapshot, app, minted, inputs, starts,
          faults, torn, held, sure>>

-----------------------------------------------------------------------------
(* The recorder and the stream.                                            *)

\* What one line does to the path of a remote that accepts it.
Walk(path, op) ==
  IF path = <<>> THEN IF op \in Hosts THEN <<op>> ELSE <<>>
  ELSE IF op \in Contexts THEN Append(path, op) ELSE path

\* Where typing ops from a place ends, and from the menu.
From(path, ops) ==
  LET way[n \in 0..Len(ops)] == IF n = 0 THEN path ELSE Walk(way[n - 1], ops[n])
  IN  way[Len(ops)]

Lands(ops) == From(<<>>, ops)

\* ops of which each was of use: fruitless lines in the menu, then the way.
IsNavigation(ops) ==
  \E n \in 0..Len(ops) :
    /\ \A i \in 1..n : ops[i] = Fruitless
    /\ SubSeq(ops, n + 1, Len(ops)) = Lands(ops)

\* path: the host and the contexts on it the remote is in, <<>> in the menu;
\* asking: the context whose password it asks for, if any.  replays: what
\* each replay task of the tab has still to type.  slipped: something listed
\* at RecorderIsNavigation has happened since the ops were last begun anew.
Tab(stage, ops) ==
  [stage |-> stage, path |-> <<>>, asking |-> {}, ops |-> ops,
   frozen |-> FALSE, replays |-> IF ops = <<>> THEN {} ELSE {ops},
   at |-> Len(ops), slipped |-> ~IsNavigation(ops)]

NoTab == Tab("none", <<>>)

Open(t) == tabs[t].stage # "none"

Full(tab) == Len(tab.ops) >= REPLAY_MAX_OPS

\* Mutant: a menu entered again does not begin the ops anew.
record_replay_op_NoThaw(tab, op) ==
  IF Full(tab) THEN tab ELSE [tab EXCEPT !.ops = Append(@, op)]

record_replay_op(tab, op) ==
  IF tab.frozen THEN [tab EXCEPT !.ops = <<op>>, !.frozen = FALSE]
  ELSE IF Full(tab) THEN tab
  ELSE [tab EXCEPT !.ops = Append(@, op)]

record_context_command(tab, op) ==
  IF Full(tab) THEN tab ELSE [tab EXCEPT !.ops = Append(@, op), !.frozen = TRUE]

Pops(tab) == tab.frozen /\ tab.ops # <<>> /\ Last(tab.ops) \in Contexts

pop_context_command(tab) == IF Pops(tab) THEN [tab EXCEPT !.ops = Front(@)] ELSE tab

\* Mutant: the exit of a context is one more event with an op.
fold_event_PopAppends(ops, e) == IF e.event = "reset" THEN <<>> ELSE Append(ops, e.op)

fold_event(ops, e) ==
  CASE e.event \in {"op", "context"} -> Append(ops, e.op)
    [] e.event = "pop" -> Front(ops)
    [] e.event = "reset" -> <<>>

\* What a set of events folds to, in the order of their numbers.
Replayed(events) ==
  LET numbers == {e.at : e \in events}
      last == Max({0} \cup numbers)
      ops[n \in 0..last] ==
        IF n = 0 THEN <<>>
        ELSE IF n \in numbers
             THEN fold_event(ops[n - 1], CHOOSE e \in events : e.at = n)
        ELSE ops[n - 1]
  IN  ops[last]

latest_replay_ops(id) == Replayed(rows[id])

Event(event, op) == [event |-> event, op |-> op]

\* Mutant: the stream is not told that the ops are begun anew.
MenuEvents_NoReset(tab, op) ==
  IF Full(tab) /\ ~tab.frozen THEN <<>> ELSE <<Event("op", op)>>

\* The events a line submitted in a menu or at a shell leaves in the stream.
MenuEvents(tab, op) ==
  IF tab.frozen THEN <<Event("reset", NoOp), Event("op", op)>>
  ELSE IF Full(tab) THEN <<>> ELSE <<Event("op", op)>>

ShellEvents(tab, line) ==
  IF line \in Contexts
  THEN IF Full(tab) THEN <<>> ELSE <<Event("context", line)>>
  ELSE IF line = Exit /\ Pops(tab) THEN <<Event("pop", NoOp)>> ELSE <<>>

\* Each event is numbered when it happens and is a task of its own.
persist_replay_event(t, events) ==
  writes' = writes \cup
    {[id |-> t, clears |-> {},
      rows |-> <<[at |-> tabs[t].at + i, event |-> events[i].event, op |-> events[i].op]>>] :
       i \in DOMAIN events}

\* The task that writes ops as the stream of a new id and clears the old one.
migrate_replay_stream(old, new, ops) ==
  [id |-> new, clears |-> {old} \ {new},
   rows |-> [i \in DOMAIN ops |-> [at |-> i, event |-> "op", op |-> ops[i]]]]

\* n rows of a task are written.
Written(w, n) == [rows EXCEPT ![w.id] = @ \cup Range(SubSeq(w.rows, 1, n))]

ReplayInit ==
  /\ tabs = [t \in Ids |-> NoTab]
  /\ rows = [t \in Ids |-> {}]
  /\ writes = {} /\ snapshot = {} /\ app = "running" /\ minted = 0
  /\ inputs = 0 /\ starts = 0 /\ faults = 0
  /\ torn = {} /\ sure = {}
  /\ held = [t \in Ids |-> <<>>]

-----------------------------------------------------------------------------
(* Lines submitted by the user, and what the remote makes of them.         *)

Disk == <<rows, snapshot, app, minted, starts, torn, held, sure>>

\* One more of the things that may go wrong.
Fault == faults < MaxFaults /\ faults' = faults + 1

Running(t) == app = "running" /\ tabs[t].stage = "connected"

\* on_input at a prompt that looks like no shell.
SubmitAtMenu(t, op) ==
  LET tab == tabs[t]  events == MenuEvents(tab, op) IN
  /\ Running(t) /\ tab.path = <<>> /\ tab.asking = {} /\ inputs < MaxInputs
  /\ tabs' = [tabs EXCEPT ![t] =
       [record_replay_op(tab, op) EXCEPT
          !.path = Walk(<<>>, op), !.at = @ + Len(events),
          !.slipped = \/ tab.replays # {}
                      \/ ~tab.frozen /\ (@ \/ Full(tab) \/ Lands(tab.ops) # <<>>)]]
  /\ persist_replay_event(t, events)
  /\ inputs' = inputs + 1
  /\ UNCHANGED <<faults, Disk>>

\* on_input at a shell's prompt: evidence of a shell, and a context entered
\* or left.
SubmitAtShell(t, line) ==
  LET tab == [tabs[t] EXCEPT !.frozen = TRUE]  events == ShellEvents(tab, line) IN
  /\ Running(t) /\ tab.path # <<>> /\ tab.asking = {} /\ inputs < MaxInputs
  /\ tabs' = [tabs EXCEPT ![t] =
       [(IF line \in Contexts THEN record_context_command(tab, line)
         ELSE IF line = Exit THEN pop_context_command(tab) ELSE tab) EXCEPT
          !.path = IF line = Exit THEN Front(@) ELSE @,
          !.asking = {line} \cap Contexts, !.at = @ + Len(events),
          !.slipped = @ \/ tab.replays # {} \/ (line \in Contexts /\ Full(tab))]]
  /\ persist_replay_event(t, events)
  /\ inputs' = inputs + 1
  /\ UNCHANGED <<faults, Disk>>

\* The password of a context, typed by the user or by OneKey: at a prompt
\* for a credential nothing is recorded.
Answer(t, accepted) ==
  /\ Running(t)
  /\ \E context \in tabs[t].asking :
       tabs' = [tabs EXCEPT ![t] =
         [tabs[t] EXCEPT !.path = IF accepted THEN Append(@, context) ELSE @,
                         !.asking = {}, !.slipped = @ \/ ~accepted]]
  /\ (IF accepted THEN UNCHANGED faults ELSE Fault) /\ UNCHANGED <<writes, inputs, Disk>>

\* An exit code reported by the host's shell (OSC 133;D).
note_shell_integration_evidence(t) ==
  /\ Running(t) /\ tabs[t].path # <<>> /\ ~tabs[t].frozen
  /\ tabs' = [tabs EXCEPT ![t].frozen = TRUE]
  /\ UNCHANGED <<writes, inputs, faults, Disk>>

\* A shell of the remote ends without a line that says so: a time-out, ^D.
ShellEnds(t, left) ==
  /\ Running(t) /\ tabs[t].path # <<>> /\ left < Len(tabs[t].path)
  /\ tabs' = [tabs EXCEPT ![t] =
       [tabs[t] EXCEPT !.path = SubSeq(@, 1, left), !.asking = {},
                       !.slipped = @ \/ left > 0 \/ tabs[t].replays # {}]]
  /\ Fault /\ UNCHANGED <<writes, inputs, Disk>>

-----------------------------------------------------------------------------
(* Connections and replays.                                                *)

\* open_connection; every other tab is a copy of this one or restored from it.
OpenTab ==
  /\ app = "running" /\ minted = 0
  /\ minted' = minted + 1
  /\ tabs' = [tabs EXCEPT ![minted'] = Tab("connecting", <<>>)]
  /\ UNCHANGED <<rows, writes, snapshot, app, inputs, starts, faults, torn, held, sure>>

ConnectEnds(t, stage) ==
  /\ app = "running" /\ tabs[t].stage = "connecting"
  /\ tabs' = [tabs EXCEPT ![t].stage = stage]
  /\ (IF stage = "down" THEN Fault ELSE UNCHANGED faults) /\ UNCHANGED <<writes, inputs, Disk>>

Disconnected(t) ==
  /\ Running(t)
  /\ tabs' = [tabs EXCEPT ![t] = [@ EXCEPT !.stage = "down", !.path = <<>>, !.asking = {}]]
  /\ Fault /\ UNCHANGED <<writes, inputs, Disk>>

\* A replay that has not yet noticed the end of its connection goes on.
Reconnect(t) ==
  LET tab == tabs[t] IN
  /\ app = "running" /\ tab.stage = "down" /\ Cardinality(tab.replays) < 2
  /\ tabs' = [tabs EXCEPT ![t] =
       [tab EXCEPT !.stage = "connecting", !.slipped = tab.replays # {} \/ ~IsNavigation(tab.ops),
                   !.replays = IF tab.ops = <<>> THEN @ ELSE @ \cup {tab.ops}]]
  /\ UNCHANGED <<writes, inputs, faults, Disk>>

\* The next line of a replay, typed past the recorder; never at a prompt for
\* a credential.
ReplayOp(t, replay) ==
  LET tab == tabs[t]  op == Head(replay) IN
  /\ Running(t) /\ tab.asking = {}
  /\ tabs' = [tabs EXCEPT ![t] =
       [tab EXCEPT !.path = IF op \in Contexts THEN @ ELSE Walk(@, op),
                   !.asking = IF tab.path = <<>> THEN {} ELSE {op} \cap Contexts,
                   !.replays = (@ \ {replay}) \cup ({Tail(replay)} \ {<<>>})]]
  /\ UNCHANGED <<writes, inputs, faults, Disk>>

\* It finds its connection gone, or waits too long: for the connection, for
\* an echo, for silence, for the answer to a prompt.
ReplayGivesUp(t, replay) ==
  /\ app = "running"
  /\ tabs' = [tabs EXCEPT ![t] = [tabs[t] EXCEPT !.replays = @ \ {replay}, !.slipped = TRUE]]
  /\ (IF tabs[t].stage = "down" THEN UNCHANGED faults ELSE Fault) /\ UNCHANGED <<writes, inputs, Disk>>

on_copy_session(t) ==
  LET ops == tabs[t].ops IN
  /\ app = "running" /\ Open(t) /\ minted < MaxTabs
  /\ minted' = minted + 1
  /\ tabs' = [tabs EXCEPT ![minted'] = Tab("connecting", ops)]
  /\ writes' = writes \cup (IF ops = <<>> THEN {} ELSE {migrate_replay_stream(minted', minted', ops)})
  /\ UNCHANGED <<rows, snapshot, app, inputs, starts, faults, torn, held, sure>>

CloseTab(t) ==
  /\ app = "running" /\ Open(t)
  /\ tabs' = [tabs EXCEPT ![t] = NoTab]
  /\ rows' = [rows EXCEPT ![t] = {}]
  /\ UNCHANGED <<writes, snapshot, app, minted, inputs, starts, faults, torn, held, sure>>

-----------------------------------------------------------------------------
(* The database, the snapshot, and the application that dies.              *)

\* A spawned task runs; tasks run in any order, each without a pause.
WriteLands(w) ==
  /\ app # "dead"
  /\ rows' = [t \in Ids |-> IF t \in w.clears THEN {} ELSE Written(w, Len(w.rows))[t]]
  /\ writes' = writes \ {w}
  /\ UNCHANGED <<tabs, snapshot, app, minted, inputs, starts, faults, torn, held, sure>>

\* The database refuses a row, or the sanitizer drops it; a migration stops
\* there and clears nothing.
WriteFails(w, n) ==
  /\ app # "dead" /\ n < Len(w.rows) /\ Fault
  /\ rows' = Written(w, n)
  /\ torn' = torn \cup {w.id}
  /\ writes' = writes \ {w}
  /\ UNCHANGED <<tabs, snapshot, app, minted, inputs, starts, held, sure>>

\* The loop that saves the session state, unless a restore is undecided or
\* nothing is connected yet.
Save ==
  LET connected == {t \in Ids : tabs[t].stage = "connected"} IN
  /\ app = "running"
  /\ connected # {} \/ \A t \in Ids : tabs[t].stage \in {"none", "down"}
  /\ snapshot' = {[id |-> t, ops |-> tabs[t].ops] : t \in connected}
  /\ UNCHANGED <<tabs, rows, writes, app, minted, inputs, starts, faults, torn, held, sure>>

\* It dies, at most one of the tasks in the middle.
Crash ==
  /\ app # "dead" /\ starts < MaxStarts
  /\ app' = "dead"
  /\ \/ rows' = rows
     \/ \E w \in writes : \E n \in DOMAIN w.rows : rows' = Written(w, n)
  /\ tabs' = [t \in Ids |-> NoTab]
  /\ writes' = {}
  /\ held' = [t \in Ids |-> tabs[t].ops]
  /\ sure' = {t \in Ids \ torn : Open(t) /\ \A w \in writes : w.id # t}
  /\ UNCHANGED <<snapshot, minted, inputs, starts, faults, torn>>

Answered == app' = "running" /\ held' = [t \in Ids |-> <<>>] /\ sure' = {}

Start ==
  /\ app = "dead"
  /\ starts' = starts + 1
  /\ IF snapshot = {} THEN Answered ELSE app' = "asking" /\ UNCHANGED <<held, sure>>
  /\ UNCHANGED <<tabs, rows, writes, snapshot, minted, inputs, faults, torn>>

Saved(id) == (CHOOSE entry \in snapshot : entry.id = id).ops

\* The stream of the tab, or what the snapshot has if it folds to nothing.
RestoredOps(id) ==
  IF latest_replay_ops(id) # <<>> THEN latest_replay_ops(id) ELSE Saved(id)

\* The tabs of the snapshot, in the order in which they get their new ids.
Restored == SetToSeq({entry.id : entry \in snapshot})

restore_sessions ==
  LET fresh == {minted + i : i \in DOMAIN Restored}
      Old(t) == Restored[t - minted] IN
  /\ app = "asking" /\ fresh \subseteq Ids
  /\ Answered
  /\ minted' = minted + Len(Restored)
  /\ tabs' = [t \in Ids |-> IF t \in fresh THEN Tab("connecting", RestoredOps(Old(t))) ELSE tabs[t]]
  /\ writes' = writes \cup
       {migrate_replay_stream(Old(t), t, RestoredOps(Old(t))) :
          t \in {u \in fresh : RestoredOps(Old(u)) # <<>>}}
  /\ UNCHANGED <<rows, snapshot, inputs, starts, faults, torn>>

SkipRestore ==
  /\ app = "asking" /\ Answered
  /\ UNCHANGED <<tabs, rows, writes, snapshot, minted, inputs, starts, faults, torn>>

ReplayNext ==
  \/ \E t \in Ids :
       \/ \E op \in Hosts \cup {Fruitless} : SubmitAtMenu(t, op)
       \/ \E line \in Contexts \cup {Exit, Plain} : SubmitAtShell(t, line)
       \/ \E accepted \in BOOLEAN : Answer(t, accepted)
       \/ note_shell_integration_evidence(t)
       \/ \E left \in 0..REPLAY_MAX_OPS : ShellEnds(t, left)
       \/ \E stage \in {"connected", "down"} : ConnectEnds(t, stage)
       \/ Disconnected(t) \/ Reconnect(t)
       \/ \E replay \in tabs[t].replays : ReplayOp(t, replay) \/ ReplayGivesUp(t, replay)
       \/ on_copy_session(t) \/ CloseTab(t)
  \/ OpenTab
  \/ \E w \in writes : WriteLands(w) \/ \E n \in 0..REPLAY_MAX_OPS : WriteFails(w, n)
  \/ Save \/ Crash \/ Start \/ restore_sessions \/ SkipRestore

ReplaySpec == ReplayInit /\ [][ReplayNext]_replayVars

-----------------------------------------------------------------------------
(* What it promises.                                                       *)

\* Types: what a recorder holds, however it came by it, can be typed, and an id
\* not yet given out has neither a tab nor a stream.  (Its length is not
\* bounded by the window: a fold that lacks a "reset" row is longer.)
ReplayTypeOK ==
  /\ app \in {"dead", "asking", "running"} /\ minted \in 0..MaxTabs
  /\ inputs \in 0..MaxInputs /\ starts \in 0..MaxStarts /\ faults \in 0..MaxFaults
  /\ \A t \in Ids :
       /\ tabs[t].stage \in {"none", "connecting", "connected", "down"}
       /\ tabs[t].ops \in Seq(Inputs)
       /\ tabs[t].path = <<>> \/ tabs[t].path[1] \in Hosts
       /\ t > minted => ~Open(t) /\ rows[t] = {}
       /\ \A r \in rows[t] : r.event = "op" => r.op \in Inputs
  /\ \A w \in writes : w.id \in Ids /\ w.clears \subseteq Ids
  /\ {entry.id : entry \in snapshot} \subseteq 1..minted

\* What would be typed again leads where the user is: "the snapshot always
\* holds the last navigation sequence - the one that leads to where the user
\* actually is" (state.rs:8722).  It does not hold, until a menu entered
\* again begins the ops anew, after a context the remote refused, a shell
\* that ended by itself, a line beyond the window, a replay that gave up, a
\* line typed into a replay, a menu entered again with no sign of a shell
\* since the ops were begun, or a restore from a stream that lacks an event.
RecorderIsNavigation ==
  \A t \in Ids :
    (Running(t) /\ tabs[t].path # <<>> /\ tabs[t].replays = {} /\ tabs[t].asking = {}
       /\ ~tabs[t].slipped) => Lands(tabs[t].ops) = tabs[t].path

\* A restored tab is given what its recorder held when the application died,
\* however old the snapshot and in whatever order the events were written.
\* The exceptions: an event was not on disk, the recorder held nothing, or an
\* earlier restore from the same snapshot has moved the stream away.
RestoredIsRecorded ==
  [][\A i \in DOMAIN Restored :
       (/\ app = "asking" /\ minted' > minted
        /\ Restored[i] \in sure /\ held[Restored[i]] # <<>>)
       => tabs'[minted + i].ops = held[Restored[i]]]_replayVars
=============================================================================
