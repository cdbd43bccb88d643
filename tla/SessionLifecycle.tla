-------------------------- MODULE SessionLifecycle --------------------------
(***************************************************************************)
(* The life of one SSH session tab (crates/rusterm-ui/src/app.rs).         *)
(*                                                                         *)
(* A tab is opened once, may be disconnected and reconnected any number of *)
(* times, and is closed once. Every open or reconnect starts an *attempt*: *)
(* a task that connects and then runs the event loop of its connection for *)
(* good. A reconnect also starts a watchdog and, when interactive input    *)
(* was recorded, a replay task.                                            *)
(*                                                                         *)
(* All these tasks run on the UI thread and yield only where they await, so *)
(* a stretch of code between two awaits is one action. They share the maps *)
(* of AppState, keyed by the session id, which an attempt and its          *)
(* successor have in common: nothing in an event or in a timer says which  *)
(* attempt it belongs to.                                                  *)
(*                                                                         *)
(* The reader and writer tasks of a connection (crates/rusterm-ssh/src/    *)
(* client.rs) run on the Tokio runtime and reach the event loop through    *)
(* an unbounded queue.                                                     *)
(***************************************************************************)
EXTENDS Naturals, Sequences, FiniteSets

CONSTANTS
    Attempts,   \* connection attempts (bounds how often the tab reconnects)
    NumOps,     \* recorded operations a reconnect replays
    HasScript,  \* the connection has a login script without credentials
    Nobody      \* "no entry" in a map from the session id

ASSUME ConstantsAssumption ==
    /\ IsFiniteSet(Attempts)
    /\ NumOps \in Nat
    /\ HasScript \in BOOLEAN
    /\ Nobody \notin Attempts
    /\ "script" \notin Attempts

VARIABLES
    tab,        \* the entry in sessions, session_configs and terminals
    cs,         \* session_connection_states, "none" when absent
    input,      \* input_senders: whose channel keystrokes go to
    ssh,        \* ssh_sessions: whose SSH handle is stored
    closers,    \* close_senders: whose close channels are stored, oldest first
    script,     \* login_scripts: the runtime of the login script
    registry,   \* the entry the relay sees in its live session registry
    attempt,    \* each attempt's task, transport and reader
    watchdog,   \* the attempts whose reconnect watchdog is still asleep
    replay      \* each attempt's replay task

vars == <<tab, cs, input, ssh, closers, script, registry,
          attempt, watchdog, replay>>

ConnectionStates ==
    {"Connecting", "Connected", "Disconnected", "Reconnecting", "Failed"}

\* phase: "connecting" until connect() returns, "up" until a task of the
\* connection ends, "down" while the Disconnected event is queued, "gone" when
\* it was handled.
\* reader: the reader task still delivers output.
\* writer: the writer task runs, has a close message to find, or has ended.
AttemptRecords ==
    [phase : {"unused", "connecting", "failed", "up", "down", "gone"},
     reader : BOOLEAN,
     writer : {"running", "closing", "ended"}]

Unused == [phase |-> "unused", reader |-> FALSE, writer |-> "ended"]

ReplayRecords == [phase : {"none", "waiting", "sending", "over"}, sent : Nat]
NoReplay == [phase |-> "none", sent |-> 0]

Init ==
    /\ tab = "unopened" /\ cs = "none"
    /\ input = Nobody /\ ssh = Nobody /\ closers = <<>>
    /\ script = "absent" /\ registry = Nobody
    /\ attempt = [a \in Attempts |-> Unused]
    /\ watchdog = {}
    /\ replay = [a \in Attempts |-> NoReplay]

\* Mutant: the maps are not looked up.
LiveEntry_NoLookup(t, session, sender, scr) ==
    IF t = "open" /\ scr # "running"
    THEN [session |-> session, input |-> sender]
    ELSE Nobody

\* The entry sync_live_sessions() publishes for these values of the maps: the
\* tab must have its config, and must not be in the middle of its script.
LiveEntry(t, session, sender, scr) ==
    IF session # Nobody /\ t = "open" /\ scr # "running" /\ sender # Nobody
    THEN [session |-> session, input |-> sender]
    ELSE Nobody

sync_live_sessions == registry' = LiveEntry(tab', ssh', input', script')

Phase(a, p) == attempt' = [attempt EXCEPT ![a].phase = p]

-----------------------------------------------------------------------------
(* What the user does: open, disconnect, reconnect, close.                 *)

\* The tail of open and reconnect when operations were recorded: the login
\* script is suppressed and a replay task is started.
ScheduleReplay(a) ==
    IF NumOps > 0
    THEN /\ replay' = [replay EXCEPT ![a].phase = "waiting"]
         /\ script' = IF HasScript THEN "suppressed" ELSE "absent"
    ELSE /\ script' = "absent"
         /\ UNCHANGED replay

start_ssh_connection(a) ==
    /\ attempt[a].phase = "unused"
    /\ Phase(a, "connecting")

\* open_connection; a copied or restored session comes with recorded input.
open_connection(a, recorded) ==
    /\ tab = "unopened"
    /\ tab' = "open"
    /\ cs' = "Connecting"
    /\ start_ssh_connection(a)
    /\ IF recorded THEN ScheduleReplay(a) ELSE UNCHANGED <<script, replay>>
    /\ UNCHANGED <<input, ssh, closers, registry, watchdog>>

begin_reconnect ==
    /\ cs \in {"Disconnected", "Failed"}
    /\ cs' = "Reconnecting"

\* Mutant: reconnecting without the watchdog.
reconnect_session_Unwatched(a) ==
    /\ tab = "open"
    /\ begin_reconnect
    /\ closers' = <<>>
    /\ input' = Nobody
    /\ start_ssh_connection(a)
    /\ ScheduleReplay(a)
    /\ UNCHANGED <<tab, ssh, registry, watchdog>>

\* reconnect_session; the close senders are dropped without being used.
reconnect_session(a) ==
    /\ tab = "open"
    /\ begin_reconnect
    /\ closers' = <<>>
    /\ input' = Nobody
    /\ start_ssh_connection(a)
    /\ ScheduleReplay(a)
    /\ watchdog' = watchdog \union {a}
    /\ UNCHANGED <<tab, ssh, registry>>

\* A close message to the first stored sender; it is lost when the writer task
\* of that connection has already ended.
SendClose ==
    IF closers # <<>> /\ attempt[Head(closers)].writer = "running"
    THEN attempt' = [attempt EXCEPT ![Head(closers)].writer = "closing"]
    ELSE UNCHANGED attempt

disconnect_session ==
    /\ cs \in {"Connected", "Reconnecting", "Connecting"}
    /\ cs' = "Disconnected"
    /\ ssh' = Nobody /\ script' = "absent" /\ input' = Nobody
    /\ SendClose /\ closers' = <<>>
    /\ UNCHANGED <<tab, watchdog, replay>>
    /\ sync_live_sessions

\* close_session, also the per-session part of close_workspace. It leaves the
\* script runtime and the relay's registry as they are.
close_session ==
    /\ tab = "open"
    /\ tab' = "closed" /\ cs' = "none"
    /\ input' = Nobody /\ ssh' = Nobody
    /\ SendClose /\ closers' = <<>>
    /\ UNCHANGED <<script, registry, watchdog, replay>>

-----------------------------------------------------------------------------
(* The attempts.                                                           *)

\* Mutant: the map entry of an earlier connection is kept.
ConnectOk_KeepsSession(a) ==
    /\ attempt[a].phase = "connecting"
    /\ attempt' = [attempt EXCEPT ![a] =
           [phase |-> "up", reader |-> TRUE, writer |-> "running"]]
    /\ cs' = "Connected"
    /\ ssh' = IF ssh = Nobody THEN a ELSE ssh
    /\ input' = a
    /\ closers' = Append(closers, a)
    /\ UNCHANGED <<tab, script, watchdog, replay>>
    /\ sync_live_sessions

\* connect() succeeded: whatever happened to the tab meanwhile, its entries
\* now belong to this connection.
ConnectOk(a) ==
    /\ attempt[a].phase = "connecting"
    /\ attempt' = [attempt EXCEPT ![a] =
           [phase |-> "up", reader |-> TRUE, writer |-> "running"]]
    /\ cs' = "Connected"
    /\ ssh' = a
    /\ input' = a
    /\ closers' = Append(closers, a)
    /\ UNCHANGED <<tab, script, watchdog, replay>>
    /\ sync_live_sessions

\* connect() failed or took longer than SSH_CONNECT_TIMEOUT_SECS.
ConnectFailed(a) ==
    /\ attempt[a].phase = "connecting"
    /\ Phase(a, "failed")
    /\ cs' = "Failed"
    /\ UNCHANGED <<tab, input, ssh, closers, script, registry, watchdog,
                   replay>>

\* The first of the two tasks to end queues the Disconnected event.
PhaseAfterEnd(a) == IF attempt[a].phase = "up" THEN "down" ELSE attempt[a].phase

\* The reader task ends with the channel.
TransportLost(a) ==
    /\ attempt[a].reader
    /\ attempt' = [attempt EXCEPT ![a].phase = PhaseAfterEnd(a),
                                  ![a].reader = FALSE]
    /\ UNCHANGED <<tab, cs, input, ssh, closers, script, registry, watchdog,
                   replay>>

\* The writer task ends: it was told to close, or a write failed.
WriterEnds(a) ==
    /\ attempt[a].writer # "ended"
    /\ attempt' = [attempt EXCEPT ![a].phase = PhaseAfterEnd(a),
                                  ![a].writer = "ended"]
    /\ UNCHANGED <<tab, cs, input, ssh, closers, script, registry, watchdog,
                   replay>>

\* Mutant: an early return meant for trailing events: the handler leaves a
\* session that is Connected alone.
HandleDisconnected_SkipsConnected(a) ==
    /\ attempt[a].phase = "down"
    /\ Phase(a, "gone")
    /\ IF cs = "Connected"
       THEN UNCHANGED <<cs, ssh, input, script>>
       ELSE /\ cs' = "Disconnected"
            /\ ssh' = Nobody /\ input' = Nobody /\ script' = "absent"
    /\ UNCHANGED <<tab, closers, watchdog, replay>>
    /\ sync_live_sessions

\* The event loop takes the Disconnected event of connection a.
HandleDisconnected(a) ==
    /\ attempt[a].phase = "down"
    /\ Phase(a, "gone")
    /\ cs' = "Disconnected"
    /\ ssh' = Nobody /\ input' = Nobody /\ script' = "absent"
    /\ UNCHANGED <<tab, closers, watchdog, replay>>
    /\ sync_live_sessions

-----------------------------------------------------------------------------
(* The login script, driven by output. The runtime is created by the first *)
(* output that finds none, and output of any connection of the tab drives  *)
(* it; what it sends goes to the channel in input_senders.                 *)

HasOutput(a) == attempt[a].reader \/ attempt[a].phase = "down"

\* There is an input channel, and a writer task to receive from it.
Writable == input # Nobody /\ attempt[input].writer # "ended"

\* The runtime that output finds or creates.
Driven ==
    IF script = "absent" /\ HasScript /\ tab = "open" THEN "running" ELSE script

\* The pattern did not match, or the script is finished or absent.
ScriptWaits(a) ==
    /\ HasOutput(a)
    /\ script' = Driven
    /\ UNCHANGED <<tab, cs, input, ssh, closers, registry, attempt, watchdog,
                   replay>>

\* The pattern matched: the answers are sent, if there is a channel, and the
\* script goes on to its next expect, or is done and the session is published.
ScriptAdvances(a) ==
    /\ HasOutput(a)
    /\ Driven = "running"
    /\ script' \in {"running", "done"}
    /\ UNCHANGED <<tab, cs, input, ssh, closers, attempt, watchdog, replay>>
    /\ IF script' = "done" THEN sync_live_sessions ELSE UNCHANGED registry

\* LOGIN_SCRIPT_EXPECT_TIMEOUT_SECS passed without a match.
ScriptTimesOut(a) ==
    /\ HasOutput(a)
    /\ script = "running"
    /\ script' = "suppressed"
    /\ UNCHANGED <<tab, cs, input, ssh, closers, attempt, watchdog, replay>>
    /\ sync_live_sessions

drive_login_script(a) == ScriptWaits(a) \/ ScriptAdvances(a) \/ ScriptTimesOut(a)

-----------------------------------------------------------------------------
(* The timers of a reconnect: the watchdog and the replay task.            *)

\* RECONNECT_WATCHDOG_SECS after reconnect_session.
WatchdogFires(a) ==
    /\ a \in watchdog
    /\ watchdog' = watchdog \ {a}
    /\ cs' = IF cs = "Reconnecting" THEN "Failed" ELSE cs
    /\ UNCHANGED <<tab, input, ssh, closers, script, registry, attempt, replay>>

ReplayMoves(a, from, to) ==
    /\ replay[a].phase = from
    /\ replay' = [replay EXCEPT ![a].phase = to]
    /\ UNCHANGED <<tab, cs, input, ssh, closers, script, registry, attempt,
                   watchdog>>

\* A poll of the wait for Connected finds it.
ReplayStarts(a) == cs = "Connected" /\ ReplayMoves(a, "waiting", "sending")

\* A poll finds the session settled otherwise, or the wait is over.
ReplayNeverStarts(a) == cs # "Connected" /\ ReplayMoves(a, "waiting", "over")

\* The remote answered and went quiet, no credential prompt is in the way, and
\* the session is Connected: the next operation goes to its input channel.
ReplaySends(a) ==
    /\ replay[a].phase = "sending"
    /\ cs = "Connected"
    /\ Writable
    /\ LET sent == replay[a].sent + 1
       IN  replay' = [replay EXCEPT ![a] =
               [phase |-> IF sent = NumOps THEN "over" ELSE "sending",
                sent |-> sent]]
    /\ UNCHANGED <<tab, cs, input, ssh, closers, script, registry, attempt,
                   watchdog>>

\* It finds the session not Connected or its channel gone, or the remote silent,
\* noisy or asking for a credential for too long.
ReplayGivesUp(a) == ReplayMoves(a, "sending", "over")

-----------------------------------------------------------------------------
Next ==
    \/ disconnect_session
    \/ close_session
    \/ \E a \in Attempts :
         \/ \E recorded \in BOOLEAN : open_connection(a, recorded)
         \/ reconnect_session(a)
         \/ ConnectOk(a) \/ ConnectFailed(a)
         \/ TransportLost(a) \/ WriterEnds(a) \/ HandleDisconnected(a)
         \/ drive_login_script(a)
         \/ WatchdogFires(a)
         \/ ReplayStarts(a) \/ ReplayNeverStarts(a)
         \/ ReplaySends(a) \/ ReplayGivesUp(a)

Spec == Init /\ [][Next]_vars

\* Timers fire and the event loop drains its queue. An attempt need not end:
\* what it awaits before its own timeout starts has none.
Fairness ==
    \A a \in Attempts : WF_vars(WatchdogFires(a)) /\ WF_vars(HandleDisconnected(a))

FairSpec == Spec /\ Fairness

-----------------------------------------------------------------------------
(* Properties.                                                             *)

\* Every variable has its type.
TypeOK ==
    /\ tab \in {"unopened", "open", "closed"}
    /\ cs \in ConnectionStates \union {"none"}
    /\ input \in Attempts \union {Nobody}
    /\ ssh \in Attempts \union {Nobody}
    /\ closers \in Seq(Attempts)
    /\ script \in {"absent", "running", "done", "suppressed"}
    /\ registry \in [session : Attempts, input : Attempts] \union {Nobody}
    /\ attempt \in [Attempts -> AttemptRecords]
    /\ watchdog \subseteq Attempts
    /\ replay \in [Attempts -> ReplayRecords]

\* A session shown as Connected has a channel to type into, and it is that of a
\* connection that is up or whose end is already in the event queue: keystrokes
\* never go to a connection the event loop has seen die, or that was told to
\* close, whatever attempts overlap (app.rs, start_ssh_connection).
ConnectedIsHonest ==
    cs = "Connected" =>
        /\ input # Nobody
        /\ attempt[input].phase \in {"up", "down"}
        /\ attempt[input].writer # "closing"

\* The relay types into the channel of the same connection whose output it
\* taps, even when a second attempt has replaced the first or failed after it
\* (app.rs, sync_live_sessions).
RegistryIsOneConnection ==
    registry # Nobody => registry.session = registry.input

\* A session that is Reconnecting has a watchdog asleep, so it cannot stay so
\* for ever (app.rs, reconnect_session).
ReconnectIsWatched == cs = "Reconnecting" => watchdog # {}

\* Reconnecting never lasts, even if the attempt hangs.
ReconnectSettles == cs = "Reconnecting" ~> cs # "Reconnecting"

\* The death of the connection behind a Connected session is noticed.
DeadConnectionNoticed ==
    \A a \in Attempts :
        (cs = "Connected" /\ input = a /\ attempt[a].phase = "down")
            ~> ~(cs = "Connected" /\ input = a)

-----------------------------------------------------------------------------
(* What the comments of the code promise and the code does not keep. Each  *)
(* is checked by a run that ends in a violation.                           *)

\* The handler of a trailing Disconnected event "re-runs the (idempotent)
\* mutations" (app.rs, disconnect_session): when the session has moved on from
\* the connection that ended, it changes nothing.
TrailingDisconnectIdempotent ==
    [][\A a \in Attempts :
         (attempt[a].phase = "down" /\ attempt'[a].phase = "gone"
            /\ cs = "Connected" /\ input # a) => cs' = cs /\ input' = input]_vars
=============================================================================
