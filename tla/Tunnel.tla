------------------------------- MODULE Tunnel -------------------------------
(***************************************************************************)
(* The tunnel manager and its supervisor tasks (crates/rusterm-tunnel).    *)
(*                                                                         *)
(* TunnelManager keeps a map of tunnel definitions; start() spawns one     *)
(* run_tunnel task per tunnel, stop() sends on the task's oneshot channel. *)
(* The tasks run on the Tokio runtime, concurrently with the callers of    *)
(* the manager, and report on a watch channel the UI draws.                *)
(*                                                                         *)
(* A task that was told to stop goes on running until it next looks at its *)
(* stop channel, which it does neither while it connects nor while it      *)
(* probes: start() after stop() therefore runs two tasks for one tunnel.   *)
(***************************************************************************)
EXTENDS Naturals, FiniteSets

CONSTANTS
    Ids,        \* ids a tunnel may have
    Ports,      \* listening ports of their configurations
    Kinds,      \* their kinds, of "local", "socks" and "remote"
    AutoStarts, \* and the values of their auto_start
    AutoReconnects, \* and auto_reconnect flags
    Tasks,      \* slots for supervisor tasks (bounds how many run at once)
    NoConfig,   \* "no such tunnel"
    NoTask      \* stop_tx is None

HEALTH_FAILURE_THRESHOLD == 2

\* The fields of TunnelConfig that the manager or a supervisor looks at.
Configs == [port : Ports, kind : Kinds,
            auto_start : AutoStarts, auto_reconnect : AutoReconnects]

ASSUME ConstantsAssumption ==
    /\ Kinds \subseteq {"local", "socks", "remote"}
    /\ AutoStarts \subseteq BOOLEAN /\ AutoReconnects \subseteq BOOLEAN
    /\ NoConfig \notin Configs
    /\ NoTask \notin Tasks

VARIABLES
    tunnels,    \* TunnelManager.tunnels: the config of each known id
    stop_tx,    \* ManagedTunnel.stop_tx: the task whose stop channel is held
    state,      \* the value in the tunnel's watch channel
    task,       \* the supervisor tasks
    disk,       \* tunnels.json
    booting     \* ids autostart() has still to start

vars == <<tunnels, stop_tx, state, task, disk, booting>>

TunnelStates == {"Stopped", "Connecting", "Active", "Reconnecting", "Failed"}
Idle == [pc |-> "idle"]

\* A task: where run_tunnel is, the tunnel and the copy of its config it was
\* spawned with, the consecutive failed probes, whether a stop was sent,
\* whether the watch channel it holds is still the one the manager shows, and
\* whether it holds the listening socket.
TaskRecords ==
    [pc : {"spawned", "connecting", "binding", "serving", "probing", "backoff"},
     id : Ids, config : Configs, failures : 0..HEALTH_FAILURE_THRESHOLD,
     stopped : BOOLEAN, attached : BOOLEAN, listening : BOOLEAN]

Live(t) == task[t] # Idle
is_running(id) == stop_tx[id] # NoTask
Known(id) == tunnels[id] # NoConfig

\* tunnels that load_from_disk or an earlier session may find in tunnels.json
Init ==
    /\ disk \in [Ids -> Configs \union {NoConfig}]
    /\ tunnels = disk
    /\ stop_tx = [id \in Ids |-> NoTask]
    /\ state = [id \in Ids |-> "Stopped"]
    /\ task = [t \in Tasks |-> Idle]
    /\ booting = {id \in Ids : disk[id] # NoConfig /\ disk[id].auto_start}

-----------------------------------------------------------------------------
(* The manager's methods. Each holds the registry lock for its whole map   *)
(* update; all callers are on the UI thread, so none overlaps another.     *)

\* What persist() leaves on disk: the save succeeds or is only logged.
persist == disk' = tunnels' \/ disk' = disk

\* Mutant: an edit replaces the whole config whether or not the tunnel runs.
upsert_Replaces(id, c) ==
    /\ booting = {}
    /\ tunnels' = [tunnels EXCEPT ![id] = c]
    /\ persist
    /\ UNCHANGED <<stop_tx, state, task, booting>>

\* An update that restarts nothing: a running tunnel only takes its metadata.
upsert(id, c) ==
    /\ booting = {}
    /\ tunnels' = [tunnels EXCEPT ![id] =
           IF Known(id) /\ is_running(id)
           THEN [@ EXCEPT !.auto_start = c.auto_start,
                          !.auto_reconnect = c.auto_reconnect]
           ELSE c]
    /\ persist
    /\ UNCHANGED <<stop_tx, state, task, booting>>

Spawn(id, t) ==
    /\ task[t] = Idle
    /\ \A i \in Ids : stop_tx[i] # t
    /\ task' = [task EXCEPT ![t] =
           [pc |-> "spawned", id |-> id, config |-> tunnels[id], failures |-> 0,
            stopped |-> FALSE, attached |-> TRUE, listening |-> FALSE]]
    /\ stop_tx' = [stop_tx EXCEPT ![id] = t]

\* start() of a known tunnel that is not running (otherwise it is an error).
start(id, t) ==
    /\ booting = {}
    /\ Known(id)
    /\ ~is_running(id)
    /\ Spawn(id, t)
    /\ UNCHANGED <<tunnels, state, disk, booting>>

\* one round of autostart()'s loop over the ids it collected
autostart(id, t) ==
    /\ id \in booting
    /\ booting' = booting \ {id}
    /\ Spawn(id, t)
    /\ UNCHANGED <<tunnels, state, disk>>

\* Mutant: the stop is only sent to a tunnel whose state says it is active.
SignalStop_OnlyActive(id) ==
    [t \in Tasks |-> IF t = stop_tx[id] /\ Live(t) /\ state[id] = "Active"
                     THEN [task[t] EXCEPT !.stopped = TRUE] ELSE task[t]]

\* the tasks after stop() has sent on the channel it took out of the tunnel
SignalStop(id) ==
    [t \in Tasks |-> IF t = stop_tx[id] /\ Live(t)
                     THEN [task[t] EXCEPT !.stopped = TRUE] ELSE task[t]]

stop(id) ==
    /\ booting = {}
    /\ Known(id)
    /\ task' = SignalStop(id)
    /\ stop_tx' = [stop_tx EXCEPT ![id] = NoTask]
    /\ UNCHANGED <<tunnels, state, disk, booting>>

\* the tasks after the tunnel's watch channel is dropped from the registry
Detach(id, tasks) ==
    [t \in Tasks |-> IF tasks[t] # Idle /\ tasks[t].id = id
                     THEN [tasks[t] EXCEPT !.attached = FALSE] ELSE tasks[t]]

\* remove() stops the tunnel and drops it with its watch channel: what the
\* task still publishes reaches nobody, even if the id is added again.
remove(id) ==
    /\ booting = {}
    /\ Known(id)
    /\ task' = Detach(id, SignalStop(id))
    /\ stop_tx' = [stop_tx EXCEPT ![id] = NoTask]
    /\ state' = [state EXCEPT ![id] = "Stopped"]
    /\ tunnels' = [tunnels EXCEPT ![id] = NoConfig]
    /\ persist
    /\ UNCHANGED booting

\* The application exits, taking its tasks with it, and is launched again.
relaunch ==
    /\ tunnels' = disk
    /\ stop_tx' = [id \in Ids |-> NoTask]
    /\ state' = [id \in Ids |-> "Stopped"]
    /\ task' = [t \in Tasks |-> Idle]
    /\ booting' = {id \in Ids : disk[id] # NoConfig /\ disk[id].auto_start}
    /\ UNCHANGED disk

-----------------------------------------------------------------------------
(* run_tunnel                                                              *)

is_supported(c) == c.kind # "remote"

Publish(t, s) ==
    state' = IF task[t].attached THEN [state EXCEPT ![task[t].id] = s] ELSE state

Goto(t, pc) == task' = [task EXCEPT ![t].pc = pc]

\* run_tunnel returns, dropping its listener if it has one
Return(t, s) ==
    /\ Publish(t, s)
    /\ task' = [task EXCEPT ![t] = Idle]

Manager == <<tunnels, stop_tx, disk, booting>>

\* The first poll: unsupported kinds fail at once, the others connect.
Begin(t) ==
    /\ task[t].pc = "spawned"
    /\ IF is_supported(task[t].config)
       THEN Publish(t, "Connecting") /\ Goto(t, "connecting")
       ELSE Return(t, "Failed")
    /\ UNCHANGED Manager

ConnectOk(t) ==
    /\ task[t].pc = "connecting"
    /\ Goto(t, "binding")
    /\ UNCHANGED <<state, Manager>>

\* Resolving the connection or connecting failed.
ConnectFailed(t) ==
    /\ task[t].pc = "connecting"
    /\ IF task[t].config.auto_reconnect
       THEN Publish(t, "Reconnecting") /\ Goto(t, "backoff")
       ELSE Return(t, "Failed")
    /\ UNCHANGED Manager

PortFree(p) == \A u \in Tasks : Live(u) => ~(task[u].listening /\ task[u].config.port = p)

BindOk(t) ==
    /\ task[t].pc = "binding"
    /\ PortFree(task[t].config.port)
    /\ Publish(t, "Active")
    /\ task' = [task EXCEPT ![t] =
           [@ EXCEPT !.pc = "serving", !.listening = TRUE, !.failures = 0]]
    /\ UNCHANGED Manager

\* The port is held by another tunnel's task or by another program.
BindFailed(t) ==
    /\ task[t].pc = "binding"
    /\ Return(t, "Failed")
    /\ UNCHANGED Manager

\* Mutant: the supervisor returns without reporting that it stopped.
ServeStopped_Silent(t) ==
    /\ task[t].pc = "serving"
    /\ task[t].stopped
    /\ task' = [task EXCEPT ![t] = Idle]
    /\ UNCHANGED <<state, Manager>>

\* serve_loop's select is biased: a stop is taken before any other branch.
ServeStopped(t) ==
    /\ task[t].pc = "serving"
    /\ task[t].stopped
    /\ Return(t, "Stopped")
    /\ UNCHANGED Manager

HealthTick(t) ==
    /\ task[t].pc = "serving"
    /\ ~task[t].stopped
    /\ Goto(t, "probing")
    /\ UNCHANGED <<state, Manager>>

ProbeAlive(t) ==
    /\ task[t].pc = "probing"
    /\ task' = [task EXCEPT ![t] = [@ EXCEPT !.pc = "serving", !.failures = 0]]
    /\ UNCHANGED <<state, Manager>>

\* Mutant: failed probes are counted but never compared with the threshold.
ProbeDead_NoThreshold(t) ==
    /\ task[t].pc = "probing"
    /\ task' = [task EXCEPT ![t] = [@ EXCEPT !.pc = "serving", !.failures = task[t].failures + 1]]
    /\ UNCHANGED <<state, Manager>>

ProbeDead(t) ==
    /\ task[t].pc = "probing"
    /\ task[t].failures + 1 < HEALTH_FAILURE_THRESHOLD
    /\ task' = [task EXCEPT ![t] = [@ EXCEPT !.pc = "serving", !.failures = task[t].failures + 1]]
    /\ UNCHANGED <<state, Manager>>

\* LoopExit::Broken: the listener stays open until the backoff is over.
Broken(t) ==
    /\ task[t].pc = "probing"
    /\ task[t].failures + 1 >= HEALTH_FAILURE_THRESHOLD
    /\ IF task[t].config.auto_reconnect
       THEN /\ Publish(t, "Reconnecting")
            /\ task' = [task EXCEPT ![t] = [@ EXCEPT !.pc = "backoff", !.failures = 0]]
       ELSE Return(t, "Failed")
    /\ UNCHANGED Manager

\* Mutant: the backoff sleeps without listening for a stop.
BackoffStopped_Sleeps(t) ==
    /\ task[t].pc = "backoff"
    /\ task[t].stopped
    /\ task' = [task EXCEPT ![t] = [@ EXCEPT !.pc = "connecting", !.listening = FALSE]]
    /\ UNCHANGED <<state, Manager>>

BackoffStopped(t) ==
    /\ task[t].pc = "backoff"
    /\ task[t].stopped
    /\ Return(t, "Stopped")
    /\ UNCHANGED Manager

BackoffElapsed(t) ==
    /\ task[t].pc = "backoff"
    /\ task' = [task EXCEPT ![t] = [@ EXCEPT !.pc = "connecting", !.listening = FALSE]]
    /\ UNCHANGED <<state, Manager>>

Connect(t) == ConnectOk(t) \/ ConnectFailed(t)
Bind(t) == BindOk(t) \/ BindFailed(t)
Probe(t) == ProbeAlive(t) \/ ProbeDead(t) \/ Broken(t)

run_tunnel(t) ==
    \/ Begin(t) \/ Connect(t) \/ Bind(t)
    \/ ServeStopped(t) \/ HealthTick(t) \/ Probe(t)
    \/ BackoffStopped(t) \/ BackoffElapsed(t)

Next ==
    \/ \E id \in Ids, c \in Configs : upsert(id, c)
    \/ \E id \in Ids, t \in Tasks : start(id, t) \/ autostart(id, t)
    \/ \E id \in Ids : stop(id) \/ remove(id)
    \/ relaunch
    \/ \E t \in Tasks : Live(t) /\ run_tunnel(t)

Spec == Init /\ [][Next]_vars

\* The runtime polls a woken task, connects and probes have timeouts, and the
\* backoff timer fires. A stop that races the timer is picked by select at
\* random, so it is not passed over for ever. Callers of the manager are free.
Fairness ==
    \A t \in Tasks :
        /\ WF_vars(Live(t) /\ run_tunnel(t))
        /\ SF_vars(Live(t) /\ BackoffStopped(t))
        /\ SF_vars(Live(t) /\ ServeStopped(t))

FairSpec == Spec /\ Fairness

-----------------------------------------------------------------------------
(* Properties                                                              *)

TypeOK ==
    /\ tunnels \in [Ids -> Configs \union {NoConfig}]
    /\ disk \in [Ids -> Configs \union {NoConfig}]
    /\ stop_tx \in [Ids -> Tasks \union {NoTask}]
    /\ state \in [Ids -> TunnelStates]
    /\ task \in [Tasks -> TaskRecords \union {Idle}]
    /\ booting \subseteq Ids

\* A supervisor that has not been told to stop is one the manager can still
\* stop: start/stop/remove in any order never lose the only handle on a task.
NoOrphanSupervisor ==
    \A t \in Tasks : Live(t) /\ ~task[t].stopped => stop_tx[task[t].id] = t

\* Of the tasks of one tunnel, at most one is not already winding down.
OneUnstoppedSupervisor ==
    \A t, u \in Tasks :
        (/\ Live(t) /\ ~task[t].stopped
         /\ Live(u) /\ ~task[u].stopped
         /\ task[t].id = task[u].id) => t = u

\* The green dot never lies: if a tunnel's watch channel says Active, one of
\* its supervisors is in its serve loop with the listening socket open.
NoFalseGreen ==
    \A id \in Ids : state[id] = "Active" =>
        \E t \in Tasks : /\ Live(t)
                         /\ task[t].id = id
                         /\ task[t].pc \in {"serving", "probing"}
                         /\ task[t].listening

\* Ports, kind and connection of a running tunnel are those its supervisor
\* works with: an edit is never shown as if the running task had adopted it.
RuntimeFieldsPinned ==
    \A t \in Tasks : Live(t) /\ ~task[t].stopped =>
        /\ Known(task[t].id)
        /\ tunnels[task[t].id].port = task[t].config.port
        /\ tunnels[task[t].id].kind = task[t].config.kind

\* A stop is honoured in the end, even one sent while the task connects or
\* probes: the task ends and with it the listener.
StopTakesEffect ==
    \A t \in Tasks : (Live(t) /\ task[t].stopped) ~> ~Live(t)
=============================================================================
