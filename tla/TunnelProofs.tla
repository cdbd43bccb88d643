---------------------------- MODULE TunnelProofs ----------------------------
(* Proofs about Tunnel, for every set of ids, ports and task slots.        *)
EXTENDS Tunnel, TLAPS

\* The stop channel the manager holds for a live task belongs to that task's
\* tunnel, has not been used, and the task still reports to that tunnel.
StopChannelOwned ==
    \A id \in Ids : stop_tx[id] \in Tasks /\ Live(stop_tx[id]) =>
        /\ task[stop_tx[id]].id = id
        /\ ~task[stop_tx[id]].stopped
        /\ task[stop_tx[id]].attached

\* A tunnel with a stop channel is a known one.
RunningIsKnown == \A id \in Ids : is_running(id) => Known(id)

\* Nothing touches a tunnel between the launch and its autostart.
BootingIsIdle == \A id \in booting : Known(id) /\ ~is_running(id)

IInv ==
    /\ TypeOK
    /\ NoOrphanSupervisor
    /\ StopChannelOwned
    /\ RunningIsKnown
    /\ RuntimeFieldsPinned
    /\ BootingIsIdle

USE DEF HEALTH_FAILURE_THRESHOLD

\* An idle slot is not mistaken for a task.
LEMMA IdleIsNoRecord == Idle \notin TaskRecords
BY DEF Idle, TaskRecords

LEMMA InitIInv == Init => IInv
<1> SUFFICES ASSUME Init PROVE IInv
    OBVIOUS
<1> USE ConstantsAssumption
<1>1. TypeOK
    BY DEF Init, TypeOK, TunnelStates
<1>2. QED
    BY <1>1 DEF Init, IInv, NoOrphanSupervisor, StopChannelOwned, RunningIsKnown,
       RuntimeFieldsPinned, BootingIsIdle, is_running, Known, Live

\* What every step of a supervisor leaves the manager with: its own task
\* record changes, but not the identity of the task or its copy of the config.
SameTask(r, x) ==
    /\ r.id = x.id
    /\ r.config = x.config
    /\ r.stopped = x.stopped
    /\ r.attached = x.attached

SupervisorStep(t) ==
    /\ UNCHANGED Manager
    /\ state' \in [Ids -> TunnelStates]
    /\ task' \in [Tasks -> TaskRecords \union {Idle}]
    /\ \A u \in Tasks \ {t} : task'[u] = task[u]
    /\ task'[t] # Idle => SameTask(task'[t], task[t])

\* Advancing a task record keeps it one, and the same task.
Steps == {"connecting", "binding", "serving", "probing", "backoff"}

LEMMA Advance ==
    ASSUME NEW x \in TaskRecords, NEW p \in Steps
    PROVE  /\ [x EXCEPT !.pc = p] \in TaskRecords
           /\ SameTask([x EXCEPT !.pc = p], x)
BY DEF TaskRecords, SameTask, Steps

LEMMA AdvanceCounting ==
    ASSUME NEW x \in TaskRecords, NEW p \in Steps, NEW n \in 0..2
    PROVE  /\ [x EXCEPT !.pc = p, !.failures = n] \in TaskRecords
           /\ SameTask([x EXCEPT !.pc = p, !.failures = n], x)
BY DEF TaskRecords, SameTask, Steps

LEMMA AdvanceListener ==
    ASSUME NEW x \in TaskRecords, NEW p \in Steps, NEW l \in BOOLEAN
    PROVE  /\ [x EXCEPT !.pc = p, !.listening = l] \in TaskRecords
           /\ SameTask([x EXCEPT !.pc = p, !.listening = l], x)
BY DEF TaskRecords, SameTask, Steps

LEMMA AdvanceBound ==
    ASSUME NEW x \in TaskRecords, NEW p \in Steps, NEW n \in 0..2, NEW l \in BOOLEAN
    PROVE  /\ [x EXCEPT !.pc = p, !.listening = l, !.failures = n] \in TaskRecords
           /\ SameTask([x EXCEPT !.pc = p, !.listening = l, !.failures = n], x)
BY DEF TaskRecords, SameTask, Steps

LEMMA SupervisorStepShape ==
    ASSUME TypeOK, NEW t \in Tasks, Live(t), run_tunnel(t)
    PROVE  SupervisorStep(t)
<1>0. /\ task[t] \in TaskRecords
      /\ task \in [Tasks -> TaskRecords \union {Idle}]
      /\ state \in [Ids -> TunnelStates]
    BY IdleIsNoRecord DEF TypeOK, Live
<1>f. task[t].failures \in 0..HEALTH_FAILURE_THRESHOLD /\ task[t].id \in Ids
    BY <1>0 DEF TaskRecords
<1>k. /\ "connecting" \in Steps /\ "serving" \in Steps /\ "backoff" \in Steps
      /\ 0 \in 0..2 /\ TRUE \in BOOLEAN /\ FALSE \in BOOLEAN
    BY DEF Steps
<1>s. \A s \in TunnelStates : Publish(t, s) => state' \in [Ids -> TunnelStates]
    BY <1>0, <1>f DEF Publish
<1>r. \A r \in TaskRecords : SameTask(r, task[t]) /\ task' = [task EXCEPT ![t] = r]
          /\ UNCHANGED Manager /\ state' \in [Ids -> TunnelStates]
              => SupervisorStep(t)
    BY <1>0 DEF SupervisorStep
<1>i. \A s \in TunnelStates : Return(t, s) /\ UNCHANGED Manager => SupervisorStep(t)
    BY <1>0, <1>s DEF SupervisorStep, Return
<1>g. \A p \in Steps :
          Goto(t, p) /\ UNCHANGED Manager /\ state' \in [Ids -> TunnelStates]
              => SupervisorStep(t)
    <2> SUFFICES ASSUME NEW p \in Steps,
                        Goto(t, p), UNCHANGED Manager, state' \in [Ids -> TunnelStates]
                 PROVE  SupervisorStep(t)
        OBVIOUS
    <2> DEFINE r == [task[t] EXCEPT !.pc = p]
    <2>1. task' = [task EXCEPT ![t] = r]
        BY DEF Goto
    <2>2. r \in TaskRecords /\ SameTask(r, task[t])
        BY <1>0, Advance, Zenon
    <2>3. QED
        BY <2>1, <2>2, <1>r
<1>1. CASE Begin(t)
    BY <1>1, <1>s, <1>i, <1>g DEF Begin, TunnelStates, Steps
<1>2. CASE ConnectOk(t)
    BY <1>2, <1>0, <1>g DEF ConnectOk, Steps
<1>3. CASE ConnectFailed(t)
    BY <1>3, <1>s, <1>i, <1>g DEF ConnectFailed, TunnelStates, Steps
<1>4. CASE BindOk(t)
    <2> DEFINE r == [task[t] EXCEPT !.pc = "serving", !.listening = TRUE, !.failures = 0]
    <2>1. r \in TaskRecords /\ SameTask(r, task[t])
        BY <1>0, <1>k, AdvanceBound, Zenon
    <2>2. task' = [task EXCEPT ![t] = r]
        BY <1>4 DEF BindOk
    <2>3. state' \in [Ids -> TunnelStates] /\ UNCHANGED Manager
        BY <1>4, <1>s DEF BindOk, TunnelStates
    <2>4. QED
        BY <2>1, <2>2, <2>3, <1>r
<1>5. CASE BindFailed(t)
    BY <1>5, <1>i DEF BindFailed, TunnelStates
<1>6. CASE ServeStopped(t)
    BY <1>6, <1>i DEF ServeStopped, TunnelStates
<1>7. CASE HealthTick(t)
    BY <1>7, <1>0, <1>g DEF HealthTick, Steps
<1>8. CASE ProbeAlive(t)
    <2> DEFINE r == [task[t] EXCEPT !.pc = "serving", !.failures = 0]
    <2>1. r \in TaskRecords /\ SameTask(r, task[t])
        BY <1>0, <1>k, AdvanceCounting, Zenon
    <2>2. task' = [task EXCEPT ![t] = r] /\ state' = state /\ UNCHANGED Manager
        BY <1>8 DEF ProbeAlive
    <2>3. QED
        BY <2>1, <2>2, <1>0, <1>r
<1>9. CASE ProbeDead(t)
    <2> DEFINE n == task[t].failures + 1
               r == [task[t] EXCEPT !.pc = "serving", !.failures = n]
    <2>1. n \in 0..2
        BY <1>9, <1>f DEF ProbeDead
    <2>2. r \in TaskRecords /\ SameTask(r, task[t])
        BY <2>1, <1>0, <1>k, AdvanceCounting, Zenon
    <2>3. task' = [task EXCEPT ![t] = r] /\ state' = state /\ UNCHANGED Manager
        BY <1>9 DEF ProbeDead
    <2>4. QED
        BY <2>2, <2>3, <1>0, <1>r
<1>10. CASE Broken(t)
    <2> DEFINE r == [task[t] EXCEPT !.pc = "backoff", !.failures = 0]
    <2>1. r \in TaskRecords /\ SameTask(r, task[t])
        BY <1>0, <1>k, AdvanceCounting, Zenon
    <2>2. CASE task[t].config.auto_reconnect
        <3>1. task' = [task EXCEPT ![t] = r] /\ Publish(t, "Reconnecting") /\ UNCHANGED Manager
            BY <1>10, <2>2 DEF Broken
        <3>2. QED
            BY <2>1, <3>1, <1>r, <1>s DEF TunnelStates
    <2>3. CASE ~task[t].config.auto_reconnect
        BY <1>10, <2>3, <1>i DEF Broken, TunnelStates
    <2>4. QED
        BY <2>2, <2>3
<1>11. CASE BackoffStopped(t)
    BY <1>11, <1>i DEF BackoffStopped, TunnelStates
<1>12. CASE BackoffElapsed(t)
    <2> DEFINE r == [task[t] EXCEPT !.pc = "connecting", !.listening = FALSE]
    <2>1. r \in TaskRecords /\ SameTask(r, task[t])
        BY <1>0, <1>k, AdvanceListener, Zenon
    <2>2. task' = [task EXCEPT ![t] = r] /\ state' = state /\ UNCHANGED Manager
        BY <1>12 DEF BackoffElapsed
    <2>3. QED
        BY <2>1, <2>2, <1>0, <1>r
<1>13. QED
    BY <1>1, <1>2, <1>3, <1>4, <1>5, <1>6, <1>7, <1>8, <1>9, <1>10, <1>11, <1>12
       DEF run_tunnel, Connect, Bind, Probe

-----------------------------------------------------------------------------
\* A supervisor's step disturbs none of what ties the tasks to the manager.
LEMMA SupervisorKeepsIInv ==
    ASSUME IInv, NEW t \in Tasks, Live(t), run_tunnel(t)
    PROVE  IInv'
<1>1. SupervisorStep(t)
    BY SupervisorStepShape DEF IInv
<1> USE DEF IInv, SupervisorStep, SameTask, Manager, Live
<1>2. TypeOK'
    BY <1>1 DEF TypeOK
<1>3. NoOrphanSupervisor'
    BY <1>1 DEF NoOrphanSupervisor
<1>4. StopChannelOwned'
    BY <1>1 DEF StopChannelOwned
<1>5. RunningIsKnown'
    BY <1>1 DEF RunningIsKnown, is_running, Known
<1>6. RuntimeFieldsPinned'
    BY <1>1 DEF RuntimeFieldsPinned, Known
<1>7. BootingIsIdle'
    BY <1>1 DEF BootingIsIdle, is_running, Known
<1>8. QED
    BY <1>2, <1>3, <1>4, <1>5, <1>6, <1>7

\* A new supervisor takes a slot no tunnel's stop channel refers to.
LEMMA SpawnKeepsIInv ==
    ASSUME IInv, NEW id \in Ids, NEW t \in Tasks, Known(id), ~is_running(id),
           Spawn(id, t), UNCHANGED <<tunnels, state, disk>>, booting' \subseteq booting \ {id}
    PROVE  IInv'
<1> DEFINE r == [pc |-> "spawned", id |-> id, config |-> tunnels[id], failures |-> 0,
                 stopped |-> FALSE, attached |-> TRUE, listening |-> FALSE]
<1>0. TypeOK /\ tunnels[id] \in Configs
    BY DEF IInv, TypeOK, Known
<1>1. r \in TaskRecords /\ r # Idle /\ r.id = id /\ ~r.stopped /\ r.attached
         /\ r.config = tunnels[id]
    <2>1. r \in TaskRecords
        BY <1>0 DEF TaskRecords
    <2>2. r.id = id /\ ~r.stopped /\ r.attached /\ r.config = tunnels[id]
        OBVIOUS
    <2>3. QED
        BY <2>1, <2>2, IdleIsNoRecord
<1>2. /\ task' = [task EXCEPT ![t] = r] /\ stop_tx' = [stop_tx EXCEPT ![id] = t]
      /\ task[t] = Idle /\ \A i \in Ids : stop_tx[i] # t
    BY DEF Spawn
<1> HIDE DEF r
<1>3. TypeOK'
    BY <1>0, <1>1, <1>2 DEF TypeOK
<1>4. NoOrphanSupervisor'
    BY <1>0, <1>1, <1>2, ConstantsAssumption
       DEF IInv, TypeOK, NoOrphanSupervisor, is_running, Live
<1>5. StopChannelOwned'
    BY <1>0, <1>1, <1>2 DEF IInv, TypeOK, StopChannelOwned, Live
<1>6. RunningIsKnown'
    BY <1>0, <1>2 DEF IInv, TypeOK, RunningIsKnown, is_running, Known
<1>7. RuntimeFieldsPinned'
    BY <1>0, <1>1, <1>2 DEF IInv, TypeOK, RuntimeFieldsPinned, Known, Live
<1>8. BootingIsIdle'
    BY <1>0, <1>2 DEF IInv, TypeOK, BootingIsIdle, is_running, Known
<1>9. QED
    BY <1>3, <1>4, <1>5, <1>6, <1>7, <1>8 DEF IInv

\* An edit leaves the runtime fields of a tunnel that still has its supervisor.
LEMMA UpsertKeepsIInv ==
    ASSUME IInv, NEW id \in Ids, NEW c \in Configs, upsert(id, c)
    PROVE  IInv'
<1> DEFINE e == [tunnels[id] EXCEPT !.auto_start = c.auto_start,
                                    !.auto_reconnect = c.auto_reconnect]
<1>0. TypeOK /\ NoConfig \notin Configs /\ UNCHANGED <<stop_tx, state, task, booting>>
    BY ConstantsAssumption DEF IInv, upsert
<1>1. Known(id) => /\ e \in Configs
                   /\ e.port = tunnels[id].port
                   /\ e.kind = tunnels[id].kind
    BY <1>0 DEF TypeOK, Known, Configs
<1>2. tunnels' = [tunnels EXCEPT ![id] = IF Known(id) /\ is_running(id) THEN e ELSE c]
    BY DEF upsert
<1> HIDE DEF e
<1>3. TypeOK'
    <2>1. tunnels' \in [Ids -> Configs \union {NoConfig}]
        BY <1>0, <1>1, <1>2 DEF TypeOK
    <2>2. disk' \in [Ids -> Configs \union {NoConfig}]
        BY <1>0, <2>1 DEF TypeOK, upsert, persist
    <2>3. QED
        BY <1>0, <2>1, <2>2 DEF TypeOK
<1>4. NoOrphanSupervisor' /\ StopChannelOwned'
    BY <1>0 DEF IInv, NoOrphanSupervisor, StopChannelOwned, Live
<1>5. \A i \in Ids : Known(i) => Known(i)'
    BY <1>0, <1>1, <1>2 DEF TypeOK, Known
<1>6. RunningIsKnown'
    BY <1>0, <1>5 DEF IInv, RunningIsKnown, is_running
<1>7. RuntimeFieldsPinned'
    <2> SUFFICES ASSUME NEW t \in Tasks, Live(t), ~task[t].stopped
                 PROVE  /\ Known(task[t].id)'
                        /\ tunnels'[task[t].id].port = task[t].config.port
                        /\ tunnels'[task[t].id].kind = task[t].config.kind
        BY <1>0 DEF RuntimeFieldsPinned, Live
    <2>1. task[t].id \in Ids /\ task[t] \in TaskRecords
        BY <1>0 DEF TypeOK, Live, TaskRecords
    <2>2. stop_tx[task[t].id] = t /\ is_running(task[t].id)
        BY <2>1, <1>0, ConstantsAssumption DEF IInv, NoOrphanSupervisor, is_running
    <2>3. /\ Known(task[t].id)
          /\ tunnels[task[t].id].port = task[t].config.port
          /\ tunnels[task[t].id].kind = task[t].config.kind
        BY DEF IInv, RuntimeFieldsPinned
    <2>4. QED
        BY <1>0, <1>1, <1>2, <1>5, <2>1, <2>2, <2>3 DEF TypeOK
<1>8. BootingIsIdle'
    BY <1>0, <1>5 DEF IInv, TypeOK, BootingIsIdle, is_running
<1>9. QED
    BY <1>3, <1>4, <1>6, <1>7, <1>8 DEF IInv

\* What stop() and remove() do to the tasks (f is the task map they leave): the
\* one behind the stop channel is told to stop, the others are not.
StopStep(id, f) ==
    /\ f \in [Tasks -> TaskRecords \union {Idle}]
    /\ \A t \in Tasks :
          /\ Live(t) <=> f[t] # Idle
          /\ Live(t) => /\ f[t].id = task[t].id
                        /\ f[t].config = task[t].config
                        /\ t = stop_tx[id] => f[t].stopped
                        /\ t # stop_tx[id] => f[t].stopped = task[t].stopped
                        /\ task[t].id # id => f[t].attached = task[t].attached

LEMMA SignalledRecord ==
    ASSUME NEW x \in TaskRecords
    PROVE  /\ [x EXCEPT !.stopped = TRUE] \in TaskRecords
           /\ [x EXCEPT !.stopped = TRUE].id = x.id
           /\ [x EXCEPT !.stopped = TRUE].config = x.config
           /\ [x EXCEPT !.stopped = TRUE].stopped
           /\ [x EXCEPT !.stopped = TRUE].attached = x.attached
BY DEF TaskRecords

LEMMA DetachedRecord ==
    ASSUME NEW x \in TaskRecords
    PROVE  /\ [x EXCEPT !.attached = FALSE] \in TaskRecords
           /\ [x EXCEPT !.attached = FALSE].id = x.id
           /\ [x EXCEPT !.attached = FALSE].config = x.config
           /\ [x EXCEPT !.attached = FALSE].stopped = x.stopped
BY DEF TaskRecords

LEMMA SignalStopStep ==
    ASSUME TypeOK, NEW id \in Ids
    PROVE  StopStep(id, SignalStop(id))
<1> DEFINE f == SignalStop(id)
<1>1. \A t \in Tasks : Live(t) => task[t] \in TaskRecords
    BY DEF TypeOK, Live
<1>2. \A t \in Tasks : f[t] = IF t = stop_tx[id] /\ Live(t)
                              THEN [task[t] EXCEPT !.stopped = TRUE] ELSE task[t]
    BY DEF SignalStop
<1>3. f \in [Tasks -> TaskRecords \union {Idle}]
    BY <1>1, <1>2, SignalledRecord DEF SignalStop, TypeOK
<1> HIDE DEF f
<1>4. ASSUME NEW t \in Tasks
      PROVE  /\ Live(t) <=> f[t] # Idle
             /\ Live(t) => /\ f[t].id = task[t].id
                           /\ f[t].config = task[t].config
                           /\ t = stop_tx[id] => f[t].stopped
                           /\ t # stop_tx[id] => f[t].stopped = task[t].stopped
                           /\ f[t].attached = task[t].attached
    <2>1. CASE t = stop_tx[id] /\ Live(t)
        <3>1. f[t] = [task[t] EXCEPT !.stopped = TRUE] /\ task[t] \in TaskRecords
            BY <1>1, <1>2, <2>1
        <3>2. QED
            BY <2>1, <3>1, SignalledRecord, IdleIsNoRecord DEF Live
    <2>2. CASE ~(t = stop_tx[id] /\ Live(t))
        BY <1>2, <2>2 DEF Live
    <2>3. QED
        BY <2>1, <2>2
<1>5. StopStep(id, f)
    BY <1>3, <1>4 DEF StopStep
<1>6. QED
    BY <1>5 DEF f

LEMMA DetachStopStep ==
    ASSUME TypeOK, NEW id \in Ids
    PROVE  StopStep(id, Detach(id, SignalStop(id)))
<1> DEFINE f == SignalStop(id)
           g == Detach(id, f)
<1>1. StopStep(id, f)
    BY SignalStopStep
<1> HIDE DEF f
<1>2. \A t \in Tasks : g[t] = IF f[t] # Idle /\ f[t].id = id
                              THEN [f[t] EXCEPT !.attached = FALSE] ELSE f[t]
    BY DEF Detach
<1>3. \A t \in Tasks : f[t] # Idle => f[t] \in TaskRecords
    BY <1>1 DEF StopStep
<1>4. g \in [Tasks -> TaskRecords \union {Idle}]
    BY <1>1, <1>2, <1>3, DetachedRecord DEF StopStep, Detach
<1> HIDE DEF g
<1>5. ASSUME NEW t \in Tasks
      PROVE  /\ f[t] # Idle <=> g[t] # Idle
             /\ f[t] # Idle => /\ g[t].id = f[t].id
                               /\ g[t].config = f[t].config
                               /\ g[t].stopped = f[t].stopped
                               /\ f[t].id # id => g[t].attached = f[t].attached
    <2>1. CASE f[t] # Idle /\ f[t].id = id
        <3>1. g[t] = [f[t] EXCEPT !.attached = FALSE] /\ f[t] \in TaskRecords
            BY <1>2, <1>3, <2>1
        <3>2. QED
            BY <2>1, <3>1, DetachedRecord, IdleIsNoRecord
    <2>2. CASE ~(f[t] # Idle /\ f[t].id = id)
        BY <1>2, <2>2
    <2>3. QED
        BY <2>1, <2>2
<1>6. StopStep(id, g)
    BY <1>1, <1>4, <1>5 DEF StopStep
<1>7. QED
    BY <1>6 DEF f, g

\* After a stop or a removal no stop channel is left for the tunnel's tasks,
\* and none is needed: the one unstopped task has just been told to stop.
LEMMA StopKeepsIInv ==
    ASSUME IInv, NEW id \in Ids, stop(id) \/ remove(id)
    PROVE  IInv'
<1>0. /\ TypeOK /\ StopStep(id, task')
      /\ stop_tx' = [stop_tx EXCEPT ![id] = NoTask]
      /\ booting = {} /\ booting' = {}
    BY SignalStopStep, DetachStopStep DEF IInv, stop, remove
<1>1. tunnels' = tunnels \/ tunnels' = [tunnels EXCEPT ![id] = NoConfig]
    BY DEF stop, remove
<1>2. TypeOK'
    <2>1. tunnels' \in [Ids -> Configs \union {NoConfig}]
        BY <1>0, <1>1 DEF TypeOK
    <2>2. disk' \in [Ids -> Configs \union {NoConfig}]
        BY <1>0, <2>1 DEF TypeOK, stop, remove, persist
    <2>3. state' \in [Ids -> TunnelStates]
        BY <1>0 DEF TypeOK, stop, remove, TunnelStates
    <2>4. QED
        BY <1>0, <2>1, <2>2, <2>3 DEF TypeOK, StopStep
<1>t. \A t \in Tasks : Live(t) => task[t].id \in Ids
    BY <1>0 DEF TypeOK, Live, TaskRecords
<1>3. NoOrphanSupervisor'
    BY <1>0, <1>t DEF IInv, TypeOK, NoOrphanSupervisor, StopStep, Live
<1>4. StopChannelOwned'
    BY <1>0, ConstantsAssumption DEF IInv, TypeOK, StopChannelOwned, StopStep, Live
<1>5. RunningIsKnown'
    BY <1>0, <1>1 DEF IInv, TypeOK, RunningIsKnown, is_running, Known
<1>6. RuntimeFieldsPinned'
    BY <1>0, <1>1, <1>t, <1>3
       DEF IInv, TypeOK, RuntimeFieldsPinned, NoOrphanSupervisor, StopStep, Known, Live
<1>7. QED
    BY <1>0, <1>2, <1>3, <1>4, <1>5, <1>6 DEF IInv, BootingIsIdle

LEMMA RelaunchKeepsIInv ==
    ASSUME IInv, relaunch
    PROVE  IInv'
<1>1. TypeOK'
    BY DEF IInv, TypeOK, relaunch, TunnelStates
<1>2. QED
    BY <1>1, ConstantsAssumption
       DEF IInv, TypeOK, relaunch, NoOrphanSupervisor, StopChannelOwned, RunningIsKnown,
           RuntimeFieldsPinned, BootingIsIdle, is_running, Known, Live

LEMMA NextIInv == IInv /\ [Next]_vars => IInv'
<1> SUFFICES ASSUME IInv, [Next]_vars PROVE IInv'
    OBVIOUS
<1>1. ASSUME NEW id \in Ids, NEW c \in Configs, upsert(id, c) PROVE IInv'
    BY <1>1, UpsertKeepsIInv
<1>2. ASSUME NEW id \in Ids, NEW t \in Tasks, start(id, t) PROVE IInv'
    <2>1. booting = {} /\ booting' = {}
        BY <1>2 DEF start
    <2>2. QED
        BY <1>2, <2>1, SpawnKeepsIInv DEF start
<1>3. ASSUME NEW id \in Ids, NEW t \in Tasks, autostart(id, t) PROVE IInv'
    <2>1. Known(id) /\ ~is_running(id)
        BY <1>3 DEF IInv, BootingIsIdle, autostart
    <2>2. QED
        BY <1>3, <2>1, SpawnKeepsIInv DEF autostart
<1>4. ASSUME NEW id \in Ids, stop(id) \/ remove(id) PROVE IInv'
    BY <1>4, StopKeepsIInv
<1>5. CASE relaunch
    BY <1>5, RelaunchKeepsIInv
<1>6. ASSUME NEW t \in Tasks, Live(t), run_tunnel(t) PROVE IInv'
    BY <1>6, SupervisorKeepsIInv
<1>7. CASE UNCHANGED vars
    BY <1>7 DEF vars, IInv, TypeOK, NoOrphanSupervisor, StopChannelOwned, RunningIsKnown,
       RuntimeFieldsPinned, BootingIsIdle, is_running, Known, Live
<1>8. QED
    BY <1>1, <1>2, <1>3, <1>4, <1>5, <1>6, <1>7 DEF Next

THEOREM Invariance == Spec => []IInv
BY InitIInv, NextIInv, PTL DEF Spec

\* Type correctness of the manager and its supervisors, for every instance.
THEOREM TypeCorrect == Spec => []TypeOK
BY Invariance, PTL DEF IInv

\* However starts, stops, removals, edits, failures and relaunches interleave,
\* the manager keeps a working stop channel for every supervisor it has not yet
\* told to stop (TunnelManager::start, stop, remove).
THEOREM NeverOrphaned == Spec => []NoOrphanSupervisor
BY Invariance, PTL DEF IInv

\* A running tunnel's stored ports and kind are those its supervisor works with
\* (TunnelManager::upsert lets only metadata through).
THEOREM EditsArePinned == Spec => []RuntimeFieldsPinned
BY Invariance, PTL DEF IInv

\* At most one supervisor of a tunnel is not already winding down.
THEOREM OneSupervisor == Spec => []OneUnstoppedSupervisor
<1>1. IInv => OneUnstoppedSupervisor
    BY DEF IInv, NoOrphanSupervisor, OneUnstoppedSupervisor
<1>2. QED
    BY <1>1, Invariance, PTL
-----------------------------------------------------------------------------
(* The green dot. Two supervisors of one tunnel may report to the same     *)
(* watch channel; what makes Active true is one that still does.           *)

Serves(x, id) ==
    /\ x # Idle /\ x.id = id /\ x.pc \in {"serving", "probing"}
    /\ x.listening = TRUE /\ x.attached = TRUE

GreenIsServed ==
    \A id \in Ids : state[id] = "Active" => \E t \in Tasks : Serves(task[t], id)

\* A supervisor reports something else, reports that it serves, or reports
\* nothing and serves on if it did.
LEMMA SupervisorReports ==
    ASSUME TypeOK, NEW t \in Tasks, Live(t), run_tunnel(t)
    PROVE  \/ \E s \in TunnelStates \ {"Active"} : Publish(t, s)
           \/ /\ Publish(t, "Active")
              /\ task[t].attached => Serves(task'[t], task[t].id)
           \/ /\ state' = state
              /\ \A id \in Ids : Serves(task[t], id) => Serves(task'[t], id)
<1> DEFINE x == task[t]
<1>0. x \in TaskRecords /\ task \in [Tasks -> TaskRecords \union {Idle}] /\ x # Idle
    BY DEF TypeOK, Live
<1>1. CASE Begin(t) \/ ConnectFailed(t) \/ BindFailed(t) \/ ServeStopped(t) \/ Broken(t)
           \/ BackoffStopped(t)
    BY <1>1 DEF Begin, ConnectFailed, BindFailed, ServeStopped, Broken, BackoffStopped, Return,
                TunnelStates
<1>2. CASE ConnectOk(t) \/ BackoffElapsed(t)
    BY <1>2 DEF ConnectOk, BackoffElapsed, Serves
<1>3. CASE BindOk(t)
    <2> DEFINE y == [x EXCEPT !.pc = "serving", !.listening = TRUE, !.failures = 0]
    <2>1. task'[t] = y /\ Publish(t, "Active")
        BY <1>0, <1>3 DEF BindOk
    <2>2. /\ y \in TaskRecords /\ y.pc = "serving" /\ y.id = x.id /\ y.listening = TRUE
          /\ y.attached = x.attached
        <3>0. "serving" \in Steps /\ 0 \in 0..2 /\ TRUE \in BOOLEAN
            BY DEF Steps
        <3>1. y \in TaskRecords /\ SameTask(y, x)
            BY <1>0, <3>0, AdvanceBound, Zenon
        <3>2. y.pc = "serving"
            BY <1>0 DEF TaskRecords
        <3>3. y.listening = TRUE
            BY <1>0 DEF TaskRecords
        <3>4. QED
            BY <3>1, <3>2, <3>3 DEF SameTask
    <2> HIDE DEF y
    <2>3. ASSUME x.attached PROVE y.attached = TRUE
        <3>1. x.attached \in BOOLEAN
            BY <1>0 DEF TaskRecords
        <3>2. x.attached = TRUE
            BY <2>3, <3>1
        <3>3. QED
            BY <2>2, <3>2
    <2>4. QED
        BY <2>1, <2>2, <2>3, IdleIsNoRecord DEF Serves
<1>4. CASE HealthTick(t) \/ ProbeAlive(t) \/ ProbeDead(t)
    <2>1. state' = state
        BY <1>4 DEF HealthTick, ProbeAlive, ProbeDead
    <2>2. /\ task'[t].pc \in {"serving", "probing"} /\ task'[t].id = x.id
          /\ task'[t].listening = x.listening /\ task'[t].attached = x.attached
        <3>1. \/ task'[t] = [x EXCEPT !.pc = "probing"]
              \/ task'[t] = [x EXCEPT !.pc = "serving", !.failures = 0]
              \/ task'[t] = [x EXCEPT !.pc = "serving", !.failures = x.failures + 1]
            BY <1>0, <1>4 DEF HealthTick, ProbeAlive, ProbeDead, Goto
        <3>2. QED
            BY <1>0, <3>1 DEF TaskRecords
    <2>3. task'[t] # Idle
        <3>1. SupervisorStep(t)
            BY SupervisorStepShape
        <3>2. task'[t].pc # "idle"
            BY <2>2
        <3>3. QED
            BY <3>2 DEF Idle
    <2>4. QED
        BY <2>1, <2>2, <2>3 DEF Serves
<1>5. QED
    BY <1>1, <1>2, <1>3, <1>4 DEF run_tunnel, Connect, Bind, Probe

LEMMA SupervisorKeepsGreen ==
    ASSUME TypeOK, GreenIsServed, NEW t \in Tasks, Live(t), run_tunnel(t)
    PROVE  GreenIsServed'
<1> SUFFICES ASSUME NEW id \in Ids, state'[id] = "Active"
             PROVE  \E u \in Tasks : Serves(task'[u], id)
    BY DEF GreenIsServed
<1>1. /\ \A u \in Tasks \ {t} : task'[u] = task[u]
      /\ task[t] \in TaskRecords /\ task[t].id \in Ids /\ task[t].attached \in BOOLEAN
      /\ state \in [Ids -> TunnelStates]
    BY SupervisorStepShape DEF SupervisorStep, TypeOK, Live, TaskRecords
<1>2. state[id] = "Active" => \E u \in Tasks : Serves(task[u], id)
    BY DEF GreenIsServed
<1>3. ASSUME NEW s \in TunnelStates \ {"Active"}, Publish(t, s)
      PROVE  \E u \in Tasks : Serves(task'[u], id)
    <2>1. state[id] = "Active" /\ ~Serves(task[t], id)
        BY <1>1, <1>3 DEF Publish, Serves
    <2>2. QED
        BY <1>1, <1>2, <2>1
<1>4. CASE Publish(t, "Active") /\ (task[t].attached => Serves(task'[t], task[t].id))
    <2>1. CASE task[t].attached /\ id = task[t].id
        BY <1>4, <2>1
    <2>2. CASE ~(task[t].attached /\ id = task[t].id)
        <3>1. state[id] = "Active" /\ ~Serves(task[t], id)
            BY <1>1, <1>4, <2>2 DEF Publish, Serves
        <3>2. QED
            BY <1>1, <1>2, <3>1
    <2>3. QED
        BY <2>1, <2>2
<1>5. CASE state' = state /\ \A i \in Ids : Serves(task[t], i) => Serves(task'[t], i)
    BY <1>1, <1>2, <1>5
<1>6. QED
    BY <1>3, <1>4, <1>5, SupervisorReports

\* A stop only tells a task to stop; a removal clears the dot.
LEMMA StopKeepsGreen ==
    ASSUME TypeOK, GreenIsServed, NEW id \in Ids, stop(id) \/ remove(id)
    PROVE  GreenIsServed'
<1> DEFINE f == SignalStop(id)
<1>1. ASSUME NEW t \in Tasks, NEW i \in Ids, Serves(task[t], i) PROVE Serves(f[t], i)
    <2>1. task[t] \in TaskRecords
        BY <1>1 DEF TypeOK, Serves
    <2>2. CASE t = stop_tx[id] /\ Live(t)
        <3>1. f[t] = [task[t] EXCEPT !.stopped = TRUE]
            BY <2>2 DEF SignalStop
        <3>2. /\ f[t] \in TaskRecords /\ f[t].pc = task[t].pc /\ f[t].id = task[t].id
              /\ f[t].listening = task[t].listening /\ f[t].attached = task[t].attached
            BY <2>1, <3>1 DEF TaskRecords
        <3>3. QED
            BY <1>1, <3>2, IdleIsNoRecord DEF Serves
    <2>3. CASE ~(t = stop_tx[id] /\ Live(t))
        BY <1>1, <2>3 DEF SignalStop
    <2>4. QED
        BY <2>2, <2>3
<1> HIDE DEF f
<1>2. CASE stop(id)
    BY <1>1, <1>2 DEF stop, GreenIsServed, f
<1>3. CASE remove(id)
    <2>1. task' = Detach(id, f) /\ state' = [state EXCEPT ![id] = "Stopped"]
        BY <1>3 DEF remove, f
    <2>2. \A t \in Tasks, i \in Ids \ {id} : Serves(f[t], i) => Serves(task'[t], i)
        BY <2>1 DEF Detach, Serves
    <2>3. \A i \in Ids : state'[i] = "Active" => i # id /\ state[i] = "Active"
        BY <2>1 DEF TypeOK
    <2>4. QED
        BY <1>1, <2>2, <2>3 DEF GreenIsServed
<1>4. QED
    BY <1>2, <1>3

LEMMA NextKeepsGreen ==
    ASSUME TypeOK, GreenIsServed, [Next]_vars PROVE GreenIsServed'
<1>1. ASSUME NEW id \in Ids, NEW c \in Configs, upsert(id, c) PROVE GreenIsServed'
    BY <1>1 DEF upsert, GreenIsServed
<1>2. ASSUME NEW id \in Ids, NEW t \in Tasks, start(id, t) \/ autostart(id, t)
      PROVE  GreenIsServed'
    <2>1. state' = state /\ task[t] = Idle /\ \A u \in Tasks \ {t} : task'[u] = task[u]
        BY <1>2 DEF start, autostart, Spawn, TypeOK
    <2>2. \A i \in Ids : ~Serves(task[t], i)
        BY <2>1 DEF Serves
    <2>3. QED
        BY <2>1, <2>2 DEF GreenIsServed
<1>3. ASSUME NEW id \in Ids, stop(id) \/ remove(id) PROVE GreenIsServed'
    BY <1>3, StopKeepsGreen
<1>4. CASE relaunch
    BY <1>4 DEF relaunch, GreenIsServed
<1>5. ASSUME NEW t \in Tasks, Live(t), run_tunnel(t) PROVE GreenIsServed'
    BY <1>5, SupervisorKeepsGreen
<1>6. CASE UNCHANGED vars
    BY <1>6 DEF vars, GreenIsServed
<1>7. QED
    BY <1>1, <1>2, <1>3, <1>4, <1>5, <1>6 DEF Next

\* A tunnel shown as active has a supervisor in its serve loop with the listening
\* socket open, also while one that was told to stop still winds down beside it
\* (run_tunnel in crates/rusterm-tunnel).
THEOREM GreenIsTrue == Spec => []NoFalseGreen
<1>1. Init => GreenIsServed
    BY DEF Init, GreenIsServed
<1>2. GreenIsServed => NoFalseGreen
    BY DEF GreenIsServed, NoFalseGreen, Serves, Live
<1>3. TypeOK /\ GreenIsServed /\ [Next]_vars => GreenIsServed'
    BY NextKeepsGreen
<1>4. QED
    BY <1>1, <1>2, <1>3, TypeCorrect, PTL DEF Spec
=============================================================================
