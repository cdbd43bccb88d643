------------------------ MODULE TerminalSessionProofs ------------------------
(***************************************************************************)
(* Proofs about the two components that live in one terminal session: its  *)
(* connection (SessionLifecycle), for any number of connection attempts    *)
(* and of recorded operations, with or without a login script; and the     *)
(* file transfers inside it (ZmodemLink), for files of any length, any     *)
(* number of programs started on the remote and chunks of any size. The    *)
(* two share no state; what is proved of one assumes nothing of the other. *)
(*                                                                         *)
(* The connection: ReconnectIsWatched and ConnectedIsHonest are inductive  *)
(* given the types. RegistryIsOneConnection is not: what                   *)
(* sync_live_sessions() publishes is one connection because whoever sets   *)
(* input_senders also sets ssh_sessions, which InputHasSession says.       *)
(*                                                                         *)
(* The transfers: FilesArrive is not inductive. That the blocks on disk    *)
(* are a prefix of the file depends on where each frame on its way stands  *)
(* in the stream, on the program that sent it, on what the session expects *)
(* next and on what an open dialog may still do to the writer. LinkInv     *)
(* says so of one session, one bridge and the two queues (Good), and is    *)
(* shown to hold after every frame of a chunk, not only after the chunk.   *)
(***************************************************************************)
EXTENDS SessionLifecycle, ZmodemLink, WellFoundedInduction, TLAPS

-----------------------------------------------------------------------------
(* The connection.                                                         *)

\* Whoever can be typed into is also the connection whose handle is stored.
InputHasSession == input # Nobody => ssh = input

IInv ==
    /\ TypeOK
    /\ ConnectedIsHonest
    /\ InputHasSession
    /\ RegistryIsOneConnection
    /\ ReconnectIsWatched

-----------------------------------------------------------------------------
(* Lemmas about the parts actions are built from.                          *)

\* Changing one attempt's phase keeps the attempts well-typed.
LEMMA PhaseType ==
    ASSUME TypeOK, NEW a \in Attempts,
           NEW p \in {"unused", "connecting", "failed", "up", "down", "gone"},
           Phase(a, p)
    PROVE  /\ attempt' \in [Attempts -> AttemptRecords]
           /\ \A b \in Attempts : attempt'[b].writer = attempt[b].writer
           /\ \A b \in Attempts \ {a} : attempt'[b].phase = attempt[b].phase
           /\ attempt'[a].phase = p
BY DEF TypeOK, Phase, AttemptRecords

\* Marking a writer as told to close keeps the record an attempt's.
LEMMA ClosingRecord ==
    ASSUME NEW x \in AttemptRecords
    PROVE  [x EXCEPT !.writer = "closing"] \in AttemptRecords
BY DEF AttemptRecords

\* Sending a close message keeps the attempts well-typed.
LEMMA SendCloseType ==
    ASSUME TypeOK, SendClose
    PROVE  attempt' \in [Attempts -> AttemptRecords]
<1> DEFINE h == Head(closers)
<1>1. CASE closers # <<>> /\ attempt[h].writer = "running"
  <2>1. h \in Attempts /\ attempt[h] \in AttemptRecords
    BY <1>1 DEF TypeOK
  <2>2. [attempt[h] EXCEPT !.writer = "closing"] \in AttemptRecords
    BY <2>1, ClosingRecord
  <2>3. attempt' = [attempt EXCEPT ![h] = [attempt[h] EXCEPT !.writer = "closing"]]
    BY <1>1 DEF SendClose
  <2> HIDE DEF h
  <2> QED
    BY <2>2, <2>3 DEF TypeOK
<1>2. CASE ~(closers # <<>> /\ attempt[h].writer = "running")
  BY <1>2 DEF SendClose, TypeOK
<1> QED
  BY <1>1, <1>2

\* The phase after a task of a connection ended is a phase.
LEMMA PhaseAfterEndType ==
    ASSUME TypeOK, NEW a \in Attempts
    PROVE  PhaseAfterEnd(a)
             \in {"unused", "connecting", "failed", "up", "down", "gone"}
BY DEF TypeOK, PhaseAfterEnd, AttemptRecords

\* Moving a replay task on keeps its record one.
LEMMA ReplayRecord ==
    ASSUME NEW x \in ReplayRecords,
           NEW p \in {"none", "waiting", "sending", "over"}
    PROVE  [x EXCEPT !.phase = p] \in ReplayRecords
BY DEF ReplayRecords

LEMMA ReplayUpdate ==
    ASSUME TypeOK, NEW a \in Attempts,
           NEW p \in {"none", "waiting", "sending", "over"}
    PROVE  [replay EXCEPT ![a].phase = p] \in [Attempts -> ReplayRecords]
<1> DEFINE r == [replay[a] EXCEPT !.phase = p]
<1>1. r \in ReplayRecords
  BY ReplayRecord DEF TypeOK
<1>2. [replay EXCEPT ![a].phase = p] = [replay EXCEPT ![a] = r]
  OBVIOUS
<1> HIDE DEF r
<1> QED
  BY <1>1, <1>2 DEF TypeOK

\* Scheduling a replay keeps the replay records and the script well-typed.
LEMMA ScheduleReplayType ==
    ASSUME TypeOK, NEW a \in Attempts, ScheduleReplay(a)
    PROVE  /\ replay' \in [Attempts -> ReplayRecords]
           /\ script' \in {"absent", "suppressed"}
<1>1. replay' \in [Attempts -> ReplayRecords]
  BY ReplayUpdate DEF TypeOK, ScheduleReplay
<1> QED
  BY <1>1 DEF ScheduleReplay

\* What sync_live_sessions() publishes is well-typed and one connection, when
\* the maps it reads are.
LEMMA SyncPublishesOne ==
    ASSUME sync_live_sessions, InputHasSession',
           input' \in Attempts \union {Nobody}, ssh' \in Attempts \union {Nobody}
    PROVE  /\ registry' \in [session : Attempts, input : Attempts] \union {Nobody}
           /\ RegistryIsOneConnection'
BY DEF sync_live_sessions, LiveEntry, InputHasSession, RegistryIsOneConnection

-----------------------------------------------------------------------------
(* The inductive invariant, action by action.                              *)

LEMMA InitIInv == Init => IInv
<1> SUFFICES ASSUME Init PROVE IInv
  OBVIOUS
<1>1. TypeOK
  BY DEF Init, TypeOK, Unused, AttemptRecords, NoReplay, ReplayRecords,
     ConnectionStates
<1> QED
  BY <1>1 DEF Init, IInv, ConnectedIsHonest, InputHasSession,
     RegistryIsOneConnection, ReconnectIsWatched

LEMMA OpenKeeps ==
    ASSUME IInv, NEW a \in Attempts, NEW recorded \in BOOLEAN,
           open_connection(a, recorded)
    PROVE  IInv'
<1>1. attempt' \in [Attempts -> AttemptRecords]
  BY PhaseType DEF IInv, open_connection, start_ssh_connection
<1>2. /\ replay' \in [Attempts -> ReplayRecords]
      /\ script' \in {"absent", "running", "done", "suppressed"}
  BY ScheduleReplayType DEF IInv, TypeOK, open_connection
<1>3. TypeOK'
  BY <1>1, <1>2 DEF IInv, TypeOK, open_connection, ConnectionStates
<1> QED
  BY <1>3 DEF IInv, open_connection, ConnectedIsHonest, InputHasSession,
     RegistryIsOneConnection, ReconnectIsWatched

LEMMA ReconnectKeeps ==
    ASSUME IInv, NEW a \in Attempts, reconnect_session(a)
    PROVE  IInv'
<1>1. attempt' \in [Attempts -> AttemptRecords]
  BY PhaseType DEF IInv, reconnect_session, start_ssh_connection
<1>2. /\ replay' \in [Attempts -> ReplayRecords]
      /\ script' \in {"absent", "suppressed"}
  BY ScheduleReplayType DEF IInv, reconnect_session
<1>3. closers' \in Seq(Attempts)
  BY DEF reconnect_session
<1>4. TypeOK'
  BY <1>1, <1>2, <1>3
     DEF IInv, TypeOK, reconnect_session, begin_reconnect, ConnectionStates
<1> QED
  BY <1>4 DEF IInv, reconnect_session, begin_reconnect, ConnectedIsHonest,
     InputHasSession, RegistryIsOneConnection, ReconnectIsWatched

LEMMA DisconnectKeeps ==
    ASSUME IInv, disconnect_session
    PROVE  IInv'
<1>1. attempt' \in [Attempts -> AttemptRecords]
  BY SendCloseType DEF IInv, disconnect_session
<1>2. InputHasSession'
  BY DEF disconnect_session, InputHasSession
<1>3. /\ registry' \in [session : Attempts, input : Attempts] \union {Nobody}
      /\ RegistryIsOneConnection'
  BY <1>2, SyncPublishesOne DEF disconnect_session
<1>4. TypeOK'
  BY <1>1, <1>3 DEF IInv, TypeOK, disconnect_session, ConnectionStates
<1> QED
  BY <1>2, <1>3, <1>4
     DEF IInv, disconnect_session, ConnectedIsHonest, ReconnectIsWatched

LEMMA CloseKeeps ==
    ASSUME IInv, close_session
    PROVE  IInv'
<1>1. attempt' \in [Attempts -> AttemptRecords]
  BY SendCloseType DEF IInv, close_session
<1>2. TypeOK'
  BY <1>1 DEF IInv, TypeOK, close_session
<1> QED
  BY <1>2 DEF IInv, close_session, ConnectedIsHonest, InputHasSession,
     RegistryIsOneConnection, ReconnectIsWatched

\* From here on the connection has the session's entries to itself.
LEMMA ConnectOkKeeps ==
    ASSUME IInv, NEW a \in Attempts, ConnectOk(a)
    PROVE  IInv'
<1>1. /\ attempt' \in [Attempts -> AttemptRecords]
      /\ attempt'[a] = [phase |-> "up", reader |-> TRUE, writer |-> "running"]
  BY DEF IInv, TypeOK, ConnectOk, AttemptRecords
<1>2. input' = a /\ ssh' = a
  BY DEF ConnectOk
<1>3. InputHasSession'
  BY <1>2 DEF InputHasSession
<1>4. /\ registry' \in [session : Attempts, input : Attempts] \union {Nobody}
      /\ RegistryIsOneConnection'
  BY <1>2, <1>3, SyncPublishesOne DEF ConnectOk
<1>5. closers' \in Seq(Attempts)
  BY DEF IInv, TypeOK, ConnectOk
<1>6. TypeOK'
  BY <1>1, <1>2, <1>4, <1>5 DEF IInv, TypeOK, ConnectOk, ConnectionStates
<1>7. ConnectedIsHonest'
  BY <1>1, <1>2, ConstantsAssumption DEF ConnectedIsHonest
<1>8. ReconnectIsWatched'
  BY DEF ConnectOk, ReconnectIsWatched
<1> QED
  BY <1>3, <1>4, <1>6, <1>7, <1>8 DEF IInv

LEMMA ConnectFailedKeeps ==
    ASSUME IInv, NEW a \in Attempts, ConnectFailed(a)
    PROVE  IInv'
<1>1. attempt' \in [Attempts -> AttemptRecords]
  BY PhaseType DEF IInv, ConnectFailed
<1>2. TypeOK'
  BY <1>1 DEF IInv, TypeOK, ConnectFailed, ConnectionStates
<1> QED
  BY <1>2 DEF IInv, ConnectFailed, ConnectedIsHonest, InputHasSession,
     RegistryIsOneConnection, ReconnectIsWatched

-----------------------------------------------------------------------------
(* The end of a connection: its tasks stop, its event is handled.          *)

\* What the end of either task does to the attempts: the other ones stay as they
\* are, and the writer is not told to close by it.
TaskEnd(a) ==
    /\ attempt' \in [Attempts -> AttemptRecords]
    /\ \A b \in Attempts \ {a} : attempt'[b] = attempt[b]
    /\ attempt'[a].phase = PhaseAfterEnd(a)
    /\ attempt'[a].writer \in {"ended", attempt[a].writer}

LEMMA TransportLostEnds ==
    ASSUME TypeOK, NEW a \in Attempts, TransportLost(a)
    PROVE  TaskEnd(a)
BY PhaseAfterEndType DEF TypeOK, TransportLost, TaskEnd, AttemptRecords

LEMMA WriterEndsEnds ==
    ASSUME TypeOK, NEW a \in Attempts, WriterEnds(a)
    PROVE  TaskEnd(a)
BY PhaseAfterEndType DEF TypeOK, WriterEnds, TaskEnd, AttemptRecords

LEMMA TaskEndKeeps ==
    ASSUME IInv, NEW a \in Attempts, TransportLost(a) \/ WriterEnds(a)
    PROVE  IInv'
<1>1. TaskEnd(a)
  BY TransportLostEnds, WriterEndsEnds DEF IInv
<1>2. UNCHANGED <<tab, cs, input, ssh, closers, script, registry, watchdog,
                  replay>>
  BY DEF TransportLost, WriterEnds
<1>3. TypeOK'
  BY <1>1, <1>2 DEF IInv, TypeOK, TaskEnd
<1>4. ConnectedIsHonest'
  <2> SUFFICES ASSUME cs = "Connected"
               PROVE  /\ input # Nobody
                      /\ attempt'[input].phase \in {"up", "down"}
                      /\ attempt'[input].writer # "closing"
    BY <1>2 DEF ConnectedIsHonest
  <2>1. /\ input \in Attempts
        /\ input # Nobody
        /\ attempt[input].phase \in {"up", "down"}
        /\ attempt[input].writer # "closing"
    BY DEF IInv, TypeOK, ConnectedIsHonest
  <2>2. CASE input = a
    BY <2>1, <2>2, <1>1 DEF TaskEnd, PhaseAfterEnd
  <2>3. CASE input # a
    BY <2>1, <2>3, <1>1 DEF TaskEnd
  <2> QED
    BY <2>2, <2>3
<1> QED
  BY <1>2, <1>3, <1>4
     DEF IInv, InputHasSession, RegistryIsOneConnection, ReconnectIsWatched

LEMMA HandleDisconnectedKeeps ==
    ASSUME IInv, NEW a \in Attempts, HandleDisconnected(a)
    PROVE  IInv'
<1>1. attempt' \in [Attempts -> AttemptRecords]
  BY PhaseType DEF IInv, HandleDisconnected
<1>2. InputHasSession'
  BY DEF HandleDisconnected, InputHasSession
<1>3. /\ registry' \in [session : Attempts, input : Attempts] \union {Nobody}
      /\ RegistryIsOneConnection'
  BY <1>2, SyncPublishesOne DEF HandleDisconnected
<1>4. TypeOK'
  BY <1>1, <1>3 DEF IInv, TypeOK, HandleDisconnected, ConnectionStates
<1> QED
  BY <1>2, <1>3, <1>4
     DEF IInv, HandleDisconnected, ConnectedIsHonest, ReconnectIsWatched

-----------------------------------------------------------------------------
(* The login script and the timers touch neither the session's channel nor *)
(* the attempts.                                                           *)

\* The script goes from one of its states to another.
LEMMA ScriptKeeps ==
    ASSUME IInv, NEW a \in Attempts, drive_login_script(a)
    PROVE  IInv'
<1>1. UNCHANGED <<tab, cs, input, ssh, closers, attempt, watchdog, replay>>
  BY DEF drive_login_script, ScriptWaits, ScriptAdvances, ScriptTimesOut
<1>2. script' \in {"absent", "running", "done", "suppressed"}
  BY DEF drive_login_script, ScriptWaits, ScriptAdvances, ScriptTimesOut,
     Driven, IInv, TypeOK
<1>3. InputHasSession'
  BY <1>1 DEF IInv, InputHasSession
<1>4. registry' = registry \/ sync_live_sessions
  BY DEF drive_login_script, ScriptWaits, ScriptAdvances, ScriptTimesOut
<1>5. /\ registry' \in [session : Attempts, input : Attempts] \union {Nobody}
      /\ RegistryIsOneConnection'
  <2>1. CASE registry' = registry
    BY <2>1 DEF IInv, TypeOK, RegistryIsOneConnection
  <2>2. CASE sync_live_sessions
    BY <2>2, <1>1, <1>3, SyncPublishesOne DEF IInv, TypeOK
  <2> QED
    BY <1>4, <2>1, <2>2
<1>6. TypeOK'
  BY <1>1, <1>2, <1>5 DEF IInv, TypeOK
<1> QED
  BY <1>1, <1>3, <1>5, <1>6 DEF IInv, ConnectedIsHonest, ReconnectIsWatched

\* The watchdog may be the last one asleep: then the session is Reconnecting
\* no longer.
LEMMA WatchdogKeeps ==
    ASSUME IInv, NEW a \in Attempts, WatchdogFires(a)
    PROVE  IInv'
<1>1. TypeOK'
  BY DEF IInv, TypeOK, WatchdogFires, ConnectionStates
<1> QED
  BY <1>1 DEF IInv, WatchdogFires, ConnectedIsHonest, InputHasSession,
     RegistryIsOneConnection, ReconnectIsWatched

LEMMA ReplayMovesKeeps ==
    ASSUME IInv, NEW a \in Attempts,
           ReplayStarts(a) \/ ReplayNeverStarts(a) \/ ReplayGivesUp(a)
    PROVE  IInv'
<1>1. UNCHANGED <<tab, cs, input, ssh, closers, script, registry, attempt,
                  watchdog>>
  BY DEF ReplayStarts, ReplayNeverStarts, ReplayGivesUp, ReplayMoves
<1>2. replay' \in [Attempts -> ReplayRecords]
  BY ReplayUpdate DEF ReplayStarts, ReplayNeverStarts, ReplayGivesUp,
     ReplayMoves, IInv
<1> QED
  BY <1>1, <1>2 DEF IInv, TypeOK, ConnectedIsHonest, InputHasSession,
     RegistryIsOneConnection, ReconnectIsWatched

LEMMA ReplaySendsKeeps ==
    ASSUME IInv, NEW a \in Attempts, ReplaySends(a)
    PROVE  IInv'
<1> DEFINE sent == replay[a].sent + 1
           p == IF sent = NumOps THEN "over" ELSE "sending"
<1>1. replay[a] \in ReplayRecords
  BY DEF IInv, TypeOK
<1>2. sent \in Nat /\ p \in {"none", "waiting", "sending", "over"}
  BY <1>1 DEF ReplayRecords
<1>3. [phase |-> p, sent |-> sent] \in ReplayRecords
  BY <1>2 DEF ReplayRecords
<1>4. replay' = [replay EXCEPT ![a] = [phase |-> p, sent |-> sent]]
  BY DEF ReplaySends
<1>5. replay' \in [Attempts -> ReplayRecords]
  <2> HIDE DEF p, sent
  <2> QED
    BY <1>3, <1>4 DEF IInv, TypeOK
<1>6. UNCHANGED <<tab, cs, input, ssh, closers, script, registry, attempt,
                  watchdog>>
  BY DEF ReplaySends
<1> QED
  BY <1>5, <1>6 DEF IInv, TypeOK, ConnectedIsHonest, InputHasSession,
     RegistryIsOneConnection, ReconnectIsWatched

-----------------------------------------------------------------------------
(* The theorems.                                                           *)

LEMMA NextIInv == IInv /\ [Next]_vars => IInv'
<1> SUFFICES ASSUME IInv, [Next]_vars PROVE IInv'
  OBVIOUS
<1>1. CASE disconnect_session
  BY <1>1, DisconnectKeeps
<1>2. CASE close_session
  BY <1>2, CloseKeeps
<1>3. ASSUME NEW a \in Attempts, NEW recorded \in BOOLEAN,
             open_connection(a, recorded)
      PROVE  IInv'
  BY <1>3, OpenKeeps
<1>4. ASSUME NEW a \in Attempts,
             reconnect_session(a) \/ ConnectOk(a) \/ ConnectFailed(a)
      PROVE  IInv'
  BY <1>4, ReconnectKeeps, ConnectOkKeeps, ConnectFailedKeeps
<1>5. ASSUME NEW a \in Attempts,
             TransportLost(a) \/ WriterEnds(a) \/ HandleDisconnected(a)
      PROVE  IInv'
  BY <1>5, TaskEndKeeps, HandleDisconnectedKeeps
<1>6. ASSUME NEW a \in Attempts, drive_login_script(a) \/ WatchdogFires(a)
      PROVE  IInv'
  BY <1>6, ScriptKeeps, WatchdogKeeps
<1>7. ASSUME NEW a \in Attempts,
             ReplayStarts(a) \/ ReplayNeverStarts(a) \/ ReplaySends(a)
               \/ ReplayGivesUp(a)
      PROVE  IInv'
  BY <1>7, ReplayMovesKeeps, ReplaySendsKeeps
<1>8. CASE UNCHANGED vars
  BY <1>8 DEF vars, IInv, TypeOK, ConnectedIsHonest, InputHasSession,
     RegistryIsOneConnection, ReconnectIsWatched
<1> QED
  BY <1>1, <1>2, <1>3, <1>4, <1>5, <1>6, <1>7, <1>8 DEF Next

\* The inductive invariant holds in every reachable state.
THEOREM Invariance == Spec => []IInv
BY InitIInv, NextIInv, PTL DEF Spec

\* The maps of AppState, the attempts and their timers are well-typed.
THEOREM TypeCorrect == Spec => []TypeOK
<1>1. IInv => TypeOK
  BY DEF IInv
<1> QED
  BY <1>1, Invariance, PTL

\* A session shown as Connected types into a connection that is up, or whose
\* end is already queued.
THEOREM HonestIndicator == Spec => []ConnectedIsHonest
<1>1. IInv => ConnectedIsHonest
  BY DEF IInv
<1> QED
  BY <1>1, Invariance, PTL

\* The relay's entry names one connection.
THEOREM OneConnectionPublished == Spec => []RegistryIsOneConnection
<1>1. IInv => RegistryIsOneConnection
  BY DEF IInv
<1> QED
  BY <1>1, Invariance, PTL

\* A Reconnecting session always has a watchdog that will end it.
THEOREM AlwaysWatched == Spec => []ReconnectIsWatched
<1>1. IInv => ReconnectIsWatched
  BY DEF IInv
<1> QED
  BY <1>1, Invariance, PTL

-----------------------------------------------------------------------------
(* The values that are passed on.                                          *)

HeaderTypes ==
    {"ZRQINIT", "ZRINIT", "ZFILE", "ZRPOS", "ZDATA", "ZACK", "ZEOF", "ZFIN", "ZSKIP",
     "CAN", "TEXT", "FLOOD"}
Ends == {"Continue", "AckContinue", "End", "AckEnd"}
Frames == [type : HeaderTypes, pos : Nat] \cup [type : {"DATA"}, body : Nat, end : Ends]

Directions == {"Receive", "Send"}
Events ==
    [type : {"ReceiveOffered", "SendOffered", "FileOffer", "Skipped", "Cancelled"}]
        \cup [type : {"DataReceived"}, body : Nat]
        \cup [type : {"Done"}, direction : Directions]

\* A session while a chunk of output is fed to it.
Feeding ==
    [phase : Phases, direction : Directions, detector : {"idle", "data", "jammed"},
     armed : BOOLEAN, named : BOOLEAN, bytes : Nat, data_offset : Nat, payload : Nat,
     send_offset : Nat, to_pty : Seq(Frames), events : Seq(Events)]
Outcomes ==
    [how : {"none", "Receive", "Send", "Cancelled"}, path : Paths \cup {NoFile}]
Bridges ==
    [session : Feeding \cup {NoSession}, writer : Paths \cup {NoFile},
     disk : [Paths -> Seq(Nat)], save : Nat, open : Nat, outcome : Outcomes]
Peers ==
    [prog : {"shell", "sz", "rz"},
     pc : {"prompt", "start", "asked", "stream", "data", "ended"},
     next : Nat, got : Seq(Nat), inFrame : BOOLEAN]

-----------------------------------------------------------------------------
(* The invariant, over the session s, the bridge b, whether the transfer   *)
(* ended in this chunk (g), what was sent to the remote and not read       *)
(* (out), what it said and was not fed (q), its program p and whether that *)
(* is the last one (l).                                                    *)

\* What the shell or an interrupted program says.
Junk(f) == f.type \in {"CAN", "TEXT", "FLOOD"}
AllJunk(q) == \A i \in DOMAIN q : Junk(q[i])
JunkAfter(q, i) == \A k \in DOMAIN q : k > i => Junk(q[k])

\* What `sz` says while it streams, and its place in the stream.
Streamed(f) == (f.type = "DATA" /\ f.body # MetaBlock) \/ f.type \in {"ZDATA", "ZEOF"}
Place(f) == IF f.type = "ZDATA" THEN 0 ELSE IF f.type = "ZEOF" THEN Total + 1 ELSE f.body

Has(frames, t) == \E i \in DOMAIN frames : frames[i].type = t
HasMeta(frames) == \E i \in DOMAIN frames : IsMetaFrame(frames[i])
Is(p, prog, pc) == p.prog = prog /\ p.pc = pc
Idle(p) == p.prog = "shell" \/ Is(p, "rz", "ended")
Dead == {"Done", "Cancelled"}

\* The session s has taken n frames of the stream, and what b writes to has n - 1 blocks.
Taken(s, b, n) ==
    /\ s.phase = "Receiving"
    /\ n = 0 => s.detector = "idle"
    /\ n \in 1..Total => s.detector = "data"
    /\ b.writer # NoFile => Len(b.disk[b.writer]) = IF n = 0 THEN 0 ELSE n - 1

FrameOK(q, i) ==
    /\ q[i].type = "DATA" =>
         IF q[i].body = MetaBlock THEN q[i].end = "AckEnd"
         ELSE q[i].body <= Total /\ (q[i].end \in {"End", "AckEnd"} <=> q[i].body = Total)
    /\ q[i].type = "ZFILE" => i < Len(q) /\ IsMetaFrame(q[i + 1])
    /\ IsMetaFrame(q[i]) /\ i > 1 => q[i - 1].type = "ZFILE"
    /\ OpensDialog(q[i]) => JunkAfter(q, i)
    /\ Streamed(q[i]) => \A k \in 1..i : Streamed(q[k])
    /\ Streamed(q[i]) /\ i > 1 => Place(q[i]) = Place(q[i - 1]) + 1

QueueOK(q) == \A i \in DOMAIN q : FrameOK(q, i)

\* Frames and the program that runs.
PeerOK(q, p, l) ==
    /\ \A i \in DOMAIN q :
         /\ IsMetaFrame(q[i]) => p.prog = "shell" \/ Is(p, "sz", "asked")
         /\ q[i].type = "ZRINIT" => p.prog = "shell" \/ Is(p, "rz", "start")
         /\ q[i].type = "ZSKIP" => JunkAfter(q, i) /\ l /\ Idle(p)
    /\ Is(p, "sz", "asked") /\ q # <<>> => IsMetaFrame(q[Len(q)])
    /\ Is(p, "rz", "start") /\ q # <<>> => q[Len(q)].type = "ZRINIT"
    /\ Is(p, "sz", "stream") =>
         /\ p.next \in 1..Total + 1
         /\ q # <<>> => Streamed(q[Len(q)]) /\ p.next = Place(q[Len(q)]) + 1
    /\ Is(p, "rz", "start") => p.got = <<>> /\ ~p.inFrame

\* A receiver asks for the data from its start.
OffsetsOK(out) == \A i \in DOMAIN out : out[i].type = "ZRPOS" => out[i].pos = 0

StreamOK(s, b, out, q, p) ==
    /\ q # <<>> /\ Streamed(q[1]) => Taken(s, b, Place(q[1]))
    /\ Is(p, "sz", "stream") /\ q = <<>> => Taken(s, b, p.next)
    /\ Is(p, "sz", "asked") /\ Has(out, "ZRPOS") => q = <<>> /\ Taken(s, b, 0)
    /\ Is(p, "sz", "start") => ~Has(out, "ZRPOS")
    /\ OffsetsOK(out)

Fresh(s) == ~s.named /\ s.bytes = 0
End(q, p, l) == AllJunk(q) /\ l /\ Idle(p)

\* Metadata is not taken for data: its ZFILE header is read first.
MetaExpected(s, q) ==
    \A i \in DOMAIN q : IsMetaFrame(q[i]) =>
        IF i = 1 THEN s.phase = "AwaitSavePath" /\ Fresh(s)
                 ELSE s.phase = "AwaitFile"

WriterOK(s, b, out, q, p, l) ==
    b.writer # NoFile =>
      /\ s.phase \in {"Init", "AwaitFile"} => Fresh(s) \/ End(q, p, l)
      /\ s.phase \in {"Init", "AwaitFile", "AwaitSavePath"} =>
            b.disk[b.writer] = <<>> \/ End(q, p, l)
      /\ Is(p, "sz", "start") /\ Has(out, "ZRINIT") => s.phase = "AwaitFile"
      /\ MetaExpected(s, q)

DetectorOK(s, q) ==
    /\ s.detector = "data" => s.phase = "Receiving" \/ (q # <<>> /\ IsMetaFrame(q[1]))
    /\ s.detector = "jammed" => s.phase = "Receiving"
    /\ s.phase = "Receiving" => s.named
    /\ s.phase \in {"AwaitRpos", "Sending"} => s.direction = "Send"

DialogsOK(s, b, q, p) ==
    /\ b.save + b.open <= 1
    /\ b.save > 0 =>
         /\ AllJunk(q) /\ (p.prog = "shell" \/ Is(p, "sz", "asked"))
         /\ s.detector = "idle"
         /\ \/ s.phase = "Init" /\ Fresh(s)
            \/ s.phase = "AwaitSavePath" /\ s.named
            \/ s.phase \in Dead
         /\ b.writer # NoFile => b.disk[b.writer] = <<>>
    /\ b.open > 0 =>
         /\ AllJunk(q) /\ (p.prog = "shell" \/ Is(p, "rz", "start"))
         /\ s.detector = "idle" /\ s.phase \in {"Init"} \cup Dead

GoneOK(s, b, g, q) ==
    /\ g => b.writer = NoFile /\ (s.phase \in Dead \/ (s.phase = "Init" /\ AllJunk(q)))
    /\ s.phase \in Dead => g

MetaLast(out) == \A i \in DOMAIN out : IsMetaFrame(out[i]) => i = Len(out)

UploadOK(s, b, g, out, q, p) ==
    /\ Is(p, "rz", "start") /\ HasMeta(out) =>
         /\ q = <<>> /\ b.open = 0 /\ s.phase = "AwaitRpos"
         /\ MetaLast(out)
    /\ Is(p, "rz", "data") =>
         /\ IsPrefixOfFile(p.got) /\ b.save = 0 /\ b.open = 0
         /\ \/ /\ q = <<Header("ZRPOS", 0)>> /\ out = <<>>
               /\ s.phase = "AwaitRpos" /\ p.got = <<>> /\ ~p.inFrame
            \/ /\ q = <<Header("ZACK", 0)>> /\ out = <<>>
               /\ s.phase = "Sending" /\ s.send_offset = Len(p.got)
               /\ s.send_offset <= s.payload
            \/ /\ q = <<>> /\ s.phase \in {"AwaitRpos", "Sending"}
               /\ \/ out = <<>>
                  \/ out = <<Header("ZEOF", Len(p.got))>>
                  \/ \E e \in {"AckContinue", "AckEnd"} :
                       /\ s.phase = "Sending" /\ s.send_offset = Len(p.got) + 1
                       /\ s.send_offset <= s.payload
                       /\ \/ out = <<Data(Len(p.got) + 1, e)>>
                          \/ out = <<Header("ZDATA", Len(p.got)), Data(Len(p.got) + 1, e)>>

DiskOK(b) == \A x \in Paths : Len(b.disk[x]) <= Total /\ IsPrefixOfFile(b.disk[x])

\* What the abstract download needs: a ZFIN ends no download that is under way.
FinExpected(s, b, q) ==
    \A i \in DOMAIN q : q[i].type = "ZFIN" =>
        /\ b.writer = NoFile \/ (i = 1 /\ s.direction = "Send")
        /\ \A k \in 1..i : q[k].type # "ZRQINIT"

\* No ZFIN follows the ZRINIT that answers this program's ZRQINIT.
GreetedLast(out) ==
    \A i, k \in DOMAIN out : out[i].type = "ZRINIT" /\ k > i => out[k].type # "ZFIN"

EndingOK(s, b, out, q, p) ==
    /\ FinExpected(s, b, q)
    /\ Is(p, "sz", "start") /\ Has(out, "ZRINIT") =>
         /\ ~Has(q, "ZFIN") /\ ~(q # <<>> /\ Streamed(q[1]))
         /\ GreetedLast(out)
    /\ Is(p, "sz", "asked") => ~Has(q, "ZFIN") /\ ~Has(out, "ZFIN")
                               /\ ~(q # <<>> /\ Streamed(q[1]))
    /\ Is(p, "sz", "stream") => ~Has(out, "ZFIN")
    /\ Is(p, "sz", "ended") =>
         /\ ~Has(q, "ZFIN") /\ ~Has(q, "ZRQINIT")
         /\ Has(out, "ZFIN") => b.writer = NoFile

OutcomeOK(s, b, g, q, p, l) ==
    /\ s.phase \in {"Init", "AwaitFile"} => ~s.named \/ End(q, p, l)
    /\ ~g /\ (s.phase = "Receiving" \/ (s.phase = "AwaitSavePath" /\ s.named)) =>
         b.outcome.how # "Receive"
    /\ b.save > 0 => b.outcome.how # "Receive"

Typed(s, b, g, out, q, p, l) ==
    /\ s \in Feeding /\ b \in Bridges /\ p \in Peers
    /\ out \in Seq(Frames) /\ q \in Seq(Frames)
    /\ g \in BOOLEAN /\ l \in BOOLEAN

Good(s, b, g, out, q, p, l) ==
    /\ Typed(s, b, g, out, q, p, l)
    /\ QueueOK(q) /\ PeerOK(q, p, l)
    /\ StreamOK(s, b, out, q, p) /\ WriterOK(s, b, out, q, p, l)
    /\ DetectorOK(s, q) /\ DialogsOK(s, b, q, p) /\ GoneOK(s, b, g, q)
    /\ UploadOK(s, b, g, out, q, p) /\ DiskOK(b)
    /\ EndingOK(s, b, out, q, p) /\ OutcomeOK(s, b, g, q, p, l)

\* Between two steps nothing is left in the session.
Emptied(s) == s = NoSession \/ (s.to_pty = <<>> /\ s.events = <<>>)

LinkInv ==
    /\ Emptied(session) /\ runs \in 0..MaxRuns
    /\ Good(session_for, Bridge, FALSE, toPeer, toHost, peer, runs = MaxRuns)

(* Induction, and functions defined by recursion on 0..m.                  *)

LEMMA LeastElement ==
    ASSUME NEW T, T \subseteq Nat, T # {}
    PROVE  \E m \in T : \A k \in T : m <= k
<1>1. IsWellFoundedOn(OpToRel(<, Nat), Nat)
  BY NatLessThanWellFounded
<1>2. PICK m \in T : \A y \in T : ~(<<y, m>> \in OpToRel(<, Nat))
  BY <1>1, WFMin
<1>3. ASSUME NEW k \in T
      PROVE  m <= k
  <2>1. k \in Nat /\ m \in Nat
    OBVIOUS
  <2>2. ~(k < m)
    BY <1>2, <2>1 DEF OpToRel
  <2> QED
    BY <2>1, <2>2
<1> QED
  BY <1>3

\* The principle of induction, for a set instead of a predicate.
LEMMA Inductive ==
    ASSUME NEW T, 0 \in T, \A n \in Nat : n \in T => n + 1 \in T
    PROVE  \A n \in Nat : n \in T
<1> SUFFICES ASSUME Nat \ T # {}
             PROVE  FALSE
  OBVIOUS
<1>1. PICK m \in Nat \ T : \A k \in Nat \ T : m <= k
  BY LeastElement
<1>2. m # 0 /\ m - 1 \in Nat
  BY <1>1
<1>3. m - 1 \in T
  BY <1>1, <1>2
<1> QED
  BY <1>1, <1>2, <1>3

Recursive(f, b, m, step) ==
    f[0] = b /\ \A n \in 1..m : f[n] = step[n][f[n - 1]]

\* Values that follow from one another are those of a function.
LEMMA Recursion ==
    \A V : \A b \in V, m \in Nat : \A step \in [1..m -> [V -> V]] :
        \E f \in [0..m -> V] : Recursive(f, b, m, step)
<1> SUFFICES ASSUME NEW V, NEW b \in V, NEW m \in Nat, NEW step \in [1..m -> [V -> V]]
             PROVE  \E f \in [0..m -> V] : Recursive(f, b, m, step)
  OBVIOUS
<1> DEFINE Up(f, n) == f[0] = b /\ \A i \in 1..n : f[i] = step[i][f[i - 1]]
           T == {n \in Nat : n <= m => \E f \in [0..n -> V] : Up(f, n)}
<1>1. 0 \in T
  <2> DEFINE f == [i \in 0..0 |-> b]
  <2>1. f \in [0..0 -> V] /\ Up(f, 0)
    OBVIOUS
  <2>2. \E g \in [0..0 -> V] : Up(g, 0)
    BY <2>1
  <2> QED
    BY <2>2
<1>2. ASSUME NEW n \in Nat, n \in T
      PROVE  n + 1 \in T
  <2> SUFFICES ASSUME n + 1 <= m
               PROVE  \E f \in [0..n + 1 -> V] : Up(f, n + 1)
    OBVIOUS
  <2>1. PICK f \in [0..n -> V] : Up(f, n)
    BY <1>2
  <2> DEFINE g == [i \in 0..n + 1 |-> IF i = n + 1 THEN step[n + 1][f[n]] ELSE f[i]]
  <2>2. step[n + 1] \in [V -> V] /\ f[n] \in V
    OBVIOUS
  <2>3. g \in [0..n + 1 -> V]
    BY <2>2
  <2>4. ASSUME NEW i \in 1..n + 1
        PROVE  g[i] = step[i][g[i - 1]]
    <3>1. CASE i = n + 1
      <4>1. i - 1 = n /\ n \in 0..n + 1 /\ n # n + 1 /\ i \in 0..n + 1
        BY <3>1
      <4>2. g[i] = step[n + 1][f[n]] /\ g[n] = f[n]
        BY <3>1, <4>1
      <4> QED
        BY <3>1, <4>1, <4>2
    <3>2. CASE i # n + 1
      <4>1. /\ i \in 1..n /\ i \in 0..n + 1
            /\ i - 1 \in 0..n + 1 /\ i - 1 # n + 1
        BY <3>2
      <4>2. g[i] = f[i] /\ g[i - 1] = f[i - 1]
        BY <3>2, <4>1
      <4> QED
        BY <2>1, <4>1, <4>2
    <3> QED
      BY <3>1, <3>2
  <2>5. g[0] = b
    BY <2>1
  <2> QED
    BY <2>3, <2>4, <2>5
<1> HIDE DEF T
<1>3. m \in T
  BY <1>1, <1>2, Inductive
<1> QED
  BY <1>3 DEF T, Recursive

-----------------------------------------------------------------------------
(* Types.                                                                  *)

LEMMA SendType ==
    ASSUME NEW s \in Feeding, NEW f \in Frames
    PROVE  Send(s, f) \in Feeding
<1>1. Append(s.to_pty, f) \in Seq(Frames)
  BY DEF Feeding
<1> HIDE DEF Frames
<1> QED
  BY <1>1 DEF Send, Feeding

LEMMA EmitType ==
    ASSUME NEW s \in Feeding, NEW e \in Events
    PROVE  Emit(s, e) \in Feeding
<1>1. Append(s.events, e) \in Seq(Events)
  BY DEF Feeding
<1> QED
  BY <1>1 DEF Emit, Feeding

LEMMA HeaderType ==
    ASSUME NEW t \in HeaderTypes, NEW n \in Nat
    PROVE  Header(t, n) \in Frames
BY DEF Header, Frames

LEMMA DataType ==
    ASSUME NEW e \in Ends, NEW n \in Nat
    PROVE  Data(n, e) \in Frames
BY DEF Data, Frames

LEMMA FinishedType ==
    ASSUME NEW s \in Feeding, NEW d \in Directions
    PROVE  Finished(s, d) \in Feeding
<1>1. Enter(s, "Done") \in Feeding
  BY DEF Enter, Feeding, Phases
<1>2. [type |-> "Done", direction |-> d] \in Events
  BY DEF Events
<1> QED
  BY <1>1, <1>2, EmitType DEF Finished

LEMMA PumpType ==
    ASSUME NEW s \in Feeding
    PROVE  pump_send_blocks(s) \in Feeding
<1>1. s.payload \in Nat /\ s.send_offset \in Nat
  BY DEF Feeding
<1>2. CASE s.send_offset >= s.payload
  <2>1. Header("ZEOF", s.payload) \in Frames
    BY <1>1, HeaderType DEF HeaderTypes
  <2> QED
    BY <1>2, <2>1, SendType DEF pump_send_blocks
<1>3. CASE ~(s.send_offset >= s.payload)
  <2> DEFINE end == s.send_offset + 1
             e == IF end = s.payload THEN "AckEnd" ELSE "AckContinue"
             t == Send(Send(s, Header("ZDATA", s.send_offset)), Data(end, e))
  <2>1. Header("ZDATA", s.send_offset) \in Frames
    BY <1>1, HeaderType DEF HeaderTypes
  <2>2. Data(end, e) \in Frames
    BY <1>1, DataType DEF Ends
  <2>3. t \in Feeding
    BY <2>1, <2>2, SendType
  <2>4. pump_send_blocks(s) = [t EXCEPT !.send_offset = end, !.bytes = end]
    BY <1>3 DEF pump_send_blocks
  <2>5. end \in Nat
    BY <1>1
  <2> HIDE DEF t, end
  <2> QED
    BY <2>3, <2>4, <2>5 DEF Feeding
<1> QED
  BY <1>2, <1>3

LEMMA HandleHeaderType ==
    ASSUME NEW s \in Feeding, NEW f \in Frames, f.type \in HeaderTypes
    PROVE  handle_header(s, f) \in Feeding
<1>1. f.pos \in Nat
  BY DEF Frames, HeaderTypes
<1>2. /\ Header("ZRINIT", 0) \in Frames
      /\ Header("ZFIN", 0) \in Frames
  BY HeaderType DEF HeaderTypes
<1>3. /\ [type |-> "ReceiveOffered"] \in Events
      /\ [type |-> "SendOffered"] \in Events
      /\ [type |-> "Skipped"] \in Events
  BY DEF Events
<1>4. s.direction \in Directions /\ "Receive" \in Directions
  BY DEF Feeding, Directions
<1>5. /\ [s EXCEPT !.phase = "AwaitFile", !.direction = "Receive"] \in Feeding
      /\ [s EXCEPT !.direction = "Send"] \in Feeding
      /\ Enter(s, "AwaitSavePath") \in Feeding
      /\ [s EXCEPT !.send_offset = f.pos, !.phase = "Sending"] \in Feeding
      /\ [s EXCEPT !.data_offset = f.pos] \in Feeding
      /\ Enter(s, "Init") \in Feeding
  BY <1>1 DEF Feeding, Enter, Phases, Directions
<1>6. /\ Send(Emit([s EXCEPT !.phase = "AwaitFile", !.direction = "Receive"],
                   [type |-> "ReceiveOffered"]), Header("ZRINIT", 0)) \in Feeding
      /\ Emit([s EXCEPT !.direction = "Send"], [type |-> "SendOffered"]) \in Feeding
      /\ pump_send_blocks([s EXCEPT !.send_offset = f.pos, !.phase = "Sending"]) \in Feeding
      /\ pump_send_blocks(s) \in Feeding
      /\ Emit(Enter(s, "Init"), [type |-> "Skipped"]) \in Feeding
  BY <1>2, <1>3, <1>5, SendType, EmitType, PumpType
<1>7. Send(s, Header("ZFIN", 0)) \in Feeding
  BY <1>2, SendType
<1>8. /\ Finished(Send(s, Header("ZFIN", 0)), "Receive") \in Feeding
      /\ Finished(IF s.phase # "Done" THEN Send(s, Header("ZFIN", 0)) ELSE s, s.direction)
           \in Feeding
  BY <1>4, <1>7, FinishedType
<1> QED
  BY <1>5, <1>6, <1>8 DEF handle_header

LEMMA HandleDataType ==
    ASSUME NEW s \in Feeding, NEW f \in Frames, f.type = "DATA"
    PROVE  handle_data(s, f) \in Feeding
<1>1. f.body \in Nat /\ s.data_offset \in Nat
  BY DEF Frames, HeaderTypes, Feeding
<1>2. /\ [type |-> "FileOffer"] \in Events
      /\ [type |-> "DataReceived", body |-> f.body] \in Events
  BY <1>1 DEF Events
<1>3. /\ [s EXCEPT !.named = TRUE] \in Feeding
      /\ [s EXCEPT !.bytes = s.data_offset + 1] \in Feeding
  <2> DEFINE n == s.data_offset + 1
  <2>1. n \in Nat
    BY <1>1
  <2> HIDE DEF n
  <2>2. [s EXCEPT !.bytes = n] \in Feeding /\ [s EXCEPT !.named = TRUE] \in Feeding
    BY <2>1 DEF Feeding
  <2> QED
    BY <2>2 DEF n
<1>4. Header("ZACK", s.data_offset) \in Frames
  BY <1>1, HeaderType DEF HeaderTypes
<1>5. /\ Emit([s EXCEPT !.named = TRUE], [type |-> "FileOffer"]) \in Feeding
      /\ Emit([s EXCEPT !.bytes = s.data_offset + 1],
              [type |-> "DataReceived", body |-> f.body]) \in Feeding
  BY <1>2, <1>3, EmitType
<1>6. Send(Emit([s EXCEPT !.bytes = s.data_offset + 1],
                [type |-> "DataReceived", body |-> f.body]),
           Header("ZACK", s.data_offset)) \in Feeding
  BY <1>4, <1>5, SendType
<1> QED
  BY <1>5, <1>6 DEF handle_data

LEMMA FeedType ==
    ASSUME NEW s \in Feeding, NEW f \in Frames
    PROVE  feed(s, f) \in Feeding
<1>1. f.type \in HeaderTypes \/ f.type = "DATA"
  BY DEF Frames
<1> DEFINE d == [s EXCEPT !.detector = IF f.end \in {"End", "AckEnd"} THEN "idle" ELSE "data"]
           h == [s EXCEPT !.armed = TRUE,
                          !.detector = IF f.type \in {"ZFILE", "ZDATA"} THEN "data" ELSE "idle"]
<1>2. /\ d \in Feeding /\ h \in Feeding
      /\ [s EXCEPT !.detector = "idle"] \in Feeding
      /\ [s EXCEPT !.detector = "jammed"] \in Feeding
      /\ [s EXCEPT !.armed = FALSE] \in Feeding
  BY DEF Feeding
<1>3. Enter([s EXCEPT !.armed = FALSE], "Cancelled") \in Feeding
  <2> DEFINE t == [s EXCEPT !.armed = FALSE]
  <2>1. t \in Feeding
    BY <1>2
  <2> HIDE DEF t
  <2>2. Enter(t, "Cancelled") \in Feeding
    BY <2>1 DEF Enter, Feeding, Phases
  <2> QED
    BY <2>2 DEF t
<1>4. Emit(Enter([s EXCEPT !.armed = FALSE], "Cancelled"), [type |-> "Cancelled"]) \in Feeding
  BY <1>3, EmitType DEF Events
<1>5. f.type = "DATA" => handle_data(d, f) \in Feeding
  BY <1>2, HandleDataType
<1>6. f.type \in HeaderTypes => handle_header(h, f) \in Feeding
  BY <1>2, HandleHeaderType
<1> HIDE DEF d, h
<1>7. CASE f.type = "DATA"
  <2>1. s.detector \in {"idle", "data", "jammed"}
    BY DEF Feeding
  <2>2. CASE s.detector = "data"
    <3>1. feed(s, f) = handle_data(d, f)
      BY <1>7, <2>2 DEF feed, d
    <3> QED
      BY <1>5, <1>7, <3>1
  <2>3. CASE s.detector # "data"
    <3>1. feed(s, f) = s
      BY <1>7, <2>1, <2>3 DEF feed
    <3> QED
      BY <3>1
  <2> QED
    BY <2>2, <2>3
<1>8. CASE f.type \in HeaderTypes
  BY <1>2, <1>4, <1>6, <1>8 DEF feed, h, HeaderTypes
<1> QED
  BY <1>1, <1>7, <1>8

LEMMA DispatchType ==
    ASSUME NEW b \in Bridges, NEW e \in Events
    PROVE  dispatch_event(b, e) \in Bridges
<1>1. CASE e.type = "DataReceived"
  <2>1. e.body \in Nat
    BY <1>1 DEF Events
  <2>2. CASE b.writer = NoFile
    BY <1>1, <2>2 DEF dispatch_event
  <2>3. CASE b.writer # NoFile
    <3> DEFINE d == [b.disk EXCEPT ![b.writer] = Append(@, e.body)]
    <3>1. b.writer \in Paths /\ b.disk \in [Paths -> Seq(Nat)]
      BY <2>3 DEF Bridges
    <3>2. Append(b.disk[b.writer], e.body) \in Seq(Nat)
      BY <2>1, <3>1
    <3>3. d \in [Paths -> Seq(Nat)]
      BY <3>1, <3>2
    <3>4. dispatch_event(b, e) = [b EXCEPT !.disk = d]
      BY <1>1, <2>3 DEF dispatch_event
    <3> HIDE DEF d
    <3> QED
      BY <3>3, <3>4 DEF Bridges
  <2> QED
    BY <2>2, <2>3
<1>2. CASE e.type = "Done"
  <2>1. e.direction \in Directions
    BY <1>2 DEF Events
  <2>2. dispatch_event(b, e) = Removed(b, e.direction)
    BY <1>2 DEF dispatch_event
  <2>3. [how |-> e.direction, path |-> b.writer] \in Outcomes
    BY <2>1 DEF Outcomes, Bridges, Directions
  <2> QED
    BY <2>2, <2>3 DEF Removed, Bridges
<1>3. CASE e.type = "Cancelled"
  <2>1. [how |-> "Cancelled", path |-> b.writer] \in Outcomes
    BY DEF Outcomes, Bridges
  <2>2. dispatch_event(b, e) = Removed(b, "Cancelled")
    BY <1>3 DEF dispatch_event
  <2> QED
    BY <2>1, <2>2 DEF Removed, Bridges
<1>4. CASE e.type = "FileOffer"
  <2>1. NoOutcome \in Outcomes
    BY DEF NoOutcome, Outcomes
  <2> DEFINE n == b.save + 1
  <2>2. n \in Nat
    BY DEF Bridges
  <2>3. dispatch_event(b, e) = [b EXCEPT !.save = n, !.outcome = NoOutcome]
    BY <1>4 DEF dispatch_event
  <2> HIDE DEF n
  <2> QED
    BY <2>1, <2>2, <2>3 DEF Bridges
<1>5. CASE e.type = "SendOffered"
  <2> DEFINE n == b.open + 1
  <2>1. n \in Nat
    BY DEF Bridges
  <2>2. dispatch_event(b, e) = [b EXCEPT !.open = n]
    BY <1>5 DEF dispatch_event
  <2> HIDE DEF n
  <2> QED
    BY <2>1, <2>2 DEF Bridges
<1>6. CASE e.type \notin {"DataReceived", "Done", "Cancelled", "FileOffer", "SendOffered"}
  BY <1>6 DEF dispatch_event
<1> QED
  BY <1>1, <1>2, <1>3, <1>4, <1>5, <1>6

-----------------------------------------------------------------------------
(* What FeedAll and DispatchAll compute.                                   *)

\* f is the function that FeedAll(s, chunk) goes by, with its values.
Feeds(f, s, chunk) ==
    f = [n \in 0..Len(chunk) |-> IF n = 0 THEN s ELSE feed(f[n - 1], chunk[n])]

FeedsThrough(f, s, chunk) ==
    /\ f[0] = s
    /\ \A n \in 1..Len(chunk) : f[n] = feed(f[n - 1], chunk[n])
    /\ FeedAll(s, chunk) = f[Len(chunk)]

LEMMA FeedAllValues ==
    \A s \in Feeding, chunk \in Seq(Frames) : \E f : FeedsThrough(f, s, chunk)
<1> SUFFICES ASSUME NEW s \in Feeding, NEW chunk \in Seq(Frames)
             PROVE  \E f : FeedsThrough(f, s, chunk)
  OBVIOUS
<1> DEFINE m == Len(chunk)
           step == [n \in 1..m |-> [x \in Feeding |-> feed(x, chunk[n])]]
<1>1. m \in Nat /\ \A n \in 1..m : chunk[n] \in Frames
  OBVIOUS
<1>2. step \in [1..m -> [Feeding -> Feeding]]
  BY <1>1, FeedType
<1>3. PICK f \in [0..m -> Feeding] : Recursive(f, s, m, step)
  <2> HIDE DEF m, step
  <2> QED
    BY <1>1, <1>2, Recursion
<1>4. ASSUME NEW n \in 1..m
      PROVE  f[n] = feed(f[n - 1], chunk[n])
  <2>1. f[n - 1] \in Feeding
    BY <1>1
  <2> QED
    BY <1>3, <2>1 DEF Recursive
<1> HIDE DEF step
<1>5. Feeds(f, s, chunk)
  <2>1. ASSUME NEW n \in 0..Len(chunk), n # 0
        PROVE  f[n] = feed(f[n - 1], chunk[n])
    <3>1. n \in 1..m
      BY <1>1, <2>1
    <3> QED
      BY <1>4, <3>1
  <2> QED
    BY <1>3, <2>1 DEF Feeds, Recursive
<1> DEFINE g == CHOOSE h : Feeds(h, s, chunk)
<1>6. Feeds(g, s, chunk)
  BY <1>5
<1>7. FeedAll(s, chunk) = g[Len(chunk)]
  BY DEF FeedAll, Feeds
<1> HIDE DEF g
<1>8. g[0] = s /\ \A n \in 1..Len(chunk) : g[n] = feed(g[n - 1], chunk[n])
  <2>1. ASSUME NEW n \in 1..Len(chunk)
        PROVE  g[n] = feed(g[n - 1], chunk[n])
    <3>1. n \in 0..Len(chunk) /\ n # 0
      BY <1>1
    <3> QED
      BY <1>6, <3>1 DEF Feeds
  <2>2. g[0] = s
    <3>1. 0 \in 0..Len(chunk)
      BY <1>1
    <3> QED
      BY <1>6, <3>1 DEF Feeds
  <2> QED
    BY <2>1, <2>2
<1>9. FeedsThrough(g, s, chunk)
  BY <1>7, <1>8 DEF FeedsThrough
<1> QED
  BY <1>9

Dispatches(f, b, events) ==
    f = [n \in 0..Len(events) |-> IF n = 0 THEN b ELSE dispatch_event(f[n - 1], events[n])]

DispatchesThrough(f, b, events) ==
    /\ f[0] = b
    /\ \A n \in 1..Len(events) : f[n] = dispatch_event(f[n - 1], events[n])
    /\ DispatchAll(b, events) = f[Len(events)]

LEMMA DispatchAllValues ==
    \A b \in Bridges, events \in Seq(Events) : \E f : DispatchesThrough(f, b, events)
<1> SUFFICES ASSUME NEW b \in Bridges, NEW events \in Seq(Events)
             PROVE  \E f : DispatchesThrough(f, b, events)
  OBVIOUS
<1> DEFINE m == Len(events)
           step == [n \in 1..m |-> [x \in Bridges |-> dispatch_event(x, events[n])]]
<1>1. m \in Nat /\ \A n \in 1..m : events[n] \in Events
  OBVIOUS
<1>2. step \in [1..m -> [Bridges -> Bridges]]
  BY <1>1, DispatchType
<1>3. PICK f \in [0..m -> Bridges] : Recursive(f, b, m, step)
  <2> HIDE DEF m, step
  <2> QED
    BY <1>1, <1>2, Recursion
<1>4. ASSUME NEW n \in 1..m
      PROVE  f[n] = dispatch_event(f[n - 1], events[n])
  <2>1. f[n - 1] \in Bridges
    BY <1>1
  <2> QED
    BY <1>3, <2>1 DEF Recursive
<1> HIDE DEF step
<1>5. Dispatches(f, b, events)
  <2>1. ASSUME NEW n \in 0..Len(events), n # 0
        PROVE  f[n] = dispatch_event(f[n - 1], events[n])
    <3>1. n \in 1..m
      BY <1>1, <2>1
    <3> QED
      BY <1>4, <3>1
  <2> QED
    BY <1>3, <2>1 DEF Dispatches, Recursive
<1> DEFINE g == CHOOSE h : Dispatches(h, b, events)
<1>6. Dispatches(g, b, events)
  BY <1>5
<1>7. DispatchAll(b, events) = g[Len(events)]
  BY DEF DispatchAll, Dispatches
<1> HIDE DEF g
<1>8. g[0] = b /\ \A n \in 1..Len(events) : g[n] = dispatch_event(g[n - 1], events[n])
  <2>1. ASSUME NEW n \in 1..Len(events)
        PROVE  g[n] = dispatch_event(g[n - 1], events[n])
    <3>1. n \in 0..Len(events) /\ n # 0
      BY <1>1
    <3> QED
      BY <1>6, <3>1 DEF Dispatches
  <2>2. g[0] = b
    <3>1. 0 \in 0..Len(events)
      BY <1>1
    <3> QED
      BY <1>6, <3>1 DEF Dispatches
  <2> QED
    BY <2>1, <2>2
<1>9. DispatchesThrough(g, b, events)
  BY <1>7, <1>8 DEF DispatchesThrough
<1> QED
  BY <1>9

LEMMA DispatchNone ==
    ASSUME NEW b \in Bridges
    PROVE  DispatchAll(b, <<>>) = b
<1>1. <<>> \in Seq(Events) /\ Len(<<>>) = 0
  OBVIOUS
<1>2. PICK f : DispatchesThrough(f, b, <<>>)
  BY <1>1, DispatchAllValues
<1> QED
  BY <1>1, <1>2 DEF DispatchesThrough

LEMMA DispatchAppend ==
    ASSUME NEW b \in Bridges, NEW events \in Seq(Events), NEW e \in Events
    PROVE  DispatchAll(b, Append(events, e)) = dispatch_event(DispatchAll(b, events), e)
<1> DEFINE t == Append(events, e)
           m == Len(events)
<1>1. t \in Seq(Events) /\ m \in Nat /\ Len(t) = m + 1
  OBVIOUS
<1>2. t[m + 1] = e /\ \A n \in 1..m : t[n] = events[n]
  OBVIOUS
<1> HIDE DEF t
<1>3. PICK f : DispatchesThrough(f, b, events)
  BY DispatchAllValues
<1>4. PICK g : DispatchesThrough(g, b, t)
  BY <1>1, DispatchAllValues
<1> DEFINE T == {n \in Nat : n <= m => f[n] = g[n]}
<1>5. 0 \in T
  BY <1>3, <1>4 DEF DispatchesThrough
<1>6. ASSUME NEW n \in Nat, n \in T
      PROVE  n + 1 \in T
  <2> SUFFICES ASSUME n + 1 <= m
               PROVE  f[n + 1] = g[n + 1]
    OBVIOUS
  <2>1. n + 1 \in 1..m /\ n + 1 \in 1..m + 1 /\ (n + 1) - 1 = n /\ f[n] = g[n]
    BY <1>1, <1>6
  <2>2. f[n + 1] = dispatch_event(f[n], events[n + 1])
    BY <1>3, <2>1 DEF DispatchesThrough
  <2>3. g[n + 1] = dispatch_event(g[n], t[n + 1])
    BY <1>1, <1>4, <2>1 DEF DispatchesThrough
  <2> QED
    BY <1>2, <2>1, <2>2, <2>3
<1> HIDE DEF T
<1>7. m \in T
  BY <1>1, <1>5, <1>6, Inductive
<1>8. f[m] = g[m]
  BY <1>7, <1>1 DEF T
<1>9. g[m + 1] = dispatch_event(g[m], e)
  <2>1. m + 1 \in 1..m + 1 /\ (m + 1) - 1 = m
    BY <1>1
  <2> QED
    BY <1>1, <1>2, <1>4, <2>1 DEF DispatchesThrough
<1> QED
  BY <1>1, <1>3, <1>4, <1>8, <1>9 DEF t, DispatchesThrough

-----------------------------------------------------------------------------
(* What one frame does to the session: the event it leads to, e, and what  *)
(* is sent.                                                                *)

Nothing == [type |-> "Nothing"]

Reported(s, s1, e) ==
    s1.events = IF e = Nothing THEN s.events ELSE Append(s.events, e)
Silent(s, s1) == s1.to_pty = s.to_pty
Answered(s, s1, f) == s1.to_pty = Append(s.to_pty, f)
Steady(s, s1) ==
    /\ s1.named = s.named /\ s1.bytes = s.bytes /\ s1.payload = s.payload
SameFile(s, s1) == Steady(s, s1) /\ s1.send_offset = s.send_offset

\* Nothing but the detector changes.
Passes(s, f, s1) ==
    /\ s1.phase = s.phase /\ SameFile(s, s1) /\ s1.direction = s.direction
    /\ Silent(s, s1) /\ Reported(s, s1, Nothing)
    /\ \/ s1.detector = s.detector /\ s.detector = "jammed" /\ f.type # "FLOOD"
       \/ s1.detector = s.detector /\ s.detector = "idle" /\ f.type \in {"DATA", "TEXT", "FLOOD"}
       \/ s1.detector = "idle" /\ s.detector # "idle" /\ f.type = "FLOOD"
       \/ s1.detector = "jammed" /\ s.detector = "data" /\ f.type \notin {"DATA", "FLOOD"}

Cancels(s, f, s1) ==
    /\ s.detector = "idle" /\ f.type = "CAN"
    /\ s1.phase = "Cancelled" /\ s1.detector = "idle"
    /\ SameFile(s, s1) /\ s1.direction = s.direction
    /\ Silent(s, s1) /\ Reported(s, s1, [type |-> "Cancelled"])

After(f) == IF f.end \in {"End", "AckEnd"} THEN "idle" ELSE "data"

Offers(s, f, s1) ==
    /\ s.detector = "data" /\ f.type = "DATA"
    /\ s.phase \in {"Receiving", "AwaitSavePath"} /\ ~s.named /\ s.bytes = 0
    /\ s1.phase = s.phase /\ s1.detector = After(f) /\ s1.direction = s.direction
    /\ s1.named /\ s1.bytes = s.bytes /\ s1.payload = s.payload
    /\ s1.send_offset = s.send_offset
    /\ Silent(s, s1) /\ Reported(s, s1, [type |-> "FileOffer"])

Receives(s, f, s1) ==
    /\ s.detector = "data" /\ f.type = "DATA"
    /\ ~(s.phase \in {"Receiving", "AwaitSavePath"} /\ ~s.named /\ s.bytes = 0)
    /\ s1.phase = s.phase /\ s1.detector = After(f) /\ s1.direction = s.direction
    /\ s1.named = s.named /\ s1.payload = s.payload /\ s1.send_offset = s.send_offset
    /\ Silent(s, s1) \/ Answered(s, s1, Header("ZACK", s.data_offset))
    /\ Reported(s, s1, [type |-> "DataReceived", body |-> f.body])

\* The headers.
Reads(s, f, s1) ==
    /\ s.detector = "idle" /\ f.type \in HeaderTypes \ {"CAN", "TEXT", "FLOOD"}
    /\ s1.detector = IF f.type \in {"ZFILE", "ZDATA"} THEN "data" ELSE "idle"

Greets(s, f, s1) ==
    /\ Reads(s, f, s1) /\ f.type = "ZRQINIT"
    /\ s.phase = "Init" /\ s1.phase = "AwaitFile" /\ s1.direction = "Receive"
    /\ SameFile(s, s1)
    /\ Answered(s, s1, Header("ZRINIT", 0)) /\ Reported(s, s1, [type |-> "ReceiveOffered"])

AsksForFile(s, f, s1) ==
    /\ Reads(s, f, s1) /\ f.type = "ZRINIT"
    /\ s.phase = "Init" /\ s1.phase = "Init" /\ s1.direction = "Send"
    /\ SameFile(s, s1)
    /\ Silent(s, s1) /\ Reported(s, s1, [type |-> "SendOffered"])

AwaitsName(s, f, s1) ==
    /\ Reads(s, f, s1) /\ f.type = "ZFILE"
    /\ s.phase = "AwaitFile" /\ s1.phase = "AwaitSavePath" /\ s1.direction = s.direction
    /\ SameFile(s, s1)
    /\ Silent(s, s1) /\ Reported(s, s1, Nothing)

\* The next block, or the end of the file, from the offset n.
Pumped(s, s1, n) ==
    IF n >= s.payload
    THEN s1.send_offset = n /\ s1.bytes = s.bytes /\ Answered(s, s1, Header("ZEOF", s.payload))
    ELSE /\ s1.send_offset = n + 1 /\ s1.bytes = n + 1
         /\ \E e \in {"AckContinue", "AckEnd"} :
              s1.to_pty = Append(Append(s.to_pty, Header("ZDATA", n)), Data(n + 1, e))

Sends(s, f, s1) ==
    /\ Reads(s, f, s1)
    /\ \/ f.type = "ZRPOS" /\ s.phase = "AwaitRpos" /\ Pumped(s, s1, f.pos)
       \/ f.type = "ZACK" /\ s.phase = "Sending" /\ Pumped(s, s1, s.send_offset)
    /\ s1.phase = "Sending" /\ s1.direction = s.direction
    /\ s1.named = s.named /\ s1.payload = s.payload
    /\ Reported(s, s1, Nothing)

AwaitsData(s, f, s1) ==
    /\ Reads(s, f, s1) /\ f.type = "ZDATA"
    /\ s.phase = "Receiving" /\ s1.phase = "Receiving" /\ s1.direction = s.direction
    /\ SameFile(s, s1)
    /\ Silent(s, s1) /\ Reported(s, s1, Nothing)

Finishes(s, f, s1) ==
    /\ Reads(s, f, s1)
    /\ s1.phase = "Done" /\ s1.direction = s.direction /\ SameFile(s, s1)
    /\ Answered(s, s1, Header("ZFIN", 0)) \/ Silent(s, s1)
    /\ \/ /\ f.type = "ZEOF" /\ s.phase = "Receiving"
          /\ Reported(s, s1, [type |-> "Done", direction |-> "Receive"])
       \/ /\ f.type = "ZFIN"
          /\ Reported(s, s1, [type |-> "Done", direction |-> s.direction])

IsSkipped(s, f, s1) ==
    /\ Reads(s, f, s1) /\ f.type = "ZSKIP"
    /\ s1.phase = "Init" /\ s1.direction = s.direction /\ SameFile(s, s1)
    /\ Silent(s, s1) /\ Reported(s, s1, [type |-> "Skipped"])

IgnoresHeader(s, f, s1) ==
    /\ Reads(s, f, s1) /\ f.type \notin {"ZFIN", "ZSKIP"}
    /\ f.type = "ZRQINIT" => s.phase # "Init"
    /\ f.type = "ZRINIT" => s.phase # "Init"
    /\ f.type = "ZFILE" => s.phase # "AwaitFile"
    /\ f.type = "ZRPOS" => s.phase # "AwaitRpos"
    /\ f.type = "ZACK" => s.phase # "Sending"
    /\ f.type \in {"ZDATA", "ZEOF"} => s.phase # "Receiving"
    /\ s1.phase = s.phase /\ s1.direction = s.direction /\ SameFile(s, s1)
    /\ Silent(s, s1) /\ Reported(s, s1, Nothing)

FedCases(s, f, s1) ==
    \/ Passes(s, f, s1) \/ Cancels(s, f, s1) \/ Offers(s, f, s1) \/ Receives(s, f, s1)
    \/ Greets(s, f, s1) \/ AsksForFile(s, f, s1) \/ AwaitsName(s, f, s1) \/ Sends(s, f, s1)
    \/ AwaitsData(s, f, s1) \/ Finishes(s, f, s1) \/ IsSkipped(s, f, s1)
    \/ IgnoresHeader(s, f, s1)

LEMMA PumpEffect ==
    ASSUME NEW s \in Feeding
    PROVE  LET s1 == pump_send_blocks(s)
           IN  /\ Pumped(s, s1, s.send_offset)
               /\ s1.phase = s.phase /\ s1.direction = s.direction /\ s1.detector = s.detector
               /\ s1.named = s.named /\ s1.payload = s.payload /\ s1.events = s.events
<1> DEFINE n == s.send_offset + 1
           e == IF n = s.payload THEN "AckEnd" ELSE "AckContinue"
           t == Append(s.to_pty, Header("ZDATA", s.send_offset))
           u == Append(t, Data(n, e))
           s1 == pump_send_blocks(s)
<1>1. CASE s.send_offset >= s.payload
  <2> DEFINE x == Append(s.to_pty, Header("ZEOF", s.payload))
  <2>1. s1 = [s EXCEPT !.to_pty = x]
    BY <1>1 DEF pump_send_blocks, Send
  <2> HIDE DEF x
  <2>2. /\ s1.to_pty = x
        /\ s1.phase = s.phase /\ s1.direction = s.direction /\ s1.detector = s.detector
        /\ s1.named = s.named /\ s1.payload = s.payload /\ s1.events = s.events
        /\ s1.send_offset = s.send_offset /\ s1.bytes = s.bytes
    BY <2>1 DEF Feeding
  <2> QED
    BY <1>1, <2>2 DEF Pumped, Answered, x
<1>2. CASE ~(s.send_offset >= s.payload)
  <2>1. Send(s, Header("ZDATA", s.send_offset)) = [s EXCEPT !.to_pty = t]
    BY DEF Send
  <2> DEFINE s2 == [s EXCEPT !.to_pty = t]
  <2>2. s2.to_pty = t
    BY DEF Feeding
  <2>3. Send(s2, Data(n, e)) = [s2 EXCEPT !.to_pty = u]
    BY <2>2 DEF Send
  <2>4. s1 = [[s2 EXCEPT !.to_pty = u] EXCEPT !.send_offset = n, !.bytes = n]
    BY <1>2, <2>1, <2>3 DEF pump_send_blocks
  <2>5. e \in {"AckContinue", "AckEnd"}
    OBVIOUS
  <2> HIDE DEF e, n, t, u, s1
  <2>6. /\ s1.to_pty = u
        /\ s1.phase = s.phase /\ s1.direction = s.direction /\ s1.detector = s.detector
        /\ s1.named = s.named /\ s1.payload = s.payload /\ s1.events = s.events
        /\ s1.send_offset = n /\ s1.bytes = n
    BY <2>4 DEF Feeding
  <2>7. \E e2 \in {"AckContinue", "AckEnd"} :
            s1.to_pty = Append(Append(s.to_pty, Header("ZDATA", s.send_offset)),
                               Data(s.send_offset + 1, e2))
    BY <2>5, <2>6 DEF u, t, n
  <2>8. s1.send_offset = s.send_offset + 1 /\ s1.bytes = s.send_offset + 1
    BY <2>6 DEF n
  <2> QED
    BY <1>2, <2>6, <2>7, <2>8 DEF Pumped, s1
<1> QED
  BY <1>1, <1>2

LEMMA DataEffect ==
    ASSUME NEW s \in Feeding, NEW f \in Frames, f.type = "DATA", s.detector = "data"
    PROVE  Offers(s, f, feed(s, f)) \/ Receives(s, f, feed(s, f))
<1> DEFINE a == After(f)
           d == [s EXCEPT !.detector = a]
           s1 == feed(s, f)
<1>1. a \in {"idle", "data"}
  BY DEF After
<1>2. s1 = handle_data(d, f)
  BY DEF feed, After
<1> HIDE DEF a
<1>3. /\ d.phase = s.phase /\ d.named = s.named /\ d.bytes = s.bytes /\ d.detector = a
      /\ d.events = s.events /\ d.to_pty = s.to_pty /\ d.direction = s.direction
      /\ d.payload = s.payload /\ d.send_offset = s.send_offset
      /\ d.data_offset = s.data_offset
  BY DEF Feeding
<1>4. d \in Feeding
  BY <1>1 DEF Feeding
<1> HIDE DEF d
<1>5. CASE IsMetadata(s)
  <2> DEFINE v == Append(s.events, [type |-> "FileOffer"])
  <2>1. IsMetadata(d)
    BY <1>3, <1>5 DEF IsMetadata
  <2> DEFINE t == [d EXCEPT !.named = TRUE]
  <2>2. t.events = s.events
    BY <1>3, <1>4 DEF Feeding
  <2>3. s1 = [t EXCEPT !.events = v]
    BY <1>2, <2>1, <2>2 DEF handle_data, Emit
  <2> HIDE DEF v, s1
  <2>4. /\ s1.events = v /\ s1.named = TRUE
        /\ s1.phase = s.phase /\ s1.bytes = s.bytes /\ s1.detector = a
        /\ s1.to_pty = s.to_pty /\ s1.direction = s.direction
        /\ s1.payload = s.payload /\ s1.send_offset = s.send_offset
    BY <1>3, <1>4, <2>3 DEF Feeding
  <2>5. [type |-> "FileOffer"] # Nothing
    BY DEF Nothing
  <2>6. Reported(s, s1, [type |-> "FileOffer"])
    BY <2>4, <2>5 DEF Reported, v
  <2>7. Offers(s, f, s1)
    BY <1>5, <2>4, <2>6 DEF Offers, IsMetadata, a, Silent
  <2> QED
    BY <2>7 DEF s1
<1>6. CASE ~IsMetadata(s)
  <2> DEFINE x == [type |-> "DataReceived", body |-> f.body]
             v == Append(s.events, x)
             n == s.data_offset + 1
             t == [d EXCEPT !.bytes = n]
             u == [t EXCEPT !.events = v]
             w == Append(s.to_pty, Header("ZACK", s.data_offset))
  <2>1. ~IsMetadata(d)
    BY <1>3, <1>6 DEF IsMetadata
  <2>2. t.events = s.events
    BY <1>3, <1>4 DEF Feeding
  <2>3. Emit(t, x) = u
    BY <2>2 DEF Emit
  <2>4. u.to_pty = s.to_pty
    BY <1>3, <1>4 DEF Feeding
  <2>5. Send(u, Header("ZACK", d.data_offset)) = [u EXCEPT !.to_pty = w]
    BY <1>3, <2>4 DEF Send
  <2>6. s1 = IF f.end \in {"AckContinue", "AckEnd"} THEN [u EXCEPT !.to_pty = w] ELSE u
    BY <1>2, <1>3, <2>1, <2>3, <2>5 DEF handle_data
  <2> HIDE DEF v, w, n, s1
  <2>7. /\ s1.events = v /\ s1.named = s.named
        /\ s1.phase = s.phase /\ s1.detector = a /\ s1.direction = s.direction
        /\ s1.payload = s.payload /\ s1.send_offset = s.send_offset
    BY <1>3, <1>4, <2>6 DEF Feeding
  <2>8. s1.to_pty = s.to_pty \/ s1.to_pty = w
    BY <1>3, <1>4, <2>6 DEF Feeding
  <2>9. x # Nothing
    BY DEF Nothing
  <2> HIDE DEF x
  <2>10. Reported(s, s1, x)
    BY <2>7, <2>9 DEF Reported, v
  <2>11. Silent(s, s1) \/ Answered(s, s1, Header("ZACK", s.data_offset))
    BY <2>8 DEF w, Silent, Answered
  <2>12. Receives(s, f, s1)
    BY <1>6, <2>7, <2>10, <2>11 DEF Receives, IsMetadata, a, x
  <2> QED
    BY <2>12 DEF s1
<1> QED
  BY <1>5, <1>6

\* The session that a header finds.
LEMMA HeaderEffect ==
    ASSUME NEW s \in Feeding, NEW f \in Frames, s.detector = "idle",
           f.type \in HeaderTypes \ {"CAN", "TEXT", "FLOOD"}
    PROVE  \/ Greets(s, f, feed(s, f)) \/ AsksForFile(s, f, feed(s, f))
           \/ AwaitsName(s, f, feed(s, f)) \/ Sends(s, f, feed(s, f))
           \/ AwaitsData(s, f, feed(s, f)) \/ Finishes(s, f, feed(s, f))
           \/ IsSkipped(s, f, feed(s, f)) \/ IgnoresHeader(s, f, feed(s, f))
<1> DEFINE a == IF f.type \in {"ZFILE", "ZDATA"} THEN "data" ELSE "idle"
           h == [s EXCEPT !.armed = TRUE, !.detector = a]
           s1 == feed(s, f)
<1>1. a \in {"idle", "data"}
  OBVIOUS
<1>2. s1 = handle_header(h, f)
  BY DEF feed, HeaderTypes
<1>a. a = IF f.type \in {"ZFILE", "ZDATA"} THEN "data" ELSE "idle"
  OBVIOUS
<1> HIDE DEF a
<1>3. /\ h.phase = s.phase /\ h.named = s.named /\ h.bytes = s.bytes /\ h.detector = a
      /\ h.events = s.events /\ h.to_pty = s.to_pty /\ h.direction = s.direction
      /\ h.payload = s.payload /\ h.send_offset = s.send_offset
  BY DEF Feeding
<1>4. h \in Feeding
  BY <1>1 DEF Feeding
<1> HIDE DEF h, s1
<1> DEFINE fin == Header("ZFIN", 0)
<1>5. CASE s.phase = "Init" /\ f.type = "ZRQINIT"
  <2> DEFINE x == [type |-> "ReceiveOffered"]
             t == [h EXCEPT !.phase = "AwaitFile", !.direction = "Receive"]
             v == Append(s.events, x)
             u == [t EXCEPT !.events = v]
             w == Append(s.to_pty, Header("ZRINIT", 0))
  <2>1. t.events = s.events /\ u.to_pty = s.to_pty
    BY <1>3, <1>4 DEF Feeding
  <2>2. Emit(t, x) = u
    BY <2>1 DEF Emit
  <2>3. s1 = [u EXCEPT !.to_pty = w]
    BY <1>2, <1>3, <1>5, <2>1, <2>2 DEF handle_header, Send
  <2>4. x # Nothing
    BY DEF Nothing
  <2> HIDE DEF v, w, x
  <2>5. /\ s1.events = v /\ s1.to_pty = w /\ s1.phase = "AwaitFile"
        /\ s1.direction = "Receive" /\ s1.detector = a
        /\ s1.named = s.named /\ s1.bytes = s.bytes
        /\ s1.payload = s.payload /\ s1.send_offset = s.send_offset
    BY <1>3, <1>4, <2>3 DEF Feeding
  <2>6. Reported(s, s1, x) /\ Answered(s, s1, Header("ZRINIT", 0))
    BY <2>4, <2>5 DEF Reported, Answered, v, w
  <2>7. Greets(s, f, s1)
    BY <1>5, <1>a, <2>5, <2>6 DEF Greets, Reads, SameFile, Steady, x
  <2> QED
    BY <2>7 DEF s1
<1>6. CASE s.phase = "Init" /\ f.type = "ZRINIT"
  <2> DEFINE x == [type |-> "SendOffered"]
             t == [h EXCEPT !.direction = "Send"]
             v == Append(s.events, x)
  <2>1. t.events = s.events
    BY <1>3, <1>4 DEF Feeding
  <2>2. s1 = [t EXCEPT !.events = v]
    BY <1>2, <1>3, <1>6, <2>1 DEF handle_header, Emit
  <2>3. x # Nothing
    BY DEF Nothing
  <2> HIDE DEF v, x
  <2>4. /\ s1.events = v /\ s1.to_pty = s.to_pty /\ s1.phase = s.phase
        /\ s1.direction = "Send" /\ s1.detector = a
        /\ s1.named = s.named /\ s1.bytes = s.bytes
        /\ s1.payload = s.payload /\ s1.send_offset = s.send_offset
    BY <1>3, <1>4, <2>2 DEF Feeding
  <2>5. Reported(s, s1, x)
    BY <2>3, <2>4 DEF Reported, v
  <2>6. AsksForFile(s, f, s1)
    BY <1>6, <1>a, <2>4, <2>5 DEF AsksForFile, Reads, SameFile, Steady, x, Silent
  <2> QED
    BY <2>6 DEF s1
<1>7. CASE s.phase = "AwaitFile" /\ f.type = "ZFILE"
  <2>1. s1 = [h EXCEPT !.phase = "AwaitSavePath"]
    BY <1>2, <1>3, <1>7 DEF handle_header, Enter
  <2>2. /\ s1.events = s.events /\ s1.to_pty = s.to_pty /\ s1.phase = "AwaitSavePath"
        /\ s1.direction = s.direction /\ s1.detector = a
        /\ s1.named = s.named /\ s1.bytes = s.bytes
        /\ s1.payload = s.payload /\ s1.send_offset = s.send_offset
    BY <1>3, <1>4, <2>1 DEF Feeding
  <2>3. AwaitsName(s, f, s1)
    BY <1>7, <1>a, <2>2 DEF AwaitsName, Reads, SameFile, Steady, Silent, Reported
  <2> QED
    BY <2>3 DEF s1
<1>8. CASE s.phase = "AwaitRpos" /\ f.type = "ZRPOS"
  <2> DEFINE n == f.pos
             t == [h EXCEPT !.send_offset = n, !.phase = "Sending"]
  <2>1. n \in Nat
    BY <1>8 DEF Frames
  <2>2. s1 = pump_send_blocks(t)
    BY <1>2, <1>3, <1>8 DEF handle_header
  <2> HIDE DEF n
  <2>3. t \in Feeding
    BY <1>4, <2>1 DEF Feeding, Phases
  <2>4. /\ t.phase = "Sending" /\ t.named = s.named /\ t.bytes = s.bytes /\ t.detector = a
        /\ t.events = s.events /\ t.to_pty = s.to_pty /\ t.direction = s.direction
        /\ t.payload = s.payload /\ t.send_offset = n
    BY <1>3, <1>4, <2>1 DEF Feeding
  <2> HIDE DEF t
  <2>5. /\ Pumped(t, s1, n)
        /\ s1.phase = t.phase /\ s1.direction = t.direction /\ s1.detector = t.detector
        /\ s1.named = t.named /\ s1.payload = t.payload /\ s1.events = t.events
    BY <2>2, <2>3, <2>4, PumpEffect
  <2>6. Pumped(s, s1, n)
    BY <2>4, <2>5 DEF Pumped, Answered
  <2>7. Sends(s, f, s1)
    BY <1>8, <1>a, <2>4, <2>5, <2>6 DEF Sends, Reads, Reported, n
  <2> QED
    BY <2>7 DEF s1
<1>9. CASE s.phase = "Receiving" /\ f.type = "ZDATA"
  <2> DEFINE n == f.pos
  <2>1. s1 = [h EXCEPT !.data_offset = n]
    BY <1>2, <1>3, <1>9 DEF handle_header
  <2> HIDE DEF n
  <2>2. /\ s1.events = s.events /\ s1.to_pty = s.to_pty /\ s1.phase = s.phase
        /\ s1.direction = s.direction /\ s1.detector = a
        /\ s1.named = s.named /\ s1.bytes = s.bytes
        /\ s1.payload = s.payload /\ s1.send_offset = s.send_offset
    BY <1>3, <1>4, <2>1 DEF Feeding
  <2>3. AwaitsData(s, f, s1)
    BY <1>9, <1>a, <2>2 DEF AwaitsData, Reads, SameFile, Steady, Silent, Reported
  <2> QED
    BY <2>3 DEF s1
<1>10. CASE s.phase = "Sending" /\ f.type = "ZACK"
  <2>1. s1 = pump_send_blocks(h)
    BY <1>2, <1>3, <1>10 DEF handle_header
  <2>2. /\ Pumped(h, s1, s.send_offset)
        /\ s1.phase = h.phase /\ s1.direction = h.direction /\ s1.detector = h.detector
        /\ s1.named = h.named /\ s1.payload = h.payload /\ s1.events = h.events
    BY <1>3, <1>4, <2>1, PumpEffect
  <2>3. Pumped(s, s1, s.send_offset)
    BY <1>3, <2>2 DEF Pumped, Answered
  <2>4. Sends(s, f, s1)
    BY <1>3, <1>10, <1>a, <2>2, <2>3 DEF Sends, Reads, Reported
  <2> QED
    BY <2>4 DEF s1
<1>11. CASE (s.phase = "Receiving" /\ f.type = "ZEOF") \/ f.type = "ZFIN"
  <2> DEFINE d == IF f.type = "ZFIN" THEN s.direction ELSE "Receive"
             x == [type |-> "Done", direction |-> d]
             v == Append(s.events, x)
             w == IF f.type = "ZEOF" \/ s.phase # "Done" THEN Append(s.to_pty, fin)
                                                         ELSE s.to_pty
             t == [h EXCEPT !.to_pty = w]
             u == [t EXCEPT !.phase = "Done"]
  <2>1. h = [h EXCEPT !.to_pty = s.to_pty]
    BY <1>3, <1>4 DEF Feeding
  <2>2. s1 = Finished(t, d)
    <3>1. CASE s.phase = "Receiving" /\ f.type = "ZEOF"
      BY <1>2, <1>3, <3>1 DEF handle_header, Send
    <3>2. CASE f.type = "ZFIN"
      BY <1>2, <1>3, <2>1, <3>2 DEF handle_header, Send
    <3> QED
      BY <1>11, <3>1, <3>2
  <2>3. u.events = s.events
    BY <1>3, <1>4 DEF Feeding
  <2>4. s1 = [u EXCEPT !.events = v]
    BY <2>2, <2>3 DEF Finished, Emit, Enter
  <2>5. x # Nothing /\ (w = Append(s.to_pty, fin) \/ w = s.to_pty)
    BY DEF Nothing
  <2> HIDE DEF v, w, x
  <2>6. /\ s1.events = v /\ s1.to_pty = w /\ s1.phase = "Done"
        /\ s1.direction = s.direction /\ s1.detector = a
        /\ s1.named = s.named /\ s1.bytes = s.bytes
        /\ s1.payload = s.payload /\ s1.send_offset = s.send_offset
    BY <1>3, <1>4, <2>4 DEF Feeding
  <2>7. Reported(s, s1, x) /\ (Answered(s, s1, fin) \/ Silent(s, s1))
    BY <2>5, <2>6 DEF Reported, Answered, Silent, v
  <2>8. Finishes(s, f, s1)
    BY <1>11, <1>a, <2>6, <2>7 DEF Finishes, Reads, SameFile, Steady, x
  <2> QED
    BY <2>8 DEF s1
<1>12. CASE f.type = "ZSKIP"
  <2> DEFINE x == [type |-> "Skipped"]
             t == [h EXCEPT !.phase = "Init"]
             v == Append(s.events, x)
  <2>1. t.events = s.events
    BY <1>3, <1>4 DEF Feeding
  <2>2. s1 = [t EXCEPT !.events = v]
    BY <1>2, <1>3, <1>12, <2>1 DEF handle_header, Emit, Enter
  <2>3. x # Nothing
    BY DEF Nothing
  <2> HIDE DEF v, x
  <2>4. /\ s1.events = v /\ s1.to_pty = s.to_pty /\ s1.phase = "Init"
        /\ s1.direction = s.direction /\ s1.detector = a
        /\ s1.named = s.named /\ s1.bytes = s.bytes
        /\ s1.payload = s.payload /\ s1.send_offset = s.send_offset
    BY <1>3, <1>4, <2>2 DEF Feeding
  <2>5. Reported(s, s1, x)
    BY <2>3, <2>4 DEF Reported, v
  <2>6. IsSkipped(s, f, s1)
    BY <1>12, <1>a, <2>4, <2>5 DEF IsSkipped, Reads, SameFile, Steady, x, Silent
  <2> QED
    BY <2>6 DEF s1
<1>13. CASE /\ f.type \notin {"ZFIN", "ZSKIP"}
            /\ f.type \in {"ZRQINIT", "ZRINIT"} => s.phase # "Init"
            /\ f.type = "ZFILE" => s.phase # "AwaitFile"
            /\ f.type = "ZRPOS" => s.phase # "AwaitRpos"
            /\ f.type = "ZACK" => s.phase # "Sending"
            /\ f.type \in {"ZDATA", "ZEOF"} => s.phase # "Receiving"
  <2>1. s1 = h
    BY <1>2, <1>3, <1>13 DEF handle_header
  <2>2. IgnoresHeader(s, f, s1)
    BY <1>3, <1>13, <1>a, <2>1
       DEF IgnoresHeader, Reads, SameFile, Steady, Silent, Reported
  <2> QED
    BY <2>2 DEF s1
<1> QED
  BY <1>5, <1>6, <1>7, <1>8, <1>9, <1>10, <1>11, <1>12, <1>13

LEMMA FeedEffect ==
    ASSUME NEW s \in Feeding, NEW f \in Frames
    PROVE  FedCases(s, f, feed(s, f))
<1> DEFINE s1 == feed(s, f)
<1>1. s.detector \in {"idle", "data", "jammed"} /\ (f.type \in HeaderTypes \/ f.type = "DATA")
  BY DEF Feeding, Frames
<1>2. CASE s.detector # "idle" /\ f.type = "FLOOD"
  <2>1. s1 = [s EXCEPT !.detector = "idle"]
    BY <1>2 DEF feed
  <2>2. Passes(s, f, s1)
    BY <1>2, <2>1 DEF Passes, SameFile, Steady, Silent, Reported, Feeding
  <2> QED
    BY <2>2 DEF FedCases
<1>3. CASE s.detector = "jammed" /\ f.type # "FLOOD"
  <2>1. s1 = s
    BY <1>3 DEF feed
  <2>2. Passes(s, f, s1)
    BY <1>3, <2>1 DEF Passes, SameFile, Steady, Silent, Reported
  <2> QED
    BY <2>2 DEF FedCases
<1>4. CASE s.detector = "data" /\ f.type = "DATA"
  BY <1>4, DataEffect DEF FedCases
<1>5. CASE s.detector = "data" /\ f.type \notin {"DATA", "FLOOD"}
  <2>1. s1 = [s EXCEPT !.detector = "jammed"]
    BY <1>5 DEF feed
  <2>2. Passes(s, f, s1)
    BY <1>5, <2>1 DEF Passes, SameFile, Steady, Silent, Reported, Feeding
  <2> QED
    BY <2>2 DEF FedCases
<1>6. CASE s.detector = "idle" /\ f.type = "CAN"
  <2> DEFINE x == [type |-> "Cancelled"]
             v == Append(s.events, x)
             t == [[s EXCEPT !.armed = FALSE] EXCEPT !.phase = "Cancelled"]
  <2>1. t.events = s.events
    BY DEF Feeding
  <2>2. s1 = [t EXCEPT !.events = v]
    BY <1>6, <2>1 DEF feed, Emit, Enter
  <2>3. x # Nothing
    BY DEF Nothing
  <2> HIDE DEF v, x, s1
  <2>4. /\ s1.events = v /\ s1.to_pty = s.to_pty /\ s1.phase = "Cancelled"
        /\ s1.direction = s.direction /\ s1.detector = s.detector
        /\ s1.named = s.named /\ s1.bytes = s.bytes
        /\ s1.payload = s.payload /\ s1.send_offset = s.send_offset
    BY <2>2 DEF Feeding
  <2>5. Reported(s, s1, x)
    BY <2>3, <2>4 DEF Reported, v
  <2>6. Cancels(s, f, s1)
    BY <1>6, <2>4, <2>5 DEF Cancels, SameFile, Steady, x, Silent
  <2> QED
    BY <2>6 DEF s1, FedCases
<1>7. CASE s.detector = "idle" /\ f.type \in {"DATA", "TEXT", "FLOOD"}
  <2>1. s1 = s
    BY <1>7 DEF feed
  <2>2. Passes(s, f, s1)
    BY <1>7, <2>1 DEF Passes, SameFile, Steady, Silent, Reported
  <2> QED
    BY <2>2 DEF FedCases
<1>8. CASE s.detector = "idle" /\ f.type \in HeaderTypes \ {"CAN", "TEXT", "FLOOD"}
  BY <1>8, HeaderEffect DEF FedCases
<1> QED
  BY <1>1, <1>2, <1>3, <1>4, <1>5, <1>6, <1>7, <1>8 DEF HeaderTypes

-----------------------------------------------------------------------------
(* Queues that are read and added to.                                      *)

\* r is what follows the first frame of q.
IsRest(q, r) ==
    /\ q \in Seq(Frames) /\ r \in Seq(Frames) /\ q # <<>>
    /\ Len(r) \in Nat /\ Len(q) = Len(r) + 1
    /\ DOMAIN q = 1..Len(q) /\ DOMAIN r = 1..Len(r)
    /\ (r = <<>>) <=> (Len(r) = 0)
    /\ q[1] \in Frames
    /\ \A i \in 1..Len(r) : r[i] = q[i + 1]

LEMMA RestIsTail ==
    ASSUME NEW q \in Seq(Frames), q # <<>>
    PROVE  IsRest(q, Tail(q))
<1> DEFINE r == Tail(q)
<1>1. /\ r \in Seq(Frames) /\ Len(r) = Len(q) - 1 /\ Len(q) \in Nat /\ Len(q) # 0
      /\ DOMAIN q = 1..Len(q) /\ DOMAIN r = 1..Len(r)
      /\ \A i \in 1..Len(r) : r[i] = q[i + 1]
  OBVIOUS
<1>2. (r = <<>>) <=> (Len(r) = 0)
  BY <1>1
<1>3. q[1] \in Frames
  BY <1>1
<1> HIDE DEF r
<1>4. Len(r) \in Nat /\ Len(q) = Len(r) + 1
  BY <1>1
<1> QED
  BY <1>1, <1>2, <1>3, <1>4 DEF IsRest, r

LEMMA QueueRest ==
    ASSUME NEW q, NEW r, IsRest(q, r), QueueOK(q)
    PROVE  QueueOK(r)
<1> SUFFICES ASSUME NEW i \in DOMAIN r
             PROVE  FrameOK(r, i)
  BY DEF QueueOK
<1>1. /\ i \in 1..Len(r) /\ i + 1 \in 1..Len(q) /\ i + 1 \in DOMAIN q /\ r[i] = q[i + 1]
      /\ Len(r) \in Nat /\ Len(q) = Len(r) + 1
      /\ DOMAIN q = 1..Len(q) /\ DOMAIN r = 1..Len(r)
  BY DEF IsRest
<1>2. FrameOK(q, i + 1)
  BY <1>1 DEF QueueOK
<1>3. r[i].type = "ZFILE" => i < Len(r) /\ IsMetaFrame(r[i + 1])
  <2>1. i < Len(r) => r[i + 1] = q[(i + 1) + 1]
    BY <1>1 DEF IsRest
  <2> QED
    BY <1>1, <1>2, <2>1 DEF FrameOK
<1>4. i > 1 => i - 1 \in 1..Len(r) /\ r[i - 1] = q[(i + 1) - 1]
  BY <1>1 DEF IsRest
<1>5. IsMetaFrame(r[i]) /\ i > 1 => r[i - 1].type = "ZFILE"
  BY <1>1, <1>2, <1>4 DEF FrameOK
<1>6. Streamed(r[i]) /\ i > 1 => Place(r[i]) = Place(r[i - 1]) + 1
  BY <1>1, <1>2, <1>4 DEF FrameOK
<1>7. OpensDialog(r[i]) => JunkAfter(r, i)
  <2> SUFFICES ASSUME OpensDialog(r[i]), NEW k \in DOMAIN r, k > i
               PROVE  Junk(r[k])
    BY DEF JunkAfter
  <2>1. k + 1 \in DOMAIN q /\ k + 1 > i + 1 /\ r[k] = q[k + 1]
    BY <1>1 DEF IsRest
  <2> QED
    BY <1>1, <1>2, <2>1 DEF FrameOK, JunkAfter
<1>8. Streamed(r[i]) => \A k \in 1..i : Streamed(r[k])
  <2> SUFFICES ASSUME Streamed(r[i]), NEW k \in 1..i
               PROVE  Streamed(r[k])
    OBVIOUS
  <2>1. k + 1 \in 1..i + 1 /\ r[k] = q[k + 1]
    BY <1>1 DEF IsRest
  <2> QED
    BY <1>1, <1>2, <2>1 DEF FrameOK
<1> QED
  BY <1>1, <1>2, <1>3, <1>5, <1>6, <1>7, <1>8 DEF FrameOK

LEMMA PeerRest ==
    ASSUME NEW q, NEW r, NEW p, NEW l, IsRest(q, r), PeerOK(q, p, l)
    PROVE  PeerOK(r, p, l)
<1>1. /\ Len(r) \in Nat /\ Len(q) = Len(r) + 1
      /\ DOMAIN q = 1..Len(q) /\ DOMAIN r = 1..Len(r)
  BY DEF IsRest
<1>2. ASSUME NEW i \in DOMAIN r
      PROVE  /\ IsMetaFrame(r[i]) => p.prog = "shell" \/ Is(p, "sz", "asked")
             /\ r[i].type = "ZRINIT" => p.prog = "shell" \/ Is(p, "rz", "start")
             /\ r[i].type = "ZSKIP" => JunkAfter(r, i) /\ l /\ Idle(p)
  <2>1. i + 1 \in DOMAIN q /\ r[i] = q[i + 1]
    BY <1>1 DEF IsRest
  <2>2. JunkAfter(q, i + 1) => JunkAfter(r, i)
    <3> SUFFICES ASSUME JunkAfter(q, i + 1), NEW k \in DOMAIN r, k > i
                 PROVE  Junk(r[k])
      BY DEF JunkAfter
    <3>1. k + 1 \in DOMAIN q /\ k + 1 > i + 1 /\ r[k] = q[k + 1]
      BY <1>1 DEF IsRest
    <3> QED
      BY <3>1 DEF JunkAfter
  <2> QED
    BY <2>1, <2>2 DEF PeerOK
<1>3. r # <<>> => q # <<>> /\ r[Len(r)] = q[Len(q)]
  BY <1>1 DEF IsRest
<1> QED
  BY <1>2, <1>3 DEF PeerOK

LEMMA JunkRest ==
    ASSUME NEW q, NEW r, IsRest(q, r), AllJunk(q)
    PROVE  AllJunk(r) /\ Junk(q[1])
<1>1. \A i \in DOMAIN r : i + 1 \in DOMAIN q /\ r[i] = q[i + 1]
  BY DEF IsRest
<1>2. 1 \in DOMAIN q
  BY DEF IsRest
<1> QED
  BY <1>1, <1>2 DEF AllJunk

LEMMA HasRest ==
    ASSUME NEW q, NEW r, NEW t, IsRest(q, r), Has(r, t)
    PROVE  Has(q, t)
<1>1. PICK i \in DOMAIN r : r[i].type = t
  BY DEF Has
<1>2. i + 1 \in DOMAIN q /\ r[i] = q[i + 1]
  BY DEF IsRest
<1> QED
  BY <1>1, <1>2 DEF Has

\* q is r and a last frame f.
IsAppended(q, r, f) ==
    /\ q \in Seq(Frames) /\ r \in Seq(Frames) /\ f \in Frames /\ q # <<>>
    /\ Len(r) \in Nat /\ Len(q) = Len(r) + 1
    /\ DOMAIN q = 1..Len(q) /\ DOMAIN r = 1..Len(r)
    /\ (r = <<>>) <=> (Len(r) = 0)
    /\ q[Len(q)] = f
    /\ \A i \in 1..Len(r) : q[i] = r[i]

LEMMA AppendedIs ==
    ASSUME NEW r \in Seq(Frames), NEW f \in Frames
    PROVE  IsAppended(Append(r, f), r, f) /\ r \o <<f>> = Append(r, f)
<1> DEFINE q == Append(r, f)
<1>1. /\ q \in Seq(Frames) /\ Len(q) = Len(r) + 1 /\ Len(r) \in Nat /\ q # <<>>
      /\ DOMAIN q = 1..Len(q) /\ DOMAIN r = 1..Len(r)
      /\ \A i \in 1..Len(r) : q[i] = r[i]
      /\ q[Len(q)] = f
  OBVIOUS
<1>2. (r = <<>>) <=> (Len(r) = 0)
  OBVIOUS
<1>3. r \o <<f>> = q
  OBVIOUS
<1> HIDE DEF q
<1>4. IsAppended(q, r, f)
  BY <1>1, <1>2 DEF IsAppended
<1> QED
  BY <1>3, <1>4 DEF q

LEMMA HasAppended ==
    ASSUME NEW q, NEW r, NEW f, NEW t, IsAppended(q, r, f)
    PROVE  Has(q, t) <=> (Has(r, t) \/ f.type = t)
<1>1. ASSUME NEW i \in DOMAIN q
      PROVE  (i \in DOMAIN r /\ q[i] = r[i]) \/ q[i] = f
  BY DEF IsAppended
<1>2. \A i \in DOMAIN r : i \in DOMAIN q /\ q[i] = r[i]
  BY DEF IsAppended
<1>3. Len(q) \in DOMAIN q /\ q[Len(q)] = f
  BY DEF IsAppended
<1> QED
  BY <1>1, <1>2, <1>3 DEF Has

LEMMA MetaAppended ==
    ASSUME NEW q, NEW r, NEW f, IsAppended(q, r, f)
    PROVE  HasMeta(q) <=> (HasMeta(r) \/ IsMetaFrame(f))
<1>1. ASSUME NEW i \in DOMAIN q
      PROVE  (i \in DOMAIN r /\ q[i] = r[i]) \/ q[i] = f
  BY DEF IsAppended
<1>2. \A i \in DOMAIN r : i \in DOMAIN q /\ q[i] = r[i]
  BY DEF IsAppended
<1>3. Len(q) \in DOMAIN q /\ q[Len(q)] = f
  BY DEF IsAppended
<1> QED
  BY <1>1, <1>2, <1>3 DEF HasMeta

LEMMA OffsetsAppended ==
    ASSUME NEW q, NEW r, NEW f, IsAppended(q, r, f), OffsetsOK(r),
           f.type = "ZRPOS" => f.pos = 0
    PROVE  OffsetsOK(q)
<1>1. ASSUME NEW i \in DOMAIN q
      PROVE  (i \in DOMAIN r /\ q[i] = r[i]) \/ q[i] = f
  BY DEF IsAppended
<1> QED
  BY <1>1 DEF OffsetsOK

LEMMA GreetedAppended ==
    ASSUME NEW q, NEW r, NEW f, IsAppended(q, r, f), GreetedLast(r),
           Has(r, "ZRINIT") => f.type # "ZFIN"
    PROVE  GreetedLast(q)
<1> SUFFICES ASSUME NEW i \in DOMAIN q, NEW k \in DOMAIN q,
                    q[i].type = "ZRINIT", k > i
             PROVE  q[k].type # "ZFIN"
  BY DEF GreetedLast
<1>1. i \in DOMAIN r /\ q[i] = r[i] /\ ((k \in DOMAIN r /\ q[k] = r[k]) \/ q[k] = f)
  BY DEF IsAppended
<1> QED
  BY <1>1 DEF GreetedLast, Has

-----------------------------------------------------------------------------
(* The frame that is fed next, and those after it.                         *)

LEMMA PlaceRange ==
    ASSUME NEW q \in Seq(Frames), NEW i \in DOMAIN q, QueueOK(q), Streamed(q[i])
    PROVE  Place(q[i]) \in 0..Total + 1 /\ (q[i].type = "DATA" => Place(q[i]) \in 1..Total)
<1>1. q[i] \in Frames /\ FrameOK(q, i)
  BY DEF QueueOK
<1>2. q[i].type = "DATA" => q[i].body \in Nat
  BY <1>1 DEF Frames, HeaderTypes
<1> QED
  BY <1>1, <1>2, LinkAssumption DEF FrameOK, Streamed, Place, MetaBlock

LEMMA StreamAhead ==
    ASSUME NEW s, NEW b, NEW out, NEW q, NEW r, NEW p, NEW l, IsRest(q, r),
           QueueOK(q), PeerOK(q, p, l), StreamOK(s, b, out, q, p)
    PROVE  /\ Streamed(q[1]) => Taken(s, b, Place(q[1])) /\ Place(q[1]) \in 0..Total + 1
           /\ r # <<>> /\ Streamed(r[1]) => Streamed(q[1]) /\ Place(r[1]) = Place(q[1]) + 1
           /\ Is(p, "sz", "stream") =>
                /\ Streamed(q[1]) /\ p.next \in 1..Total + 1
                /\ r = <<>> => p.next = Place(q[1]) + 1
           /\ q[1].type = "ZEOF" => ~Is(p, "sz", "stream") /\ ~(r # <<>> /\ Streamed(r[1]))
<1>1. /\ Len(r) \in Nat /\ Len(q) = Len(r) + 1 /\ q # <<>> /\ q \in Seq(Frames)
      /\ DOMAIN q = 1..Len(q) /\ DOMAIN r = 1..Len(r)
      /\ (r = <<>>) <=> (Len(r) = 0)
      /\ \A i \in 1..Len(r) : r[i] = q[i + 1]
  BY DEF IsRest
<1>2. 1 \in DOMAIN q
  BY <1>1
<1>3. Streamed(q[1]) => Taken(s, b, Place(q[1])) /\ Place(q[1]) \in 0..Total + 1
  BY <1>1, <1>2, PlaceRange DEF StreamOK
<1>4. ASSUME r # <<>>, Streamed(r[1])
      PROVE  Streamed(q[1]) /\ Place(r[1]) = Place(q[1]) + 1 /\ Place(r[1]) \in 0..Total + 1
  <2>1. 2 \in DOMAIN q /\ r[1] = q[2]
    BY <1>1, <1>4
  <2>2. FrameOK(q, 2)
    BY <2>1 DEF QueueOK
  <2>3. Place(q[2]) \in 0..Total + 1
    BY <1>1, <1>4, <2>1, PlaceRange
  <2>4. 1 \in 1..2 /\ 2 > 1 /\ 2 - 1 = 1
    OBVIOUS
  <2> QED
    BY <1>4, <2>1, <2>2, <2>3, <2>4 DEF FrameOK
<1>5. ASSUME Is(p, "sz", "stream")
      PROVE  Streamed(q[1]) /\ p.next \in 1..Total + 1 /\ (r = <<>> => p.next = Place(q[1]) + 1)
  <2>1. p.next \in 1..Total + 1 /\ Streamed(q[Len(q)]) /\ p.next = Place(q[Len(q)]) + 1
    BY <1>1, <1>5 DEF PeerOK
  <2>2. Len(q) \in DOMAIN q
    BY <1>1
  <2>3. Streamed(q[1])
    BY <1>1, <2>1, <2>2 DEF QueueOK, FrameOK
  <2> QED
    BY <1>1, <2>1, <2>3
<1>6. ASSUME q[1].type = "ZEOF"
      PROVE  ~Is(p, "sz", "stream") /\ ~(r # <<>> /\ Streamed(r[1]))
  <2>1. Place(q[1]) = Total + 1
    BY <1>6 DEF Place
  <2>2. ~(r # <<>> /\ Streamed(r[1]))
    BY <1>4, <2>1, LinkAssumption
  <2>3. ASSUME Is(p, "sz", "stream")
        PROVE  FALSE
    <3>1. p.next \in 1..Total + 1 /\ Streamed(q[Len(q)])
      BY <1>1, <2>3 DEF PeerOK
    <3>2. r # <<>>
      BY <1>5, <2>1, <2>3, LinkAssumption
    <3>3. 2 \in 1..Len(q) /\ r[1] = q[2] /\ Len(q) \in DOMAIN q
      BY <1>1, <3>2
    <3>4. Streamed(r[1])
      BY <3>1, <3>3 DEF QueueOK, FrameOK
    <3> QED
      BY <2>2, <3>2, <3>4
  <2> QED
    BY <2>2, <2>3
<1> QED
  BY <1>3, <1>4, <1>5, <1>6

LEMMA MetaAhead ==
    ASSUME NEW q, NEW r, NEW p, NEW l, IsRest(q, r), QueueOK(q), PeerOK(q, p, l)
    PROVE  /\ q[1].type = "ZFILE" => r # <<>> /\ IsMetaFrame(r[1]) /\ JunkAfter(r, 1)
                                      /\ (p.prog = "shell" \/ Is(p, "sz", "asked"))
           /\ q[1].type # "ZFILE" => ~(r # <<>> /\ IsMetaFrame(r[1]))
           /\ OpensDialog(q[1]) => AllJunk(r)
           /\ IsMetaFrame(q[1]) =>
                q[1].end = "AckEnd" /\ (p.prog = "shell" \/ Is(p, "sz", "asked"))
           /\ q[1].type = "ZRINIT" => p.prog = "shell" \/ Is(p, "rz", "start")
           /\ q[1].type = "ZSKIP" => AllJunk(r) /\ l /\ Idle(p)
           /\ q[1].type = "DATA" /\ ~IsMetaFrame(q[1]) =>
                /\ q[1].body \in 1..Total
                /\ q[1].end \in {"End", "AckEnd"} <=> q[1].body = Total
<1>1. /\ Len(r) \in Nat /\ Len(q) = Len(r) + 1 /\ q # <<>>
      /\ DOMAIN q = 1..Len(q) /\ DOMAIN r = 1..Len(r)
      /\ (r = <<>>) <=> (Len(r) = 0)
      /\ \A i \in 1..Len(r) : r[i] = q[i + 1]
      /\ q[1] \in Frames
  BY DEF IsRest
<1>2. 1 \in DOMAIN q /\ FrameOK(q, 1)
  BY <1>1 DEF QueueOK
<1>3. JunkAfter(q, 1) => AllJunk(r)
  BY <1>1 DEF JunkAfter, AllJunk
<1>4. /\ OpensDialog(q[1]) => AllJunk(r)
      /\ IsMetaFrame(q[1]) => p.prog = "shell" \/ Is(p, "sz", "asked")
      /\ q[1].type = "ZRINIT" => p.prog = "shell" \/ Is(p, "rz", "start")
      /\ q[1].type = "ZSKIP" => AllJunk(r) /\ l /\ Idle(p)
  BY <1>2, <1>3 DEF FrameOK, PeerOK
<1>5. IsMetaFrame(q[1]) => q[1].end = "AckEnd"
  BY <1>2 DEF FrameOK, IsMetaFrame
<1>6. ASSUME q[1].type = "ZFILE"
      PROVE  r # <<>> /\ IsMetaFrame(r[1]) /\ JunkAfter(r, 1)
             /\ (p.prog = "shell" \/ Is(p, "sz", "asked"))
  <2>1. 1 < Len(q) /\ IsMetaFrame(q[2])
    BY <1>2, <1>6 DEF FrameOK
  <2>2. r # <<>> /\ r[1] = q[2] /\ 2 \in DOMAIN q /\ 1 \in DOMAIN r
    BY <1>1, <2>1
  <2>3. JunkAfter(q, 2)
    BY <2>1, <2>2 DEF QueueOK, FrameOK, OpensDialog
  <2>4. JunkAfter(r, 1)
    BY <1>1, <2>3 DEF JunkAfter
  <2> QED
    BY <2>1, <2>2, <2>4 DEF PeerOK
<1>7. ASSUME q[1].type # "ZFILE", r # <<>>, IsMetaFrame(r[1])
      PROVE  FALSE
  <2>1. r[1] = q[2] /\ 2 \in DOMAIN q /\ 2 > 1 /\ 2 - 1 = 1
    BY <1>1, <1>7
  <2>2. FrameOK(q, 2)
    BY <2>1 DEF QueueOK
  <2> QED
    BY <1>7, <2>1, <2>2 DEF FrameOK
<1>8. ASSUME q[1].type = "DATA", ~IsMetaFrame(q[1])
      PROVE  /\ q[1].body \in 1..Total
             /\ q[1].end \in {"End", "AckEnd"} <=> q[1].body = Total
  <2>1. q[1].body \in Nat
    BY <1>1, <1>8 DEF Frames, HeaderTypes
  <2> QED
    BY <1>2, <1>8, <2>1, LinkAssumption DEF FrameOK, IsMetaFrame, MetaBlock
<1> QED
  BY <1>4, <1>5, <1>6, <1>7, <1>8

LEMMA ExpectedAhead ==
    ASSUME NEW s, NEW q, NEW r, IsRest(q, r), MetaExpected(s, q)
    PROVE  /\ IsMetaFrame(q[1]) => s.phase = "AwaitSavePath" /\ Fresh(s)
           /\ HasMeta(r) => s.phase = "AwaitFile"
<1>1. \A i \in DOMAIN r : i + 1 \in DOMAIN q /\ i + 1 # 1 /\ r[i] = q[i + 1]
  BY DEF IsRest
<1>2. 1 \in DOMAIN q
  BY DEF IsRest
<1> QED
  BY <1>1, <1>2 DEF MetaExpected, HasMeta

LEMMA NoneExpected ==
    ASSUME NEW s, NEW q, ~HasMeta(q) \/ AllJunk(q)
    PROVE  MetaExpected(s, q) /\ ~HasMeta(q)
BY DEF MetaExpected, HasMeta, AllJunk, Junk, IsMetaFrame

LEMMA LaterExpected ==
    ASSUME NEW s, NEW q, s.phase = "AwaitFile", q # <<>> => ~IsMetaFrame(q[1]), q \in Seq(Frames)
    PROVE  MetaExpected(s, q)
<1>1. \A i \in DOMAIN q : i = 1 => q # <<>>
  OBVIOUS
<1> QED
  BY <1>1 DEF MetaExpected

LEMMA NextExpected ==
    ASSUME NEW s, NEW q, s.phase = "AwaitSavePath", Fresh(s), JunkAfter(q, 1), q \in Seq(Frames)
    PROVE  MetaExpected(s, q)
<1>1. ASSUME NEW i \in DOMAIN q, IsMetaFrame(q[i])
      PROVE  i = 1
  <2>1. ~Junk(q[i])
    BY <1>1 DEF Junk, IsMetaFrame
  <2>2. i \in Nat /\ i >= 1
    OBVIOUS
  <2> QED
    BY <2>1, <2>2 DEF JunkAfter
<1> QED
  BY <1>1 DEF MetaExpected

LEMMA FinRest ==
    ASSUME NEW s, NEW b, NEW s1, NEW b1, NEW q, NEW r, IsRest(q, r), FinExpected(s, b, q),
           b.writer = NoFile => b1.writer = NoFile
    PROVE  /\ FinExpected(s1, b1, r)
           /\ q[1].type = "ZRQINIT" => ~Has(r, "ZFIN")
<1>1. \A i \in DOMAIN r : i + 1 \in DOMAIN q /\ i + 1 > 1 /\ r[i] = q[i + 1]
  BY DEF IsRest
<1>2. ASSUME NEW i \in DOMAIN r, r[i].type = "ZFIN"
      PROVE  b.writer = NoFile /\ (\A k \in 1..i : r[k].type # "ZRQINIT") /\ q[1].type # "ZRQINIT"
  <2>1. /\ i + 1 \in DOMAIN q /\ i + 1 > 1 /\ r[i] = q[i + 1] /\ i \in Nat
        /\ DOMAIN r = 1..Len(r) /\ Len(r) \in Nat
    BY <1>1 DEF IsRest
  <2>2. b.writer = NoFile /\ \A k \in 1..i + 1 : q[k].type # "ZRQINIT"
    BY <1>2, <2>1 DEF FinExpected
  <2>3. \A k \in 1..i : k + 1 \in 1..i + 1 /\ r[k] = q[k + 1]
    BY <2>1 DEF IsRest
  <2>4. 1 \in 1..i + 1
    BY <2>1
  <2> QED
    BY <2>2, <2>3, <2>4
<1> QED
  BY <1>2 DEF FinExpected, Has

-----------------------------------------------------------------------------
(* One frame keeps the invariant.                                          *)

Sent(s, s1, out, out1) ==
    \E o \in Seq(Frames) : out = o \o s.to_pty /\ out1 = o \o s1.to_pty

\* Appending to the end of a concatenation.
AtTheEnd(o, t, x) == o \o Append(t, x) = Append(o \o t, x)

LEMMA AtTheEndHolds ==
    ASSUME NEW S, NEW o \in Seq(S), NEW t \in Seq(S), NEW x \in S
    PROVE  AtTheEnd(o, t, x)
BY DEF AtTheEnd

LEMMA SentNone ==
    ASSUME NEW s, NEW s1, NEW out, NEW out1, Sent(s, s1, out, out1), Silent(s, s1)
    PROVE  out1 = out
BY DEF Sent, Silent

LEMMA SentOne ==
    ASSUME NEW s \in Feeding, NEW s1, NEW out, NEW out1, NEW f \in Frames,
           Sent(s, s1, out, out1), Answered(s, s1, f)
    PROVE  IsAppended(out1, out, f)
<1>1. PICK o \in Seq(Frames) : out = o \o s.to_pty /\ out1 = o \o s1.to_pty
  BY DEF Sent
<1>2. s.to_pty \in Seq(Frames) /\ s1.to_pty = Append(s.to_pty, f)
  BY DEF Feeding, Answered
<1>3. AtTheEnd(o, s.to_pty, f)
  BY <1>2, AtTheEndHolds
<1>4. out \in Seq(Frames) /\ out1 = Append(out, f)
  BY <1>1, <1>2, <1>3 DEF AtTheEnd
<1> QED
  BY <1>4, AppendedIs

LEMMA SentTwo ==
    ASSUME NEW s \in Feeding, NEW s1, NEW out, NEW out1, NEW f \in Frames, NEW h \in Frames,
           Sent(s, s1, out, out1), s1.to_pty = Append(Append(s.to_pty, f), h)
    PROVE  IsAppended(Append(out, f), out, f) /\ IsAppended(out1, Append(out, f), h)
<1>1. PICK o \in Seq(Frames) : out = o \o s.to_pty /\ out1 = o \o s1.to_pty
  BY DEF Sent
<1> DEFINE t == Append(s.to_pty, f)
<1>2. s.to_pty \in Seq(Frames) /\ t \in Seq(Frames) /\ out \in Seq(Frames)
  BY <1>1 DEF Feeding
<1>3. AtTheEnd(o, s.to_pty, f)
  BY <1>2, AtTheEndHolds
<1>4. AtTheEnd(o, t, h)
  <2> HIDE DEF t
  <2> QED
    BY <1>2, AtTheEndHolds
<1>5. out1 = Append(Append(out, f), h) /\ Append(out, f) \in Seq(Frames)
  BY <1>1, <1>2, <1>3, <1>4 DEF AtTheEnd
<1> QED
  BY <1>2, <1>5, AppendedIs

\* What follows for the frame q[1] that is fed and the rest r.
Ahead(s, b, g, out, q, r, p, l) ==
    /\ QueueOK(r) /\ PeerOK(r, p, l)
    /\ Streamed(q[1]) => Taken(s, b, Place(q[1])) /\ Place(q[1]) \in 0..Total + 1
    /\ r # <<>> /\ Streamed(r[1]) => Streamed(q[1]) /\ Place(r[1]) = Place(q[1]) + 1
    /\ Is(p, "sz", "stream") =>
         /\ Streamed(q[1]) /\ p.next \in 1..Total + 1
         /\ r = <<>> => p.next = Place(q[1]) + 1
    /\ q[1].type = "ZEOF" => ~Is(p, "sz", "stream") /\ ~(r # <<>> /\ Streamed(r[1]))
    /\ q[1].type = "ZFILE" =>
         /\ r # <<>> /\ IsMetaFrame(r[1]) /\ JunkAfter(r, 1)
         /\ p.prog = "shell" \/ Is(p, "sz", "asked")
    /\ q[1].type # "ZFILE" => ~(r # <<>> /\ IsMetaFrame(r[1]))
    /\ OpensDialog(q[1]) => AllJunk(r)
    /\ IsMetaFrame(q[1]) => q[1].end = "AckEnd" /\ (p.prog = "shell" \/ Is(p, "sz", "asked"))
    /\ q[1].type = "ZRINIT" => p.prog = "shell" \/ Is(p, "rz", "start")
    /\ q[1].type = "ZSKIP" => AllJunk(r) /\ l /\ Idle(p)
    /\ q[1].type = "DATA" /\ ~IsMetaFrame(q[1]) =>
         /\ q[1].body \in 1..Total
         /\ q[1].end \in {"End", "AckEnd"} <=> q[1].body = Total
    /\ AllJunk(q) => AllJunk(r) /\ Junk(q[1])
    /\ b.writer # NoFile =>
         /\ IsMetaFrame(q[1]) => s.phase = "AwaitSavePath" /\ Fresh(s)
         /\ HasMeta(r) => s.phase = "AwaitFile"
    /\ Is(p, "sz", "asked") => ~Has(out, "ZRPOS") /\ ~Has(r, "ZFIN") /\ ~Has(q, "ZFIN")
                               /\ ~Has(out, "ZFIN") /\ ~Streamed(q[1])
    /\ Is(p, "rz", "start") => ~HasMeta(out)
    /\ Is(p, "rz", "data") =>
         /\ r = <<>> /\ out = <<>> /\ IsPrefixOfFile(p.got) /\ b.save = 0 /\ b.open = 0
         /\ s.detector = "idle"
         /\ \/ /\ q[1] = Header("ZRPOS", 0) /\ s.phase = "AwaitRpos"
               /\ p.got = <<>> /\ ~p.inFrame
            \/ /\ q[1] = Header("ZACK", 0) /\ s.phase = "Sending"
               /\ s.send_offset = Len(p.got) /\ s.send_offset <= s.payload
    /\ q[1].type = "ZFIN" =>
         /\ Has(q, "ZFIN") /\ (b.writer = NoFile \/ s.direction = "Send")
    /\ q[1].type = "ZRQINIT" => Has(q, "ZRQINIT") /\ ~Has(r, "ZFIN")
    /\ Has(r, "ZFIN") => Has(q, "ZFIN")
    /\ Has(r, "ZRQINIT") => Has(q, "ZRQINIT")

LEMMA AheadHolds ==
    ASSUME NEW s, NEW b, NEW g, NEW out, NEW q, NEW r, NEW p, NEW l,
           Good(s, b, g, out, q, p, l), IsRest(q, r)
    PROVE  Ahead(s, b, g, out, q, r, p, l)
<1>1. QueueOK(r) /\ PeerOK(r, p, l)
  BY QueueRest, PeerRest DEF Good
<1>2. QueueOK(q) /\ PeerOK(q, p, l) /\ StreamOK(s, b, out, q, p)
  BY DEF Good
<1>3. 1 \in DOMAIN q /\ q # <<>> /\ r \in Seq(Frames)
  BY DEF IsRest
<1>4. AllJunk(q) => AllJunk(r) /\ Junk(q[1])
  BY JunkRest
<1>5. b.writer # NoFile =>
         /\ IsMetaFrame(q[1]) => s.phase = "AwaitSavePath" /\ Fresh(s)
         /\ HasMeta(r) => s.phase = "AwaitFile"
  <2>1. b.writer # NoFile => MetaExpected(s, q)
    BY DEF Good, WriterOK
  <2> QED
    BY <2>1, ExpectedAhead
<1>6. (Has(r, "ZFIN") => Has(q, "ZFIN")) /\ (Has(r, "ZRQINIT") => Has(q, "ZRQINIT"))
  BY HasRest
<1>7. Is(p, "sz", "asked") => ~Has(out, "ZRPOS") /\ ~Has(r, "ZFIN") /\ ~Has(q, "ZFIN")
                              /\ ~Has(out, "ZFIN") /\ ~Streamed(q[1])
  BY <1>2, <1>3, <1>6 DEF StreamOK, Good, EndingOK
<1>8. Is(p, "rz", "start") => ~HasMeta(out)
  BY <1>3 DEF Good, UploadOK
<1>9. ASSUME Is(p, "rz", "data")
      PROVE  /\ r = <<>> /\ out = <<>> /\ IsPrefixOfFile(p.got) /\ b.save = 0 /\ b.open = 0
             /\ s.detector = "idle"
             /\ \/ /\ q[1] = Header("ZRPOS", 0) /\ s.phase = "AwaitRpos"
                   /\ p.got = <<>> /\ ~p.inFrame
                \/ /\ q[1] = Header("ZACK", 0) /\ s.phase = "Sending"
                   /\ s.send_offset = Len(p.got) /\ s.send_offset <= s.payload
  <2>1. /\ IsPrefixOfFile(p.got) /\ b.save = 0 /\ b.open = 0
        /\ \/ /\ q = <<Header("ZRPOS", 0)>> /\ out = <<>>
              /\ s.phase = "AwaitRpos" /\ p.got = <<>> /\ ~p.inFrame
           \/ /\ q = <<Header("ZACK", 0)>> /\ out = <<>>
              /\ s.phase = "Sending" /\ s.send_offset = Len(p.got)
              /\ s.send_offset <= s.payload
    BY <1>3, <1>9 DEF Good, UploadOK
  <2>2. \A x : q = <<x>> => r = <<>> /\ q[1] = x
    BY DEF IsRest
  <2>3. q[1].type # "DATA" /\ s.phase # "Receiving"
    BY <2>1, <2>2 DEF Header
  <2>4. s.detector = "idle"
    BY <2>3 DEF Good, DetectorOK, IsMetaFrame, Typed, Feeding
  <2> QED
    BY <2>1, <2>2, <2>4
<1>10. FinExpected(s, b, q)
  BY DEF Good, EndingOK
<1>11. q[1].type = "ZFIN" => Has(q, "ZFIN") /\ (b.writer = NoFile \/ s.direction = "Send")
  BY <1>3, <1>10 DEF FinExpected, Has
<1>12. q[1].type = "ZRQINIT" => Has(q, "ZRQINIT") /\ ~Has(r, "ZFIN")
  <2>1. q[1].type = "ZRQINIT" => ~Has(r, "ZFIN")
    BY <1>10, FinRest
  <2> QED
    BY <1>3, <2>1 DEF Has
<1>13. /\ Streamed(q[1]) => Taken(s, b, Place(q[1])) /\ Place(q[1]) \in 0..Total + 1
       /\ r # <<>> /\ Streamed(r[1]) => Streamed(q[1]) /\ Place(r[1]) = Place(q[1]) + 1
       /\ Is(p, "sz", "stream") =>
            /\ Streamed(q[1]) /\ p.next \in 1..Total + 1
            /\ r = <<>> => p.next = Place(q[1]) + 1
       /\ q[1].type = "ZEOF" => ~Is(p, "sz", "stream") /\ ~(r # <<>> /\ Streamed(r[1]))
  BY <1>2, StreamAhead
<1>14. /\ q[1].type = "ZFILE" =>
            /\ r # <<>> /\ IsMetaFrame(r[1]) /\ JunkAfter(r, 1)
            /\ p.prog = "shell" \/ Is(p, "sz", "asked")
       /\ q[1].type # "ZFILE" => ~(r # <<>> /\ IsMetaFrame(r[1]))
       /\ OpensDialog(q[1]) => AllJunk(r)
       /\ IsMetaFrame(q[1]) =>
            q[1].end = "AckEnd" /\ (p.prog = "shell" \/ Is(p, "sz", "asked"))
       /\ q[1].type = "ZRINIT" => p.prog = "shell" \/ Is(p, "rz", "start")
       /\ q[1].type = "ZSKIP" => AllJunk(r) /\ l /\ Idle(p)
       /\ q[1].type = "DATA" /\ ~IsMetaFrame(q[1]) =>
            /\ q[1].body \in 1..Total
            /\ q[1].end \in {"End", "AckEnd"} <=> q[1].body = Total
  BY <1>2, MetaAhead
<1> QED
  BY <1>1, <1>4, <1>5, <1>6, <1>7, <1>8, <1>9, <1>11, <1>12, <1>13, <1>14 DEF Ahead

\* The session is s before the frame q[1] is fed, and s1 after.

Moment(s, b, g, out, q, r, p, l, s1, out1) ==
    /\ Good(s, b, g, out, q, p, l) /\ IsRest(q, r)
    /\ s1 \in Feeding /\ Sent(s, s1, out, out1)

LEMMA PassesKeeps ==
    ASSUME NEW s, NEW b, NEW g, NEW out, NEW q, NEW r, NEW p, NEW l, NEW s1, NEW out1,
           Moment(s, b, g, out, q, r, p, l, s1, out1), Passes(s, q[1], s1)
    PROVE  Good(s1, b, g, out, r, p, l) /\ out1 = out
<1>1. Good(s, b, g, out, q, p, l) /\ IsRest(q, r) /\ s1 \in Feeding
  BY DEF Moment
<1>2. Ahead(s, b, g, out, q, r, p, l)
  BY <1>1, AheadHolds
<1>3. out1 = out
  BY SentNone DEF Moment, Passes
<1>4. Typed(s1, b, g, out, r, p, l) /\ q # <<>> /\ q[1] \in Frames
  BY <1>1 DEF Good, Typed, IsRest
<1>5. DetectorOK(s, q)
  BY <1>1 DEF Good
<1>6. ~(q[1].type = "DATA" /\ ~IsMetaFrame(q[1]))
  \* A block that is fed is expected by the detector.
  <2>1. q[1].type = "DATA" /\ ~IsMetaFrame(q[1]) => Streamed(q[1]) /\ Place(q[1]) \in 1..Total
    BY <1>2 DEF Ahead, Streamed, Place, IsMetaFrame
  <2> QED
    BY <1>2, <2>1 DEF Ahead, Taken, Passes
<1>7. q[1].type # "ZDATA"
  <2>1. q[1].type = "ZDATA" => Streamed(q[1]) /\ Place(q[1]) = 0
    BY DEF Streamed, Place
  <2> QED
    BY <1>2, <2>1 DEF Ahead, Taken, Passes
<1>8. Streamed(q[1]) => q[1].type = "ZEOF"
  BY <1>6, <1>7 DEF Streamed, IsMetaFrame
<1>9. StreamOK(s1, b, out, r, p)
  BY <1>1, <1>2, <1>4, <1>8 DEF Good, StreamOK, Ahead
<1>10. DetectorOK(s1, r)
  BY <1>2, <1>5 DEF DetectorOK, Ahead, Passes, SameFile, Steady, IsMetaFrame
<1>11. DialogsOK(s1, b, r, p)
  BY <1>1, <1>2 DEF Good, DialogsOK, Ahead, Passes, SameFile, Steady, Fresh, Junk
<1>12. GoneOK(s1, b, g, r)
  BY <1>1, <1>2 DEF Good, GoneOK, Ahead, Passes
<1>13. UploadOK(s1, b, g, out, r, p)
  BY <1>1, <1>2, <1>4 DEF Good, UploadOK, Ahead, Passes, Header
<1>14. WriterOK(s1, b, out, r, p, l)
  <2> SUFFICES ASSUME b.writer # NoFile
               PROVE  WriterOK(s1, b, out, r, p, l)
    BY DEF WriterOK
  <2>1. HasMeta(r) => s1.phase = "AwaitFile" /\ ~(r # <<>> /\ IsMetaFrame(r[1]))
    \* A ZFILE that is not read finds no writer: its metadata would not be expected.
    <3>1. ASSUME q[1].type = "ZFILE"
          PROVE  ~HasMeta(r)
      <4>1. s.detector # "idle"
        BY <3>1 DEF Passes
      <4>2. s.phase = "Receiving"
        BY <1>5, <3>1, <4>1 DEF DetectorOK, Passes, IsMetaFrame
      <4> QED
        BY <1>2, <4>2 DEF Ahead
    <3> QED
      BY <1>2, <3>1 DEF Ahead, Passes
  <2>2. MetaExpected(s1, r)
    BY <1>4, <2>1, NoneExpected, LaterExpected DEF Typed
  <2> QED
    BY <1>1, <1>2, <2>2
       DEF Good, WriterOK, Ahead, Passes, SameFile, Steady, Fresh, End
<1>15. EndingOK(s1, b, out, r, p)
  <2>1. FinExpected(s1, b, r)
    BY <1>1, FinRest DEF Good, EndingOK
  <2> QED
    BY <1>1, <1>2, <2>1, <1>4 DEF Good, EndingOK, Ahead
<1>16. OutcomeOK(s1, b, g, r, p, l)
  BY <1>1, <1>2 DEF Good, OutcomeOK, Ahead, Passes, SameFile, Steady, End
<1> QED
  BY <1>1, <1>2, <1>3, <1>4, <1>9, <1>10, <1>11, <1>12, <1>13, <1>14, <1>15, <1>16
     DEF Good, Ahead

\* What events do to the bridge.
LEMMA RemovedIs ==
    ASSUME NEW b \in Bridges, NEW e \in Events, e.type \in {"Done", "Cancelled"}
    PROVE  LET b1 == dispatch_event(b, e)
           IN  /\ b1 \in Bridges /\ b1.session = NoSession /\ b1.writer = NoFile
               /\ b1.disk = b.disk /\ b1.save = b.save /\ b1.open = b.open
               /\ b1.outcome = [how |-> IF e.type = "Done" THEN e.direction ELSE "Cancelled",
                                path |-> b.writer]
<1> DEFINE h == IF e.type = "Done" THEN e.direction ELSE "Cancelled"
           x == [how |-> h, path |-> b.writer]
           b1 == dispatch_event(b, e)
<1>1. b1 \in Bridges
  BY DispatchType
<1>2. b1 = [b EXCEPT !.session = NoSession, !.writer = NoFile, !.outcome = x]
  BY DEF dispatch_event, Removed
<1> HIDE DEF x, b1
<1>3. /\ b1.session = NoSession /\ b1.writer = NoFile /\ b1.outcome = x
      /\ b1.disk = b.disk /\ b1.save = b.save /\ b1.open = b.open
  BY <1>2 DEF Bridges
<1> QED
  BY <1>1, <1>3 DEF x, b1

LEMMA OfferedIs ==
    ASSUME NEW b \in Bridges
    PROVE  LET b1 == dispatch_event(b, [type |-> "FileOffer"])
           IN  /\ b1 \in Bridges /\ b1.session = b.session /\ b1.writer = b.writer
               /\ b1.disk = b.disk /\ b1.save = b.save + 1 /\ b1.open = b.open
               /\ b1.outcome = NoOutcome
<1> DEFINE n == b.save + 1
           e == [type |-> "FileOffer"]
           b1 == dispatch_event(b, e)
<1>1. b1 \in Bridges
  BY DispatchType DEF Events
<1>2. b1 = [b EXCEPT !.save = n, !.outcome = NoOutcome]
  BY DEF dispatch_event
<1> HIDE DEF n, b1
<1>3. /\ b1.session = b.session /\ b1.writer = b.writer /\ b1.outcome = NoOutcome
      /\ b1.disk = b.disk /\ b1.save = n /\ b1.open = b.open
  BY <1>2 DEF Bridges
<1> QED
  BY <1>1, <1>3 DEF n, b1

LEMMA AskedIs ==
    ASSUME NEW b \in Bridges
    PROVE  LET b1 == dispatch_event(b, [type |-> "SendOffered"])
           IN  /\ b1 \in Bridges /\ b1.session = b.session /\ b1.writer = b.writer
               /\ b1.disk = b.disk /\ b1.save = b.save /\ b1.open = b.open + 1
               /\ b1.outcome = b.outcome
<1> DEFINE n == b.open + 1
           e == [type |-> "SendOffered"]
           b1 == dispatch_event(b, e)
<1>1. b1 \in Bridges
  BY DispatchType DEF Events
<1>2. b1 = [b EXCEPT !.open = n]
  BY DEF dispatch_event
<1> HIDE DEF n, b1
<1>3. /\ b1.session = b.session /\ b1.writer = b.writer /\ b1.outcome = b.outcome
      /\ b1.disk = b.disk /\ b1.save = b.save /\ b1.open = n
  BY <1>2 DEF Bridges
<1> QED
  BY <1>1, <1>3 DEF n, b1

LEMMA WrittenIs ==
    ASSUME NEW b \in Bridges, NEW n \in Nat
    PROVE  LET b1 == dispatch_event(b, [type |-> "DataReceived", body |-> n])
           IN  /\ b1 \in Bridges /\ b1.session = b.session /\ b1.writer = b.writer
               /\ b1.save = b.save /\ b1.open = b.open /\ b1.outcome = b.outcome
               /\ b.writer = NoFile => b1 = b
               /\ b.writer # NoFile =>
                    /\ b.writer \in Paths /\ b.disk[b.writer] \in Seq(Nat)
                    /\ b1.disk[b.writer] = Append(b.disk[b.writer], n)
                    /\ \A x \in Paths : x # b.writer => b1.disk[x] = b.disk[x]
<1> DEFINE e == [type |-> "DataReceived", body |-> n]
           b1 == dispatch_event(b, e)
<1>1. b1 \in Bridges
  BY DispatchType DEF Events
<1>2. CASE b.writer = NoFile
  <2>1. b1 = b
    BY <1>2 DEF dispatch_event
  <2> QED
    BY <1>2, <2>1
<1>3. CASE b.writer # NoFile
  <2> DEFINE y == Append(b.disk[b.writer], n)
             d == [b.disk EXCEPT ![b.writer] = y]
  <2>1. b.writer \in Paths /\ b.disk \in [Paths -> Seq(Nat)]
    BY <1>3 DEF Bridges
  <2>2. b1 = [b EXCEPT !.disk = d]
    BY <1>3 DEF dispatch_event
  <2>3. d[b.writer] = y /\ \A x \in Paths : x # b.writer => d[x] = b.disk[x]
    BY <2>1
  <2> HIDE DEF d, b1
  <2>4. /\ b1.session = b.session /\ b1.writer = b.writer /\ b1.outcome = b.outcome
        /\ b1.disk = d /\ b1.save = b.save /\ b1.open = b.open
    BY <2>2 DEF Bridges
  <2> QED
    BY <1>1, <1>3, <2>1, <2>3, <2>4 DEF b1
<1> QED
  BY <1>2, <1>3

LEMMA UnseenIs ==
    ASSUME NEW b
    PROVE  /\ dispatch_event(b, Nothing) = b
           /\ dispatch_event(b, [type |-> "ReceiveOffered"]) = b
           /\ dispatch_event(b, [type |-> "Skipped"]) = b
BY DEF dispatch_event, Nothing

Over(g, e) == g \/ e.type \in {"Done", "Cancelled"}

\* After the end of a transfer there is no writer.
LEMMA EndedKeeps ==
    ASSUME NEW s, NEW b, NEW g, NEW out, NEW q, NEW r, NEW p, NEW l, NEW s1, NEW out1,
           NEW e \in Events,
           Moment(s, b, g, out, q, r, p, l, s1, out1),
           e.type \in {"Done", "Cancelled"}, s1.phase \in Dead, s1.detector = "idle",
           q[1].type \in {"CAN", "ZEOF", "ZFIN"},
           \/ out1 = out
           \/ IsAppended(out1, out, Header("ZFIN", 0)) /\ q[1].type \in {"ZEOF", "ZFIN"},
           e.type = "Done" => q[1].type \in {"ZEOF", "ZFIN"}
    PROVE  Good(s1, dispatch_event(b, e), TRUE, out1, r, p, l)
<1> DEFINE b1 == dispatch_event(b, e)
<1>1. Good(s, b, g, out, q, p, l) /\ IsRest(q, r) /\ s1 \in Feeding
  BY DEF Moment
<1>2. Ahead(s, b, g, out, q, r, p, l)
  BY <1>1, AheadHolds
<1>3. /\ b1 \in Bridges /\ b1.writer = NoFile
      /\ b1.disk = b.disk /\ b1.save = b.save /\ b1.open = b.open
      /\ b1.outcome.how = IF e.type = "Done" THEN e.direction ELSE "Cancelled"
  <2>1. b \in Bridges
    BY <1>1 DEF Good, Typed
  <2> DEFINE x == [how |-> IF e.type = "Done" THEN e.direction ELSE "Cancelled", path |-> b.writer]
  <2>2. /\ b1 \in Bridges /\ b1.writer = NoFile
        /\ b1.disk = b.disk /\ b1.save = b.save /\ b1.open = b.open
        /\ b1.outcome = x
    BY <2>1, RemovedIs
  <2>3. x.how = IF e.type = "Done" THEN e.direction ELSE "Cancelled"
    OBVIOUS
  <2> HIDE DEF x, b1
  <2> QED
    BY <2>2, <2>3
<1> HIDE DEF b1
<1>4. /\ out1 \in Seq(Frames) /\ q # <<>> /\ q[1] \in Frames
      /\ Has(out1, "ZRPOS") <=> Has(out, "ZRPOS")
      /\ Has(out1, "ZRINIT") <=> Has(out, "ZRINIT")
      /\ HasMeta(out1) <=> HasMeta(out)
      /\ OffsetsOK(out1)
      /\ Has(out1, "ZFIN") => Has(out, "ZFIN") \/ q[1].type \in {"ZEOF", "ZFIN"}
  <2>1. OffsetsOK(out) /\ out \in Seq(Frames) /\ q # <<>> /\ q[1] \in Frames
    BY <1>1 DEF Good, StreamOK, Typed, IsRest
  <2>2. CASE out1 = out
    BY <2>1, <2>2
  <2>3. CASE IsAppended(out1, out, Header("ZFIN", 0)) /\ q[1].type \in {"ZEOF", "ZFIN"}
    <3> DEFINE f == Header("ZFIN", 0)
    <3>1. f.type = "ZFIN"
      BY DEF Header
    <3>2. ~IsMetaFrame(f)
      BY <3>1 DEF IsMetaFrame
    <3>3. out1 \in Seq(Frames)
      BY <2>3 DEF IsAppended
    <3> HIDE DEF f
    <3>4. IsAppended(out1, out, f)
      BY <2>3 DEF f
    <3>5. OffsetsOK(out1)
      BY <2>1, <3>1, <3>4, OffsetsAppended
    <3>6. HasMeta(out1) <=> HasMeta(out)
      BY <3>2, <3>4, MetaAppended
    <3>7. \A t : Has(out1, t) <=> (Has(out, t) \/ f.type = t)
      BY <3>4, HasAppended
    <3> QED
      BY <2>1, <2>3, <3>1, <3>3, <3>5, <3>6, <3>7
  <2> QED
    BY <2>2, <2>3
<1>5. Typed(s1, b1, TRUE, out1, r, p, l)
  BY <1>1, <1>3, <1>4 DEF Good, Typed, IsRest
<1>6. ~(r # <<>> /\ Streamed(r[1])) /\ ~Is(p, "sz", "stream")
  BY <1>2 DEF Ahead, Streamed
<1>7. ~Is(p, "rz", "data")
  BY <1>2 DEF Ahead, Header
<1>8. StreamOK(s1, b1, out1, r, p)
  BY <1>1, <1>2, <1>4, <1>6 DEF Good, StreamOK, Ahead
<1>9. WriterOK(s1, b1, out1, r, p, l)
  BY <1>3 DEF WriterOK
<1>10. DetectorOK(s1, r)
  BY DEF DetectorOK, Dead
<1>11. DialogsOK(s1, b1, r, p)
  BY <1>1, <1>2, <1>3 DEF Good, DialogsOK, Ahead
<1>12. GoneOK(s1, b1, TRUE, r)
  BY <1>3 DEF GoneOK
<1>13. UploadOK(s1, b1, TRUE, out1, r, p)
  BY <1>2, <1>4, <1>7 DEF UploadOK, Ahead
<1>14. DiskOK(b1)
  BY <1>1, <1>3 DEF Good, DiskOK
<1>15. EndingOK(s1, b1, out1, r, p)
  <2>1. FinExpected(s1, b1, r)
    BY <1>1, <1>3, FinRest DEF Good, EndingOK
  <2>2. ASSUME Is(p, "sz", "start"), Has(out1, "ZRINIT")
        PROVE  ~Has(r, "ZFIN") /\ GreetedLast(out1)
    <3>1. /\ ~Has(q, "ZFIN") /\ ~Streamed(q[1]) /\ GreetedLast(out)
      BY <1>1, <1>4, <2>2 DEF Good, EndingOK
    <3>2. q[1].type \notin {"ZFIN", "ZEOF"}
      BY <1>2, <3>1 DEF Ahead, Streamed
    <3> QED
      BY <1>2, <3>1, <3>2 DEF Ahead
  <2>3. ASSUME Is(p, "sz", "asked")
        PROVE  ~Has(r, "ZFIN") /\ ~Has(out1, "ZFIN")
    BY <1>2, <1>4, <2>3 DEF Ahead, Streamed
  <2> QED
    BY <1>1, <1>2, <1>3, <1>6, <2>1, <2>2, <2>3 DEF Good, EndingOK, Ahead
<1>16. OutcomeOK(s1, b1, TRUE, r, p, l)
  BY <1>1, <1>2, <1>3 DEF Good, OutcomeOK, Ahead, Dead, DialogsOK, Junk
<1> QED
  BY <1>2, <1>5, <1>8, <1>9, <1>10, <1>11, <1>12, <1>13, <1>14, <1>15, <1>16
     DEF Good, Ahead, b1

LEMMA CancelsKeeps ==
    ASSUME NEW s, NEW b, NEW g, NEW out, NEW q, NEW r, NEW p, NEW l, NEW s1, NEW out1,
           Moment(s, b, g, out, q, r, p, l, s1, out1), Cancels(s, q[1], s1)
    PROVE  Good(s1, dispatch_event(b, [type |-> "Cancelled"]), TRUE, out1, r, p, l)
<1>1. [type |-> "Cancelled"] \in Events
  BY DEF Events
<1>2. out1 = out
  BY SentNone DEF Moment, Cancels
<1>3. s1.phase \in Dead /\ s1.detector = "idle" /\ q[1].type = "CAN"
  BY DEF Cancels, Dead
<1> QED
  BY <1>1, <1>2, <1>3, EndedKeeps

LEMMA FinishesKeeps ==
    ASSUME NEW s, NEW b, NEW g, NEW out, NEW q, NEW r, NEW p, NEW l, NEW s1, NEW out1,
           Moment(s, b, g, out, q, r, p, l, s1, out1), Finishes(s, q[1], s1)
    PROVE  \E d \in Directions :
             /\ Reported(s, s1, [type |-> "Done", direction |-> d])
             /\ Good(s1, dispatch_event(b, [type |-> "Done", direction |-> d]), TRUE, out1, r, p, l)
             /\ (q[1].type = "ZEOF" /\ d = "Receive") \/ (q[1].type = "ZFIN" /\ d = s.direction)
<1>1. s \in Feeding /\ s.direction \in Directions /\ "Receive" \in Directions
  BY DEF Moment, Good, Typed, Feeding, Directions
<1>2. PICK d \in Directions :
          /\ Reported(s, s1, [type |-> "Done", direction |-> d])
          /\ (q[1].type = "ZEOF" /\ d = "Receive") \/ (q[1].type = "ZFIN" /\ d = s.direction)
  <2>1. CASE q[1].type = "ZEOF"
    BY <1>1, <2>1 DEF Finishes
  <2>2. CASE q[1].type = "ZFIN"
    BY <1>1, <2>2 DEF Finishes
  <2> QED
    BY <2>1, <2>2 DEF Finishes
<1>3. s1.phase \in Dead /\ s1.detector = "idle"
  BY DEF Finishes, Dead, Reads
<1>4. Header("ZFIN", 0) \in Frames
  BY HeaderType DEF HeaderTypes
<1>5. out1 = out \/ IsAppended(out1, out, Header("ZFIN", 0))
  BY <1>1, <1>4, SentNone, SentOne DEF Moment, Finishes
<1> DEFINE e == [type |-> "Done", direction |-> d]
<1>6. e \in Events /\ e.type = "Done"
  BY DEF Events
<1> HIDE DEF e
<1>7. Good(s1, dispatch_event(b, e), TRUE, out1, r, p, l)
  BY <1>2, <1>3, <1>5, <1>6, EndedKeeps
<1> QED
  BY <1>2, <1>7 DEF e

\* The metadata: the user is asked where to save.
LEMMA OffersKeeps ==
    ASSUME NEW s, NEW b, NEW g, NEW out, NEW q, NEW r, NEW p, NEW l, NEW s1, NEW out1,
           Moment(s, b, g, out, q, r, p, l, s1, out1), Offers(s, q[1], s1)
    PROVE  Good(s1, dispatch_event(b, [type |-> "FileOffer"]), g, out1, r, p, l)
<1> DEFINE b1 == dispatch_event(b, [type |-> "FileOffer"])
<1>1. Good(s, b, g, out, q, p, l) /\ IsRest(q, r) /\ s1 \in Feeding
  BY DEF Moment
<1>2. Ahead(s, b, g, out, q, r, p, l)
  BY <1>1, AheadHolds
<1>3. out1 = out
  BY SentNone DEF Moment, Offers
<1>4. b \in Bridges /\ q # <<>> /\ out \in Seq(Frames) /\ b.save \in Nat /\ b.open \in Nat
  BY <1>1 DEF Good, Typed, IsRest, Bridges
<1>5. /\ b1 \in Bridges /\ b1.writer = b.writer /\ b1.disk = b.disk
      /\ b1.save = b.save + 1 /\ b1.open = b.open /\ b1.outcome = NoOutcome
  BY <1>4, OfferedIs
<1> HIDE DEF b1
<1>6. IsMetaFrame(q[1])
  <2>1. ~s.named
    BY DEF Offers
  <2>2. s.phase # "Receiving"
    BY <1>1, <2>1 DEF Good, DetectorOK
  <2>3. ~Streamed(q[1])
    BY <1>2, <2>2 DEF Ahead, Taken
  <2> QED
    BY <2>3 DEF Offers, Streamed, IsMetaFrame
<1>7. /\ s.phase = "AwaitSavePath" /\ s1.phase = "AwaitSavePath" /\ s1.named
      /\ s1.detector = "idle" /\ AllJunk(r) /\ ~AllJunk(q)
      /\ (p.prog = "shell" \/ Is(p, "sz", "asked")) /\ b.save = 0 /\ b.open = 0
  <2>1. AllJunk(r) /\ q[1].end = "AckEnd" /\ (p.prog = "shell" \/ Is(p, "sz", "asked"))
    BY <1>2, <1>6 DEF Ahead, OpensDialog
  <2>2. ~AllJunk(q)
    BY <1>2, <1>6 DEF Ahead, Junk, IsMetaFrame
  <2>3. ~(b.save > 0) /\ ~(b.open > 0)
    BY <1>1, <2>2 DEF Good, DialogsOK
  <2>4. s.phase = "AwaitSavePath"
    BY <1>1 DEF Offers, Good, DetectorOK
  <2> QED
    BY <1>4, <2>1, <2>2, <2>3, <2>4 DEF Offers, After
<1>8. Typed(s1, b1, g, out, r, p, l)
  BY <1>1, <1>4, <1>5 DEF Good, Typed, IsRest
<1>9. ~(r # <<>> /\ Streamed(r[1])) /\ ~Is(p, "sz", "stream") /\ ~Is(p, "sz", "start")
      /\ ~Is(p, "rz", "start") /\ ~Is(p, "rz", "data") /\ ~Is(p, "sz", "ended")
  BY <1>2, <1>6, <1>7 DEF Ahead, Streamed, Is, IsMetaFrame
<1>10. StreamOK(s1, b1, out, r, p)
  BY <1>1, <1>2, <1>9 DEF Good, StreamOK, Ahead
<1>11. b.writer # NoFile => b.disk[b.writer] = <<>>
  BY <1>1, <1>7 DEF Good, WriterOK, End
<1>12. WriterOK(s1, b1, out, r, p, l)
  <2>1. MetaExpected(s1, r)
    BY <1>7, NoneExpected
  <2> QED
    BY <1>5, <1>7, <1>9, <1>11, <2>1 DEF WriterOK
<1>13. DetectorOK(s1, r)
  BY <1>7 DEF DetectorOK
<1>14. DialogsOK(s1, b1, r, p)
  BY <1>5, <1>7, <1>11 DEF DialogsOK
<1>15. GoneOK(s1, b1, g, r)
  BY <1>1, <1>5, <1>7 DEF Good, GoneOK, Dead
<1>16. UploadOK(s1, b1, g, out, r, p)
  BY <1>9 DEF UploadOK
<1>17. DiskOK(b1)
  BY <1>1, <1>5 DEF Good, DiskOK
<1>18. EndingOK(s1, b1, out, r, p)
  <2>1. FinExpected(s1, b1, r)
    BY <1>1, <1>5, FinRest DEF Good, EndingOK
  <2> QED
    BY <1>2, <1>9, <2>1 DEF EndingOK, Ahead
<1>19. OutcomeOK(s1, b1, g, r, p, l)
  BY <1>5, <1>7 DEF OutcomeOK, NoOutcome
<1> QED
  BY <1>2, <1>3, <1>8, <1>10, <1>12, <1>13, <1>14, <1>15, <1>16, <1>17, <1>18, <1>19
     DEF Good, Ahead, b1

\* What is sent says nothing that the invariant speaks of.
SameTalk(out, out1) ==
    /\ out1 \in Seq(Frames)
    /\ Has(out1, "ZRPOS") <=> Has(out, "ZRPOS")
    /\ Has(out1, "ZRINIT") <=> Has(out, "ZRINIT")
    /\ Has(out1, "ZFIN") <=> Has(out, "ZFIN")
    /\ HasMeta(out1) <=> HasMeta(out)
    /\ OffsetsOK(out) => OffsetsOK(out1)
    /\ GreetedLast(out) => GreetedLast(out1)

LEMMA SameTalkNone ==
    ASSUME NEW out \in Seq(Frames)
    PROVE  SameTalk(out, out)
BY DEF SameTalk

LEMMA SameTalkOne ==
    ASSUME NEW out, NEW out1, NEW f, IsAppended(out1, out, f),
           f.type \notin {"ZRPOS", "ZRINIT", "ZFIN"}, ~IsMetaFrame(f)
    PROVE  SameTalk(out, out1)
<1>1. \A t : Has(out1, t) <=> (Has(out, t) \/ f.type = t)
  BY HasAppended
<1>2. HasMeta(out1) <=> HasMeta(out)
  BY MetaAppended
<1>3. OffsetsOK(out) => OffsetsOK(out1)
  BY OffsetsAppended
<1>4. GreetedLast(out) => GreetedLast(out1)
  BY GreetedAppended
<1>5. out1 \in Seq(Frames)
  BY DEF IsAppended
<1> QED
  BY <1>1, <1>2, <1>3, <1>4, <1>5 DEF SameTalk

\* A block of the file, or metadata that nobody writes.
LEMMA ReceivesKeeps ==
    ASSUME NEW s, NEW b, NEW g, NEW out, NEW q, NEW r, NEW p, NEW l, NEW s1, NEW out1,
           Moment(s, b, g, out, q, r, p, l, s1, out1), Receives(s, q[1], s1)
    PROVE  /\ [type |-> "DataReceived", body |-> q[1].body] \in Events
           /\ Good(s1, dispatch_event(b, [type |-> "DataReceived", body |-> q[1].body]),
                   g, out1, r, p, l)
<1> DEFINE n == q[1].body
           b1 == dispatch_event(b, [type |-> "DataReceived", body |-> n])
<1>1. Good(s, b, g, out, q, p, l) /\ IsRest(q, r) /\ s1 \in Feeding
  BY DEF Moment
<1>2. Ahead(s, b, g, out, q, r, p, l)
  BY <1>1, AheadHolds
<1>3. /\ s \in Feeding /\ b \in Bridges /\ q # <<>> /\ out \in Seq(Frames)
      /\ b.save \in Nat /\ b.open \in Nat /\ q[1] \in Frames /\ Total \in Nat
  BY <1>1, LinkAssumption DEF Good, Typed, IsRest, Bridges
<1>4. n \in Nat
  BY <1>3 DEF Receives, Frames, HeaderTypes
<1>5. [type |-> "DataReceived", body |-> n] \in Events
  BY <1>4 DEF Events
<1>6. SameTalk(out, out1)
  <2> DEFINE f == Header("ZACK", s.data_offset)
  <2>1. f \in Frames
    BY <1>3, HeaderType DEF HeaderTypes, Feeding
  <2>2. f.type = "ZACK" /\ ~IsMetaFrame(f)
    BY DEF Header, IsMetaFrame
  <2> HIDE DEF f
  <2>3. CASE Silent(s, s1)
    BY <1>3, <2>3, SentNone, SameTalkNone DEF Moment
  <2>4. CASE Answered(s, s1, f)
    <3>1. IsAppended(out1, out, f)
      BY <1>3, <2>1, <2>4, SentOne DEF Moment
    <3> QED
      BY <2>2, <3>1, SameTalkOne
  <2> QED
    BY <2>3, <2>4 DEF Receives, f
<1>7. /\ b1 \in Bridges /\ b1.writer = b.writer
      /\ b1.save = b.save /\ b1.open = b.open /\ b1.outcome = b.outcome
      /\ b.writer = NoFile => b1 = b
      /\ b.writer # NoFile =>
           /\ b.writer \in Paths /\ b.disk[b.writer] \in Seq(Nat)
           /\ b1.disk[b.writer] = Append(b.disk[b.writer], n)
           /\ \A x \in Paths : x # b.writer => b1.disk[x] = b.disk[x]
  BY <1>3, <1>4, WrittenIs
<1> HIDE DEF b1
<1>8. Typed(s1, b1, g, out1, r, p, l)
  BY <1>1, <1>6, <1>7 DEF Good, Typed, IsRest, SameTalk
<1>9. ~AllJunk(q) /\ b.save = 0 /\ b.open = 0 /\ ~Is(p, "rz", "data") /\ q[1].type = "DATA"
  <2>1. ~AllJunk(q) /\ q[1].type = "DATA"
    BY <1>2 DEF Ahead, Junk, Receives
  <2>2. ~(b.save > 0) /\ ~(b.open > 0)
    BY <1>1, <2>1 DEF Good, DialogsOK
  <2>3. ~Is(p, "rz", "data")
    BY <1>2, <2>1 DEF Ahead, Header
  <2> QED
    BY <1>3, <2>1, <2>2, <2>3
<1>10. DialogsOK(s1, b1, r, p)
  BY <1>7, <1>9 DEF DialogsOK
<1>11. UploadOK(s1, b1, g, out1, r, p)
  BY <1>2, <1>6, <1>9 DEF UploadOK, Ahead, SameTalk
<1>12. FinExpected(s1, b1, r)
  BY <1>1, <1>7, FinRest DEF Good, EndingOK
<1>13. GoneOK(s1, b1, g, r)
  BY <1>1, <1>2, <1>7 DEF Good, GoneOK, Ahead, Receives
<1>14. EndingOK(s1, b1, out1, r, p)
  BY <1>1, <1>2, <1>3, <1>6, <1>7, <1>12 DEF Good, EndingOK, Ahead, SameTalk
<1>15. OutcomeOK(s1, b1, g, r, p, l)
  BY <1>1, <1>7, <1>9 DEF Good, OutcomeOK, Receives, End
<1>16. CASE IsMetaFrame(q[1])
  \* Metadata that is not the first is only met where there is no writer.
  <2>1. b.writer = NoFile /\ b1 = b
    BY <1>2, <1>7, <1>16 DEF Ahead, Receives, Fresh
  <2>2. AllJunk(r) /\ s1.detector = "idle"
    BY <1>2, <1>16 DEF Ahead, OpensDialog, Receives, After
  <2>3. ~Streamed(q[1])
    BY <1>16 DEF Streamed, IsMetaFrame
  <2>4. StreamOK(s1, b1, out1, r, p)
    BY <1>1, <1>2, <1>3, <1>6, <2>3 DEF Good, StreamOK, Ahead, SameTalk
  <2>5. WriterOK(s1, b1, out1, r, p, l)
    BY <2>1 DEF WriterOK
  <2>6. DetectorOK(s1, r)
    BY <1>1, <2>2 DEF Good, DetectorOK, Receives
  <2>7. DiskOK(b1)
    BY <1>1, <2>1 DEF Good
  <2> QED
    BY <1>2, <1>5, <1>8, <1>10, <1>11, <1>13, <1>14, <1>15, <2>4, <2>5, <2>6, <2>7
       DEF Good, Ahead, b1
<1>17. CASE ~IsMetaFrame(q[1])
  <2>1. Streamed(q[1]) /\ Place(q[1]) = n /\ n \in 1..Total
        /\ (q[1].end \in {"End", "AckEnd"} <=> n = Total)
    BY <1>2, <1>9, <1>17 DEF Ahead, Streamed, Place, IsMetaFrame
  <2>2. Taken(s, b, n)
    BY <1>2, <2>1 DEF Ahead
  <2>3. s.phase = "Receiving" /\ s1.phase = "Receiving" /\ s1.named
    BY <1>1, <2>2 DEF Taken, Receives, Good, DetectorOK
  <2>4. b.writer # NoFile => Len(b1.disk[b1.writer]) = n
    <3> SUFFICES ASSUME b.writer # NoFile
                 PROVE  Len(b1.disk[b1.writer]) = n
      OBVIOUS
    <3> DEFINE o == b.disk[b.writer]
               y == b1.disk[b.writer]
    <3>1. Len(o) = n - 1
      BY <2>1, <2>2 DEF Taken
    <3>2. o \in Seq(Nat) /\ y = Append(o, n)
      BY <1>7
    <3> HIDE DEF o, y
    <3>3. Len(y) = n
      BY <1>4, <3>1, <3>2
    <3> QED
      BY <1>7, <3>3 DEF y
  <2>5. Taken(s1, b1, n + 1)
    <3>1. n + 1 # 0 /\ (n + 1 \in 1..Total => n # Total) /\ (n + 1) - 1 = n
      BY <1>3, <2>1
    <3>2. n + 1 \in 1..Total => s1.detector = "data"
      BY <2>1, <3>1 DEF Receives, After
    <3> QED
      BY <1>7, <2>3, <2>4, <3>1, <3>2 DEF Taken
  <2>6. StreamOK(s1, b1, out1, r, p)
    BY <1>1, <1>2, <1>3, <1>6, <2>1, <2>5 DEF Good, StreamOK, Ahead, SameTalk
  <2>7. WriterOK(s1, b1, out1, r, p, l)
    <3>1. ASSUME b.writer # NoFile
          PROVE  MetaExpected(s1, r)
      <4>1. ~HasMeta(r)
        BY <1>2, <2>3, <3>1 DEF Ahead
      <4> QED
        BY <4>1, NoneExpected
    <3>2. ASSUME b.writer # NoFile
          PROVE  ~(Is(p, "sz", "start") /\ Has(out, "ZRINIT"))
      BY <1>1, <2>3, <3>2 DEF Good, WriterOK
    <3> QED
      BY <1>6, <1>7, <2>3, <3>1, <3>2 DEF WriterOK, SameTalk
  <2>8. DetectorOK(s1, r)
    BY <2>3 DEF DetectorOK
  <2>9. DiskOK(b1)
    <3> SUFFICES ASSUME NEW x \in Paths
                 PROVE  Len(b1.disk[x]) <= Total /\ IsPrefixOfFile(b1.disk[x])
      BY DEF DiskOK
    <3>1. Len(b.disk[x]) <= Total /\ IsPrefixOfFile(b.disk[x])
      BY <1>1 DEF Good, DiskOK
    <3>2. CASE b.writer = NoFile \/ x # b.writer
      BY <1>7, <3>1, <3>2
    <3>3. CASE b.writer # NoFile /\ x = b.writer
      <4> DEFINE o == b.disk[x]
                 y == b1.disk[x]
      <4>1. o \in Seq(Nat) /\ y = Append(o, n)
        BY <1>7, <3>3
      <4>2. Len(o) = n - 1
        BY <2>1, <2>2, <3>3 DEF Taken
      <4> HIDE DEF o, y
      <4>3. Len(y) = n /\ DOMAIN y = 1..n
        BY <1>4, <4>1, <4>2
      <4>4. ASSUME NEW i \in DOMAIN y
            PROVE  y[i] = i
        <5>1. CASE i = n
          BY <1>4, <4>1, <4>2, <5>1
        <5>2. CASE i # n
          <6>1. i \in DOMAIN o /\ y[i] = o[i]
            BY <1>4, <4>1, <4>2, <4>3, <5>2
          <6> QED
            BY <3>1, <6>1 DEF IsPrefixOfFile, o
        <5> QED
          BY <5>1, <5>2
      <4> QED
        BY <2>1, <4>3, <4>4 DEF IsPrefixOfFile, y
    <3> QED
      BY <3>2, <3>3
  <2> QED
    BY <1>2, <1>5, <1>8, <1>10, <1>11, <1>13, <1>14, <1>15, <2>6, <2>7, <2>8, <2>9
       DEF Good, Ahead, b1
<1> QED
  BY <1>16, <1>17

\* The sender says hello: it is told that it may send.
LEMMA GreetsKeeps ==
    ASSUME NEW s, NEW b, NEW g, NEW out, NEW q, NEW r, NEW p, NEW l, NEW s1, NEW out1,
           Moment(s, b, g, out, q, r, p, l, s1, out1), Greets(s, q[1], s1)
    PROVE  Good(s1, b, g, out1, r, p, l)
<1> DEFINE f == Header("ZRINIT", 0)
<1>1. Good(s, b, g, out, q, p, l) /\ IsRest(q, r) /\ s1 \in Feeding /\ s \in Feeding
  BY DEF Moment, Good, Typed
<1>2. Ahead(s, b, g, out, q, r, p, l)
  BY <1>1, AheadHolds
<1>3. f \in Frames /\ f.type = "ZRINIT" /\ ~IsMetaFrame(f)
  <2>1. f.type = "ZRINIT"
    BY DEF Header
  <2> QED
    BY <2>1, HeaderType DEF HeaderTypes, IsMetaFrame
<1>4. IsAppended(out1, out, f)
  BY <1>1, <1>3, SentOne DEF Moment, Greets
<1> HIDE DEF f
<1>5. /\ out1 \in Seq(Frames) /\ q # <<>> /\ r \in Seq(Frames)
      /\ Has(out1, "ZRPOS") <=> Has(out, "ZRPOS")
      /\ Has(out1, "ZFIN") <=> Has(out, "ZFIN")
      /\ Has(out1, "ZRINIT")
      /\ HasMeta(out1) <=> HasMeta(out)
      /\ OffsetsOK(out1)
  <2>1. OffsetsOK(out)
    BY <1>1 DEF Good, StreamOK
  <2>2. OffsetsOK(out1)
    BY <1>3, <1>4, <2>1, OffsetsAppended
  <2>3. \A t : Has(out1, t) <=> (Has(out, t) \/ f.type = t)
    BY <1>4, HasAppended
  <2>4. HasMeta(out1) <=> HasMeta(out)
    BY <1>3, <1>4, MetaAppended
  <2>5. out1 \in Seq(Frames) /\ q # <<>> /\ r \in Seq(Frames)
    BY <1>1, <1>4 DEF IsAppended, IsRest
  <2> QED
    BY <1>3, <2>2, <2>3, <2>4, <2>5
<1>6. /\ q[1].type = "ZRQINIT" /\ s.phase = "Init" /\ s1.phase = "AwaitFile"
      /\ s1.named = s.named /\ s1.bytes = s.bytes /\ s1.detector = "idle"
  BY DEF Greets, Reads, SameFile, Steady
<1>7. ~Streamed(q[1]) /\ ~AllJunk(q) /\ ~(r # <<>> /\ Streamed(r[1])) /\ ~Has(r, "ZFIN")
      /\ ~Is(p, "sz", "stream") /\ ~Is(p, "rz", "data")
  BY <1>2, <1>6 DEF Ahead, Streamed, Junk, Header
<1>8. Typed(s1, b, g, out1, r, p, l)
  BY <1>1, <1>5 DEF Good, Typed
<1>9. StreamOK(s1, b, out1, r, p)
  BY <1>1, <1>2, <1>5, <1>7 DEF Good, StreamOK, Ahead
<1>10. WriterOK(s1, b, out1, r, p, l)
  <2> SUFFICES ASSUME b.writer # NoFile
               PROVE  WriterOK(s1, b, out1, r, p, l)
    BY DEF WriterOK
  <2>1. MetaExpected(s1, r)
    <3>1. ~HasMeta(r)
      BY <1>2, <1>6 DEF Ahead
    <3> QED
      BY <3>1, NoneExpected
  <2>2. Fresh(s1) /\ b.disk[b.writer] = <<>>
    BY <1>1, <1>6, <1>7 DEF Good, WriterOK, End, Fresh
  <2> QED
    BY <1>6, <2>1, <2>2 DEF WriterOK
<1>11. DetectorOK(s1, r)
  BY <1>6 DEF DetectorOK
<1>12. DialogsOK(s1, b, r, p)
  BY <1>1, <1>7 DEF Good, DialogsOK
<1>13. GoneOK(s1, b, g, r)
  BY <1>1, <1>6, <1>7 DEF Good, GoneOK, Dead
<1>14. UploadOK(s1, b, g, out1, r, p)
  BY <1>2, <1>5, <1>7 DEF UploadOK, Ahead
<1>15. EndingOK(s1, b, out1, r, p)
  <2>1. FinExpected(s1, b, r)
    BY <1>1, FinRest DEF Good, EndingOK
  <2>2. Is(p, "sz", "start") => GreetedLast(out1)
    \* Another ZRINIT may be on its way: no ZFIN follows that one either.
    <3> SUFFICES ASSUME NEW i \in DOMAIN out1, NEW k \in DOMAIN out1,
                        out1[i].type = "ZRINIT", k > i, Is(p, "sz", "start")
                 PROVE  out1[k].type # "ZFIN"
      BY DEF GreetedLast
    <3>1. i \in DOMAIN out /\ out1[i] = out[i]
          /\ ((k \in DOMAIN out /\ out1[k] = out[k]) \/ out1[k] = f)
      BY <1>4 DEF IsAppended
    <3>2. Has(out, "ZRINIT")
      BY <3>1 DEF Has
    <3>3. GreetedLast(out)
      BY <1>1, <3>2 DEF Good, EndingOK
    <3> QED
      BY <1>3, <3>1, <3>3 DEF GreetedLast
  <2>3. ~Is(p, "sz", "ended")
    BY <1>1, <1>2, <1>6 DEF Good, EndingOK, Ahead
  <2> QED
    BY <1>1, <1>2, <1>5, <1>7, <2>1, <2>2, <2>3 DEF Good, EndingOK, Ahead
<1>16. OutcomeOK(s1, b, g, r, p, l)
  BY <1>1, <1>6, <1>7 DEF Good, OutcomeOK, End
<1> QED
  BY <1>1, <1>2, <1>8, <1>9, <1>10, <1>11, <1>12, <1>13, <1>14, <1>15, <1>16
     DEF Good, Ahead

\* The receiver is ready: the user is asked for the file.
LEMMA AsksForFileKeeps ==
    ASSUME NEW s, NEW b, NEW g, NEW out, NEW q, NEW r, NEW p, NEW l, NEW s1, NEW out1,
           Moment(s, b, g, out, q, r, p, l, s1, out1), AsksForFile(s, q[1], s1)
    PROVE  Good(s1, dispatch_event(b, [type |-> "SendOffered"]), g, out1, r, p, l)
<1> DEFINE b1 == dispatch_event(b, [type |-> "SendOffered"])
<1>1. Good(s, b, g, out, q, p, l) /\ IsRest(q, r) /\ s1 \in Feeding /\ b \in Bridges
  BY DEF Moment, Good, Typed
<1>2. Ahead(s, b, g, out, q, r, p, l)
  BY <1>1, AheadHolds
<1>3. out1 = out
  BY SentNone DEF Moment, AsksForFile
<1>4. /\ b1 \in Bridges /\ b1.writer = b.writer /\ b1.disk = b.disk
      /\ b1.save = b.save /\ b1.open = b.open + 1 /\ b1.outcome = b.outcome
      /\ b.save \in Nat /\ b.open \in Nat
  BY <1>1, AskedIs DEF Bridges
<1> HIDE DEF b1
<1>5. /\ q[1].type = "ZRINIT" /\ s.phase = "Init" /\ s1.phase = "Init"
      /\ s1.named = s.named /\ s1.bytes = s.bytes /\ s1.detector = "idle"
      /\ q # <<>> /\ r \in Seq(Frames)
  BY <1>1 DEF AsksForFile, Reads, SameFile, Steady, IsRest
<1>6. /\ ~Streamed(q[1]) /\ ~AllJunk(q) /\ AllJunk(r) /\ ~(r # <<>> /\ Streamed(r[1]))
      /\ (p.prog = "shell" \/ Is(p, "rz", "start"))
  BY <1>2, <1>5 DEF Ahead, Streamed, Junk, OpensDialog
<1>7. b.save = 0 /\ b.open = 0
  BY <1>1, <1>4, <1>6 DEF Good, DialogsOK
<1>8. Typed(s1, b1, g, out, r, p, l)
  BY <1>1, <1>4, <1>5 DEF Good, Typed
<1>9. StreamOK(s1, b1, out, r, p)
  BY <1>1, <1>2, <1>6 DEF Good, StreamOK, Ahead, Is
<1>10. WriterOK(s1, b1, out, r, p, l)
  <2>1. MetaExpected(s1, r)
    BY <1>6, NoneExpected
  <2> QED
    BY <1>1, <1>4, <1>5, <1>6, <2>1 DEF Good, WriterOK, End, Fresh, Is
<1>11. DetectorOK(s1, r)
  BY <1>5 DEF DetectorOK
<1>12. DialogsOK(s1, b1, r, p)
  BY <1>4, <1>5, <1>6, <1>7 DEF DialogsOK
<1>13. GoneOK(s1, b1, g, r)
  BY <1>1, <1>4, <1>5, <1>6 DEF Good, GoneOK, Dead
<1>14. UploadOK(s1, b1, g, out, r, p)
  BY <1>2, <1>6 DEF UploadOK, Ahead, Is
<1>15. EndingOK(s1, b1, out, r, p)
  <2>1. FinExpected(s1, b1, r)
    BY <1>1, <1>4, FinRest DEF Good, EndingOK
  <2> QED
    BY <1>6, <2>1 DEF EndingOK, Is
<1>16. OutcomeOK(s1, b1, g, r, p, l)
  BY <1>1, <1>4, <1>5, <1>6, <1>7 DEF Good, OutcomeOK, End
<1>17. DiskOK(b1)
  BY <1>1, <1>4 DEF Good, DiskOK
<1> QED
  BY <1>2, <1>3, <1>8, <1>9, <1>10, <1>11, <1>12, <1>13, <1>14, <1>15, <1>16, <1>17
     DEF Good, Ahead, b1

\* The header of the metadata.
LEMMA AwaitsNameKeeps ==
    ASSUME NEW s, NEW b, NEW g, NEW out, NEW q, NEW r, NEW p, NEW l, NEW s1, NEW out1,
           Moment(s, b, g, out, q, r, p, l, s1, out1), AwaitsName(s, q[1], s1)
    PROVE  Good(s1, b, g, out1, r, p, l)
<1>1. Good(s, b, g, out, q, p, l) /\ IsRest(q, r) /\ s1 \in Feeding
  BY DEF Moment
<1>2. Ahead(s, b, g, out, q, r, p, l)
  BY <1>1, AheadHolds
<1>3. out1 = out
  BY SentNone DEF Moment, AwaitsName
<1>4. /\ q[1].type = "ZFILE" /\ s.phase = "AwaitFile" /\ s1.phase = "AwaitSavePath"
      /\ s1.named = s.named /\ s1.bytes = s.bytes /\ s1.detector = "data"
      /\ q # <<>> /\ r \in Seq(Frames)
  BY <1>1 DEF AwaitsName, Reads, SameFile, Steady, IsRest
<1>5. /\ ~Streamed(q[1]) /\ ~AllJunk(q) /\ ~(r # <<>> /\ Streamed(r[1]))
      /\ (p.prog = "shell" \/ Is(p, "sz", "asked"))
      /\ r # <<>> /\ IsMetaFrame(r[1]) /\ JunkAfter(r, 1)
  BY <1>2, <1>4 DEF Ahead, Streamed, Junk
<1>6. Typed(s1, b, g, out, r, p, l)
  BY <1>1, <1>4 DEF Good, Typed
<1>7. StreamOK(s1, b, out, r, p)
  BY <1>1, <1>2, <1>5 DEF Good, StreamOK, Ahead, Is
<1>8. WriterOK(s1, b, out, r, p, l)
  <2> SUFFICES ASSUME b.writer # NoFile
               PROVE  WriterOK(s1, b, out, r, p, l)
    BY DEF WriterOK
  <2>1. Fresh(s1) /\ b.disk[b.writer] = <<>>
    BY <1>1, <1>4, <1>5 DEF Good, WriterOK, End, Fresh
  <2>2. MetaExpected(s1, r)
    BY <1>4, <1>5, <2>1, NextExpected
  <2> QED
    BY <1>4, <1>5, <2>1, <2>2 DEF WriterOK, Is
<1>9. DetectorOK(s1, r)
  BY <1>4, <1>5 DEF DetectorOK
<1>10. DialogsOK(s1, b, r, p)
  BY <1>1, <1>5 DEF Good, DialogsOK
<1>11. GoneOK(s1, b, g, r)
  BY <1>1, <1>4 DEF Good, GoneOK, Dead
<1>12. UploadOK(s1, b, g, out, r, p)
  BY <1>5 DEF UploadOK, Is
<1>13. EndingOK(s1, b, out, r, p)
  <2>1. FinExpected(s1, b, r)
    BY <1>1, FinRest DEF Good, EndingOK
  <2> QED
    BY <1>2, <1>5, <2>1 DEF EndingOK, Ahead, Is
<1>14. OutcomeOK(s1, b, g, r, p, l)
  BY <1>1, <1>4, <1>5 DEF Good, OutcomeOK, End
<1> QED
  BY <1>1, <1>2, <1>3, <1>6, <1>7, <1>8, <1>9, <1>10, <1>11, <1>12, <1>13, <1>14
     DEF Good, Ahead

\* The receiver asks for the next block.
LEMMA SendsKeeps ==
    ASSUME NEW s, NEW b, NEW g, NEW out, NEW q, NEW r, NEW p, NEW l, NEW s1, NEW out1,
           Moment(s, b, g, out, q, r, p, l, s1, out1), Sends(s, q[1], s1)
    PROVE  Good(s1, b, g, out1, r, p, l)
<1> DEFINE n == IF q[1].type = "ZRPOS" THEN q[1].pos ELSE s.send_offset
           zd == Header("ZDATA", n)
           ze == Header("ZEOF", s.payload)
           mid == Append(out, zd)
<1>1. Good(s, b, g, out, q, p, l) /\ IsRest(q, r) /\ s1 \in Feeding /\ s \in Feeding
  BY DEF Moment, Good, Typed
<1>2. Ahead(s, b, g, out, q, r, p, l)
  BY <1>1, AheadHolds
<1>3. /\ q[1].type \in {"ZRPOS", "ZACK"} /\ s.phase \in {"AwaitRpos", "Sending"}
      /\ s1.phase = "Sending" /\ s1.named = s.named /\ s1.payload = s.payload
      /\ s1.detector = "idle" /\ Pumped(s, s1, n)
      /\ q # <<>> /\ r \in Seq(Frames) /\ q[1] \in Frames
  BY <1>1 DEF Sends, Reads, IsRest
<1>4. n \in Nat /\ s.payload \in Nat /\ out \in Seq(Frames)
  BY <1>1, <1>3 DEF Frames, HeaderTypes, Feeding, Good, Typed
<1>5. /\ zd \in Frames /\ zd.type = "ZDATA" /\ ~IsMetaFrame(zd)
      /\ ze \in Frames /\ ze.type = "ZEOF" /\ ~IsMetaFrame(ze)
  <2>1. zd.type = "ZDATA" /\ ze.type = "ZEOF"
    BY DEF Header
  <2> QED
    BY <1>4, <2>1, HeaderType DEF HeaderTypes, IsMetaFrame
<1>6. \A e \in {"AckContinue", "AckEnd"} :
        Data(n + 1, e) \in Frames /\ Data(n + 1, e).type = "DATA" /\ ~IsMetaFrame(Data(n + 1, e))
  <2> SUFFICES ASSUME NEW e \in {"AckContinue", "AckEnd"}
               PROVE  Data(n + 1, e) \in Frames /\ Data(n + 1, e).type = "DATA"
                      /\ ~IsMetaFrame(Data(n + 1, e))
    OBVIOUS
  <2>1. n + 1 \in Nat /\ n + 1 # 0 /\ e \in Ends
    BY <1>4 DEF Ends
  <2>2. Data(n + 1, e).type = "DATA" /\ Data(n + 1, e).body = n + 1
    BY DEF Data
  <2> QED
    BY <2>1, <2>2, DataType DEF IsMetaFrame, MetaBlock
<1> HIDE DEF n, zd, ze
<1>7. \/ /\ n >= s.payload /\ IsAppended(out1, out, ze)
         /\ s1.send_offset = n
      \/ /\ ~(n >= s.payload) /\ s1.send_offset = n + 1
         /\ \E e \in {"AckContinue", "AckEnd"} :
              IsAppended(mid, out, zd) /\ IsAppended(out1, mid, Data(n + 1, e))
  <2>1. CASE n >= s.payload
    <3>1. Answered(s, s1, ze) /\ s1.send_offset = n
      BY <1>3, <2>1 DEF Pumped, ze
    <3> QED
      BY <1>1, <1>5, <2>1, <3>1, SentOne DEF Moment
  <2>2. CASE ~(n >= s.payload)
    <3>1. s1.send_offset = n + 1
      BY <1>3, <2>2 DEF Pumped
    <3>2. PICK e \in {"AckContinue", "AckEnd"} :
              s1.to_pty = Append(Append(s.to_pty, zd), Data(n + 1, e))
      BY <1>3, <2>2 DEF Pumped, zd
    <3>3. Data(n + 1, e) \in Frames
      BY <1>6
    <3>4. IsAppended(mid, out, zd) /\ IsAppended(out1, mid, Data(n + 1, e))
      BY <1>1, <1>5, <3>2, <3>3, SentTwo DEF Moment
    <3> QED
      BY <2>2, <3>1, <3>4
  <2> QED
    BY <2>1, <2>2
<1>8. SameTalk(out, out1)
  <2>1. CASE IsAppended(out1, out, ze)
    BY <1>5, <2>1, SameTalkOne
  <2>2. ASSUME NEW e \in {"AckContinue", "AckEnd"},
               IsAppended(mid, out, zd), IsAppended(out1, mid, Data(n + 1, e))
        PROVE  SameTalk(out, out1)
    <3>1. SameTalk(out, mid)
      BY <1>5, <2>2, SameTalkOne
    <3>2. SameTalk(mid, out1)
      BY <1>6, <2>2, SameTalkOne
    <3> QED
      BY <3>1, <3>2 DEF SameTalk
  <2> QED
    BY <1>7, <2>1, <2>2
<1>9. /\ ~Streamed(q[1]) /\ ~AllJunk(q) /\ ~(r # <<>> /\ Streamed(r[1]))
  BY <1>2, <1>3 DEF Ahead, Streamed, Junk
<1>10. Typed(s1, b, g, out1, r, p, l)
  BY <1>1, <1>3, <1>8 DEF Good, Typed, SameTalk
<1>11. StreamOK(s1, b, out1, r, p)
  BY <1>1, <1>2, <1>8, <1>9 DEF Good, StreamOK, Ahead, SameTalk
<1>12. WriterOK(s1, b, out1, r, p, l)
  <2> SUFFICES ASSUME b.writer # NoFile
               PROVE  WriterOK(s1, b, out1, r, p, l)
    BY DEF WriterOK
  <2>1. MetaExpected(s1, r)
    <3>1. ~HasMeta(r)
      BY <1>2, <1>3 DEF Ahead
    <3> QED
      BY <3>1, NoneExpected
  <2>2. ~(Is(p, "sz", "start") /\ Has(out1, "ZRINIT"))
    BY <1>1, <1>3, <1>8 DEF Good, WriterOK, SameTalk
  <2> QED
    BY <1>3, <2>1, <2>2 DEF WriterOK
<1>13. DetectorOK(s1, r)
  BY <1>1, <1>3 DEF Good, DetectorOK, Sends
<1>14. DialogsOK(s1, b, r, p)
  BY <1>1, <1>9 DEF Good, DialogsOK
<1>15. GoneOK(s1, b, g, r)
  BY <1>1, <1>3, <1>9 DEF Good, GoneOK, Dead
<1>16. UploadOK(s1, b, g, out1, r, p)
  <2>1. Is(p, "rz", "start") => ~HasMeta(out1)
    BY <1>2, <1>8 DEF Ahead, SameTalk
  <2>2. ASSUME Is(p, "rz", "data")
        PROVE  /\ IsPrefixOfFile(p.got) /\ b.save = 0 /\ b.open = 0 /\ r = <<>>
               /\ \/ out1 = <<Header("ZEOF", Len(p.got))>>
                  \/ \E e \in {"AckContinue", "AckEnd"} :
                       /\ s1.phase = "Sending" /\ s1.send_offset = Len(p.got) + 1
                       /\ s1.send_offset <= s1.payload
                       /\ out1 = <<Header("ZDATA", Len(p.got)), Data(Len(p.got) + 1, e)>>
    <3>1. /\ r = <<>> /\ out = <<>> /\ IsPrefixOfFile(p.got) /\ b.save = 0 /\ b.open = 0
          /\ \/ /\ q[1] = Header("ZRPOS", 0) /\ p.got = <<>>
             \/ /\ q[1] = Header("ZACK", 0)
                /\ s.send_offset = Len(p.got) /\ s.send_offset <= s.payload
      BY <1>2, <2>2 DEF Ahead
    <3>2. n = Len(p.got) /\ n <= s.payload
      <4>1. CASE q[1] = Header("ZRPOS", 0) /\ p.got = <<>>
        BY <1>4, <4>1 DEF Header, n
      <4>2. CASE q[1] = Header("ZACK", 0) /\ s.send_offset = Len(p.got)
                 /\ s.send_offset <= s.payload
        BY <4>2 DEF Header, n
      <4> QED
        BY <3>1, <4>1, <4>2
    <3>3. CASE n >= s.payload /\ IsAppended(out1, out, ze)
      <4>1. s.payload = Len(p.got)
        BY <1>4, <3>2, <3>3
      <4>2. out1 = <<ze>>
        BY <3>1, <3>3 DEF IsAppended
      <4> QED
        BY <3>1, <4>1, <4>2 DEF ze
    <3>4. ASSUME ~(n >= s.payload), s1.send_offset = n + 1, NEW e \in {"AckContinue", "AckEnd"},
                 IsAppended(mid, out, zd), IsAppended(out1, mid, Data(n + 1, e))
          PROVE  out1 = <<zd, Data(n + 1, e)>> /\ n + 1 <= s.payload
      <4>1. mid = <<zd>>
        BY <3>1
      <4> DEFINE x == Data(n + 1, e)
      <4>2. Len(out1) = 2 /\ out1[1] = zd /\ out1[2] = x /\ out1 \in Seq(Frames)
        BY <3>4, <4>1 DEF IsAppended
      <4> HIDE DEF x
      <4>3. out1 = <<zd, x>>
        BY <4>2
      <4> QED
        BY <1>4, <3>4, <4>3 DEF x
    <3> QED
      BY <1>3, <1>7, <3>1, <3>2, <3>3, <3>4 DEF zd
  <2> QED
    BY <1>3, <2>1, <2>2 DEF UploadOK
<1>17. EndingOK(s1, b, out1, r, p)
  <2>1. FinExpected(s1, b, r)
    BY <1>1, FinRest DEF Good, EndingOK
  <2> QED
    BY <1>1, <1>2, <1>8, <1>9, <2>1 DEF Good, EndingOK, Ahead, SameTalk
<1>18. OutcomeOK(s1, b, g, r, p, l)
  BY <1>1, <1>3 DEF Good, OutcomeOK
<1> QED
  BY <1>1, <1>2, <1>10, <1>11, <1>12, <1>13, <1>14, <1>15, <1>16, <1>17, <1>18
     DEF Good, Ahead

\* The header of the first block.
LEMMA AwaitsDataKeeps ==
    ASSUME NEW s, NEW b, NEW g, NEW out, NEW q, NEW r, NEW p, NEW l, NEW s1, NEW out1,
           Moment(s, b, g, out, q, r, p, l, s1, out1), AwaitsData(s, q[1], s1)
    PROVE  Good(s1, b, g, out1, r, p, l)
<1>1. Good(s, b, g, out, q, p, l) /\ IsRest(q, r) /\ s1 \in Feeding
  BY DEF Moment
<1>2. Ahead(s, b, g, out, q, r, p, l)
  BY <1>1, AheadHolds
<1>3. out1 = out
  BY SentNone DEF Moment, AwaitsData
<1>4. /\ q[1].type = "ZDATA" /\ s.phase = "Receiving" /\ s1.phase = "Receiving"
      /\ s1.named = s.named /\ s1.bytes = s.bytes /\ s1.detector = "data"
      /\ q # <<>> /\ r \in Seq(Frames)
  BY <1>1 DEF AwaitsData, Reads, SameFile, Steady, IsRest
<1>5. /\ Streamed(q[1]) /\ Place(q[1]) = 0 /\ ~AllJunk(q)
      /\ ~Is(p, "sz", "asked") /\ ~Is(p, "rz", "data")
  BY <1>2, <1>4 DEF Ahead, Streamed, Junk, Place, Header
<1>6. Taken(s1, b, 1)
  BY <1>2, <1>4, <1>5 DEF Ahead, Taken
<1>7. Typed(s1, b, g, out, r, p, l)
  BY <1>1, <1>4 DEF Good, Typed
<1>8. StreamOK(s1, b, out, r, p)
  BY <1>1, <1>2, <1>5, <1>6 DEF Good, StreamOK, Ahead
<1>9. WriterOK(s1, b, out, r, p, l)
  <2> SUFFICES ASSUME b.writer # NoFile
               PROVE  WriterOK(s1, b, out, r, p, l)
    BY DEF WriterOK
  <2>1. MetaExpected(s1, r)
    <3>1. ~HasMeta(r)
      BY <1>2, <1>4 DEF Ahead
    <3> QED
      BY <3>1, NoneExpected
  <2> QED
    BY <1>1, <1>4, <2>1 DEF Good, WriterOK
<1>10. DetectorOK(s1, r)
  BY <1>1, <1>4 DEF Good, DetectorOK
<1>11. DialogsOK(s1, b, r, p)
  BY <1>1, <1>5 DEF Good, DialogsOK
<1>12. GoneOK(s1, b, g, r)
  BY <1>1, <1>4 DEF Good, GoneOK, Dead
<1>13. UploadOK(s1, b, g, out, r, p)
  BY <1>2, <1>5 DEF UploadOK, Ahead
<1>14. EndingOK(s1, b, out, r, p)
  <2>1. FinExpected(s1, b, r)
    BY <1>1, FinRest DEF Good, EndingOK
  <2> QED
    BY <1>1, <1>2, <1>4, <1>5, <2>1 DEF Good, EndingOK, Ahead
<1>15. OutcomeOK(s1, b, g, r, p, l)
  BY <1>1, <1>4 DEF Good, OutcomeOK
<1> QED
  BY <1>1, <1>2, <1>3, <1>7, <1>8, <1>9, <1>10, <1>11, <1>12, <1>13, <1>14, <1>15
     DEF Good, Ahead

\* The last program does not want the file it was offered.
LEMMA IsSkippedKeeps ==
    ASSUME NEW s, NEW b, NEW g, NEW out, NEW q, NEW r, NEW p, NEW l, NEW s1, NEW out1,
           Moment(s, b, g, out, q, r, p, l, s1, out1), IsSkipped(s, q[1], s1)
    PROVE  /\ Good(s1, b, g, out1, r, p, l)
           /\ s1.phase = "Init" /\ AllJunk(r)
<1>1. Good(s, b, g, out, q, p, l) /\ IsRest(q, r) /\ s1 \in Feeding
  BY DEF Moment
<1>2. Ahead(s, b, g, out, q, r, p, l)
  BY <1>1, AheadHolds
<1>3. out1 = out
  BY SentNone DEF Moment, IsSkipped
<1>4. /\ q[1].type = "ZSKIP" /\ s1.phase = "Init" /\ s1.detector = "idle"
      /\ s1.named = s.named /\ s1.bytes = s.bytes
      /\ q # <<>> /\ r \in Seq(Frames)
  BY <1>1 DEF IsSkipped, Reads, SameFile, Steady, IsRest
<1>5. /\ ~Streamed(q[1]) /\ ~AllJunk(q) /\ AllJunk(r) /\ End(r, p, l) /\ Idle(p)
      /\ ~(r # <<>> /\ Streamed(r[1]))
  BY <1>2, <1>4 DEF Ahead, Streamed, Junk, End
<1>6. Typed(s1, b, g, out, r, p, l)
  BY <1>1, <1>4 DEF Good, Typed
<1>7. StreamOK(s1, b, out, r, p)
  BY <1>1, <1>2, <1>5 DEF Good, StreamOK, Ahead, Idle, Is
<1>8. WriterOK(s1, b, out, r, p, l)
  <2>1. MetaExpected(s1, r)
    BY <1>5, NoneExpected
  <2> QED
    BY <1>5, <2>1, <1>4 DEF WriterOK, Idle, Is
<1>9. DetectorOK(s1, r)
  BY <1>4 DEF DetectorOK
<1>10. DialogsOK(s1, b, r, p)
  BY <1>1, <1>5 DEF Good, DialogsOK
<1>11. GoneOK(s1, b, g, r)
  BY <1>1, <1>4, <1>5 DEF Good, GoneOK, Dead
<1>12. UploadOK(s1, b, g, out, r, p)
  BY <1>5 DEF UploadOK, Idle, Is
<1>13. EndingOK(s1, b, out, r, p)
  <2>1. FinExpected(s1, b, r)
    BY <1>1, FinRest DEF Good, EndingOK
  <2> QED
    BY <1>5, <2>1 DEF EndingOK, Idle, Is
<1>14. OutcomeOK(s1, b, g, r, p, l)
  BY <1>1, <1>4, <1>5 DEF Good, OutcomeOK, End
<1> QED
  BY <1>1, <1>2, <1>3, <1>4, <1>5, <1>6, <1>7, <1>8, <1>9, <1>10, <1>11, <1>12, <1>13, <1>14
     DEF Good, Ahead

\* A header that the session does not expect.
LEMMA IgnoresHeaderKeeps ==
    ASSUME NEW s, NEW b, NEW g, NEW out, NEW q, NEW r, NEW p, NEW l, NEW s1, NEW out1,
           Moment(s, b, g, out, q, r, p, l, s1, out1), IgnoresHeader(s, q[1], s1)
    PROVE  Good(s1, b, g, out1, r, p, l)
<1>1. Good(s, b, g, out, q, p, l) /\ IsRest(q, r) /\ s1 \in Feeding
  BY DEF Moment
<1>2. Ahead(s, b, g, out, q, r, p, l)
  BY <1>1, AheadHolds
<1>3. out1 = out
  BY SentNone DEF Moment, IgnoresHeader
<1>4. /\ s1.phase = s.phase /\ s1.named = s.named /\ s1.bytes = s.bytes
      /\ s.detector = "idle"
      /\ s1.detector = IF q[1].type = "ZFILE" THEN "data" ELSE "idle"
      /\ q[1].type \in {"ZRQINIT", "ZRINIT", "ZFILE", "ZRPOS", "ZACK"}
      /\ q # <<>> /\ r \in Seq(Frames)
  <2>1. q[1].type \notin {"ZDATA", "ZEOF"}
    BY <1>2 DEF Ahead, Streamed, Taken, IgnoresHeader
  <2> QED
    BY <1>1, <2>1 DEF IgnoresHeader, Reads, SameFile, Steady, IsRest, HeaderTypes
<1>5. ~Streamed(q[1]) /\ ~AllJunk(q) /\ ~(r # <<>> /\ Streamed(r[1]))
  BY <1>2, <1>4 DEF Ahead, Streamed, Junk
<1>6. ~Is(p, "rz", "data")
  BY <1>2 DEF Ahead, IgnoresHeader, Header
<1>7. Typed(s1, b, g, out, r, p, l)
  BY <1>1, <1>4 DEF Good, Typed
<1>8. StreamOK(s1, b, out, r, p)
  BY <1>1, <1>2, <1>5 DEF Good, StreamOK, Ahead
<1>9. WriterOK(s1, b, out, r, p, l)
  <2> SUFFICES ASSUME b.writer # NoFile
               PROVE  WriterOK(s1, b, out, r, p, l)
    BY DEF WriterOK
  <2>1. MetaExpected(s1, r)
    <3>1. CASE HasMeta(r)
      <4>1. s1.phase = "AwaitFile" /\ q[1].type # "ZFILE"
        BY <1>2, <1>4, <3>1 DEF Ahead, IgnoresHeader
      <4>2. r # <<>> => ~IsMetaFrame(r[1])
        BY <1>2, <4>1 DEF Ahead
      <4> QED
        BY <1>4, <4>1, <4>2, LaterExpected
    <3>2. CASE ~HasMeta(r)
      BY <3>2, NoneExpected
    <3> QED
      BY <3>1, <3>2
  <2> QED
    BY <1>1, <1>4, <1>5, <2>1 DEF Good, WriterOK, Fresh, End
<1>10. DetectorOK(s1, r)
  BY <1>1, <1>2, <1>4 DEF Good, DetectorOK, Ahead, IgnoresHeader
<1>11. DialogsOK(s1, b, r, p)
  BY <1>1, <1>5 DEF Good, DialogsOK
<1>12. GoneOK(s1, b, g, r)
  BY <1>1, <1>4, <1>5 DEF Good, GoneOK, Dead
<1>13. UploadOK(s1, b, g, out, r, p)
  BY <1>2, <1>6 DEF UploadOK, Ahead
<1>14. EndingOK(s1, b, out, r, p)
  <2>1. FinExpected(s1, b, r)
    BY <1>1, FinRest DEF Good, EndingOK
  <2> QED
    BY <1>1, <1>2, <1>5, <2>1 DEF Good, EndingOK, Ahead
<1>15. OutcomeOK(s1, b, g, r, p, l)
  BY <1>1, <1>4, <1>5 DEF Good, OutcomeOK, End
<1> QED
  BY <1>1, <1>2, <1>3, <1>7, <1>8, <1>9, <1>10, <1>11, <1>12, <1>13, <1>14, <1>15
     DEF Good, Ahead

-----------------------------------------------------------------------------
(* What one frame does to the download that the user sees.                 *)

Stage(s, b) ==
    IF s.phase = "AwaitSavePath" /\ s.named THEN "offered"
    ELSE IF s.phase = "Receiving" THEN "accepted"
    ELSE IF b.outcome.how = "Receive" /\ b.outcome.path # NoFile THEN "finished"
    ELSE "none"

Shown(s, b) ==
    LET path == IF Stage(s, b) = "accepted" THEN b.writer
                ELSE IF Stage(s, b) = "finished" THEN b.outcome.path ELSE NoFile
    IN  IF path = NoFile THEN 0 ELSE Len(b.disk[path])

\* The stage and what is kept, from st0 and k0 to st and k.
Views(st0, k0, st, k) ==
    \/ st = st0 /\ k = k0
    \/ st = "none" /\ k = 0
    \/ st0 \in {"none", "finished"} /\ st = "offered" /\ k = 0
    \/ st0 = "accepted" /\ st = "accepted" /\ k \in k0..Total
    \/ st0 = "accepted" /\ st = "finished" /\ k = Total

LEMMA UnchangedView ==
    ASSUME NEW s, NEW b, NEW s1, NEW b1,
           b1.writer = b.writer, b1.disk = b.disk, b1.outcome = b.outcome,
           \/ s1.phase = s.phase /\ s1.named = s.named
           \/ /\ ~(s1.phase = "AwaitSavePath" /\ s1.named) /\ s1.phase # "Receiving"
              /\ ~(s.phase = "AwaitSavePath" /\ s.named) /\ s.phase # "Receiving"
    PROVE  Stage(s1, b1) = Stage(s, b) /\ Shown(s1, b1) = Shown(s, b)
<1>1. Stage(s1, b1) = Stage(s, b)
  BY DEF Stage
<1> QED
  BY <1>1 DEF Shown

LEMMA NoView ==
    ASSUME NEW s, NEW b, s.phase # "Receiving", ~(s.phase = "AwaitSavePath" /\ s.named),
           b.outcome.how # "Receive" \/ b.outcome.path = NoFile
    PROVE  Stage(s, b) = "none" /\ Shown(s, b) = 0
<1>1. Stage(s, b) = "none"
  BY DEF Stage
<1> QED
  BY <1>1 DEF Shown

LEMMA OffersView ==
    ASSUME NEW s, NEW b, NEW g, NEW out, NEW q, NEW r, NEW p, NEW l, NEW s1, NEW out1,
           Moment(s, b, g, out, q, r, p, l, s1, out1), Offers(s, q[1], s1)
    PROVE  LET b1 == dispatch_event(b, [type |-> "FileOffer"])
           IN  /\ Stage(s, b) \in {"none", "finished"}
               /\ Stage(s1, b1) = "offered" /\ Shown(s1, b1) = 0
               /\ ~g /\ ~AllJunk(q)
<1> DEFINE b1 == dispatch_event(b, [type |-> "FileOffer"])
<1>1. Good(s, b, g, out, q, p, l) /\ IsRest(q, r)
  BY DEF Moment
<1>2. Ahead(s, b, g, out, q, r, p, l)
  BY <1>1, AheadHolds
<1>3. s.phase = "AwaitSavePath" /\ ~s.named
  BY <1>1 DEF Offers, Good, DetectorOK
<1>4. s1.phase = "AwaitSavePath" /\ s1.named
  BY <1>3 DEF Offers
<1>5. Stage(s1, b1) = "offered" /\ Stage(s, b) \in {"none", "finished"}
  BY <1>3, <1>4 DEF Stage
<1>6. Shown(s1, b1) = 0
  BY <1>5 DEF Shown
<1>7. ~AllJunk(q)
  BY <1>2 DEF Ahead, Junk, Offers
<1>8. ~g
  BY <1>1, <1>3 DEF Good, GoneOK, Dead
<1> QED
  BY <1>5, <1>6, <1>7, <1>8

LEMMA ReceivesView ==
    ASSUME NEW s, NEW b, NEW g, NEW out, NEW q, NEW r, NEW p, NEW l, NEW s1, NEW out1,
           Moment(s, b, g, out, q, r, p, l, s1, out1), Receives(s, q[1], s1)
    PROVE  LET b1 == dispatch_event(b, [type |-> "DataReceived", body |-> q[1].body])
           IN  /\ Stage(s1, b1) = Stage(s, b)
               /\ \/ Shown(s1, b1) = Shown(s, b)
                  \/ Stage(s, b) = "accepted" /\ Shown(s1, b1) \in Shown(s, b)..Total
<1> DEFINE n == q[1].body
           b1 == dispatch_event(b, [type |-> "DataReceived", body |-> n])
<1>1. Good(s, b, g, out, q, p, l) /\ IsRest(q, r) /\ b \in Bridges
  BY DEF Moment, Good, Typed
<1>2. Ahead(s, b, g, out, q, r, p, l)
  BY <1>1, AheadHolds
<1>3. Good(s1, b1, g, out1, r, p, l) /\ [type |-> "DataReceived", body |-> n] \in Events
  BY ReceivesKeeps
<1>4. n \in Nat
  BY <1>1 DEF Receives, Frames, HeaderTypes, IsRest
<1>5. /\ b1.writer = b.writer /\ b1.outcome = b.outcome
      /\ b.writer = NoFile => b1 = b
      /\ b.writer # NoFile =>
           /\ b.writer \in Paths /\ b.disk[b.writer] \in Seq(Nat)
           /\ b1.disk[b.writer] = Append(b.disk[b.writer], n)
  BY <1>1, <1>4, WrittenIs
<1> HIDE DEF b1
<1>6. s1.phase = s.phase /\ s1.named = s.named
  BY DEF Receives
<1>7. Stage(s1, b1) = Stage(s, b)
  BY <1>5, <1>6 DEF Stage
<1>8. CASE b.writer = NoFile
  <2>1. b1 = b
    BY <1>5, <1>8
  <2>2. Shown(s1, b) = Shown(s, b)
    BY <1>6, UnchangedView
  <2> QED
    BY <1>7, <2>1, <2>2 DEF b1
<1>9. CASE b.writer # NoFile
  <2>1. s.phase = "Receiving"
    <3>1. ~IsMetaFrame(q[1])
      BY <1>2, <1>9 DEF Ahead, Receives, Fresh
    <3>2. Streamed(q[1])
      BY <3>1 DEF Receives, Streamed, IsMetaFrame
    <3> QED
      BY <1>2, <3>2 DEF Ahead, Taken
  <2>2. Stage(s, b) = "accepted"
    BY <2>1 DEF Stage
  <2>3. Shown(s, b) = Len(b.disk[b.writer]) /\ Shown(s1, b1) = Len(b1.disk[b.writer])
    BY <1>5, <1>7, <1>9, <2>2 DEF Shown
  <2>4. Len(b1.disk[b.writer]) <= Total
    BY <1>3, <1>5, <1>9 DEF Good, DiskOK
  <2>5. /\ Len(b1.disk[b.writer]) = Len(b.disk[b.writer]) + 1
        /\ Len(b.disk[b.writer]) \in Nat
    <3> DEFINE o == b.disk[b.writer]
               y == b1.disk[b.writer]
    <3>1. o \in Seq(Nat) /\ y = Append(o, n)
      BY <1>5, <1>9
    <3> HIDE DEF o, y
    <3>2. Len(y) = Len(o) + 1 /\ Len(o) \in Nat
      BY <1>4, <3>1
    <3> QED
      BY <3>2 DEF o, y
  <2>6. Shown(s1, b1) \in Shown(s, b)..Total
    BY <2>3, <2>4, <2>5, LinkAssumption
  <2> QED
    BY <1>7, <2>2, <2>6 DEF b1
<1> QED
  BY <1>8, <1>9

LEMMA FinishesView ==
    ASSUME NEW s, NEW b, NEW g, NEW out, NEW q, NEW r, NEW p, NEW l, NEW s1, NEW out1,
           NEW d \in Directions,
           Moment(s, b, g, out, q, r, p, l, s1, out1), Finishes(s, q[1], s1),
           (q[1].type = "ZEOF" /\ d = "Receive") \/ (q[1].type = "ZFIN" /\ d = s.direction)
    PROVE  LET b1 == dispatch_event(b, [type |-> "Done", direction |-> d])
           IN  \/ Stage(s1, b1) = "none" /\ Shown(s1, b1) = 0
               \/ Stage(s, b) = "accepted" /\ Stage(s1, b1) = "finished" /\ Shown(s1, b1) = Total
<1> DEFINE e == [type |-> "Done", direction |-> d]
           b1 == dispatch_event(b, e)
<1>1. Good(s, b, g, out, q, p, l) /\ IsRest(q, r) /\ b \in Bridges
  BY DEF Moment, Good, Typed
<1>2. Ahead(s, b, g, out, q, r, p, l)
  BY <1>1, AheadHolds
<1>3. b1.disk = b.disk /\ b1.outcome.how = d /\ b1.outcome.path = b.writer
  <2>1. e \in Events /\ e.type = "Done" /\ e.direction = d
    BY DEF Events
  <2> DEFINE x == [how |-> d, path |-> b.writer]
  <2>2. b1.disk = b.disk /\ b1.outcome = x
    BY <1>1, <2>1, RemovedIs
  <2>3. x.how = d /\ x.path = b.writer
    OBVIOUS
  <2> QED
    BY <2>2, <2>3
<1> HIDE DEF b1
<1>4. s1.phase = "Done"
  BY DEF Finishes
<1>5. CASE b.writer = NoFile \/ d = "Send"
  <2>1. Stage(s1, b1) = "none" /\ Shown(s1, b1) = 0
    BY <1>3, <1>4, <1>5, NoView
  <2> QED
    BY <2>1 DEF b1
<1>6. CASE b.writer # NoFile /\ d # "Send"
  <2>1. q[1].type = "ZEOF" /\ d = "Receive"
    BY <1>2, <1>6 DEF Ahead
  <2>2. Taken(s, b, Total + 1)
    BY <1>2, <2>1 DEF Ahead, Streamed, Place
  <2>3. s.phase = "Receiving" /\ Len(b.disk[b.writer]) = Total
    BY <1>6, <2>2, LinkAssumption DEF Taken
  <2>4. Stage(s, b) = "accepted"
    BY <2>3 DEF Stage
  <2>5. Stage(s1, b1) = "finished"
    BY <1>3, <1>4, <1>6, <2>1 DEF Stage
  <2>6. Shown(s1, b1) = Total
    BY <1>3, <1>6, <2>3, <2>5 DEF Shown
  <2> QED
    BY <2>4, <2>5, <2>6 DEF b1
<1> QED
  BY <1>5, <1>6

-----------------------------------------------------------------------------
(* One frame, with the event it leads to dispatched at once: the invariant *)
(* and the view.                                                           *)

\* What is shown goes from s and b to s1 and b1 as a download may. A download
\* that is given up or ends is not offered again in the same chunk: then the
\* transfer is over (g1), or junk is all that follows (r).
Seen(s, b, g, q, s1, b1, g1, r) ==
    /\ Views(Stage(s, b), Shown(s, b), Stage(s1, b1), Shown(s1, b1))
    /\ Stage(s, b) = "accepted" /\ Stage(s1, b1) # "accepted" => g1 \/ AllJunk(r)
    /\ Stage(s, b) # "offered" /\ Stage(s1, b1) = "offered" => ~g /\ ~AllJunk(q)

\* The event e takes the bridge to b1, and the transfer's end to g1.
Leads(b, g, e, b1, g1) ==
    /\ e \in Events \cup {Nothing}
    /\ b1 = dispatch_event(b, e) /\ g1 = Over(g, e) /\ g1 \in BOOLEAN
    /\ b1.session = IF e.type \in {"Done", "Cancelled"} THEN NoSession ELSE b.session

Fed(s, b, g, out, q, r, p, l, s1, out1) ==
    \E e, b1, g1 :
        /\ Reported(s, s1, e) /\ Leads(b, g, e, b1, g1)
        /\ Good(s1, b1, g1, out1, r, p, l)
        /\ Seen(s, b, g, q, s1, b1, g1, r)

LEMMA SeenSame ==
    ASSUME NEW s, NEW b, NEW g, NEW q, NEW s1, NEW b1, NEW g1, NEW r,
           Stage(s1, b1) = Stage(s, b), Shown(s1, b1) = Shown(s, b)
    PROVE  Seen(s, b, g, q, s1, b1, g1, r)
BY DEF Seen, Views

LEMMA SeenNone ==
    ASSUME NEW s, NEW b, NEW g, NEW q, NEW s1, NEW b1, NEW g1, NEW r,
           Stage(s1, b1) = "none", Shown(s1, b1) = 0, g1 \/ AllJunk(r)
    PROVE  Seen(s, b, g, q, s1, b1, g1, r)
BY DEF Seen, Views

\* Nothing is reported, or what is reported changes nothing.
LEMMA LeadsNowhere ==
    ASSUME NEW b, NEW g \in BOOLEAN, NEW e,
           e \in {Nothing, [type |-> "ReceiveOffered"], [type |-> "Skipped"]}
    PROVE  Leads(b, g, e, b, g)
<1>1. e \in Events \cup {Nothing} /\ e.type \notin {"Done", "Cancelled"}
  BY DEF Events, Nothing
<1>2. dispatch_event(b, e) = b
  BY UnseenIs
<1> QED
  BY <1>1, <1>2 DEF Leads, Over

LEMMA QuietFed ==
    ASSUME NEW s, NEW b, NEW g \in BOOLEAN, NEW out, NEW q, NEW r, NEW p, NEW l,
           NEW s1, NEW out1, NEW e,
           e \in {Nothing, [type |-> "ReceiveOffered"], [type |-> "Skipped"]},
           Reported(s, s1, e), Good(s1, b, g, out1, r, p, l),
           Seen(s, b, g, q, s1, b, g, r)
    PROVE  Fed(s, b, g, out, q, r, p, l, s1, out1)
BY LeadsNowhere DEF Fed

LEMMA SkippedSeen ==
    ASSUME NEW s, NEW b, NEW g, NEW out, NEW q, NEW r, NEW p, NEW l, NEW s1,
           Good(s, b, g, out, q, p, l), s1.phase = "Init", AllJunk(r)
    PROVE  Seen(s, b, g, q, s1, b, g, r)
<1>1. CASE s.phase = "Receiving" \/ (s.phase = "AwaitSavePath" /\ s.named)
  <2>1. ~g
    BY <1>1 DEF Good, GoneOK, Dead
  <2>2. b.outcome.how # "Receive"
    BY <1>1, <2>1 DEF Good, OutcomeOK
  <2>3. Stage(s1, b) = "none" /\ Shown(s1, b) = 0
    BY <2>2, NoView
  <2> QED
    BY <2>3, SeenNone
<1>2. CASE ~(s.phase = "Receiving" \/ (s.phase = "AwaitSavePath" /\ s.named))
  <2>1. Stage(s1, b) = Stage(s, b) /\ Shown(s1, b) = Shown(s, b)
    BY <1>2, UnchangedView
  <2> QED
    BY <2>1, SeenSame
<1> QED
  BY <1>1, <1>2

LEMMA QuietCases ==
    ASSUME NEW s, NEW b, NEW g, NEW out, NEW q, NEW r, NEW p, NEW l, NEW s1, NEW out1,
           Moment(s, b, g, out, q, r, p, l, s1, out1),
           \/ Passes(s, q[1], s1) \/ Greets(s, q[1], s1) \/ AwaitsName(s, q[1], s1)
           \/ Sends(s, q[1], s1) \/ AwaitsData(s, q[1], s1) \/ IsSkipped(s, q[1], s1)
           \/ IgnoresHeader(s, q[1], s1)
    PROVE  Fed(s, b, g, out, q, r, p, l, s1, out1)
<1>1. Good(s, b, g, out, q, p, l) /\ IsRest(q, r) /\ g \in BOOLEAN
  BY DEF Moment, Good, Typed
<1>2. CASE Passes(s, q[1], s1)
  <2>1. Good(s1, b, g, out1, r, p, l)
    BY <1>2, PassesKeeps
  <2>2. Reported(s, s1, Nothing)
    BY <1>2 DEF Passes
  <2>3. Seen(s, b, g, q, s1, b, g, r)
    BY <1>2, UnchangedView, SeenSame DEF Passes, SameFile, Steady
  <2> QED
    BY <1>1, <2>1, <2>2, <2>3, QuietFed
<1>3. CASE Greets(s, q[1], s1)
  <2>1. Good(s1, b, g, out1, r, p, l)
    BY <1>3, GreetsKeeps
  <2>2. Reported(s, s1, [type |-> "ReceiveOffered"])
    BY <1>3 DEF Greets
  <2>3. Seen(s, b, g, q, s1, b, g, r)
    BY <1>3, UnchangedView, SeenSame DEF Greets
  <2> QED
    BY <1>1, <2>1, <2>2, <2>3, QuietFed
<1>4. CASE AwaitsName(s, q[1], s1)
  <2>1. Good(s1, b, g, out1, r, p, l)
    BY <1>4, AwaitsNameKeeps
  <2>2. Reported(s, s1, Nothing)
    BY <1>4 DEF AwaitsName
  <2>3. ~AllJunk(q)
    BY <1>1, <1>4, JunkRest DEF AwaitsName, Junk
  <2>4. ~s.named /\ ~s1.named
    BY <1>1, <1>4, <2>3 DEF Good, OutcomeOK, End, AwaitsName, SameFile, Steady
  <2>5. Seen(s, b, g, q, s1, b, g, r)
    BY <1>4, <2>4, UnchangedView, SeenSame DEF AwaitsName
  <2> QED
    BY <1>1, <2>1, <2>2, <2>5, QuietFed
<1>5. CASE Sends(s, q[1], s1)
  <2>1. Good(s1, b, g, out1, r, p, l)
    BY <1>5, SendsKeeps
  <2>2. Reported(s, s1, Nothing)
    BY <1>5 DEF Sends
  <2>3. Seen(s, b, g, q, s1, b, g, r)
    BY <1>5, UnchangedView, SeenSame DEF Sends
  <2> QED
    BY <1>1, <2>1, <2>2, <2>3, QuietFed
<1>6. CASE AwaitsData(s, q[1], s1)
  <2>1. Good(s1, b, g, out1, r, p, l)
    BY <1>6, AwaitsDataKeeps
  <2>2. Reported(s, s1, Nothing)
    BY <1>6 DEF AwaitsData
  <2>3. Seen(s, b, g, q, s1, b, g, r)
    BY <1>6, UnchangedView, SeenSame DEF AwaitsData, SameFile, Steady
  <2> QED
    BY <1>1, <2>1, <2>2, <2>3, QuietFed
<1>7. CASE IsSkipped(s, q[1], s1)
  <2>1. Good(s1, b, g, out1, r, p, l) /\ s1.phase = "Init" /\ AllJunk(r)
    BY <1>7, IsSkippedKeeps
  <2>2. Reported(s, s1, [type |-> "Skipped"])
    BY <1>7 DEF IsSkipped
  <2>3. Seen(s, b, g, q, s1, b, g, r)
    BY <1>1, <2>1, SkippedSeen
  <2> QED
    BY <1>1, <2>1, <2>2, <2>3, QuietFed
<1>8. CASE IgnoresHeader(s, q[1], s1)
  <2>1. Good(s1, b, g, out1, r, p, l)
    BY <1>8, IgnoresHeaderKeeps
  <2>2. Reported(s, s1, Nothing)
    BY <1>8 DEF IgnoresHeader
  <2>3. Seen(s, b, g, q, s1, b, g, r)
    BY <1>8, UnchangedView, SeenSame DEF IgnoresHeader, SameFile, Steady
  <2> QED
    BY <1>1, <2>1, <2>2, <2>3, QuietFed
<1> QED
  BY <1>2, <1>3, <1>4, <1>5, <1>6, <1>7, <1>8

LEMMA EndsLead ==
    ASSUME NEW b \in Bridges, NEW g \in BOOLEAN, NEW e \in Events,
           e.type \in {"Done", "Cancelled"}
    PROVE  Leads(b, g, e, dispatch_event(b, e), TRUE)
BY RemovedIs DEF Leads, Over

LEMMA EventCases ==
    ASSUME NEW s, NEW b, NEW g, NEW out, NEW q, NEW r, NEW p, NEW l, NEW s1, NEW out1,
           Moment(s, b, g, out, q, r, p, l, s1, out1),
           \/ Cancels(s, q[1], s1) \/ Finishes(s, q[1], s1) \/ Offers(s, q[1], s1)
           \/ Receives(s, q[1], s1) \/ AsksForFile(s, q[1], s1)
    PROVE  Fed(s, b, g, out, q, r, p, l, s1, out1)
<1>1. Good(s, b, g, out, q, p, l) /\ IsRest(q, r) /\ g \in BOOLEAN /\ b \in Bridges
  BY DEF Moment, Good, Typed
<1>2. CASE Cancels(s, q[1], s1)
  <2> DEFINE e == [type |-> "Cancelled"]
             b1 == dispatch_event(b, e)
  <2>1. e \in Events /\ e.type = "Cancelled"
    BY DEF Events
  <2>2. Good(s1, b1, TRUE, out1, r, p, l)
    BY <1>2, CancelsKeeps
  <2>3. Reported(s, s1, e) /\ s1.phase = "Cancelled"
    BY <1>2 DEF Cancels
  <2>4. Leads(b, g, e, b1, TRUE)
    BY <1>1, <2>1, EndsLead
  <2>5. b1.outcome.how = "Cancelled"
    <3> DEFINE x == [how |-> "Cancelled", path |-> b.writer]
    <3>1. b1.outcome = x
      BY <1>1, <2>1, RemovedIs
    <3>2. x.how = "Cancelled"
      OBVIOUS
    <3> QED
      BY <3>1, <3>2
  <2> HIDE DEF b1, e
  <2>6. Stage(s1, b1) = "none" /\ Shown(s1, b1) = 0
    BY <2>3, <2>5, NoView
  <2>7. Seen(s, b, g, q, s1, b1, TRUE, r)
    BY <2>6, SeenNone
  <2> QED
    BY <2>2, <2>3, <2>4, <2>7 DEF Fed
<1>3. CASE Finishes(s, q[1], s1)
  <2>1. PICK d \in Directions :
             /\ Reported(s, s1, [type |-> "Done", direction |-> d])
             /\ Good(s1, dispatch_event(b, [type |-> "Done", direction |-> d]), TRUE, out1, r, p, l)
             /\ (q[1].type = "ZEOF" /\ d = "Receive") \/ (q[1].type = "ZFIN" /\ d = s.direction)
    BY <1>3, FinishesKeeps
  <2> DEFINE e == [type |-> "Done", direction |-> d]
             b1 == dispatch_event(b, e)
  <2>2. e \in Events /\ e.type = "Done"
    BY DEF Events
  <2>3. Leads(b, g, e, b1, TRUE)
    BY <1>1, <2>2, EndsLead
  <2>4. \/ Stage(s1, b1) = "none" /\ Shown(s1, b1) = 0
        \/ Stage(s, b) = "accepted" /\ Stage(s1, b1) = "finished" /\ Shown(s1, b1) = Total
    BY <1>3, <2>1, FinishesView
  <2> HIDE DEF b1, e
  <2>5. Seen(s, b, g, q, s1, b1, TRUE, r)
    BY <2>4 DEF Seen, Views
  <2>6. Reported(s, s1, e) /\ Good(s1, b1, TRUE, out1, r, p, l)
    BY <2>1 DEF e, b1
  <2> QED
    BY <2>3, <2>5, <2>6 DEF Fed
<1>4. CASE Offers(s, q[1], s1)
  <2> DEFINE e == [type |-> "FileOffer"]
             b1 == dispatch_event(b, e)
  <2>1. e \in Events /\ e.type = "FileOffer"
    BY DEF Events
  <2>2. Good(s1, b1, g, out1, r, p, l)
    BY <1>4, OffersKeeps
  <2>3. Reported(s, s1, e)
    BY <1>4 DEF Offers
  <2>4. Leads(b, g, e, b1, g)
    BY <1>1, <2>1, OfferedIs DEF Leads, Over
  <2>5. /\ Stage(s, b) \in {"none", "finished"}
        /\ Stage(s1, b1) = "offered" /\ Shown(s1, b1) = 0
        /\ ~g /\ ~AllJunk(q)
    BY <1>4, OffersView
  <2> HIDE DEF b1, e
  <2>6. Seen(s, b, g, q, s1, b1, g, r)
    BY <2>5 DEF Seen, Views
  <2> QED
    BY <2>2, <2>3, <2>4, <2>6 DEF Fed
<1>5. CASE Receives(s, q[1], s1)
  <2> DEFINE n == q[1].body
             e == [type |-> "DataReceived", body |-> n]
             b1 == dispatch_event(b, e)
  <2>1. e \in Events /\ Good(s1, b1, g, out1, r, p, l)
    BY <1>5, ReceivesKeeps
  <2>2. n \in Nat
    BY <1>1, <1>5 DEF Receives, Frames, HeaderTypes, IsRest
  <2>3. Reported(s, s1, e)
    BY <1>5 DEF Receives
  <2>4. b1.session = b.session
    BY <1>1, <2>2, WrittenIs
  <2>5. e.type = "DataReceived"
    OBVIOUS
  <2>6. Leads(b, g, e, b1, g)
    BY <1>1, <2>1, <2>4, <2>5 DEF Leads, Over
  <2>7. /\ Stage(s1, b1) = Stage(s, b)
        /\ \/ Shown(s1, b1) = Shown(s, b)
           \/ Stage(s, b) = "accepted" /\ Shown(s1, b1) \in Shown(s, b)..Total
    BY <1>5, ReceivesView
  <2> HIDE DEF b1, e
  <2>8. Seen(s, b, g, q, s1, b1, g, r)
    BY <2>7 DEF Seen, Views
  <2> QED
    BY <2>1, <2>3, <2>6, <2>8 DEF Fed
<1>6. CASE AsksForFile(s, q[1], s1)
  <2> DEFINE e == [type |-> "SendOffered"]
             b1 == dispatch_event(b, e)
  <2>1. e \in Events /\ e.type = "SendOffered"
    BY DEF Events
  <2>2. Good(s1, b1, g, out1, r, p, l)
    BY <1>6, AsksForFileKeeps
  <2>3. Reported(s, s1, e) /\ s.phase = "Init" /\ s1.phase = "Init"
    BY <1>6 DEF AsksForFile
  <2>4. /\ b1.session = b.session /\ b1.writer = b.writer
        /\ b1.disk = b.disk /\ b1.outcome = b.outcome
    BY <1>1, AskedIs
  <2>5. Leads(b, g, e, b1, g)
    BY <1>1, <2>1, <2>4 DEF Leads, Over
  <2> HIDE DEF b1, e
  <2>6. Seen(s, b, g, q, s1, b1, g, r)
    BY <2>3, <2>4, UnchangedView, SeenSame
  <2> QED
    BY <2>2, <2>3, <2>5, <2>6 DEF Fed
<1> QED
  BY <1>2, <1>3, <1>4, <1>5, <1>6

LEMMA FrameFed ==
    ASSUME NEW s, NEW b, NEW g, NEW o \in Seq(Frames), NEW q, NEW p, NEW l, q # <<>>,
           Good(s, b, g, o \o s.to_pty, q, p, l)
    PROVE  Fed(s, b, g, o \o s.to_pty, q, Tail(q), p, l,
               feed(s, q[1]), o \o feed(s, q[1]).to_pty)
<1> DEFINE r == Tail(q)
           s1 == feed(s, q[1])
           out == o \o s.to_pty
           out1 == o \o s1.to_pty
<1>1. s \in Feeding /\ q \in Seq(Frames)
  BY DEF Good, Typed
<1>2. IsRest(q, r)
  BY <1>1, RestIsTail
<1>3. q[1] \in Frames
  BY <1>2 DEF IsRest
<1>4. s1 \in Feeding /\ FedCases(s, q[1], s1)
  BY <1>1, <1>3, FeedType, FeedEffect
<1>5. Sent(s, s1, out, out1)
  BY DEF Sent
<1>6. Good(s, b, g, out, q, p, l)
  OBVIOUS
<1> HIDE DEF r, s1, out, out1
<1>7. Moment(s, b, g, out, q, r, p, l, s1, out1)
  BY <1>2, <1>4, <1>5, <1>6 DEF Moment
<1>8. Fed(s, b, g, out, q, r, p, l, s1, out1)
  BY <1>4, <1>7, QuietCases, EventCases DEF FedCases
<1> QED
  BY <1>8 DEF r, s1, out, out1

-----------------------------------------------------------------------------
(* A chunk of output, by induction on how much of it was fed.              *)

\* What is left of q after n frames.
Rest(q, n) == SubSeq(q, n + 1, Len(q))

LEMMA RestSteps ==
    ASSUME NEW q \in Seq(Frames), NEW n \in Nat, n < Len(q)
    PROVE  /\ Rest(q, n) \in Seq(Frames) /\ Rest(q, n) # <<>>
           /\ Rest(q, n)[1] = q[n + 1] /\ Tail(Rest(q, n)) = Rest(q, n + 1)
<1> DEFINE m == Len(q)
           r == SubSeq(q, n + 1, m)
           t == Tail(r)
           u == SubSeq(q, n + 2, m)
<1>1. m \in Nat /\ n + 1 \in 1..m /\ m - n \in Nat /\ m - n > 0
  OBVIOUS
<1>2. r \in Seq(Frames) /\ Len(r) = m - n /\ \A i \in 1..m - n : r[i] = q[n + i]
  BY <1>1
<1>3. u \in Seq(Frames) /\ Len(u) = m - n - 1 /\ \A i \in 1..m - n - 1 : u[i] = q[n + 1 + i]
  BY <1>1
<1> HIDE DEF r, u
<1>4. r # <<>> /\ r[1] = q[n + 1]
  <2>1. 1 \in 1..m - n
    BY <1>1
  <2>2. r[1] = q[n + 1]
    BY <1>2, <2>1
  <2> QED
    BY <1>1, <1>2, <2>2
<1>5. t \in Seq(Frames) /\ Len(t) = m - n - 1 /\ \A i \in 1..m - n - 1 : t[i] = r[i + 1]
  BY <1>1, <1>2, <1>4
<1> HIDE DEF t
<1>6. ASSUME NEW i \in 1..m - n - 1
      PROVE  t[i] = u[i]
  <2>1. i + 1 \in 1..m - n /\ n + (i + 1) = n + 1 + i
    BY <1>1
  <2>2. r[i + 1] = q[n + 1 + i]
    BY <1>2, <2>1
  <2> QED
    BY <1>3, <1>5, <2>2
<1>7. t = u
  BY <1>1, <1>3, <1>5, <1>6
<1>8. (n + 1) + 1 = n + 2
  OBVIOUS
<1> QED
  BY <1>2, <1>4, <1>7, <1>8 DEF Rest, r, t, u

LEMMA ShownType ==
    ASSUME NEW s, NEW b \in Bridges
    PROVE  Shown(s, b) \in Nat /\ (Stage(s, b) \in {"none", "offered"} => Shown(s, b) = 0)
<1>1. ASSUME NEW x \in Paths
      PROVE  Len(b.disk[x]) \in Nat
  BY DEF Bridges
<1>2. b.writer \in Paths \cup {NoFile} /\ b.outcome.path \in Paths \cup {NoFile}
  BY DEF Bridges, Outcomes
<1> QED
  BY <1>1, <1>2 DEF Shown

\* What has been seen since the chunk came, with q still to be fed.
SeenSince(s0, b0, s, b, g, q) ==
    /\ Views(Stage(s0, b0), Shown(s0, b0), Stage(s, b), Shown(s, b))
    /\ Stage(s0, b0) = "accepted" /\ Stage(s, b) # "accepted" => g \/ AllJunk(q)

LEMMA SeenOn ==
    ASSUME NEW s0, NEW b0 \in Bridges, NEW s, NEW b \in Bridges, NEW g \in BOOLEAN, NEW q,
           NEW s1, NEW b1 \in Bridges, NEW g1 \in BOOLEAN, NEW r,
           IsRest(q, r), g => g1,
           SeenSince(s0, b0, s, b, g, q), Seen(s, b, g, q, s1, b1, g1, r)
    PROVE  SeenSince(s0, b0, s1, b1, g1, r)
<1> DEFINE st0 == Stage(s0, b0)
           k0 == Shown(s0, b0)
           st == Stage(s, b)
           k == Shown(s, b)
           st1 == Stage(s1, b1)
           k1 == Shown(s1, b1)
<1>1. /\ k0 \in Nat /\ k \in Nat /\ k1 \in Nat
      /\ st0 \in {"none", "offered", "accepted", "finished"}
      /\ st0 \in {"none", "offered"} => k0 = 0
      /\ st1 \in {"none", "offered"} => k1 = 0
  BY ShownType DEF Stage
<1>2. AllJunk(q) => AllJunk(r)
  BY JunkRest
<1>3. /\ Views(st0, k0, st, k) /\ Views(st, k, st1, k1)
      /\ st0 = "accepted" /\ st # "accepted" => g \/ AllJunk(q)
      /\ st = "accepted" /\ st1 # "accepted" => g1 \/ AllJunk(r)
      /\ st # "offered" /\ st1 = "offered" => ~g /\ ~AllJunk(q)
  BY DEF Seen, SeenSince
<1> SUFFICES Views(st0, k0, st1, k1) /\ (st0 = "accepted" /\ st1 # "accepted" => g1 \/ AllJunk(r))
  BY DEF SeenSince
<1> HIDE DEF st0, k0, st, k, st1, k1
<1>4. st0 = "accepted" /\ st1 # "accepted" => g1 \/ AllJunk(r)
  BY <1>2, <1>3
<1>5. Views(st0, k0, st1, k1)
  <2>1. CASE st1 = st /\ k1 = k
    BY <1>3, <2>1
  <2>2. CASE st1 = "none" /\ k1 = 0
    BY <2>2 DEF Views
  <2>3. CASE st \in {"none", "finished"} /\ st1 = "offered" /\ k1 = 0
    <3>1. st0 # "accepted"
      BY <1>3, <2>3
    <3> QED
      BY <1>1, <2>3, <3>1 DEF Views
  <2>4. CASE st = "accepted" /\ (\/ st1 = "accepted" /\ k1 \in k..Total
                                 \/ st1 = "finished" /\ k1 = Total)
    <3>1. st0 = "accepted" /\ k0 <= k
      BY <1>1, <1>3, <2>4, LinkAssumption DEF Views
    <3> QED
      BY <1>1, <2>4, <3>1, LinkAssumption DEF Views
  <2>5. \/ st1 = st /\ k1 = k
        \/ st1 = "none" /\ k1 = 0
        \/ st \in {"none", "finished"} /\ st1 = "offered" /\ k1 = 0
        \/ st = "accepted" /\ (\/ st1 = "accepted" /\ k1 \in k..Total
                               \/ st1 = "finished" /\ k1 = Total)
    BY <1>3 DEF Views
  <2> QED
    BY <2>1, <2>2, <2>3, <2>4, <2>5
<1> QED
  BY <1>4, <1>5

\* The state after n frames, when f says what the session is after each.
FedSoFar(s0, b0, out, q, p, l, f, n) ==
    \E b, g :
        /\ b = DispatchAll(b0, f[n].events)
        /\ Good(f[n], b, g, out \o f[n].to_pty, Rest(q, n), p, l)
        /\ b.session = IF g THEN NoSession ELSE b0.session
        /\ SeenSince(s0, b0, f[n], b, g, Rest(q, n))

LEMMA FedOneMore ==
    ASSUME NEW s0, NEW b0 \in Bridges, NEW out \in Seq(Frames), NEW q \in Seq(Frames),
           NEW p, NEW l, NEW f, NEW n \in Nat, n < Len(q),
           f[n + 1] = feed(f[n], q[n + 1]), FedSoFar(s0, b0, out, q, p, l, f, n)
    PROVE  FedSoFar(s0, b0, out, q, p, l, f, n + 1)
<1> DEFINE s == f[n]
           s1 == f[n + 1]
           r == Rest(q, n)
           r1 == Rest(q, n + 1)
           u == out \o s.to_pty
           u1 == out \o s1.to_pty
<1>1. PICK b, g :
        /\ b = DispatchAll(b0, s.events)
        /\ Good(s, b, g, u, r, p, l)
        /\ b.session = IF g THEN NoSession ELSE b0.session
        /\ SeenSince(s0, b0, s, b, g, r)
  BY DEF FedSoFar
<1>2. r \in Seq(Frames) /\ r # <<>> /\ r[1] = q[n + 1] /\ Tail(r) = r1
  BY RestSteps
<1>3. Fed(s, b, g, u, r, r1, p, l, s1, u1)
  <2>1. feed(s, r[1]) = s1
    BY <1>2
  <2>2. Fed(s, b, g, out \o s.to_pty, r, Tail(r), p, l, feed(s, r[1]),
            out \o feed(s, r[1]).to_pty)
    <3> HIDE DEF s, r
    <3> QED
      BY <1>1, <1>2, FrameFed DEF u
  <2> QED
    BY <1>2, <2>1, <2>2
<1>4. PICK e, b1, g1 :
        /\ Reported(s, s1, e) /\ Leads(b, g, e, b1, g1)
        /\ Good(s1, b1, g1, u1, r1, p, l)
        /\ Seen(s, b, g, r, s1, b1, g1, r1)
  BY <1>3 DEF Fed
<1>5. /\ s \in Feeding /\ b \in Bridges /\ g \in BOOLEAN
      /\ s1 \in Feeding /\ b1 \in Bridges /\ g1 \in BOOLEAN
  BY <1>1, <1>4 DEF Good, Typed
<1>6. b1 = DispatchAll(b0, s1.events)
  <2>1. CASE e = Nothing
    BY <1>1, <1>4, <2>1, UnseenIs DEF Reported, Leads
  <2>2. CASE e # Nothing
    <3> DEFINE t == s.events
    <3>1. e \in Events /\ t \in Seq(Events) /\ s1.events = Append(t, e)
      BY <1>4, <1>5, <2>2 DEF Leads, Reported, Feeding
    <3>2. DispatchAll(b0, Append(t, e)) = dispatch_event(DispatchAll(b0, t), e)
      <4> HIDE DEF t
      <4> QED
        BY <3>1, DispatchAppend
    <3> QED
      BY <1>1, <1>4, <3>1, <3>2 DEF Leads
  <2> QED
    BY <2>1, <2>2
<1>7. b1.session = IF g1 THEN NoSession ELSE b0.session
  BY <1>1, <1>4, <1>5 DEF Leads, Over
<1>8. g => g1
  BY <1>4, <1>5 DEF Leads, Over
<1>9. IsRest(r, r1)
  <2> HIDE DEF r, r1
  <2> QED
    BY <1>2, RestIsTail
<1>10. SeenSince(s0, b0, s1, b1, g1, r1)
  BY <1>1, <1>4, <1>5, <1>8, <1>9, SeenOn
<1> QED
  BY <1>4, <1>6, <1>7, <1>10 DEF FedSoFar

\* The state after the chunk, from the events and answers that were collected.
ChunkEnd(s0, b0, out, s, q, p, l) ==
    LET b == DispatchAll(b0, s.events)
    IN  \E g : /\ Good(s, b, g, out \o s.to_pty, q, p, l)
               /\ b.session = IF g THEN NoSession ELSE b0.session
               /\ SeenSince(s0, b0, s, b, g, q)

LEMMA ChunkFed ==
    ASSUME NEW s0, NEW b0 \in Bridges, NEW out \in Seq(Frames), NEW q \in Seq(Frames),
           NEW p, NEW l, NEW n \in Nat, n <= Len(q),
           Good(s0, b0, FALSE, out, q, p, l), s0.to_pty = <<>>, s0.events = <<>>
    PROVE  ChunkEnd(s0, b0, out, FeedAll(s0, SubSeq(q, 1, n)), Rest(q, n), p, l)
<1> DEFINE chunk == SubSeq(q, 1, n)
<1>1. chunk \in Seq(Frames) /\ Len(chunk) = n /\ \A i \in 1..n : chunk[i] = q[i]
  OBVIOUS
<1>2. s0 \in Feeding
  BY DEF Good, Typed
<1> HIDE DEF chunk
<1>3. PICK f : FeedsThrough(f, s0, chunk)
  BY <1>1, <1>2, FeedAllValues
<1> DEFINE T == {i \in Nat : i <= n => FedSoFar(s0, b0, out, q, p, l, f, i)}
<1>4. 0 \in T
  <2>1. f[0] = s0
    BY <1>3 DEF FeedsThrough
  <2>2. DispatchAll(b0, f[0].events) = b0
    BY <2>1, DispatchNone
  <2>3. out \o f[0].to_pty = out
    BY <2>1
  <2>4. Rest(q, 0) = q
    BY DEF Rest
  <2>5. SeenSince(s0, b0, f[0], b0, FALSE, q)
    BY <2>1 DEF SeenSince, Views
  <2>6. b0.session = IF FALSE THEN NoSession ELSE b0.session
    OBVIOUS
  <2>7. FedSoFar(s0, b0, out, q, p, l, f, 0)
    BY <2>1, <2>2, <2>3, <2>4, <2>5, <2>6 DEF FedSoFar
  <2> QED
    BY <2>7
<1>5. ASSUME NEW i \in Nat, i \in T
      PROVE  i + 1 \in T
  <2> SUFFICES ASSUME i + 1 <= n
               PROVE  FedSoFar(s0, b0, out, q, p, l, f, i + 1)
    OBVIOUS
  <2>1. i + 1 \in 1..n /\ (i + 1) - 1 = i /\ i < Len(q) /\ i <= n
    OBVIOUS
  <2>2. FedSoFar(s0, b0, out, q, p, l, f, i)
    BY <1>5, <2>1
  <2>3. f[i + 1] = feed(f[i], q[i + 1])
    BY <1>1, <1>3, <2>1 DEF FeedsThrough
  <2> QED
    BY <2>1, <2>2, <2>3, FedOneMore
<1> HIDE DEF T
<1>6. n \in T
  BY <1>4, <1>5, Inductive
<1>7. FedSoFar(s0, b0, out, q, p, l, f, n)
  BY <1>6 DEF T
<1>8. FeedAll(s0, chunk) = f[n]
  BY <1>1, <1>3 DEF FeedsThrough
<1>9. ChunkEnd(s0, b0, out, f[n], Rest(q, n), p, l)
  BY <1>7 DEF FedSoFar, ChunkEnd
<1> QED
  BY <1>8, <1>9 DEF chunk

-----------------------------------------------------------------------------
(* What a chunk of output leaves: a session whose answers and events were  *)
(* taken, or none.                                                         *)

SameSession(s, s1) ==
    /\ s1.phase = s.phase /\ s1.direction = s.direction /\ s1.detector = s.detector
    /\ s1.named = s.named /\ s1.bytes = s.bytes /\ s1.payload = s.payload
    /\ s1.send_offset = s.send_offset

SameBridge(b, b1) ==
    /\ b1.writer = b.writer /\ b1.disk = b.disk /\ b1.save = b.save /\ b1.open = b.open
    /\ b1.outcome = b.outcome

LEMMA GoodSame ==
    ASSUME NEW s, NEW b, NEW g, NEW out, NEW q, NEW p, NEW l,
           NEW s1 \in Feeding, NEW b1 \in Bridges,
           Good(s, b, g, out, q, p, l), SameSession(s, s1), SameBridge(b, b1)
    PROVE  /\ Good(s1, b1, g, out, q, p, l)
           /\ Stage(s1, b1) = Stage(s, b) /\ Shown(s1, b1) = Shown(s, b)
<1>1. Typed(s1, b1, g, out, q, p, l)
  BY DEF Good, Typed
<1> USE DEF SameSession, SameBridge
<1>2. StreamOK(s1, b1, out, q, p)
  BY DEF Good, StreamOK, Taken
<1>3. WriterOK(s1, b1, out, q, p, l)
  BY DEF Good, WriterOK, MetaExpected, Fresh
<1>4. DetectorOK(s1, q) /\ DialogsOK(s1, b1, q, p) /\ GoneOK(s1, b1, g, q)
  BY DEF Good, DetectorOK, DialogsOK, GoneOK, Fresh
<1>5. UploadOK(s1, b1, g, out, q, p) /\ DiskOK(b1)
  BY DEF Good, UploadOK, DiskOK
<1>6. EndingOK(s1, b1, out, q, p) /\ OutcomeOK(s1, b1, g, q, p, l)
  BY DEF Good, EndingOK, OutcomeOK, FinExpected
<1>7. Stage(s1, b1) = Stage(s, b) /\ Shown(s1, b1) = Shown(s, b)
  BY UnchangedView
<1> QED
  BY <1>1, <1>2, <1>3, <1>4, <1>5, <1>6, <1>7 DEF Good

LEMMA DrainedIs ==
    ASSUME NEW s \in Feeding
    PROVE  /\ Drained(s) \in Feeding /\ SameSession(s, Drained(s)) /\ Drained(s) # NoSession
           /\ Drained(s).to_pty = <<>> /\ Drained(s).events = <<>>
<1> DEFINE s1 == [s EXCEPT !.to_pty = <<>>, !.events = <<>>]
<1>1. s # NoSession
  BY DEF Feeding, Phases, NoSession
<1>2. <<>> \in Seq(Frames) /\ <<>> \in Seq(Events)
  OBVIOUS
<1>3. s1 \in Feeding /\ SameSession(s, s1) /\ s1.to_pty = <<>> /\ s1.events = <<>>
  BY <1>2 DEF Feeding, SameSession
<1>4. Drained(s) = s1
  BY <1>1 DEF Drained
<1> HIDE DEF s1
<1>5. s1 # NoSession
  BY <1>3 DEF Feeding, Phases, NoSession
<1> QED
  BY <1>3, <1>4, <1>5

LEMMA NewIs == New \in Feeding /\ New.to_pty = <<>> /\ New.events = <<>>
<1>1. <<>> \in Seq(Frames) /\ <<>> \in Seq(Events)
  OBVIOUS
<1> QED
  BY <1>1 DEF New, Feeding, Phases, Directions

\* After the end of a transfer the session is made anew.
LEMMA GoodNew ==
    ASSUME NEW s, NEW b, NEW out, NEW q, NEW p, NEW l,
           Good(s, b, TRUE, out, q, p, l)
    PROVE  /\ Good(New, b, FALSE, out, q, p, l)
           /\ Stage(New, b) = Stage(s, b) /\ Shown(New, b) = Shown(s, b)
<1>1. /\ New.phase = "Init" /\ New.detector = "idle" /\ ~New.named /\ New.bytes = 0
      /\ New \in Feeding
  BY NewIs DEF New
<1>2. /\ b.writer = NoFile /\ s.phase \in {"Done", "Cancelled", "Init"}
  BY DEF Good, GoneOK, Dead
<1>3. Typed(New, b, FALSE, out, q, p, l)
  BY <1>1 DEF Good, Typed
<1>4. StreamOK(New, b, out, q, p)
  BY <1>2 DEF Good, StreamOK, Taken
<1>5. WriterOK(New, b, out, q, p, l) /\ DetectorOK(New, q) /\ GoneOK(New, b, FALSE, q)
  BY <1>1, <1>2 DEF WriterOK, DetectorOK, GoneOK, Dead
<1>6. DialogsOK(New, b, q, p)
  BY <1>1, <1>2 DEF Good, DialogsOK, Fresh
<1>7. UploadOK(New, b, FALSE, out, q, p)
  BY <1>2 DEF Good, UploadOK
<1>8. EndingOK(New, b, out, q, p)
  BY <1>2 DEF Good, EndingOK, FinExpected
<1>9. OutcomeOK(New, b, FALSE, q, p, l)
  BY <1>1 DEF Good, OutcomeOK
<1>10. Stage(New, b) = Stage(s, b) /\ Shown(New, b) = Shown(s, b)
  BY <1>1, <1>2, UnchangedView
<1> QED
  BY <1>3, <1>4, <1>5, <1>6, <1>7, <1>8, <1>9, <1>10 DEF Good

\* The session that the bridge has after the chunk, and the one the next chunk finds.
Holds(b, g, s) == b.session = IF g THEN NoSession ELSE Drained(s)
Found(s) == IF s = NoSession THEN New ELSE s

LEMMA ChunkLeaves ==
    ASSUME NEW s, NEW b, NEW g, NEW out, NEW q, NEW p, NEW l, NEW b1 \in Bridges,
           Good(s, b, g, out, q, p, l), SameBridge(b, b1), Holds(b, g, s)
    PROVE  /\ Good(Found(b.session), b1, FALSE, out, q, p, l) /\ Emptied(b.session)
           /\ Stage(Found(b.session), b1) = Stage(s, b)
           /\ Shown(Found(b.session), b1) = Shown(s, b)
<1> USE DEF Holds
<1> DEFINE s1 == Found(b.session)
<1>1. s \in Feeding /\ g \in BOOLEAN
  BY DEF Good, Typed
<1>2. CASE g
  <2>1. s1 = New /\ Emptied(b.session)
    BY <1>2 DEF Emptied, Found
  <2>2. SameSession(s, s)
    BY DEF SameSession
  <2>3. /\ Good(s, b1, g, out, q, p, l)
        /\ Stage(s, b1) = Stage(s, b) /\ Shown(s, b1) = Shown(s, b)
    BY <1>1, <2>2, GoodSame
  <2>4. /\ Good(New, b1, FALSE, out, q, p, l)
        /\ Stage(New, b1) = Stage(s, b1) /\ Shown(New, b1) = Shown(s, b1)
    <3>1. g = TRUE
      BY <1>1, <1>2
    <3> QED
      BY <2>3, <3>1, GoodNew
  <2> QED
    BY <2>1, <2>3, <2>4
<1>3. CASE ~g
  <2> DEFINE d == Drained(s)
  <2>1. /\ d \in Feeding /\ SameSession(s, d) /\ d # NoSession
        /\ d.to_pty = <<>> /\ d.events = <<>>
    BY <1>1, DrainedIs
  <2>2. s1 = d /\ b.session = d /\ Emptied(d)
    BY <1>3, <2>1 DEF Emptied, Found
  <2> HIDE DEF d
  <2>3. /\ Good(d, b1, g, out, q, p, l)
        /\ Stage(d, b1) = Stage(s, b) /\ Shown(d, b1) = Shown(s, b)
    BY <2>1, GoodSame
  <2>4. g = FALSE
    BY <1>1, <1>3
  <2> QED
    BY <2>2, <2>3, <2>4
<1> QED
  BY <1>1, <1>2, <1>3

-----------------------------------------------------------------------------
(* The steps of the system.                                                *)

\* What the user is shown changes as a download may.
Viewed ==
    Views(Stage(session_for, Bridge), Shown(session_for, Bridge),
          Stage(session_for', Bridge'), Shown(session_for', Bridge'))

LEMMA BridgeFields ==
    /\ Bridge.session = session /\ Bridge.writer = writer /\ Bridge.disk = disk
    /\ Bridge.save = saveDialogs /\ Bridge.open = openDialogs /\ Bridge.outcome = outcome
BY DEF Bridge

\* The conjuncts of LinkInv as facts about a session, a bridge and the rest.
LEMMA LinkInvParts ==
    ASSUME LinkInv
    PROVE  /\ Good(session_for, Bridge, FALSE, toPeer, toHost, peer, runs = MaxRuns)
           /\ session_for \in Feeding /\ Bridge \in Bridges /\ peer \in Peers
           /\ toPeer \in Seq(Frames) /\ toHost \in Seq(Frames)
           /\ session_for.to_pty = <<>> /\ session_for.events = <<>>
<1>1. Good(session_for, Bridge, FALSE, toPeer, toHost, peer, runs = MaxRuns) /\ Emptied(session)
  BY DEF LinkInv
<1>2. session_for.to_pty = <<>> /\ session_for.events = <<>>
  BY <1>1, NewIs DEF Emptied, session_for
<1> QED
  BY <1>1, <1>2 DEF Good, Typed

LEMMA OutputKeeps ==
    ASSUME LinkInv, Output
    PROVE  LinkInv' /\ Viewed
<1> DEFINE l == runs = MaxRuns
           z == FALSE
           sf == session_for
<1>1. PICK n \in 1..MaxChunk :
        /\ n <= Len(toHost)
        /\ process_output(SubSeq(toHost, 1, n))
        /\ toHost' = SubSeq(toHost, n + 1, Len(toHost))
        /\ UNCHANGED <<peer, runs>>
  BY DEF Output
<1> DEFINE s == FeedAll(sf, SubSeq(toHost, 1, n))
           d == Drained(s)
           b0 == [Bridge EXCEPT !.session = d]
           b == DispatchAll(b0, s.events)
           r == Rest(toHost, n)
<1>2. n \in Nat
  BY LinkAssumption
<1>3. /\ Good(sf, Bridge, z, toPeer, toHost, peer, l)
      /\ sf \in Feeding /\ Bridge \in Bridges
      /\ toPeer \in Seq(Frames) /\ toHost \in Seq(Frames)
      /\ sf.to_pty = <<>> /\ sf.events = <<>>
  BY LinkInvParts
<1>4. toHost' = r /\ peer' = peer /\ runs' = runs
  BY <1>1 DEF Rest
<1>5. /\ session' = b.session /\ writer' = b.writer /\ disk' = b.disk
      /\ saveDialogs' = b.save /\ openDialogs' = b.open /\ outcome' = b.outcome
      /\ toPeer' = toPeer \o s.to_pty
  BY <1>1 DEF process_output
<1> HIDE DEF l, sf, s, b, d, r
<1>6. ChunkEnd(sf, Bridge, toPeer, s, r, peer, l)
  BY <1>1, <1>2, <1>3, ChunkFed DEF s, r
<1>7. s \in Feeding
  BY <1>6 DEF ChunkEnd, Good, Typed
<1>8. d \in Feeding /\ d # NoSession
  BY <1>7, DrainedIs DEF d
<1>9. b0 \in Bridges /\ b0.session = d /\ SameBridge(Bridge, b0)
  BY <1>3, <1>8 DEF Bridges, SameBridge
<1> HIDE DEF b0, z
<1>10. /\ Good(sf, b0, z, toPeer, toHost, peer, l)
       /\ Stage(sf, b0) = Stage(sf, Bridge) /\ Shown(sf, b0) = Shown(sf, Bridge)
  <2>1. SameSession(sf, sf)
    BY DEF SameSession
  <2> QED
    BY <1>3, <1>9, <2>1, GoodSame
<1>11. ChunkEnd(sf, b0, toPeer, s, r, peer, l)
  <2>1. Good(sf, b0, FALSE, toPeer, toHost, peer, l)
    BY <1>10 DEF z
  <2> QED
    BY <1>1, <1>2, <1>3, <1>9, <2>1, ChunkFed DEF s, r
<1>12. PICK g : /\ Good(s, b, g, toPeer \o s.to_pty, r, peer, l)
                /\ b.session = IF g THEN NoSession ELSE d
                /\ SeenSince(sf, b0, s, b, g, r)
  BY <1>9, <1>11 DEF ChunkEnd, b
<1>13. b \in Bridges
  BY <1>12 DEF Good, Typed
<1>14. Bridge' \in Bridges /\ SameBridge(b, Bridge')
  <2>1. /\ Bridge'.session = session' /\ Bridge'.writer = writer' /\ Bridge'.disk = disk'
        /\ Bridge'.save = saveDialogs' /\ Bridge'.open = openDialogs' /\ Bridge'.outcome = outcome'
    BY DEF Bridge
  <2>2. SameBridge(b, Bridge')
    BY <1>5, <2>1 DEF SameBridge
  <2>3. Bridge' \in Bridges
    BY <1>5, <1>13 DEF Bridge, Bridges
  <2> QED
    BY <2>2, <2>3
<1> DEFINE s1 == Found(b.session)
<1>15. /\ Good(s1, Bridge', FALSE, toPeer', r, peer, l) /\ Emptied(b.session)
       /\ Stage(s1, Bridge') = Stage(s, b) /\ Shown(s1, Bridge') = Shown(s, b)
  <2> DEFINE out == toPeer \o s.to_pty
             b1 == Bridge'
  <2>1. Good(s, b, g, out, r, peer, l) /\ Holds(b, g, s)
    BY <1>12 DEF d, Holds
  <2>2. toPeer' = out
    BY <1>5
  <2>3. b1 \in Bridges /\ SameBridge(b, b1)
    BY <1>14
  <2> HIDE DEF out, b1
  <2>4. /\ Good(Found(b.session), b1, FALSE, out, r, peer, l) /\ Emptied(b.session)
        /\ Stage(Found(b.session), b1) = Stage(s, b)
        /\ Shown(Found(b.session), b1) = Shown(s, b)
    BY <2>1, <2>3, ChunkLeaves
  <2> QED
    BY <2>2, <2>4 DEF b1
<1>16. session_for' = s1
  BY <1>5 DEF session_for, Found
<1> HIDE DEF s1
<1>17. LinkInv'
  <2>1. l = (runs' = MaxRuns) /\ runs' \in 0..MaxRuns
    BY <1>4 DEF l, LinkInv
  <2>2. Emptied(session')
    BY <1>5, <1>15
  <2> QED
    BY <1>4, <1>15, <1>16, <2>1, <2>2 DEF LinkInv
<1>18. Viewed
  BY <1>10, <1>12, <1>15, <1>16 DEF Viewed, SeenSince, sf
<1> QED
  BY <1>17, <1>18

-----------------------------------------------------------------------------
(* The remote reads and speaks.                                            *)

LEMMA MetaRest ==
    ASSUME NEW q, NEW r, IsRest(q, r)
    PROVE  /\ HasMeta(r) => HasMeta(q)
           /\ OffsetsOK(q) => OffsetsOK(r)
           /\ MetaLast(q) => MetaLast(r)
           /\ GreetedLast(q) => GreetedLast(r)
<1>1. \A i \in DOMAIN r : i + 1 \in DOMAIN q /\ r[i] = q[i + 1] /\ i \in Nat
  BY DEF IsRest
<1>2. HasMeta(r) => HasMeta(q)
  BY <1>1 DEF HasMeta
<1>3. OffsetsOK(q) => OffsetsOK(r)
  BY <1>1 DEF OffsetsOK
<1>4. MetaLast(q) => MetaLast(r)
  <2> SUFFICES ASSUME MetaLast(q), NEW i \in DOMAIN r, IsMetaFrame(r[i])
               PROVE  i = Len(r)
    BY DEF MetaLast
  <2>1. i + 1 = Len(q)
    BY <1>1 DEF MetaLast
  <2> QED
    BY <1>1, <2>1 DEF IsRest
<1>5. GreetedLast(q) => GreetedLast(r)
  <2> SUFFICES ASSUME GreetedLast(q), NEW i \in DOMAIN r, NEW k \in DOMAIN r,
                      r[i].type = "ZRINIT", k > i
               PROVE  r[k].type # "ZFIN"
    BY DEF GreetedLast
  <2>1. k + 1 > i + 1 /\ q[i + 1].type = "ZRINIT"
    BY <1>1
  <2> QED
    BY <1>1, <2>1 DEF GreetedLast
<1> QED
  BY <1>2, <1>3, <1>4, <1>5

\* A program that reads what it does not expect.
LEMMA ReadKeeps ==
    ASSUME NEW s, NEW b, NEW g, NEW out, NEW out1, NEW q, NEW p, NEW l,
           Good(s, b, g, out, q, p, l), IsRest(out, out1)
    PROVE  Good(s, b, g, out1, q, p, l)
<1>1. /\ Has(out1, "ZRPOS") => Has(out, "ZRPOS")
      /\ Has(out1, "ZRINIT") => Has(out, "ZRINIT")
      /\ Has(out1, "ZFIN") => Has(out, "ZFIN")
  BY HasRest
<1>2. /\ HasMeta(out1) => HasMeta(out)
      /\ OffsetsOK(out) => OffsetsOK(out1)
      /\ MetaLast(out) => MetaLast(out1)
      /\ GreetedLast(out) => GreetedLast(out1)
  BY MetaRest
<1>3. Typed(s, b, g, out1, q, p, l)
  BY DEF Good, Typed, IsRest
<1>4. StreamOK(s, b, out1, q, p) /\ WriterOK(s, b, out1, q, p, l)
  <2>1. StreamOK(s, b, out1, q, p)
    <3>1. StreamOK(s, b, out, q, p)
      BY DEF Good
    <3> QED
      BY <1>1, <1>2, <3>1 DEF StreamOK
  <2>2. WriterOK(s, b, out1, q, p, l)
    BY <1>1 DEF Good, WriterOK
  <2> QED
    BY <2>1, <2>2
<1>5. EndingOK(s, b, out1, q, p)
  BY <1>1, <1>2 DEF Good, EndingOK
<1>6. UploadOK(s, b, g, out1, q, p)
  <2>1. CASE Is(p, "rz", "data")
    <3>1. /\ out # <<>> /\ out1 \in Seq(Frames)
          /\ Len(out1) \in Nat /\ Len(out) = Len(out1) + 1
          /\ \A i \in 1..Len(out1) : out1[i] = out[i + 1]
      BY DEF IsRest
    <3>2. ASSUME NEW f, out = <<f>>
          PROVE  out1 = <<>>
      BY <3>1, <3>2
    <3>3. ASSUME NEW h, Len(out) = 2, out[2] = h
          PROVE  out1 = <<h>>
      <4>1. Len(out1) = 1
        <5> DEFINE n == Len(out1)
        <5>1. n + 1 = 2 /\ n \in Nat
          BY <3>1, <3>3
        <5> HIDE DEF n
        <5>2. n = 1
          BY <5>1
        <5> QED
          BY <5>2 DEF n
      <4>2. out1[1] = h
        BY <3>1, <3>3, <4>1
      <4> QED
        BY <3>1, <4>1, <4>2
    <3>4. UploadOK(s, b, g, out, q, p) /\ ~Is(p, "rz", "start")
      BY <2>1 DEF Good, Is
    <3>5. IsPrefixOfFile(p.got) /\ b.save = 0 /\ b.open = 0
          /\ q = <<>> /\ s.phase \in {"AwaitRpos", "Sending"}
      BY <2>1, <3>1, <3>4 DEF UploadOK
    <3>6. \/ out = <<Header("ZEOF", Len(p.got))>>
          \/ \E e \in {"AckContinue", "AckEnd"} :
               /\ s.phase = "Sending" /\ s.send_offset = Len(p.got) + 1
               /\ s.send_offset <= s.payload
               /\ \/ out = <<Data(Len(p.got) + 1, e)>>
                  \/ out = <<Header("ZDATA", Len(p.got)), Data(Len(p.got) + 1, e)>>
      BY <2>1, <3>1, <3>4 DEF UploadOK
    <3>7. CASE out = <<Header("ZEOF", Len(p.got))>>
      BY <3>2, <3>4, <3>5, <3>7 DEF UploadOK
    <3>8. ASSUME NEW e \in {"AckContinue", "AckEnd"},
                 s.phase = "Sending", s.send_offset = Len(p.got) + 1,
                 s.send_offset <= s.payload,
                 \/ out = <<Data(Len(p.got) + 1, e)>>
                 \/ out = <<Header("ZDATA", Len(p.got)), Data(Len(p.got) + 1, e)>>
          PROVE  UploadOK(s, b, g, out1, q, p)
      <4>1. out1 = <<>> \/ out1 = <<Data(Len(p.got) + 1, e)>>
        <5>1. ASSUME NEW f, NEW h, out = <<f, h>>
              PROVE  Len(out) = 2 /\ out[2] = h
          BY <5>1
        <5> QED
          BY <3>2, <3>3, <3>8, <5>1
      <4> QED
        BY <3>4, <3>5, <3>8, <4>1 DEF UploadOK
    <3> QED
      BY <3>6, <3>7, <3>8
  <2>2. CASE ~Is(p, "rz", "data")
    BY <1>2, <2>2 DEF Good, UploadOK
  <2> QED
    BY <2>1, <2>2
<1> QED
  BY <1>3, <1>4, <1>5, <1>6 DEF Good

\* The program ends, and the shell is back.
LEMMA ToShellKeeps ==
    ASSUME NEW s, NEW b, NEW g, NEW out, NEW q, NEW p, NEW l, NEW p1 \in Peers,
           Good(s, b, g, out, q, p, l), p1.prog = "shell"
    PROVE  Good(s, b, g, out, q, p1, l)
<1>1. Idle(p1) /\ \A prog \in {"sz", "rz"} : \A pc : ~Is(p1, prog, pc)
  BY DEF Idle, Is
<1>2. /\ ~Is(p1, "sz", "start") /\ ~Is(p1, "sz", "asked") /\ ~Is(p1, "sz", "stream")
      /\ ~Is(p1, "sz", "ended") /\ ~Is(p1, "rz", "start") /\ ~Is(p1, "rz", "data")
  BY <1>1
<1>3. End(q, p, l) => End(q, p1, l)
  BY <1>1 DEF End
<1>4. Typed(s, b, g, out, q, p1, l) /\ PeerOK(q, p1, l)
  BY <1>1, <1>2 DEF Good, Typed, PeerOK
<1>5. StreamOK(s, b, out, q, p1) /\ WriterOK(s, b, out, q, p1, l)
  BY <1>2, <1>3 DEF Good, StreamOK, WriterOK
<1>6. DialogsOK(s, b, q, p1) /\ UploadOK(s, b, g, out, q, p1)
  BY <1>2 DEF Good, DialogsOK, UploadOK
<1>7. EndingOK(s, b, out, q, p1) /\ OutcomeOK(s, b, g, q, p1, l)
  BY <1>2, <1>3 DEF Good, EndingOK, OutcomeOK
<1> QED
  BY <1>4, <1>5, <1>6, <1>7 DEF Good

LEMMA FirstAppended ==
    ASSUME NEW q1, NEW q, NEW f, IsAppended(q1, q, f)
    PROVE  /\ q1 # <<>> /\ q1[Len(q1)] = f
           /\ q1[1] = IF q = <<>> THEN f ELSE q[1]
           /\ q # <<>> => 1 \in DOMAIN q /\ Len(q) \in DOMAIN q
           /\ AllJunk(q1) <=> AllJunk(q) /\ Junk(f)
<1>1. \A i \in DOMAIN q1 : (i \in DOMAIN q /\ q1[i] = q[i]) \/ (i = Len(q1) /\ q1[i] = f)
  BY DEF IsAppended
<1>2. \A i \in DOMAIN q : i \in DOMAIN q1 /\ q1[i] = q[i]
  BY DEF IsAppended
<1>3. q1 # <<>> /\ q1[Len(q1)] = f /\ Len(q1) \in DOMAIN q1
  BY DEF IsAppended
<1>4. q # <<>> => 1 \in DOMAIN q /\ Len(q) \in DOMAIN q
  BY DEF IsAppended
<1>5. q = <<>> => Len(q1) = 1
  BY DEF IsAppended
<1>6. q1[1] = IF q = <<>> THEN f ELSE q[1]
  BY <1>2, <1>3, <1>4, <1>5
<1>7. AllJunk(q1) <=> AllJunk(q) /\ Junk(f)
  BY <1>1, <1>2, <1>3 DEF AllJunk
<1> QED
  BY <1>3, <1>4, <1>6, <1>7

LEMMA ExpectedAppended ==
    ASSUME NEW q1, NEW q, NEW f, NEW s, IsAppended(q1, q, f), ~IsMetaFrame(f),
           MetaExpected(s, q)
    PROVE  MetaExpected(s, q1)
<1>1. \A i \in DOMAIN q1 : (i \in DOMAIN q /\ q1[i] = q[i]) \/ q1[i] = f
  BY DEF IsAppended
<1> QED
  BY <1>1 DEF MetaExpected

LEMMA FinAppended ==
    ASSUME NEW q1, NEW q, NEW f, NEW s, NEW b, IsAppended(q1, q, f), FinExpected(s, b, q),
           f.type = "ZFIN" =>
             /\ b.writer = NoFile \/ (q = <<>> /\ s.direction = "Send")
             /\ ~Has(q, "ZRQINIT")
    PROVE  FinExpected(s, b, q1)
<1>1. \A i \in DOMAIN q1 : (i \in DOMAIN q /\ q1[i] = q[i]) \/ (i = Len(q1) /\ q1[i] = f)
  BY DEF IsAppended
<1>2. q = <<>> => Len(q1) = 1
  BY DEF IsAppended
<1> SUFFICES ASSUME NEW i \in DOMAIN q1, q1[i].type = "ZFIN"
             PROVE  /\ b.writer = NoFile \/ (i = 1 /\ s.direction = "Send")
                    /\ \A k \in 1..i : q1[k].type # "ZRQINIT"
  BY DEF FinExpected
<1>3. \A k \in 1..i : k \in DOMAIN q1
  BY DEF IsAppended
<1>4. CASE i \in DOMAIN q /\ q1[i] = q[i]
  <2>1. \A k \in 1..i : q1[k] = q[k]
    BY <1>4 DEF IsAppended
  <2> QED
    BY <1>4, <2>1 DEF FinExpected
<1>5. CASE i = Len(q1) /\ q1[i] = f
  <2>1. \A k \in 1..i : q1[k].type # "ZRQINIT"
    BY <1>1, <1>3, <1>5 DEF Has
  <2> QED
    BY <1>2, <1>5, <2>1
<1> QED
  BY <1>1, <1>4, <1>5

LEMMA QueueAppended ==
    ASSUME NEW q1, NEW q, NEW f, IsAppended(q1, q, f), QueueOK(q),
           Junk(f) \/ \A i \in DOMAIN q : ~OpensDialog(q[i]),
           f.type # "ZFILE", ~IsMetaFrame(f),
           f.type = "DATA" =>
             f.body <= Total /\ (f.end \in {"End", "AckEnd"} <=> f.body = Total),
           Streamed(f) /\ q # <<>> =>
             Streamed(q[Len(q)]) /\ Place(f) = Place(q[Len(q)]) + 1
    PROVE  QueueOK(q1)
<1> SUFFICES ASSUME NEW i \in DOMAIN q1
             PROVE  FrameOK(q1, i)
  BY DEF QueueOK
<1>1. \A k \in DOMAIN q1 : (k \in DOMAIN q /\ q1[k] = q[k]) \/ (k = Len(q1) /\ q1[k] = f)
  BY DEF IsAppended
<1>2. CASE i \in DOMAIN q
  <2>1. FrameOK(q, i) /\ q1[i] = q[i] /\ i \in 1..Len(q)
    BY <1>2 DEF QueueOK, IsAppended
  <2>2. i > 1 => q1[i - 1] = q[i - 1]
    BY <2>1 DEF IsAppended
  <2>3. i < Len(q) => q1[i + 1] = q[i + 1]
    BY <2>1 DEF IsAppended
  <2>4. \A k \in 1..i : q1[k] = q[k]
    BY <2>1 DEF IsAppended
  <2>5. OpensDialog(q1[i]) => JunkAfter(q1, i)
    BY <1>1, <1>2, <2>1 DEF FrameOK, JunkAfter
  <2>6. Len(q1) = Len(q) + 1 /\ Len(q) \in Nat
    BY DEF IsAppended
  <2> QED
    BY <2>1, <2>2, <2>3, <2>4, <2>5, <2>6 DEF FrameOK
<1>3. CASE i \notin DOMAIN q
  <2>1. i = Len(q1) /\ q1[i] = f /\ i = Len(q) + 1 /\ Len(q) \in Nat
    BY <1>1, <1>3 DEF IsAppended
  <2>2. JunkAfter(q1, i)
    BY <2>1 DEF JunkAfter, IsAppended
  <2>3. Streamed(f) => \A k \in 1..i : Streamed(q1[k])
    <3> SUFFICES ASSUME Streamed(f), NEW k \in 1..i, k # i
                 PROVE  Streamed(q1[k])
      BY <2>1
    <3>1. k \in 1..Len(q) /\ q # <<>> /\ Len(q) \in DOMAIN q /\ q1[k] = q[k]
      BY <2>1 DEF IsAppended
    <3>2. Streamed(q[Len(q)]) /\ FrameOK(q, Len(q))
      BY <3>1 DEF QueueOK
    <3> QED
      BY <3>1, <3>2 DEF FrameOK
  <2>4. Streamed(f) /\ i > 1 => Place(f) = Place(q1[i - 1]) + 1
    <3> SUFFICES ASSUME Streamed(f), i > 1
                 PROVE  Place(f) = Place(q1[i - 1]) + 1
      OBVIOUS
    <3>1. i - 1 = Len(q) /\ q # <<>> /\ q1[i - 1] = q[Len(q)]
      BY <2>1 DEF IsAppended
    <3> QED
      BY <3>1
  <2> QED
    BY <2>1, <2>2, <2>3, <2>4 DEF FrameOK, IsMetaFrame
<1> QED
  BY <1>2, <1>3

\* The shell, or an interrupted program, says something.
LEMMA JunkSaidKeeps ==
    ASSUME NEW s, NEW b, NEW g, NEW out, NEW q, NEW q1, NEW f, NEW p, NEW l,
           Good(s, b, g, out, q, p, l), g = FALSE, p.prog = "shell",
           IsAppended(q1, q, f), Junk(f)
    PROVE  Good(s, b, g, out, q1, p, l)
<1>1. /\ f.type \in {"CAN", "TEXT", "FLOOD"} /\ ~IsMetaFrame(f) /\ ~Streamed(f)
      /\ \A prog \in {"sz", "rz"} : \A pc : ~Is(p, prog, pc)
  BY DEF Junk, IsMetaFrame, Streamed, Is
<1>2. /\ q1 # <<>> /\ q1[1] = IF q = <<>> THEN f ELSE q[1]
      /\ AllJunk(q) => AllJunk(q1)
  BY FirstAppended
<1>3. End(q, p, l) => End(q1, p, l)
  BY <1>2 DEF End
<1>4. Typed(s, b, g, out, q1, p, l)
  BY DEF Good, Typed, IsAppended
<1>5. QueueOK(q1)
  BY <1>1, QueueAppended DEF Good
<1>6. PeerOK(q1, p, l)
  <2>1. PeerOK(q, p, l)
    BY DEF Good
  <2>2. \A i \in DOMAIN q1 : (i \in DOMAIN q /\ q1[i] = q[i]) \/ q1[i] = f
    BY DEF IsAppended
  <2>3. ASSUME NEW i \in DOMAIN q1, q1[i].type = "ZSKIP"
        PROVE  JunkAfter(q1, i) /\ l /\ Idle(p)
    <3>1. i \in DOMAIN q /\ q[i].type = "ZSKIP"
      BY <1>1, <2>2, <2>3
    <3> QED
      BY <2>1, <2>2, <3>1 DEF PeerOK, JunkAfter
  <2> QED
    BY <1>1, <2>1, <2>2, <2>3 DEF PeerOK
<1>7. StreamOK(s, b, out, q1, p)
  BY <1>1, <1>2 DEF Good, StreamOK
<1>8. WriterOK(s, b, out, q1, p, l)
  <2>1. MetaExpected(s, q) => MetaExpected(s, q1)
    BY <1>1, ExpectedAppended
  <2> QED
    BY <1>1, <1>3, <2>1 DEF Good, WriterOK
<1>9. DetectorOK(s, q1) /\ DialogsOK(s, b, q1, p) /\ GoneOK(s, b, g, q1)
  BY <1>2 DEF Good, DetectorOK, DialogsOK, GoneOK
<1>10. UploadOK(s, b, g, out, q1, p)
  BY <1>1 DEF Good, UploadOK
<1>11. EndingOK(s, b, out, q1, p)
  <2>1. FinExpected(s, b, q1)
    BY <1>1, FinAppended DEF Good, EndingOK
  <2> QED
    BY <1>1, <2>1 DEF Good, EndingOK
<1>12. OutcomeOK(s, b, g, q1, p, l)
  BY <1>3 DEF Good, OutcomeOK
<1> QED
  BY <1>4, <1>5, <1>6, <1>7, <1>8, <1>9, <1>10, <1>11, <1>12 DEF Good

\* A program is started, and says f.
Started(s, b, g, out, q, q1, f, p, p1, l, l1, prog) ==
    /\ Good(s, b, g, out, q, p, l) /\ g = FALSE /\ l = FALSE /\ l1 \in BOOLEAN
    /\ p.prog = "shell" /\ out = <<>> /\ b.save = 0 /\ b.open = 0
    /\ \A i \in DOMAIN q : ~OpensDialog(q[i])
    /\ prog \in {"sz", "rz"} /\ f = Header(IF prog = "sz" THEN "ZRQINIT" ELSE "ZRINIT", 0)
    /\ IsAppended(q1, q, f)
    /\ p1 \in Peers /\ p1.prog = prog /\ p1.pc = "start" /\ p1.got = <<>> /\ p1.inFrame = FALSE

LEMMA StartKeeps ==
    ASSUME NEW s, NEW b, NEW g, NEW out, NEW q, NEW q1, NEW f, NEW p, NEW p1, NEW l, NEW l1, NEW prog,
           Started(s, b, g, out, q, q1, f, p, p1, l, l1, prog)
    PROVE  Good(s, b, g, out, q1, p1, l1)
<1> /\ Good(s, b, g, out, q, p, l) /\ g = FALSE /\ l = FALSE /\ l1 \in BOOLEAN
    /\ p.prog = "shell" /\ out = <<>> /\ b.save = 0 /\ b.open = 0
    /\ \A i \in DOMAIN q : ~OpensDialog(q[i])
    /\ prog \in {"sz", "rz"} /\ f = Header(IF prog = "sz" THEN "ZRQINIT" ELSE "ZRINIT", 0)
    /\ IsAppended(q1, q, f)
    /\ p1 \in Peers /\ p1.prog = prog /\ p1.pc = "start" /\ p1.got = <<>> /\ p1.inFrame = FALSE
  BY DEF Started
<1>1. /\ f.type = (IF prog = "sz" THEN "ZRQINIT" ELSE "ZRINIT") /\ ~IsMetaFrame(f) /\ ~Streamed(f)
      /\ \A pc : ~Is(p, "sz", pc) /\ ~Is(p, "rz", pc)
      /\ \A pc : pc # "start" => ~Is(p1, "sz", pc) /\ ~Is(p1, "rz", pc)
      /\ Is(p1, "rz", "start") <=> prog = "rz"
  BY DEF Header, IsMetaFrame, Streamed, Is
<1>2. q1 # <<>> /\ (q1[1] = IF q = <<>> THEN f ELSE q[1]) /\ q1[Len(q1)] = f
  BY FirstAppended
<1>3. ~End(q, p, l) /\ ~Has(out, "ZRPOS") /\ ~Has(out, "ZRINIT") /\ ~Has(out, "ZFIN")
      /\ ~HasMeta(out) /\ OffsetsOK(out)
  BY DEF End, Has, HasMeta, OffsetsOK
<1>4. Typed(s, b, g, out, q1, p1, l1)
  BY DEF Good, Typed, IsAppended
<1>5. QueueOK(q1)
  <2>1. f.type # "ZFILE" /\ f.type # "DATA"
    BY <1>1
  <2> QED
    BY <1>1, <2>1, QueueAppended DEF Good
<1>6. PeerOK(q1, p1, l1)
  <2>1. PeerOK(q, p, l)
    BY DEF Good
  <2>2. \A i \in DOMAIN q1 : (i \in DOMAIN q /\ q1[i] = q[i]) \/ q1[i] = f
    BY DEF IsAppended
  <2>3. ASSUME NEW i \in DOMAIN q1
        PROVE  /\ ~IsMetaFrame(q1[i]) /\ q1[i].type # "ZSKIP"
               /\ q1[i].type = "ZRINIT" => Is(p1, "rz", "start")
    BY <1>1, <2>1, <2>2 DEF PeerOK, OpensDialog
  <2>4. ~Is(p1, "sz", "asked") /\ ~Is(p1, "sz", "stream")
    BY <1>1
  <2> QED
    BY <1>1, <1>2, <2>3, <2>4 DEF PeerOK
<1>7. StreamOK(s, b, out, q1, p1)
  BY <1>1, <1>2, <1>3 DEF Good, StreamOK
<1>8. WriterOK(s, b, out, q1, p1, l1)
  <2>1. MetaExpected(s, q) => MetaExpected(s, q1)
    BY <1>1, ExpectedAppended
  <2> QED
    BY <1>3, <2>1 DEF Good, WriterOK
<1>9. DetectorOK(s, q1) /\ DialogsOK(s, b, q1, p1) /\ GoneOK(s, b, g, q1)
  BY <1>2 DEF Good, DetectorOK, DialogsOK, GoneOK
<1>10. UploadOK(s, b, g, out, q1, p1)
  BY <1>1, <1>3 DEF UploadOK
<1>11. EndingOK(s, b, out, q1, p1)
  <2>1. FinExpected(s, b, q1)
    BY <1>1, FinAppended DEF Good, EndingOK
  <2> QED
    BY <1>1, <1>3, <2>1 DEF EndingOK
<1>12. OutcomeOK(s, b, g, q1, p1, l1)
  BY <1>3 DEF Good, OutcomeOK
<1> QED
  BY <1>4, <1>5, <1>6, <1>7, <1>8, <1>9, <1>10, <1>11, <1>12 DEF Good

\* Header and metadata of the file that `sz` offers.
LEMMA OfferAppended ==
    ASSUME NEW q, NEW q1, NEW q2, NEW f, NEW h, QueueOK(q),
           IsAppended(q1, q, f), IsAppended(q2, q1, h), f.type = "ZFILE",
           h.type = "DATA", h.body = MetaBlock, h.end = "AckEnd",
           \A i \in DOMAIN q : ~OpensDialog(q[i])
    PROVE  /\ QueueOK(q2) /\ IsMetaFrame(q2[Len(q2)])
           /\ q2 \in Seq(Frames) /\ q2 # <<>> /\ q2[1] = IF q = <<>> THEN f ELSE q[1]
           /\ \A i \in DOMAIN q2 :
                (i \in DOMAIN q /\ q2[i] = q[i]) \/ q2[i] = f \/ (q2[i] = h /\ i = Len(q2) /\ i > 1)
<1>1. /\ Len(q) \in Nat /\ Len(q1) = Len(q) + 1 /\ Len(q2) = Len(q) + 2
      /\ DOMAIN q = 1..Len(q) /\ DOMAIN q2 = 1..Len(q) + 2 /\ q2 \in Seq(Frames) /\ q2 # <<>>
  BY DEF IsAppended
<1>2. \A i \in 1..Len(q) : q2[i] = q[i]
  BY DEF IsAppended
<1>3. q2[Len(q) + 1] = f /\ q2[Len(q) + 2] = h
  BY <1>1 DEF IsAppended
<1>4. ~IsMetaFrame(f) /\ ~OpensDialog(f) /\ ~Streamed(f) /\ f.type # "DATA"
      /\ IsMetaFrame(h) /\ ~Streamed(h)
  BY DEF IsMetaFrame, OpensDialog, Streamed
<1>5. ASSUME NEW i \in 1..Len(q)
      PROVE  FrameOK(q2, i)
  <2>1. FrameOK(q, i) /\ q2[i] = q[i] /\ ~OpensDialog(q2[i])
    BY <1>1, <1>2 DEF QueueOK
  <2>2. i > 1 => q2[i - 1] = q[i - 1]
    BY <1>1, <1>2
  <2>3. i < Len(q) => q2[i + 1] = q[i + 1]
    BY <1>1, <1>2
  <2>4. \A k \in 1..i : q2[k] = q[k]
    BY <1>1, <1>2
  <2> QED
    BY <1>1, <2>1, <2>2, <2>3, <2>4 DEF FrameOK
<1>6. FrameOK(q2, Len(q) + 1)
  <2> DEFINE n == Len(q) + 1
  <2>1. n < Len(q2) /\ q2[n + 1] = h /\ q2[n] = f
    BY <1>1, <1>3
  <2> HIDE DEF n
  <2> QED
    BY <1>4, <2>1 DEF FrameOK, n
<1>7. FrameOK(q2, Len(q) + 2)
  <2> DEFINE n == Len(q) + 2
  <2>1. q2[n] = h /\ q2[n - 1] = f /\ n \in Nat
    BY <1>1, <1>3
  <2>2. JunkAfter(q2, n)
    BY <1>1 DEF JunkAfter
  <2> HIDE DEF n
  <2> QED
    BY <1>4, <2>1, <2>2 DEF FrameOK, n
<1>8. QueueOK(q2)
  <2>1. \A i \in DOMAIN q2 : i \in 1..Len(q) \/ i = Len(q) + 1 \/ i = Len(q) + 2
    BY <1>1
  <2> QED
    BY <1>5, <1>6, <1>7, <2>1 DEF QueueOK
<1>9. \A i \in DOMAIN q2 :
        (i \in DOMAIN q /\ q2[i] = q[i]) \/ q2[i] = f \/ (q2[i] = h /\ i = Len(q2) /\ i > 1)
  BY <1>1, <1>2, <1>3
<1>10. q2[1] = IF q = <<>> THEN f ELSE q[1]
  <2>1. q = <<>> => Len(q) = 0
    OBVIOUS
  <2>2. q # <<>> => 1 \in 1..Len(q)
    BY DEF IsAppended
  <2> QED
    BY <1>1, <1>2, <1>3, <2>1, <2>2
<1> QED
  BY <1>1, <1>3, <1>4, <1>8, <1>9, <1>10

\* `sz` is greeted, and offers its file.
LEMMA OfferSaidKeeps ==
    ASSUME NEW s, NEW b, NEW g, NEW out, NEW out1, NEW q, NEW q1, NEW q2, NEW f, NEW h,
           NEW p, NEW p1 \in Peers, NEW l,
           Good(s, b, g, out, q, p, l), g = FALSE, Is(p, "sz", "start"), Is(p1, "sz", "asked"),
           IsRest(out, out1), out[1].type = "ZRINIT",
           IsAppended(q1, q, f), IsAppended(q2, q1, h), f.type = "ZFILE",
           h.type = "DATA", h.body = MetaBlock, h.end = "AckEnd"
    PROVE  Good(s, b, g, out1, q2, p1, l)
<1>1. /\ p.prog = "sz" /\ \A pc : pc # "start" => ~Is(p, "sz", pc)
      /\ \A pc : ~Is(p, "rz", pc) /\ ~Is(p1, "rz", pc)
      /\ \A pc : pc # "asked" => ~Is(p1, "sz", pc)
      /\ ~Idle(p) /\ p.prog # "shell"
  BY DEF Is, Idle
<1>2. Has(out, "ZRINIT") /\ 1 \in DOMAIN out
  BY DEF Has, IsRest
<1>3. ~Has(out1, "ZFIN") /\ ~Has(out1, "ZRPOS") /\ OffsetsOK(out1) /\ out1 \in Seq(Frames)
  <2>1. GreetedLast(out) /\ ~Has(out, "ZRPOS") /\ OffsetsOK(out)
    BY <1>2 DEF Good, EndingOK, StreamOK
  <2>2. \A i \in DOMAIN out1 : i + 1 \in DOMAIN out /\ i + 1 > 1 /\ out1[i] = out[i + 1]
    BY DEF IsRest
  <2>3. ~Has(out1, "ZFIN")
    BY <1>2, <2>1, <2>2 DEF GreetedLast, Has
  <2>4. out1 \in Seq(Frames)
    BY DEF IsRest
  <2> QED
    BY <2>1, <2>3, <2>4, HasRest, MetaRest
<1>4. \A i \in DOMAIN q : ~OpensDialog(q[i]) /\ q[i].type # "ZSKIP"
  BY <1>1 DEF Good, PeerOK, OpensDialog
<1>5. /\ QueueOK(q2) /\ IsMetaFrame(q2[Len(q2)])
      /\ q2 \in Seq(Frames) /\ q2 # <<>> /\ (q2[1] = IF q = <<>> THEN f ELSE q[1])
      /\ \A i \in DOMAIN q2 :
           (i \in DOMAIN q /\ q2[i] = q[i]) \/ q2[i] = f \/ (q2[i] = h /\ i = Len(q2) /\ i > 1)
  BY <1>4, OfferAppended DEF Good
<1>6. ~IsMetaFrame(f) /\ ~Streamed(f)
  BY DEF IsMetaFrame, Streamed
<1>7. ~End(q, p, l) /\ b.save = 0 /\ b.open = 0
  <2>1. DialogsOK(s, b, q, p) /\ b.save \in Nat /\ b.open \in Nat
    BY DEF Good, Typed, Bridges
  <2> QED
    BY <1>1, <2>1 DEF End, DialogsOK
<1>8. Typed(s, b, g, out1, q2, p1, l)
  BY <1>3, <1>5 DEF Good, Typed
<1>9. PeerOK(q2, p1, l)
  <2>1. \A i \in DOMAIN q2 : q2[i].type # "ZSKIP" /\ q2[i].type # "ZRINIT"
    BY <1>4, <1>5 DEF OpensDialog
  <2> QED
    BY <1>1, <1>5, <2>1 DEF PeerOK
<1>10. StreamOK(s, b, out1, q2, p1)
  BY <1>1, <1>3, <1>5, <1>6 DEF Good, StreamOK
<1>11. WriterOK(s, b, out1, q2, p1, l)
  <2> SUFFICES ASSUME b.writer # NoFile
               PROVE  WriterOK(s, b, out1, q2, p1, l)
    BY DEF WriterOK
  <2>1. s.phase = "AwaitFile"
    BY <1>2 DEF Good, WriterOK
  <2>2. ASSUME NEW i \in DOMAIN q2, IsMetaFrame(q2[i])
        PROVE  i # 1
    BY <1>4, <1>5, <1>6, <2>2 DEF OpensDialog
  <2>3. MetaExpected(s, q2)
    BY <2>1, <2>2 DEF MetaExpected
  <2> QED
    BY <1>1, <1>7, <2>3 DEF Good, WriterOK
<1>12. DetectorOK(s, q2)
  BY <1>5 DEF Good, DetectorOK
<1>13. DialogsOK(s, b, q2, p1)
  BY <1>7 DEF DialogsOK
<1>14. GoneOK(s, b, g, q2)
  BY DEF Good, GoneOK
<1>15. UploadOK(s, b, g, out1, q2, p1)
  BY <1>1 DEF UploadOK
<1>16. EndingOK(s, b, out1, q2, p1)
  <2>1. ~Has(q, "ZFIN") /\ ~(q # <<>> /\ Streamed(q[1]))
    BY <1>2 DEF Good, EndingOK
  <2>2. ~Has(q2, "ZFIN")
    BY <1>5, <2>1 DEF Has
  <2>3. FinExpected(s, b, q2)
    BY <2>2 DEF FinExpected, Has
  <2> QED
    BY <1>1, <1>3, <1>5, <1>6, <2>1, <2>2, <2>3 DEF EndingOK
<1>17. OutcomeOK(s, b, g, q2, p1, l)
  BY <1>7 DEF Good, OutcomeOK
<1> QED
  BY <1>5, <1>8, <1>9, <1>10, <1>11, <1>12, <1>13, <1>14, <1>15, <1>16, <1>17 DEF Good

\* `sz` is asked for the data.
LEMMA StreamBeginsKeeps ==
    ASSUME NEW s, NEW b, NEW g, NEW out, NEW out1, NEW q, NEW q1, NEW f,
           NEW p, NEW p1 \in Peers, NEW l,
           Good(s, b, g, out, q, p, l), g = FALSE, Is(p, "sz", "asked"), Is(p1, "sz", "stream"),
           IsRest(out, out1), out[1].type = "ZRPOS", p1.next = 1,
           IsAppended(q1, q, f), f.type = "ZDATA"
    PROVE  Good(s, b, g, out1, q1, p1, l)
<1>1. /\ \A pc : ~Is(p, "rz", pc) /\ ~Is(p1, "rz", pc)
      /\ \A pc : pc # "stream" => ~Is(p1, "sz", pc)
  BY DEF Is
<1>2. Has(out, "ZRPOS") /\ 1 \in DOMAIN out
  BY DEF Has, IsRest
<1>3. q = <<>> /\ Taken(s, b, 0) /\ OffsetsOK(out1) /\ out1 \in Seq(Frames)
  <2>1. q = <<>> /\ Taken(s, b, 0) /\ OffsetsOK(out)
    BY <1>2 DEF Good, StreamOK
  <2>2. out1 \in Seq(Frames)
    BY DEF IsRest
  <2> QED
    BY <2>1, <2>2, MetaRest
<1>4. ~Has(out1, "ZFIN")
  BY HasRest DEF Good, EndingOK
<1>5. ~IsMetaFrame(f) /\ Streamed(f) /\ Place(f) = 0
  BY DEF IsMetaFrame, Streamed, Place
<1>6. q1 # <<>> /\ q1[1] = f /\ q1[Len(q1)] = f
  BY <1>3, FirstAppended
<1>7. \A i \in DOMAIN q1 : q1[i] = f
  BY <1>3 DEF IsAppended
<1>8. s.phase = "Receiving"
  BY <1>3 DEF Taken
<1>9. b.save = 0 /\ b.open = 0
  <2>1. DialogsOK(s, b, q, p) /\ b.save \in Nat /\ b.open \in Nat
    BY DEF Good, Typed, Bridges
  <2> QED
    BY <1>8, <2>1 DEF DialogsOK, Dead
<1>10. Typed(s, b, g, out1, q1, p1, l)
  BY <1>3 DEF Good, Typed, IsAppended
<1>11. QueueOK(q1)
  BY <1>3, <1>5, QueueAppended DEF Good
<1>12. PeerOK(q1, p1, l)
  BY <1>1, <1>5, <1>6, <1>7, LinkAssumption DEF PeerOK
<1>13. StreamOK(s, b, out1, q1, p1)
  BY <1>1, <1>3, <1>5, <1>6 DEF StreamOK
<1>14. WriterOK(s, b, out1, q1, p1, l)
  <2>1. MetaExpected(s, q1)
    BY <1>5, <1>7 DEF MetaExpected
  <2> QED
    BY <1>1, <1>8, <2>1 DEF WriterOK
<1>15. DetectorOK(s, q1) /\ DialogsOK(s, b, q1, p1) /\ GoneOK(s, b, g, q1)
  BY <1>3, <1>8, <1>9 DEF Good, DetectorOK, DialogsOK, GoneOK, Dead
<1>16. UploadOK(s, b, g, out1, q1, p1)
  BY <1>1 DEF UploadOK
<1>17. EndingOK(s, b, out1, q1, p1)
  <2>1. FinExpected(s, b, q1)
    BY <1>7 DEF FinExpected
  <2> QED
    BY <1>1, <1>4, <2>1 DEF EndingOK
<1>18. OutcomeOK(s, b, g, q1, p1, l)
  BY <1>8 DEF Good, OutcomeOK
<1> QED
  BY <1>10, <1>11, <1>12, <1>13, <1>14, <1>15, <1>16, <1>17, <1>18 DEF Good

\* A block of the file, or its end.
LEMMA StreamSaidKeeps ==
    ASSUME NEW s, NEW b, NEW g, NEW out, NEW q, NEW q1, NEW f,
           NEW p, NEW p1 \in Peers, NEW l,
           Good(s, b, g, out, q, p, l), g = FALSE, Is(p, "sz", "stream"),
           IsAppended(q1, q, f),
           \/ /\ f.type = "DATA" /\ f.body = p.next /\ p.next <= Total
              /\ f.end \in {"End", "AckEnd"} <=> p.next = Total
              /\ Is(p1, "sz", "stream") /\ p1.next = p.next + 1
           \/ f.type = "ZEOF" /\ p.next > Total /\ Is(p1, "sz", "ended")
    PROVE  Good(s, b, g, out, q1, p1, l)
<1>1. /\ p.prog = "sz" /\ p.prog # "shell" /\ ~Is(p, "sz", "asked")
      /\ \A pc : ~Is(p, "rz", pc) /\ ~Is(p1, "rz", pc)
      /\ \A pc : pc \notin {"stream", "ended"} => ~Is(p1, "sz", pc)
      /\ f.type = "DATA" => ~Is(p1, "sz", "ended")
      /\ f.type = "ZEOF" => ~Is(p1, "sz", "stream")
      /\ ~Idle(p)
  BY DEF Is, Idle
<1>2. PeerOK(q, p, l) /\ QueueOK(q) /\ StreamOK(s, b, out, q, p)
  BY DEF Good
<1>3. /\ p.next \in 1..Total + 1
      /\ q # <<>> => Streamed(q[Len(q)]) /\ p.next = Place(q[Len(q)]) + 1
  BY <1>2 DEF PeerOK
<1>4. /\ Streamed(f) /\ ~IsMetaFrame(f) /\ Place(f) = p.next
      /\ f.type = "DATA" => f.body <= Total /\ (f.end \in {"End", "AckEnd"} <=> f.body = Total)
  BY <1>3, LinkAssumption DEF Streamed, IsMetaFrame, MetaBlock, Place
<1>5. \A i \in DOMAIN q : Streamed(q[i])
  <2> SUFFICES ASSUME NEW i \in DOMAIN q
               PROVE  Streamed(q[i])
    OBVIOUS
  <2>1. Len(q) \in DOMAIN q /\ i \in 1..Len(q) /\ q # <<>>
    BY DEF IsAppended
  <2>2. FrameOK(q, Len(q)) /\ Streamed(q[Len(q)])
    BY <1>2, <1>3, <2>1 DEF QueueOK
  <2> QED
    BY <2>1, <2>2 DEF FrameOK
<1>6. \A i \in DOMAIN q1 : Streamed(q1[i])
  BY <1>4, <1>5 DEF IsAppended
<1>7. ASSUME NEW x, Streamed(x)
      PROVE  /\ ~IsMetaFrame(x) /\ ~OpensDialog(x)
             /\ x.type \notin {"ZFIN", "ZRQINIT", "ZSKIP", "ZRINIT", "ZFILE"}
  BY <1>7 DEF Streamed, IsMetaFrame, OpensDialog
<1>8. q1 # <<>> /\ q1[Len(q1)] = f /\ (q1[1] = IF q = <<>> THEN f ELSE q[1])
      /\ (q # <<>> => 1 \in DOMAIN q)
  BY FirstAppended
<1>9. IF q = <<>> THEN Taken(s, b, Place(f)) ELSE Taken(s, b, Place(q[1]))
  BY <1>2, <1>4, <1>5, <1>8 DEF StreamOK
<1>10. s.phase = "Receiving"
  BY <1>9 DEF Taken
<1>11. b.save = 0 /\ b.open = 0
  <2>1. DialogsOK(s, b, q, p) /\ b.save \in Nat /\ b.open \in Nat
    BY DEF Good, Typed, Bridges
  <2> QED
    BY <1>10, <2>1 DEF DialogsOK, Dead
<1>12. Typed(s, b, g, out, q1, p1, l)
  BY DEF Good, Typed, IsAppended
<1>13. QueueOK(q1)
  <2>1. \A i \in DOMAIN q : ~OpensDialog(q[i])
    BY <1>5, <1>7
  <2>2. f.type # "ZFILE"
    BY <1>4, <1>7
  <2> QED
    BY <1>2, <1>3, <1>4, <2>1, <2>2, QueueAppended
<1>14. PeerOK(q1, p1, l)
  <2>1. Is(p1, "sz", "stream") => p1.next = Place(f) + 1 /\ p1.next \in 1..Total + 1
    BY <1>1, <1>3, <1>4, LinkAssumption
  <2> QED
    BY <1>1, <1>4, <1>6, <1>7, <1>8, <2>1 DEF PeerOK
<1>15. StreamOK(s, b, out, q1, p1)
  BY <1>1, <1>2, <1>8, <1>9 DEF StreamOK
<1>16. WriterOK(s, b, out, q1, p1, l)
  <2>1. MetaExpected(s, q1)
    BY <1>6, <1>7 DEF MetaExpected
  <2> QED
    BY <1>1, <1>10, <2>1 DEF WriterOK
<1>17. DetectorOK(s, q1) /\ DialogsOK(s, b, q1, p1) /\ GoneOK(s, b, g, q1)
  BY <1>8, <1>10, <1>11 DEF Good, DetectorOK, DialogsOK, GoneOK, Dead
<1>18. UploadOK(s, b, g, out, q1, p1)
  BY <1>1 DEF UploadOK
<1>19. EndingOK(s, b, out, q1, p1)
  <2>1. FinExpected(s, b, q1) /\ ~Has(q1, "ZFIN") /\ ~Has(q1, "ZRQINIT")
    BY <1>6, <1>7 DEF FinExpected, Has
  <2>2. ~Has(out, "ZFIN")
    BY DEF Good, EndingOK
  <2> QED
    BY <1>1, <2>1, <2>2 DEF EndingOK
<1>20. OutcomeOK(s, b, g, q1, p1, l)
  BY <1>10 DEF Good, OutcomeOK
<1> QED
  BY <1>12, <1>13, <1>14, <1>15, <1>16, <1>17, <1>18, <1>19, <1>20 DEF Good

\* `sz` is told that its file arrived: it says goodbye, and ends.
LEMMA SzEndsKeeps ==
    ASSUME NEW s, NEW b, NEW g, NEW out, NEW out1, NEW q, NEW q1, NEW f,
           NEW p, NEW p1 \in Peers, NEW l,
           Good(s, b, g, out, q, p, l), g = FALSE, Is(p, "sz", "ended"), p1.prog = "shell",
           IsRest(out, out1), out[1].type = "ZFIN",
           IsAppended(q1, q, f), f.type = "ZFIN"
    PROVE  Good(s, b, g, out1, q1, p1, l)
<1>1. /\ p.prog # "shell" /\ ~Is(p, "sz", "asked") /\ ~Idle(p)
      /\ \A pc : ~Is(p, "rz", pc)
      /\ \A pc : ~Is(p1, "rz", pc) /\ ~Is(p1, "sz", pc)
  BY DEF Is, Idle
<1>2. Has(out, "ZFIN")
  <2>1. 1 \in DOMAIN out
    BY DEF IsRest
  <2> QED
    BY <2>1 DEF Has
<1>3. b.writer = NoFile /\ ~Has(q, "ZFIN") /\ ~Has(q, "ZRQINIT")
  BY <1>2 DEF Good, EndingOK
<1>4. \A i \in DOMAIN q : ~OpensDialog(q[i]) /\ q[i].type # "ZSKIP"
  BY <1>1 DEF Good, PeerOK, OpensDialog
<1>5. ~IsMetaFrame(f) /\ ~Streamed(f)
  BY DEF IsMetaFrame, Streamed
<1>6. /\ q1 # <<>> /\ q1[1] = IF q = <<>> THEN f ELSE q[1]
      /\ \A i \in DOMAIN q1 : (i \in DOMAIN q /\ q1[i] = q[i]) \/ q1[i] = f
  BY FirstAppended DEF IsAppended
<1>7. ~End(q, p, l) /\ b.save = 0 /\ b.open = 0
  <2>1. DialogsOK(s, b, q, p) /\ b.save \in Nat /\ b.open \in Nat
    BY DEF Good, Typed, Bridges
  <2> QED
    BY <1>1, <2>1 DEF End, DialogsOK
<1>8. Typed(s, b, g, out1, q1, p1, l)
  BY DEF Good, Typed, IsAppended, IsRest
<1>9. QueueOK(q1)
  BY <1>4, <1>5, QueueAppended DEF Good
<1>10. PeerOK(q1, p1, l)
  BY <1>1, <1>4, <1>5, <1>6 DEF PeerOK
<1>11. StreamOK(s, b, out1, q1, p1)
  <2>1. OffsetsOK(out1)
    BY MetaRest DEF Good, StreamOK
  <2> QED
    BY <1>1, <1>5, <1>6, <2>1 DEF Good, StreamOK
<1>12. WriterOK(s, b, out1, q1, p1, l)
  BY <1>3 DEF WriterOK
<1>13. DetectorOK(s, q1) /\ DialogsOK(s, b, q1, p1) /\ GoneOK(s, b, g, q1)
  BY <1>6, <1>7 DEF Good, DetectorOK, DialogsOK, GoneOK
<1>14. UploadOK(s, b, g, out1, q1, p1)
  BY <1>1 DEF UploadOK
<1>15. EndingOK(s, b, out1, q1, p1)
  <2>1. FinExpected(s, b, q1)
    BY <1>3, FinAppended DEF Good, EndingOK
  <2> QED
    BY <1>1, <2>1 DEF EndingOK
<1>16. OutcomeOK(s, b, g, q1, p1, l)
  BY <1>7 DEF Good, OutcomeOK
<1> QED
  BY <1>8, <1>9, <1>10, <1>11, <1>12, <1>13, <1>14, <1>15, <1>16 DEF Good

\* While `rz` is offered a file or receives one, it has nothing else to say: what
\* it answers, f, is all there is.
LEMMA RzSaysKeeps ==
    ASSUME NEW s, NEW b, NEW g, NEW out, NEW out1, NEW q, NEW q1, NEW f,
           NEW p, NEW p1 \in Peers, NEW l,
           Good(s, b, g, out, q, p, l), g = FALSE, p.prog = "rz",
           p1.prog = "rz", p1.pc # "start", out1 \in Seq(Frames),
           HasMeta(out1) => HasMeta(out), OffsetsOK(out) => OffsetsOK(out1),
           q = <<>>, IsAppended(q1, q, f), b.save = 0, b.open = 0,
           s.phase \in {"AwaitRpos", "Sending"},
           f.type \in {"ZRPOS", "ZACK", "ZFIN", "ZSKIP"},
           f.type = "ZSKIP" => l /\ Idle(p1),
           UploadOK(s, b, g, out1, q1, p1)
    PROVE  Good(s, b, g, out1, q1, p1, l)
<1>1. /\ \A pc : ~Is(p, "sz", pc) /\ ~Is(p1, "sz", pc)
      /\ ~Is(p1, "rz", "start")
      /\ ~IsMetaFrame(f) /\ ~Streamed(f) /\ f.type # "DATA"
  BY DEF Is, IsMetaFrame, Streamed
<1>2. /\ q1 # <<>> /\ q1[1] = f /\ Len(q1) = 1
      /\ \A i \in DOMAIN q1 : i = 1 /\ q1[i] = f
  BY FirstAppended DEF IsAppended
<1>3. Typed(s, b, g, out1, q1, p1, l)
  BY DEF Good, Typed, IsAppended
<1>4. QueueOK(q1)
  <2>1. \A i \in DOMAIN q : ~OpensDialog(q[i])
    OBVIOUS
  <2> QED
    BY <1>1, <2>1, QueueAppended DEF Good
<1>5. PeerOK(q1, p1, l)
  <2>1. \A i \in DOMAIN q1 : JunkAfter(q1, i)
    BY <1>2 DEF JunkAfter
  <2> QED
    BY <1>1, <1>2, <2>1 DEF PeerOK
<1>6. StreamOK(s, b, out1, q1, p1)
  BY <1>1, <1>2 DEF Good, StreamOK
<1>7. WriterOK(s, b, out1, q1, p1, l)
  <2>1. MetaExpected(s, q1)
    BY <1>1, <1>2 DEF MetaExpected
  <2> QED
    BY <1>1, <2>1 DEF WriterOK
<1>8. DetectorOK(s, q1) /\ DialogsOK(s, b, q1, p1) /\ GoneOK(s, b, g, q1)
  BY <1>2 DEF Good, DetectorOK, DialogsOK, GoneOK, Dead
<1>9. EndingOK(s, b, out1, q1, p1)
  <2>1. s.direction = "Send"
    BY DEF Good, DetectorOK
  <2>2. FinExpected(s, b, q1)
    BY <1>2, <2>1 DEF FinExpected
  <2> QED
    BY <1>1, <2>2 DEF EndingOK
<1>10. OutcomeOK(s, b, g, q1, p1, l)
  BY DEF Good, OutcomeOK
<1> QED
  BY <1>3, <1>4, <1>5, <1>6, <1>7, <1>8, <1>9, <1>10 DEF Good

\* `rz` reads the metadata of the file it is offered: then that was all it had to
\* read, and it had said no more than that it is ready.
LEMMA OfferRead ==
    ASSUME NEW s, NEW b, NEW g, NEW out, NEW out1, NEW q, NEW p, NEW l,
           Good(s, b, g, out, q, p, l), g = FALSE, Is(p, "rz", "start"),
           IsRest(out, out1), IsMetaFrame(out[1])
    PROVE  /\ q = <<>> /\ out1 = <<>> /\ b.save = 0 /\ b.open = 0
           /\ s.phase = "AwaitRpos" /\ p.got = <<>> /\ ~p.inFrame
<1>1. HasMeta(out) /\ 1 \in DOMAIN out
  BY DEF HasMeta, IsRest
<1>2. q = <<>> /\ b.open = 0 /\ s.phase = "AwaitRpos" /\ MetaLast(out)
  BY <1>1 DEF Good, UploadOK
<1>3. p.got = <<>> /\ ~p.inFrame
  BY DEF Good, PeerOK
<1>4. b.save = 0
  <2>1. DialogsOK(s, b, q, p) /\ b.save \in Nat
    BY DEF Good, Typed, Bridges
  <2> QED
    BY <2>1 DEF DialogsOK, Is
<1>5. out1 = <<>>
  <2>1. Len(out) = 1
    BY <1>1, <1>2 DEF MetaLast
  <2> DEFINE n == Len(out1)
  <2>2. n \in Nat /\ n + 1 = 1 /\ (out1 = <<>> <=> n = 0)
    BY <2>1 DEF IsRest
  <2> HIDE DEF n
  <2> QED
    BY <2>2
<1> QED
  BY <1>2, <1>3, <1>4, <1>5

\* `rz` asks for the data: it reads the offer out[1] and answers with f.
DataAsked(s, b, g, out, out1, q, q1, f, p, p1, l) ==
    /\ Good(s, b, g, out, q, p, l) /\ g = FALSE
    /\ Is(p, "rz", "start") /\ Is(p1, "rz", "data") /\ p1 \in Peers
    /\ p1.got = p.got /\ p1.inFrame = p.inFrame
    /\ IsRest(out, out1) /\ IsMetaFrame(out[1])
    /\ f = Header("ZRPOS", 0) /\ f \in Frames /\ q1 = q \o <<f>>

LEMMA DataAskedKeeps ==
    ASSUME NEW s, NEW b, NEW g, NEW out, NEW out1, NEW q, NEW q1, NEW f, NEW p, NEW p1, NEW l,
           DataAsked(s, b, g, out, out1, q, q1, f, p, p1, l)
    PROVE  Good(s, b, g, out1, q1, p1, l)
<1> /\ Good(s, b, g, out, q, p, l) /\ g = FALSE
    /\ Is(p, "rz", "start") /\ Is(p1, "rz", "data") /\ p1 \in Peers
    /\ p1.got = p.got /\ p1.inFrame = p.inFrame
    /\ IsRest(out, out1) /\ IsMetaFrame(out[1])
    /\ f = Header("ZRPOS", 0) /\ f \in Frames /\ q1 = q \o <<f>>
  BY DEF DataAsked
<1>1. /\ q = <<>> /\ out1 = <<>> /\ b.save = 0 /\ b.open = 0
      /\ s.phase = "AwaitRpos" /\ p.got = <<>> /\ ~p.inFrame
  BY OfferRead
<1>2. q1 = <<f>> /\ q \in Seq(Frames) /\ f.type = "ZRPOS"
  BY <1>1 DEF Header
<1>3. IsAppended(q1, q, f)
  BY <1>2, AppendedIs
<1>4. UploadOK(s, b, g, out1, q1, p1)
  <2>1. ~Is(p1, "rz", "start")
    BY DEF Is
  <2>2. IsPrefixOfFile(p1.got)
    BY <1>1 DEF IsPrefixOfFile
  <2> QED
    BY <1>1, <1>2, <2>1, <2>2 DEF UploadOK
<1>5. ~HasMeta(out1) /\ OffsetsOK(out1) /\ out1 \in Seq(Frames)
  BY <1>1 DEF HasMeta, OffsetsOK
<1>6. p.prog = "rz" /\ p1.prog = "rz" /\ p1.pc # "start"
  BY DEF Is
<1> QED
  BY <1>1, <1>2, <1>3, <1>4, <1>5, <1>6, RzSaysKeeps

\* `rz` does not want the file of the offer out[1], and answers with f.
Skipped(s, b, g, out, out1, q, q1, f, p, p1, l) ==
    /\ Good(s, b, g, out, q, p, l) /\ g = FALSE /\ l = TRUE
    /\ Is(p, "rz", "start") /\ Is(p1, "rz", "ended") /\ p1 \in Peers
    /\ IsRest(out, out1) /\ IsMetaFrame(out[1])
    /\ f = Header("ZSKIP", 0) /\ f \in Frames /\ q1 = q \o <<f>>

LEMMA SkipsKeeps ==
    ASSUME NEW s, NEW b, NEW g, NEW out, NEW out1, NEW q, NEW q1, NEW f, NEW p, NEW p1, NEW l,
           Skipped(s, b, g, out, out1, q, q1, f, p, p1, l)
    PROVE  Good(s, b, g, out1, q1, p1, l)
<1> /\ Good(s, b, g, out, q, p, l) /\ g = FALSE /\ l = TRUE
    /\ Is(p, "rz", "start") /\ Is(p1, "rz", "ended") /\ p1 \in Peers
    /\ IsRest(out, out1) /\ IsMetaFrame(out[1])
    /\ f = Header("ZSKIP", 0) /\ f \in Frames /\ q1 = q \o <<f>>
  BY DEF Skipped
<1>1. /\ q = <<>> /\ out1 = <<>> /\ b.save = 0 /\ b.open = 0
      /\ s.phase = "AwaitRpos" /\ p.got = <<>> /\ ~p.inFrame
  BY OfferRead
<1>2. q1 = <<f>> /\ q \in Seq(Frames) /\ f.type = "ZSKIP"
  BY <1>1 DEF Header
<1>3. IsAppended(q1, q, f)
  BY <1>2, AppendedIs
<1>4. UploadOK(s, b, g, out1, q1, p1)
  BY DEF UploadOK, Is
<1>5. ~HasMeta(out1) /\ OffsetsOK(out1) /\ out1 \in Seq(Frames)
  BY <1>1 DEF HasMeta, OffsetsOK
<1>6. p.prog = "rz" /\ p1.prog = "rz" /\ p1.pc # "start" /\ Idle(p1)
  BY DEF Is, Idle
<1> QED
  BY <1>1, <1>2, <1>3, <1>4, <1>5, <1>6, RzSaysKeeps

\* What is sent to an `rz` that receives and has something to read.
Delivers(s, out, p) ==
    \/ out = <<Header("ZEOF", Len(p.got))>>
    \/ \E e \in {"AckContinue", "AckEnd"} :
         /\ s.phase = "Sending" /\ s.send_offset = Len(p.got) + 1 /\ s.send_offset <= s.payload
         /\ \/ out = <<Data(Len(p.got) + 1, e)>>
            \/ out = <<Header("ZDATA", Len(p.got)), Data(Len(p.got) + 1, e)>>

LEMMA DataSent ==
    ASSUME NEW s, NEW b, NEW g, NEW out, NEW out1, NEW q, NEW p, NEW l,
           Good(s, b, g, out, q, p, l), Is(p, "rz", "data"), IsRest(out, out1)
    PROVE  /\ q = <<>> /\ b.save = 0 /\ b.open = 0 /\ IsPrefixOfFile(p.got)
           /\ s.phase \in {"AwaitRpos", "Sending"} /\ p.got \in Seq(Nat)
           /\ Delivers(s, out, p)
           /\ ~HasMeta(out1)
<1>1. UploadOK(s, b, g, out, q, p) /\ out # <<>> /\ p.got \in Seq(Nat)
  BY DEF Good, IsRest, Typed, Peers
<1>2. /\ q = <<>> /\ b.save = 0 /\ b.open = 0 /\ IsPrefixOfFile(p.got)
      /\ s.phase \in {"AwaitRpos", "Sending"} /\ Delivers(s, out, p)
  BY <1>1 DEF UploadOK, Delivers
<1>3. ~HasMeta(out1)
  <2> DEFINE n == Len(p.got)
  <2>1. n \in Nat
    BY <1>1
  <2>2. ASSUME NEW i \in DOMAIN out
        PROVE  out[i].type = "ZEOF" \/ out[i].type = "ZDATA" \/ out[i].body = n + 1
    <3>1. CASE out = <<Header("ZEOF", n)>>
      BY <3>1 DEF Header
    <3>2. ASSUME NEW e \in {"AckContinue", "AckEnd"},
                 \/ out = <<Data(n + 1, e)>>
                 \/ out = <<Header("ZDATA", n), Data(n + 1, e)>>
          PROVE  out[i].type = "ZDATA" \/ out[i].body = n + 1
      <4> HIDE DEF n
      <4>1. CASE out = <<Data(n + 1, e)>>
        BY <4>1 DEF Data
      <4>2. CASE out = <<Header("ZDATA", n), Data(n + 1, e)>>
        BY <4>2 DEF Data, Header
      <4> QED
        BY <3>2, <4>1, <4>2
    <3> QED
      BY <1>2, <3>1, <3>2 DEF Delivers
  <2>3. \A i \in DOMAIN out1 : i + 1 \in DOMAIN out /\ out1[i] = out[i + 1]
    BY DEF IsRest
  <2>4. n + 1 # MetaBlock
    BY <2>1 DEF MetaBlock
  <2> HIDE DEF n
  <2> QED
    BY <2>2, <2>3, <2>4 DEF HasMeta, IsMetaFrame
<1> QED
  BY <1>1, <1>2, <1>3

\* The block is kept, and f answers it when it asks for an answer.
Takes(p, p1, block) == p1.got = Append(p.got, block.body)
Acks(q, q1, block, f) ==
    q1 = q \o (IF block.end \in {"AckContinue", "AckEnd"} THEN <<f>> ELSE <<>>)

\* `rz` receives a block, and asks for the next.
LEMMA BlockReadKeeps ==
    ASSUME NEW s, NEW b, NEW g, NEW out, NEW out1, NEW q, NEW q1, NEW f,
           NEW p, NEW p1 \in Peers, NEW l,
           Good(s, b, g, out, q, p, l), g = FALSE, Is(p, "rz", "data"), Is(p1, "rz", "data"),
           Takes(p, p1, out[1]),
           IsRest(out, out1), out[1].type = "DATA",
           f = Header("ZACK", 0), f \in Frames,
           Acks(q, q1, out[1], f)
    PROVE  Good(s, b, g, out1, q1, p1, l)
<1>1. /\ q = <<>> /\ b.save = 0 /\ b.open = 0 /\ IsPrefixOfFile(p.got)
      /\ s.phase \in {"AwaitRpos", "Sending"} /\ p.got \in Seq(Nat)
      /\ Delivers(s, out, p) /\ ~HasMeta(out1)
  BY DataSent
<1> DEFINE n == Len(p.got)
           d == p1.got
<1>2. n \in Nat
  BY <1>1
<1>3. /\ out1 = <<>> /\ out[1].body = n + 1 /\ out[1].end \in {"AckContinue", "AckEnd"}
      /\ s.phase = "Sending" /\ s.send_offset = n + 1 /\ s.send_offset <= s.payload
  <2>1. PICK e \in {"AckContinue", "AckEnd"} :
            /\ s.phase = "Sending" /\ s.send_offset = n + 1 /\ s.send_offset <= s.payload
            /\ out = <<Data(n + 1, e)>>
    BY <1>1 DEF Delivers, Header
  <2> HIDE DEF n
  <2>2. Len(out) = 1 /\ out[1].body = n + 1 /\ out[1].end = e
    BY <2>1 DEF Data
  <2> DEFINE m == Len(out1)
  <2>3. m \in Nat /\ m + 1 = 1 /\ (out1 = <<>> <=> m = 0)
    BY <2>2 DEF IsRest
  <2> HIDE DEF m
  <2>4. out1 = <<>>
    BY <2>3
  <2> QED
    BY <2>1, <2>2, <2>4
<1>4. Len(d) = n + 1 /\ IsPrefixOfFile(d)
  <2> DEFINE o == p.got
             x == n + 1
  <2>1. o \in Seq(Nat) /\ x \in Nat /\ d = Append(o, x) /\ x = Len(o) + 1
    BY <1>1, <1>2, <1>3 DEF Takes
  <2>2. \A i \in DOMAIN o : o[i] = i
    BY <1>1 DEF IsPrefixOfFile
  <2> HIDE DEF o, x, d
  <2>3. Len(d) = x /\ \A i \in DOMAIN d : d[i] = i
    BY <2>1, <2>2
  <2> QED
    BY <2>3 DEF IsPrefixOfFile, x
<1>5. q1 = q \o <<f>> /\ q1 = <<f>> /\ q \in Seq(Frames) /\ f.type = "ZACK"
  BY <1>1, <1>3 DEF Header, Acks
<1>6. IsAppended(q1, q, f)
  BY <1>5, AppendedIs
<1> HIDE DEF n, d
<1>7. UploadOK(s, b, g, out1, q1, p1)
  <2>1. ~Is(p1, "rz", "start")
    BY DEF Is
  <2>2. q1 = <<Header("ZACK", 0)>> /\ s.send_offset = Len(p1.got) /\ IsPrefixOfFile(p1.got)
    BY <1>3, <1>4, <1>5 DEF d
  <2> QED
    BY <1>1, <1>3, <2>1, <2>2 DEF UploadOK
<1>8. OffsetsOK(out1) /\ out1 \in Seq(Frames)
  BY <1>3 DEF OffsetsOK
<1>9. p.prog = "rz" /\ p1.prog = "rz" /\ p1.pc # "start"
  BY DEF Is
<1> QED
  BY <1>1, <1>5, <1>6, <1>7, <1>8, <1>9, RzSaysKeeps

\* `rz` is told that the file is complete, and answers with f.
UploadEnded(s, b, g, out, out1, q, q1, f, p, p1, l) ==
    /\ Good(s, b, g, out, q, p, l) /\ g = FALSE
    /\ Is(p, "rz", "data") /\ Is(p1, "rz", "ended") /\ p1 \in Peers
    /\ IsRest(out, out1)
    /\ f = Header("ZFIN", 0) /\ f \in Frames /\ q1 = q \o <<f>>

LEMMA UploadEndsKeeps ==
    ASSUME NEW s, NEW b, NEW g, NEW out, NEW out1, NEW q, NEW q1, NEW f, NEW p, NEW p1, NEW l,
           UploadEnded(s, b, g, out, out1, q, q1, f, p, p1, l)
    PROVE  Good(s, b, g, out1, q1, p1, l)
<1> /\ Good(s, b, g, out, q, p, l) /\ g = FALSE
    /\ Is(p, "rz", "data") /\ Is(p1, "rz", "ended") /\ p1 \in Peers
    /\ IsRest(out, out1)
    /\ f = Header("ZFIN", 0) /\ f \in Frames /\ q1 = q \o <<f>>
  BY DEF UploadEnded
<1>1. /\ q = <<>> /\ b.save = 0 /\ b.open = 0
      /\ s.phase \in {"AwaitRpos", "Sending"} /\ ~HasMeta(out1)
  BY DataSent
<1>2. q1 = <<f>> /\ q \in Seq(Frames) /\ f.type = "ZFIN"
  BY <1>1 DEF Header
<1>3. IsAppended(q1, q, f)
  BY <1>2, AppendedIs
<1>4. UploadOK(s, b, g, out1, q1, p1)
  BY DEF UploadOK, Is
<1>5. (OffsetsOK(out) => OffsetsOK(out1)) /\ out1 \in Seq(Frames)
  BY MetaRest DEF IsRest
<1>6. p.prog = "rz" /\ p1.prog = "rz" /\ p1.pc # "start"
  BY DEF Is
<1> QED
  BY <1>1, <1>2, <1>3, <1>4, <1>5, <1>6, RzSaysKeeps

-----------------------------------------------------------------------------
(* The steps that leave the session and the bridge alone.                  *)

LEMMA AloneKeeps ==
    ASSUME LinkInv, session' = session, Bridge' = Bridge, runs' \in 0..MaxRuns,
           Good(session_for, Bridge, FALSE, toPeer', toHost', peer', runs' = MaxRuns)
    PROVE  LinkInv' /\ Viewed
<1>1. session_for' = session_for
  BY DEF session_for
<1>2. LinkInv'
  BY <1>1 DEF LinkInv
<1>3. Viewed
  BY <1>1 DEF Viewed, Views
<1> QED
  BY <1>2, <1>3

LEMMA SameBridgeState ==
    ASSUME UNCHANGED <<session, writer, disk, saveDialogs, openDialogs, outcome>>
    PROVE  session' = session /\ Bridge' = Bridge
BY DEF Bridge

\* The invariant as the lemmas above take it.
LEMMA LinkInvGood ==
    ASSUME LinkInv
    PROVE  \E g, l : /\ g = FALSE /\ l = (runs = MaxRuns) /\ g \in BOOLEAN /\ l \in BOOLEAN
                     /\ Good(session_for, Bridge, g, toPeer, toHost, peer, l)
BY LinkInvParts

LEMMA ReadIs ==
    ASSUME LinkInv, Read
    PROVE  IsRest(toPeer, toPeer') /\ In = toPeer[1]
<1>1. toPeer \in Seq(Frames)
  BY LinkInvParts
<1> QED
  BY <1>1, RestIsTail DEF Read, In

LEMMA SaysIs ==
    ASSUME LinkInv, NEW f \in Frames, Says(<<f>>)
    PROVE  IsAppended(toHost', toHost, f)
<1>1. toHost \in Seq(Frames)
  BY LinkInvParts
<1> QED
  BY <1>1, AppendedIs DEF Says

LEMMA ShellType == Shell \in Peers /\ Shell.prog = "shell"
<1>1. <<>> \in Seq(Nat)
  OBVIOUS
<1> QED
  BY <1>1 DEF Shell, Peers

LEMMA AtType ==
    ASSUME NEW pc \in {"prompt", "start", "asked", "stream", "data", "ended"},
           peer \in Peers, At(pc)
    PROVE  /\ peer' \in Peers /\ peer'.pc = pc /\ peer'.prog = peer.prog
           /\ peer'.got = peer.got /\ peer'.inFrame = peer.inFrame
BY DEF At, Peers

LEMMA StartStep ==
    ASSUME LinkInv, NEW prog \in {"sz", "rz"}, Start(prog)
    PROVE  LinkInv' /\ Viewed
<1> DEFINE f == Header(IF prog = "sz" THEN "ZRQINIT" ELSE "ZRINIT", 0)
<1>1. PICK g, l : /\ g = FALSE /\ l = (runs = MaxRuns) /\ g \in BOOLEAN /\ l \in BOOLEAN
                  /\ Good(session_for, Bridge, g, toPeer, toHost, peer, l)
  BY LinkInvGood
<1>2. f \in Frames
  BY HeaderType DEF HeaderTypes
<1>3. IsAppended(toHost', toHost, f)
  BY <1>2, SaysIs DEF Start
<1>4. /\ peer' \in Peers /\ peer'.prog = prog /\ peer'.pc = "start"
      /\ peer'.got = <<>> /\ peer'.inFrame = FALSE
  <2>1. peer' = [Shell EXCEPT !.prog = prog, !.pc = "start"] /\ <<>> \in Seq(Nat)
    BY DEF Start
  <2> QED
    BY <2>1 DEF Shell, Peers
<1>5. /\ runs \in 0..MaxRuns /\ runs < MaxRuns /\ runs' = runs + 1
      /\ peer.prog = "shell" /\ toPeer = <<>> /\ Bridge.save = 0 /\ Bridge.open = 0
      /\ \A i \in DOMAIN toHost : ~OpensDialog(toHost[i])
      /\ toPeer' = toPeer
  BY BridgeFields DEF Start, LinkInv, bridge
<1>6. session' = session /\ Bridge' = Bridge
  BY SameBridgeState DEF Start, bridge
<1>7. l = FALSE /\ runs' \in 0..MaxRuns
  BY <1>1, <1>5, LinkAssumption
<1> DEFINE l1 == runs' = MaxRuns
<1>8. l1 \in BOOLEAN
  OBVIOUS
<1> HIDE DEF f, l1
<1>9. Good(session_for, Bridge, g, toPeer, toHost', peer', l1)
  <2>1. Started(session_for, Bridge, g, toPeer, toHost, toHost', f, peer, peer', l, l1, prog)
    BY <1>1, <1>3, <1>4, <1>5, <1>7, <1>8 DEF Started, f
  <2> QED
    BY <2>1, StartKeeps
<1>10. Good(session_for, Bridge, FALSE, toPeer', toHost', peer', runs' = MaxRuns)
  BY <1>1, <1>5, <1>9 DEF l1
<1> QED
  BY <1>6, <1>7, <1>10, AloneKeeps

LEMMA ShellPrintsStep ==
    ASSUME LinkInv, ShellPrints
    PROVE  LinkInv' /\ Viewed
<1>1. PICK g, l : /\ g = FALSE /\ l = (runs = MaxRuns) /\ g \in BOOLEAN /\ l \in BOOLEAN
                  /\ Good(session_for, Bridge, g, toPeer, toHost, peer, l)
  BY LinkInvGood
<1>2. PICK t \in {"TEXT", "FLOOD"} : Says(<<Header(t, 0)>>)
  BY DEF ShellPrints
<1> DEFINE f == Header(t, 0)
<1>3. f \in Frames /\ Junk(f)
  BY HeaderType DEF HeaderTypes, Junk, Header
<1>4. IsAppended(toHost', toHost, f)
  BY <1>2, <1>3, SaysIs
<1>5. /\ peer' = peer /\ runs' = runs /\ toPeer' = toPeer /\ peer.prog = "shell"
      /\ session' = session /\ Bridge' = Bridge /\ runs' \in 0..MaxRuns
  BY SameBridgeState DEF ShellPrints, bridge, LinkInv
<1> HIDE DEF f
<1>6. Good(session_for, Bridge, g, toPeer, toHost', peer, l)
  BY <1>1, <1>3, <1>4, <1>5, JunkSaidKeeps
<1> QED
  BY <1>1, <1>5, <1>6, AloneKeeps

LEMMA ShellReadsStep ==
    ASSUME LinkInv, ShellReads
    PROVE  LinkInv' /\ Viewed
<1>1. PICK g, l : /\ g = FALSE /\ l = (runs = MaxRuns) /\ g \in BOOLEAN /\ l \in BOOLEAN
                  /\ Good(session_for, Bridge, g, toPeer, toHost, peer, l)
  BY LinkInvGood
<1>2. IsRest(toPeer, toPeer')
  BY ReadIs DEF ShellReads
<1>3. /\ peer' = peer /\ runs' = runs /\ toHost' = toHost
      /\ session' = session /\ Bridge' = Bridge /\ runs' \in 0..MaxRuns
  BY SameBridgeState DEF ShellReads, LinkInv
<1>4. Good(session_for, Bridge, g, toPeer', toHost, peer, l)
  BY <1>1, <1>2, ReadKeeps
<1> QED
  BY <1>1, <1>3, <1>4, AloneKeeps

LEMMA InterruptedStep ==
    ASSUME LinkInv, Interrupted
    PROVE  LinkInv' /\ Viewed
<1>1. PICK g, l : /\ g = FALSE /\ l = (runs = MaxRuns) /\ g \in BOOLEAN /\ l \in BOOLEAN
                  /\ Good(session_for, Bridge, g, toPeer, toHost, peer, l)
  BY LinkInvGood
<1>2. /\ peer' = Shell /\ runs' = runs /\ toPeer' = toPeer
      /\ session' = session /\ Bridge' = Bridge /\ runs' \in 0..MaxRuns
  BY SameBridgeState DEF Interrupted, bridge, LinkInv
<1>3. Good(session_for, Bridge, g, toPeer, toHost, peer', l)
  BY <1>1, <1>2, ShellType, ToShellKeeps
<1>4. Good(session_for, Bridge, g, toPeer, toHost', peer', l)
  <2> DEFINE f == Header("CAN", 0)
  <2>1. CASE Says(<<f>>)
    <3>1. f \in Frames /\ Junk(f)
      BY HeaderType DEF HeaderTypes, Junk, Header
    <3>2. IsAppended(toHost', toHost, f)
      BY <2>1, <3>1, SaysIs
    <3> HIDE DEF f
    <3> QED
      BY <1>1, <1>2, <1>3, <3>1, <3>2, ShellType, JunkSaidKeeps
  <2>2. CASE toHost' = toHost
    BY <1>3, <2>2
  <2> QED
    BY <2>1, <2>2 DEF Interrupted
<1> QED
  BY <1>1, <1>2, <1>4, AloneKeeps

LEMMA SzReadsStep ==
    ASSUME LinkInv, SzReads
    PROVE  LinkInv' /\ Viewed
<1>1. PICK g, l : /\ g = FALSE /\ l = (runs = MaxRuns) /\ g \in BOOLEAN /\ l \in BOOLEAN
                  /\ Good(session_for, Bridge, g, toPeer, toHost, peer, l)
  BY LinkInvGood
<1>2. IsRest(toPeer, toPeer') /\ In = toPeer[1]
  BY ReadIs DEF SzReads
<1>3. /\ runs' = runs /\ session' = session /\ Bridge' = Bridge /\ runs' \in 0..MaxRuns
      /\ peer \in Peers /\ peer.prog = "sz" /\ toHost \in Seq(Frames)
  BY SameBridgeState, LinkInvParts DEF SzReads, LinkInv
<1>4. Good(session_for, Bridge, g, toPeer', toHost', peer', l)
  <2>1. CASE /\ peer.pc = "start" /\ In.type = "ZRINIT" /\ At("asked")
             /\ Says(<<Header("ZFILE", 0), Data(MetaBlock, "AckEnd")>>)
    <3> DEFINE f == Header("ZFILE", 0)
               h == Data(MetaBlock, "AckEnd")
               q1 == Append(toHost, f)
    <3>1. /\ f \in Frames /\ h \in Frames /\ f.type = "ZFILE"
          /\ h.type = "DATA" /\ h.body = MetaBlock /\ h.end = "AckEnd"
      BY HeaderType, DataType DEF HeaderTypes, Ends, Header, Data, MetaBlock
    <3>2. toHost' = toHost \o <<f, h>>
      BY <2>1 DEF Says
    <3> HIDE DEF f, h
    <3>3. q1 \in Seq(Frames) /\ toHost' = Append(q1, h)
      BY <1>3, <3>1, <3>2
    <3> HIDE DEF q1
    <3>4. IsAppended(q1, toHost, f) /\ IsAppended(toHost', q1, h)
      BY <1>3, <3>1, <3>3, AppendedIs DEF q1
    <3>5. peer' \in Peers /\ Is(peer, "sz", "start") /\ Is(peer', "sz", "asked")
      BY <1>3, <2>1, AtType DEF Is
    <3> QED
      BY <1>1, <1>2, <2>1, <3>1, <3>4, <3>5, OfferSaidKeeps
  <2>2. CASE /\ peer.pc = "asked" /\ In.type = "ZRPOS"
             /\ peer' = [peer EXCEPT !.pc = "stream", !.next = In.pos + 1]
             /\ Says(<<Header("ZDATA", In.pos)>>)
    <3> DEFINE f == Header("ZDATA", In.pos)
    <3>1. In.pos = 0
      <4>1. 1 \in DOMAIN toPeer /\ OffsetsOK(toPeer)
        BY <1>1, <1>2 DEF IsRest, Good, StreamOK
      <4> QED
        BY <1>2, <2>2, <4>1 DEF OffsetsOK
    <3>2. f \in Frames /\ f.type = "ZDATA"
      BY <3>1, HeaderType DEF HeaderTypes, Header
    <3>3. IsAppended(toHost', toHost, f)
      BY <2>2, <3>2, SaysIs
    <3>4. /\ peer' \in Peers /\ peer'.next = 1
          /\ Is(peer, "sz", "asked") /\ Is(peer', "sz", "stream")
      <4> DEFINE n == 1
      <4>1. peer' = [peer EXCEPT !.pc = "stream", !.next = n] /\ n \in Nat
        BY <2>2, <3>1
      <4>2. Is(peer, "sz", "asked")
        BY <1>3, <2>2 DEF Is
      <4> HIDE DEF n
      <4>3. peer' \in Peers /\ peer'.next = n /\ Is(peer', "sz", "stream")
        BY <1>3, <4>1 DEF Peers, Is
      <4> QED
        BY <4>2, <4>3 DEF n
    <3> HIDE DEF f
    <3> QED
      BY <1>1, <1>2, <2>2, <3>2, <3>3, <3>4, StreamBeginsKeeps
  <2>3. CASE /\ peer.pc = "ended" /\ In.type = "ZFIN" /\ peer' = Shell
             /\ Says(<<Header("ZFIN", 0)>>)
    <3> DEFINE f == Header("ZFIN", 0)
    <3>1. f \in Frames /\ f.type = "ZFIN"
      BY HeaderType DEF HeaderTypes, Header
    <3>2. IsAppended(toHost', toHost, f)
      BY <2>3, <3>1, SaysIs
    <3>3. Is(peer, "sz", "ended") /\ peer' \in Peers /\ peer'.prog = "shell"
      BY <1>3, <2>3, ShellType DEF Is
    <3> HIDE DEF f
    <3> QED
      BY <1>1, <1>2, <2>3, <3>1, <3>2, <3>3, SzEndsKeeps
  <2>4. CASE UNCHANGED <<peer, toHost>>
    BY <1>1, <1>2, <2>4, ReadKeeps
  <2> QED
    BY <2>1, <2>2, <2>3, <2>4 DEF SzReads
<1> QED
  BY <1>1, <1>3, <1>4, AloneKeeps

LEMMA SzStreamsStep ==
    ASSUME LinkInv, SzStreams
    PROVE  LinkInv' /\ Viewed
<1>1. PICK g, l : /\ g = FALSE /\ l = (runs = MaxRuns) /\ g \in BOOLEAN /\ l \in BOOLEAN
                  /\ Good(session_for, Bridge, g, toPeer, toHost, peer, l)
  BY LinkInvGood
<1>2. /\ runs' = runs /\ session' = session /\ Bridge' = Bridge /\ runs' \in 0..MaxRuns
      /\ toPeer' = toPeer /\ peer \in Peers /\ Is(peer, "sz", "stream") /\ toHost \in Seq(Frames)
  BY SameBridgeState, LinkInvParts DEF SzStreams, LinkInv, bridge, Is
<1>3. Good(session_for, Bridge, g, toPeer, toHost', peer', l)
  <2>1. CASE peer.next > Total
    <3> DEFINE f == Header("ZEOF", Total)
    <3>1. f \in Frames /\ f.type = "ZEOF"
      BY HeaderType, LinkAssumption DEF HeaderTypes, Header
    <3>2. IsAppended(toHost', toHost, f)
      BY <2>1, <3>1, SaysIs DEF SzStreams
    <3>3. peer' \in Peers /\ Is(peer', "sz", "ended")
      BY <1>2, <2>1, AtType DEF SzStreams, Is
    <3> HIDE DEF f
    <3> QED
      BY <1>1, <1>2, <2>1, <3>1, <3>2, <3>3, StreamSaidKeeps
  <2>2. CASE ~(peer.next > Total)
    <3>1. PICK e \in IF peer.next = Total THEN {"End", "AckEnd"}
                     ELSE {"Continue", "AckContinue"} :
              Says(<<Data(peer.next, e)>>)
      BY <2>2 DEF SzStreams
    <3> DEFINE f == Data(peer.next, e)
    <3>2. peer.next \in Nat /\ peer.next <= Total
      BY <1>2, <2>2, LinkAssumption DEF Peers
    <3>3. /\ f \in Frames /\ f.type = "DATA" /\ f.body = peer.next
          /\ f.end \in {"End", "AckEnd"} <=> peer.next = Total
      BY <3>1, <3>2, DataType DEF Ends, Data
    <3>4. IsAppended(toHost', toHost, f)
      BY <3>1, <3>3, SaysIs
    <3>5. peer' \in Peers /\ Is(peer', "sz", "stream") /\ peer'.next = peer.next + 1
      <4> DEFINE n == peer.next + 1
      <4>1. n \in Nat /\ peer' = [peer EXCEPT !.next = n]
        BY <2>2, <3>2 DEF SzStreams
      <4> HIDE DEF n
      <4>2. peer' \in Peers /\ Is(peer', "sz", "stream") /\ peer'.next = n
        BY <1>2, <4>1 DEF Peers, Is
      <4> QED
        BY <4>2 DEF n
    <3> HIDE DEF f
    <3> QED
      BY <1>1, <1>2, <3>2, <3>3, <3>4, <3>5, StreamSaidKeeps
  <2> QED
    BY <2>1, <2>2
<1> QED
  BY <1>1, <1>2, <1>3, AloneKeeps

LEMMA RzReadsStep ==
    ASSUME LinkInv, RzReads
    PROVE  LinkInv' /\ Viewed
<1>1. PICK g, l : /\ g = FALSE /\ l = (runs = MaxRuns) /\ g \in BOOLEAN /\ l \in BOOLEAN
                  /\ Good(session_for, Bridge, g, toPeer, toHost, peer, l)
  BY LinkInvGood
<1>2. IsRest(toPeer, toPeer') /\ In = toPeer[1]
  BY ReadIs DEF RzReads
<1>3. /\ runs' = runs /\ session' = session /\ Bridge' = Bridge /\ runs' \in 0..MaxRuns
      /\ peer \in Peers /\ peer.prog = "rz" /\ toHost \in Seq(Frames)
  BY SameBridgeState, LinkInvParts DEF RzReads, LinkInv
<1>4. /\ Header("ZRPOS", 0) \in Frames /\ Header("ZACK", 0) \in Frames
      /\ Header("ZFIN", 0) \in Frames
  BY HeaderType DEF HeaderTypes
<1>5. Good(session_for, Bridge, g, toPeer', toHost', peer', l)
  <2>1. CASE /\ peer.pc = "start" /\ IsMetaFrame(In) /\ At("data")
             /\ Says(<<Header("ZRPOS", 0)>>)
    <3> DEFINE f == Header("ZRPOS", 0)
    <3>1. /\ peer' \in Peers /\ Is(peer, "rz", "start") /\ Is(peer', "rz", "data")
          /\ peer'.got = peer.got /\ peer'.inFrame = peer.inFrame
      BY <1>3, <2>1, AtType DEF Is
    <3>2. f \in Frames /\ toHost' = toHost \o <<f>>
      BY <1>4, <2>1 DEF Says
    <3>3. IsMetaFrame(toPeer[1]) /\ f = Header("ZRPOS", 0) /\ IsRest(toPeer, toPeer')
      BY <1>2, <2>1
    <3> DEFINE q == toHost \o <<f>>
    <3>4. q = toHost \o <<f>> /\ toHost' = q
      BY <3>2
    <3> HIDE DEF f, q
    <3>5. DataAsked(session_for, Bridge, g, toPeer, toPeer', toHost, q, f, peer, peer', l)
      BY <1>1, <3>1, <3>2, <3>3, <3>4 DEF DataAsked
    <3>6. Good(session_for, Bridge, g, toPeer', q, peer', l)
      BY <3>5, DataAskedKeeps
    <3> QED
      BY <3>4, <3>6
  <2>2. CASE /\ peer.pc = "data" /\ In.type = "DATA"
             /\ peer' = [peer EXCEPT !.got = Append(peer.got, In.body),
                                     !.inFrame = In.end \in {"Continue", "AckContinue"}]
             /\ Says(IF In.end \in {"AckContinue", "AckEnd"}
                     THEN <<Header("ZACK", 0)>> ELSE <<>>)
    <3> DEFINE f == Header("ZACK", 0)
               d == Append(peer.got, In.body)
               i == In.end \in {"Continue", "AckContinue"}
    <3>1. In.body \in Nat
      BY <1>2, <2>2 DEF IsRest, Frames, HeaderTypes
    <3>2. d \in Seq(Nat) /\ i \in BOOLEAN
      BY <1>3, <3>1 DEF Peers
    <3>3. peer' = [peer EXCEPT !.got = d, !.inFrame = i]
      BY <2>2
    <3> HIDE DEF d, i
    <3>4. /\ peer' \in Peers /\ Is(peer, "rz", "data") /\ Is(peer', "rz", "data")
          /\ peer'.got = d
      BY <1>3, <2>2, <3>2, <3>3 DEF Peers, Is
    <3>5. Takes(peer, peer', toPeer[1])
      BY <1>2, <3>4 DEF d, Takes
    <3>6. f \in Frames
          /\ Acks(toHost, toHost', toPeer[1], f)
      BY <1>2, <1>4, <2>2 DEF Says, Acks
    <3>7. toPeer[1].type = "DATA"
      BY <1>2, <2>2
    <3>8. f = Header("ZACK", 0)
      OBVIOUS
    <3> HIDE DEF f
    <3> QED
      BY <1>1, <1>2, <3>4, <3>5, <3>6, <3>7, <3>8, BlockReadKeeps
  <2>3. CASE EndOfUpload /\ At("ended") /\ Says(<<Header("ZFIN", 0)>>)
    <3> DEFINE f == Header("ZFIN", 0)
    <3>1. peer' \in Peers /\ Is(peer, "rz", "data") /\ Is(peer', "rz", "ended")
      BY <1>3, <2>3, AtType DEF Is, EndOfUpload
    <3>2. f = Header("ZFIN", 0) /\ f \in Frames /\ toHost' = toHost \o <<f>>
      BY <1>4, <2>3 DEF Says
    <3> HIDE DEF f
    <3>3. UploadEnded(session_for, Bridge, g, toPeer, toPeer', toHost, toHost', f, peer, peer', l)
      BY <1>1, <1>2, <3>1, <3>2 DEF UploadEnded
    <3> QED
      BY <3>3, UploadEndsKeeps
  <2>4. CASE peer' = Shell /\ UNCHANGED toHost
    <3>1. Good(session_for, Bridge, g, toPeer', toHost, peer, l)
      BY <1>1, <1>2, ReadKeeps
    <3>2. peer' \in Peers /\ peer'.prog = "shell"
      BY <2>4, ShellType
    <3> QED
      BY <2>4, <3>1, <3>2, ToShellKeeps
  <2>5. CASE UNCHANGED <<peer, toHost>>
    BY <1>1, <1>2, <2>5, ReadKeeps
  <2> QED
    BY <2>1, <2>2, <2>3, <2>4, <2>5 DEF RzReads
<1> QED
  BY <1>1, <1>3, <1>5, AloneKeeps

\* Only the last program may skip its file (RzSkips): what follows a ZSKIP from an
\* earlier one is the reason.
LEMMA RzSkipsStep ==
    ASSUME LinkInv, RzSkips, ~SkipAnytime
    PROVE  LinkInv' /\ Viewed
<1>1. PICK g, l : /\ g = FALSE /\ l = (runs = MaxRuns) /\ g \in BOOLEAN /\ l \in BOOLEAN
                  /\ Good(session_for, Bridge, g, toPeer, toHost, peer, l)
  BY LinkInvGood
<1>2. IsRest(toPeer, toPeer') /\ In = toPeer[1]
  BY ReadIs DEF RzSkips
<1>3. /\ runs' = runs /\ session' = session /\ Bridge' = Bridge /\ runs' \in 0..MaxRuns
      /\ peer \in Peers /\ l = TRUE
  BY <1>1, SameBridgeState, LinkInvParts DEF RzSkips, LinkInv
<1> DEFINE f == Header("ZSKIP", 0)
<1>4. f \in Frames /\ toHost' = toHost \o <<f>> /\ IsMetaFrame(toPeer[1])
  BY <1>2, HeaderType DEF HeaderTypes, RzSkips, Says
<1>5. peer' \in Peers /\ Is(peer, "rz", "start") /\ Is(peer', "rz", "ended")
  BY <1>3, AtType DEF RzSkips, Is
<1>6. Good(session_for, Bridge, g, toPeer', toHost', peer', l)
  <2>1. f = Header("ZSKIP", 0)
    OBVIOUS
  <2> HIDE DEF f
  <2>2. Skipped(session_for, Bridge, g, toPeer, toPeer', toHost, toHost', f, peer, peer', l)
    BY <1>1, <1>2, <1>3, <1>4, <1>5, <2>1 DEF Skipped
  <2> QED
    BY <2>2, SkipsKeeps
<1> QED
  BY <1>1, <1>3, <1>6, AloneKeeps

-----------------------------------------------------------------------------
(* The dialogs are answered, and the connection is lost.                   *)

\* A dialog is closed.
LEMMA ClosedKeeps ==
    ASSUME NEW s, NEW b, NEW g, NEW out, NEW q, NEW p, NEW l, NEW b1 \in Bridges,
           Good(s, b, g, out, q, p, l), b1.writer = b.writer, b1.disk = b.disk,
           b1.outcome = b.outcome, b1.save <= b.save, b1.open <= b.open
    PROVE  /\ Good(s, b1, g, out, q, p, l)
           /\ Stage(s, b1) = Stage(s, b) /\ Shown(s, b1) = Shown(s, b)
<1>1. /\ b1.save \in Nat /\ b1.open \in Nat /\ b.save \in Nat /\ b.open \in Nat
      /\ b1.save > 0 => b.save > 0
      /\ b1.open > 0 => b.open > 0
      /\ b.save = 0 => b1.save = 0
      /\ b.open = 0 => b1.open = 0
      /\ b1.save + b1.open <= b.save + b.open
  <2>1. /\ b1.save \in Nat /\ b1.open \in Nat /\ b.save \in Nat /\ b.open \in Nat
    BY DEF Good, Typed, Bridges
  <2> QED
    BY <2>1
<1>2. Typed(s, b1, g, out, q, p, l)
  BY DEF Good, Typed
<1>3. StreamOK(s, b1, out, q, p) /\ WriterOK(s, b1, out, q, p, l)
  BY DEF Good, StreamOK, WriterOK, Taken
<1>4. DialogsOK(s, b1, q, p)
  <2>1. DialogsOK(s, b, q, p)
    BY DEF Good
  <2>2. b1.save + b1.open <= 1
    <3> DEFINE m == b.save + b.open
               n == b1.save + b1.open
    <3>1. m \in Nat /\ n \in Nat /\ n <= m /\ m <= 1
      BY <1>1, <2>1 DEF DialogsOK
    <3> HIDE DEF m, n
    <3>2. n <= 1
      BY <3>1
    <3> QED
      BY <3>2 DEF n
  <2> QED
    BY <1>1, <2>1, <2>2 DEF DialogsOK
<1>5. GoneOK(s, b1, g, q) /\ UploadOK(s, b1, g, out, q, p) /\ DiskOK(b1)
  BY <1>1 DEF Good, GoneOK, UploadOK, DiskOK
<1>6. EndingOK(s, b1, out, q, p) /\ OutcomeOK(s, b1, g, q, p, l)
  BY <1>1 DEF Good, EndingOK, FinExpected, OutcomeOK
<1>7. Stage(s, b1) = Stage(s, b) /\ Shown(s, b1) = Shown(s, b)
  BY UnchangedView
<1> QED
  BY <1>2, <1>3, <1>4, <1>5, <1>6, <1>7 DEF Good

\* What holds while a save dialog is open.
LEMMA SaveOpen ==
    ASSUME NEW s, NEW b, NEW g, NEW out, NEW q, NEW p, NEW l,
           Good(s, b, g, out, q, p, l), g = FALSE, b.save > 0
    PROVE  /\ AllJunk(q) /\ (p.prog = "shell" \/ Is(p, "sz", "asked"))
           /\ s.detector = "idle" /\ b.save - 1 = 0 /\ b.open = 0
           /\ (s.phase = "Init" /\ Fresh(s)) \/ (s.phase = "AwaitSavePath" /\ s.named)
           /\ b.writer # NoFile => b.disk[b.writer] = <<>>
           /\ b.outcome.how # "Receive"
           /\ ~Has(out, "ZRPOS") \/ ~Is(p, "sz", "asked")
           /\ Is(p, "sz", "asked") => q = <<>>
<1>1. b.save \in Nat /\ b.open \in Nat /\ DialogsOK(s, b, q, p)
  BY DEF Good, Typed, Bridges
<1>2. b.save - 1 = 0 /\ b.open = 0
  BY <1>1 DEF DialogsOK
<1>3. s.phase \notin Dead
  BY DEF Good, GoneOK
<1>4. (s.phase = "Init" /\ Fresh(s)) \/ (s.phase = "AwaitSavePath" /\ s.named)
  BY <1>1, <1>3 DEF DialogsOK
<1>5. ~Has(out, "ZRPOS") \/ ~Is(p, "sz", "asked")
  BY <1>4 DEF Good, StreamOK, Taken
<1>6. Is(p, "sz", "asked") => q = <<>>
  <2> SUFFICES ASSUME Is(p, "sz", "asked"), q # <<>>
               PROVE  FALSE
    OBVIOUS
  <2>1. IsMetaFrame(q[Len(q)]) /\ q \in Seq(Frames)
    BY DEF Good, PeerOK, Typed
  <2>2. Len(q) \in DOMAIN q
    BY <2>1
  <2> QED
    BY <1>1, <2>1, <2>2 DEF DialogsOK, AllJunk, Junk, IsMetaFrame
<1> QED
  BY <1>1, <1>2, <1>4, <1>5, <1>6 DEF DialogsOK, Good, OutcomeOK

\* A file is chosen and created.
PlacedIn(path, b, b1) ==
    /\ path \in Paths /\ b.save > 0
    /\ b1.writer = path /\ b1.disk[path] = <<>>
    /\ \A x \in Paths : x # path => b1.disk[x] = b.disk[x]
    /\ b1.outcome = b.outcome /\ b1.save = b.save - 1 /\ b1.open = b.open

LEMMA PlaceChosenView ==
    ASSUME NEW s, NEW b, NEW b1, b1.outcome = b.outcome, b.outcome.how # "Receive",
           s.phase # "Receiving"
    PROVE  Stage(s, b1) = Stage(s, b) /\ Shown(s, b1) = Shown(s, b)
<1>1. Stage(s, b1) = Stage(s, b) /\ Stage(s, b) \in {"offered", "none"}
  BY DEF Stage
<1> QED
  BY <1>1 DEF Shown

LEMMA PlaceChosenKeeps ==
    ASSUME NEW s, NEW b, NEW g, NEW out, NEW q, NEW p, NEW l, NEW b1 \in Bridges,
           NEW path, Good(s, b, g, out, q, p, l), g = FALSE, PlacedIn(path, b, b1)
    PROVE  Good(s, b1, g, out, q, p, l)
<1> USE DEF PlacedIn
<1>1. /\ AllJunk(q) /\ (p.prog = "shell" \/ Is(p, "sz", "asked"))
      /\ b.save - 1 = 0 /\ b.open = 0
      /\ (s.phase = "Init" /\ Fresh(s)) \/ (s.phase = "AwaitSavePath" /\ s.named)
      /\ b.outcome.how # "Receive" /\ (~Has(out, "ZRPOS") \/ ~Is(p, "sz", "asked"))
  BY SaveOpen
<1>2. b1.save = 0 /\ b1.open = 0
  BY <1>1
<1>3. \A i \in DOMAIN q : q[i].type \in {"CAN", "TEXT", "FLOOD"}
  BY <1>1 DEF AllJunk, Junk
<1>4. /\ q # <<>> => ~Streamed(q[1])
      /\ ~Has(q, "ZFIN") /\ \A i \in DOMAIN q : ~IsMetaFrame(q[i])
  <2>1. q # <<>> => 1 \in DOMAIN q
    BY DEF Good, Typed
  <2> QED
    BY <1>3, <2>1 DEF Streamed, Has, IsMetaFrame
<1>5. /\ ~Is(p, "sz", "start") /\ ~Is(p, "sz", "stream") /\ ~Is(p, "sz", "ended")
      /\ ~Is(p, "rz", "start") /\ ~Is(p, "rz", "data")
  BY <1>1 DEF Is
<1>6. Typed(s, b1, g, out, q, p, l)
  BY DEF Good, Typed
<1>7. StreamOK(s, b1, out, q, p)
  BY <1>1, <1>4, <1>5 DEF Good, StreamOK
<1>8. WriterOK(s, b1, out, q, p, l)
  BY <1>1, <1>4, <1>5 DEF WriterOK, MetaExpected
<1>9. DialogsOK(s, b1, q, p)
  BY <1>2 DEF DialogsOK
<1>10. GoneOK(s, b1, g, q) /\ UploadOK(s, b1, g, out, q, p)
  BY <1>5 DEF Good, GoneOK, UploadOK
<1>11. DiskOK(b1)
  <2> SUFFICES ASSUME NEW x \in Paths
               PROVE  Len(b1.disk[x]) <= Total /\ IsPrefixOfFile(b1.disk[x])
    BY DEF DiskOK
  <2>1. CASE x = path
    BY <2>1, LinkAssumption DEF IsPrefixOfFile
  <2>2. CASE x # path
    BY <2>2 DEF Good, DiskOK
  <2> QED
    BY <2>1, <2>2
<1>12. EndingOK(s, b1, out, q, p)
  BY <1>4, <1>5 DEF Good, EndingOK, FinExpected, Has
<1>13. OutcomeOK(s, b1, g, q, p, l)
  BY <1>2 DEF Good, OutcomeOK
<1> QED
  BY <1>6, <1>7, <1>8, <1>9, <1>10, <1>11, <1>12, <1>13 DEF Good

\* A file is offered, and its place was chosen.
Placed(s, b, q, p) ==
    /\ AllJunk(q) /\ (p.prog = "shell" \/ Is(p, "sz", "asked")) /\ s.detector = "idle"
    /\ b.save = 0 /\ b.open = 0 /\ s.phase = "AwaitSavePath" /\ s.named
    /\ b.writer # NoFile => b.disk[b.writer] = <<>>
    /\ b.outcome.how # "Receive"
    /\ Is(p, "sz", "asked") => q = <<>>
Requests(s, s1) == s1.phase = "Receiving" /\ s1.detector = s.detector /\ s1.named

\* The session asks for the file that it was offered.
LEMMA RequestedKeeps ==
    ASSUME NEW s, NEW b, NEW g, NEW out, NEW q, NEW p, NEW l, NEW s1 \in Feeding,
           NEW out1, NEW f,
           Good(s, b, g, out, q, p, l), g = FALSE,
           Placed(s, b, q, p), Requests(s, s1),
           IsAppended(out1, out, f), f.type = "ZRPOS", f.pos = 0
    PROVE  /\ Good(s1, b, g, out1, q, p, l)
           /\ Stage(s, b) = "offered" /\ Stage(s1, b) = "accepted"
           /\ Shown(s1, b) = Shown(s, b)
<1> USE DEF Placed, Requests
<1>1. \A i \in DOMAIN q : q[i].type \in {"CAN", "TEXT", "FLOOD"}
  BY DEF AllJunk, Junk
<1>2. /\ q # <<>> => ~Streamed(q[1])
      /\ ~Has(q, "ZFIN") /\ \A i \in DOMAIN q : ~IsMetaFrame(q[i])
  <2>1. q # <<>> => 1 \in DOMAIN q
    BY DEF Good, Typed
  <2> QED
    BY <1>1, <2>1 DEF Streamed, Has, IsMetaFrame
<1>3. /\ ~Is(p, "sz", "start") /\ ~Is(p, "sz", "stream") /\ ~Is(p, "sz", "ended")
      /\ ~Is(p, "rz", "start") /\ ~Is(p, "rz", "data")
  BY DEF Is
<1>4. Typed(s1, b, g, out1, q, p, l)
  BY DEF Good, Typed, IsAppended
<1>5. Taken(s1, b, 0)
  <2>1. b.writer # NoFile => Len(b.disk[b.writer]) = 0
    OBVIOUS
  <2> QED
    BY <2>1 DEF Taken
<1>6. StreamOK(s1, b, out1, q, p)
  <2>1. OffsetsOK(out1)
    BY OffsetsAppended DEF Good, StreamOK
  <2> QED
    BY <1>2, <1>3, <1>5, <2>1 DEF StreamOK
<1>7. WriterOK(s1, b, out1, q, p, l)
  BY <1>2, <1>3 DEF WriterOK, MetaExpected
<1>8. DetectorOK(s1, q) /\ DialogsOK(s1, b, q, p) /\ GoneOK(s1, b, g, q)
  BY DEF DetectorOK, DialogsOK, GoneOK, Dead
<1>9. UploadOK(s1, b, g, out1, q, p)
  BY <1>3 DEF UploadOK
<1>10. EndingOK(s1, b, out1, q, p)
  <2>1. Has(out1, "ZFIN") <=> Has(out, "ZFIN")
    BY HasAppended
  <2> QED
    BY <1>2, <1>3, <2>1 DEF Good, EndingOK, FinExpected, Has
<1>11. OutcomeOK(s1, b, g, q, p, l)
  BY DEF OutcomeOK
<1>12. Stage(s, b) = "offered" /\ Stage(s1, b) = "accepted" /\ Shown(s1, b) = Shown(s, b)
  <2>1. Stage(s, b) = "offered" /\ Stage(s1, b) = "accepted"
    BY DEF Stage
  <2>2. Shown(s, b) = 0
    BY <2>1 DEF Shown
  <2>3. Shown(s1, b) = 0
    BY <2>1 DEF Shown
  <2> QED
    BY <2>1, <2>2, <2>3
<1> QED
  BY <1>4, <1>6, <1>7, <1>8, <1>9, <1>10, <1>11, <1>12 DEF Good

\* `rz` is ready, and no dialog is open.
Ready(s, b, q, p) ==
    /\ AllJunk(q) /\ (p.prog = "shell" \/ Is(p, "rz", "start")) /\ s.detector = "idle"
    /\ b.save = 0 /\ b.open = 0 /\ s.phase = "Init"
Sets(s, s1) ==
    s1.phase = "AwaitRpos" /\ s1.direction = "Send" /\ s1.detector = s.detector

\* A file is picked: the session sends its header and its metadata.
LEMMA PickedKeeps ==
    ASSUME NEW s, NEW b, NEW g, NEW out, NEW q, NEW p, NEW l, NEW s1 \in Feeding,
           NEW out1, NEW out2, NEW f, NEW h,
           Good(s, b, g, out, q, p, l), g = FALSE,
           Ready(s, b, q, p), Sets(s, s1),
           IsAppended(out1, out, f), f.type = "ZFILE",
           IsAppended(out2, out1, h), h.type = "DATA"
    PROVE  Good(s1, b, g, out2, q, p, l)
<1> USE DEF Ready, Sets
<1>1. \A i \in DOMAIN q : q[i].type \in {"CAN", "TEXT", "FLOOD"}
  BY DEF AllJunk, Junk
<1>2. /\ q # <<>> => ~Streamed(q[1])
      /\ ~Has(q, "ZFIN") /\ \A i \in DOMAIN q : ~IsMetaFrame(q[i])
  <2>1. q # <<>> => 1 \in DOMAIN q
    BY DEF Good, Typed
  <2> QED
    BY <1>1, <2>1 DEF Streamed, Has, IsMetaFrame
<1>3. /\ ~Is(p, "sz", "start") /\ ~Is(p, "sz", "asked") /\ ~Is(p, "sz", "stream")
      /\ ~Is(p, "sz", "ended") /\ ~Is(p, "rz", "data")
  BY DEF Is
<1>4. Typed(s1, b, g, out2, q, p, l)
  BY DEF Good, Typed, IsAppended
<1>5. StreamOK(s1, b, out2, q, p)
  <2>1. OffsetsOK(out1)
    BY OffsetsAppended DEF Good, StreamOK
  <2>2. OffsetsOK(out2)
    BY <2>1, OffsetsAppended
  <2> QED
    BY <1>2, <1>3, <2>2 DEF StreamOK
<1>6. WriterOK(s1, b, out2, q, p, l)
  BY <1>2, <1>3 DEF WriterOK, MetaExpected
<1>7. DetectorOK(s1, q) /\ DialogsOK(s1, b, q, p) /\ GoneOK(s1, b, g, q)
  BY DEF DetectorOK, DialogsOK, GoneOK, Dead
<1>8. UploadOK(s1, b, g, out2, q, p)
  <2>1. CASE ~Is(p, "rz", "start")
    BY <1>3, <2>1 DEF UploadOK
  <2>2. CASE Is(p, "rz", "start")
    <3>1. q = <<>>
      <4> SUFFICES ASSUME q # <<>>
                   PROVE  FALSE
        OBVIOUS
      <4>1. q[Len(q)].type = "ZRINIT" /\ q \in Seq(Frames)
        BY <2>2 DEF Good, PeerOK, Typed
      <4>2. Len(q) \in DOMAIN q
        BY <4>1
      <4> QED
        BY <1>1, <4>1, <4>2
    <3>2. ~HasMeta(out)
      BY <2>2 DEF Good, UploadOK
    <3>3. ~HasMeta(out1)
      BY <3>2, MetaAppended DEF IsMetaFrame
    <3>4. MetaLast(out2)
      <4> SUFFICES ASSUME NEW i \in DOMAIN out2, IsMetaFrame(out2[i]), i # Len(out2)
                   PROVE  FALSE
        BY DEF MetaLast
      <4>1. i \in DOMAIN out1 /\ out2[i] = out1[i]
        BY DEF IsAppended
      <4> QED
        BY <3>3, <4>1 DEF HasMeta
    <3> QED
      BY <1>3, <3>1, <3>4 DEF UploadOK
  <2> QED
    BY <2>1, <2>2
<1>9. EndingOK(s1, b, out2, q, p)
  BY <1>2, <1>3 DEF EndingOK, FinExpected, Has
<1>10. OutcomeOK(s1, b, g, q, p, l)
  BY DEF OutcomeOK
<1> QED
  BY <1>4, <1>5, <1>6, <1>7, <1>8, <1>9, <1>10 DEF Good

\* The session is gone, and the remote is a shell again.
Lost(s, b, b1, g, out, q, p, p1, l) ==
    /\ Good(s, b, g, out, q, p, l) /\ g = FALSE
    /\ b1 \in Bridges /\ b1.writer = NoFile /\ b1.disk = b.disk /\ b1.save = b.save
    /\ b1.open = b.open /\ b1.outcome = b.outcome
    /\ p1 \in Peers /\ p1.prog = "shell"

LEMMA LostKeeps ==
    ASSUME NEW s, NEW b, NEW b1, NEW g, NEW out, NEW q, NEW p, NEW p1, NEW l,
           Lost(s, b, b1, g, out, q, p, p1, l)
    PROVE  /\ Good(New, b1, g, <<>>, <<>>, p1, l)
           /\ Views(Stage(s, b), Shown(s, b), Stage(New, b1), Shown(New, b1))
<1> /\ Good(s, b, g, out, q, p, l) /\ g = FALSE
    /\ b1 \in Bridges /\ b1.writer = NoFile /\ b1.disk = b.disk /\ b1.save = b.save
    /\ b1.open = b.open /\ b1.outcome = b.outcome
    /\ p1 \in Peers /\ p1.prog = "shell"
  BY DEF Lost
<1>1. /\ New.phase = "Init" /\ New.detector = "idle" /\ ~New.named /\ New.bytes = 0
      /\ New \in Feeding
  BY NewIs DEF New
<1>2. /\ \A prog \in {"sz", "rz"} : \A pc : ~Is(p1, prog, pc)
      /\ \A t : ~Has(<<>>, t)
      /\ AllJunk(<<>>) /\ QueueOK(<<>>) /\ OffsetsOK(<<>>) /\ <<>> \in Seq(Frames)
  BY DEF Is, Has, AllJunk, QueueOK, OffsetsOK
<1> DEFINE e == <<>>
<1>3. DOMAIN e = {} /\ e = <<>>
  OBVIOUS
<1>4. /\ \A t : ~Has(e, t)
      /\ AllJunk(e) /\ QueueOK(e) /\ OffsetsOK(e) /\ e \in Seq(Frames)
  BY <1>2
<1> HIDE DEF e
<1>5. /\ ~Is(p1, "sz", "start") /\ ~Is(p1, "sz", "asked") /\ ~Is(p1, "sz", "stream")
      /\ ~Is(p1, "sz", "ended") /\ ~Is(p1, "rz", "start") /\ ~Is(p1, "rz", "data")
  BY <1>2
<1>6. Typed(New, b1, g, e, e, p1, l) /\ PeerOK(e, p1, l)
  BY <1>1, <1>3, <1>4, <1>5 DEF Good, Typed, PeerOK
<1>7. StreamOK(New, b1, e, e, p1) /\ WriterOK(New, b1, e, e, p1, l)
  BY <1>3, <1>4, <1>5 DEF StreamOK, WriterOK
<1>8. DetectorOK(New, e) /\ GoneOK(New, b1, g, e)
  BY <1>1 DEF DetectorOK, GoneOK, Dead
<1>9. DialogsOK(New, b1, e, p1)
  BY <1>1, <1>4 DEF Good, DialogsOK, Fresh
<1>10. UploadOK(New, b1, g, e, e, p1) /\ DiskOK(b1)
  BY <1>5 DEF Good, UploadOK, DiskOK
<1>11. EndingOK(New, b1, e, e, p1) /\ OutcomeOK(New, b1, g, e, p1, l)
  BY <1>1, <1>3, <1>5 DEF Good, EndingOK, FinExpected, OutcomeOK
<1>12. Good(New, b1, g, e, e, p1, l)
  BY <1>4, <1>6, <1>7, <1>8, <1>9, <1>10, <1>11 DEF Good
<1>13. Views(Stage(s, b), Shown(s, b), Stage(New, b1), Shown(New, b1))
  <2>1. CASE Stage(New, b1) = "finished"
    <3>1. b.outcome.how = "Receive" /\ b.outcome.path # NoFile
      BY <1>1, <2>1 DEF Stage
    <3>2. s.phase # "Receiving" /\ ~(s.phase = "AwaitSavePath" /\ s.named)
      BY <3>1 DEF Good, OutcomeOK
    <3>3. Stage(s, b) = "finished"
      BY <3>1, <3>2 DEF Stage
    <3>4. Shown(s, b) = Shown(New, b1)
      BY <2>1, <3>3 DEF Shown
    <3> QED
      BY <2>1, <3>3, <3>4 DEF Views
  <2>2. CASE Stage(New, b1) # "finished"
    <3>1. Stage(New, b1) = "none"
      BY <1>1, <2>2 DEF Stage
    <3>2. Shown(New, b1) = 0
      BY <3>1 DEF Shown
    <3> QED
      BY <3>1, <3>2 DEF Views
  <2> QED
    BY <2>1, <2>2
<1> QED
  BY <1>12, <1>13 DEF e

-----------------------------------------------------------------------------
(* The steps of the dialogs and of the connection.                         *)

\* An offered file is accepted.
Accepted ==
    /\ Stage(session_for, Bridge) = "offered" /\ Stage(session_for', Bridge') = "accepted"
    /\ Shown(session_for', Bridge') = Shown(session_for, Bridge)

LEMMA BridgeFieldsPrime ==
    /\ Bridge'.writer = writer' /\ Bridge'.disk = disk' /\ Bridge'.save = saveDialogs'
    /\ Bridge'.open = openDialogs' /\ Bridge'.outcome = outcome'
BY DEF Bridge

LEMMA BridgeType ==
    ASSUME session' \in Feeding \cup {NoSession}, writer' \in Paths \cup {NoFile},
           disk' \in [Paths -> Seq(Nat)], saveDialogs' \in Nat, openDialogs' \in Nat,
           outcome' = outcome, LinkInv
    PROVE  Bridge' \in Bridges
<1>1. outcome \in Outcomes
  <2>1. Bridge \in Bridges
    BY LinkInvParts
  <2> QED
    BY <2>1, BridgeFields DEF Bridges
<1> QED
  BY <1>1 DEF Bridge, Bridges

\* The types of the parts of the bridge.
LEMMA PartsType ==
    ASSUME LinkInv
    PROVE  /\ session \in Feeding \cup {NoSession} /\ writer \in Paths \cup {NoFile}
           /\ disk \in [Paths -> Seq(Nat)] /\ saveDialogs \in Nat /\ openDialogs \in Nat
           /\ session # NoSession =>
                session_for = session /\ session \in Feeding /\ session.to_pty = <<>>
<1>1. Bridge \in Bridges /\ session_for.to_pty = <<>>
  BY LinkInvParts
<1> QED
  BY <1>1, BridgeFields DEF Bridges, session_for

LEMMA AnswerIs ==
    ASSUME NEW s1 \in Feeding, session # NoSession, Answer(s1)
    PROVE  /\ session_for' \in Feeding /\ SameSession(s1, session_for') /\ session' \in Feeding
           /\ Emptied(session') /\ toPeer' = toPeer \o s1.to_pty
<1>1. session' = Drained(s1) /\ toPeer' = toPeer \o s1.to_pty
  BY DEF Answer
<1>2. /\ Drained(s1) \in Feeding /\ SameSession(s1, Drained(s1)) /\ Drained(s1) # NoSession
      /\ Drained(s1).to_pty = <<>> /\ Drained(s1).events = <<>>
  BY DrainedIs
<1>3. session_for' = session'
  BY <1>1, <1>2 DEF session_for
<1> QED
  BY <1>1, <1>2, <1>3 DEF Emptied

\* An answer that sends nothing.
LEMMA QuietAnswer ==
    ASSUME LinkInv, session = NoSession \/ Answer(session),
           session = NoSession => UNCHANGED <<session, toPeer>>
    PROVE  /\ session_for' \in Feeding /\ SameSession(session_for, session_for')
           /\ session' \in Feeding \cup {NoSession}
           /\ Emptied(session') /\ toPeer' = toPeer
<1>1. CASE session = NoSession
  BY <1>1, NewIs DEF session_for, SameSession, Emptied
<1>2. CASE session # NoSession
  <2>1. /\ session \in Feeding /\ session_for = session /\ toPeer \in Seq(Frames)
        /\ session.to_pty = <<>>
    BY <1>2, PartsType, LinkInvParts
  <2>2. /\ session_for' \in Feeding /\ SameSession(session, session_for') /\ session' \in Feeding
        /\ Emptied(session') /\ toPeer' = toPeer \o session.to_pty
    BY <1>2, <2>1, AnswerIs
  <2>3. toPeer' = toPeer
    BY <2>1, <2>2
  <2> QED
    BY <2>1, <2>2, <2>3
<1> QED
  BY <1>1, <1>2

\* Put together: what a dialog leaves.
LEMMA DialogLeaves ==
    ASSUME LinkInv, NEW g, g = FALSE, UNCHANGED <<toHost, peer, runs>>, Emptied(session'),
           Good(session_for', Bridge', g, toPeer', toHost, peer, runs = MaxRuns)
    PROVE  LinkInv'
BY DEF LinkInv

\* The bridge changed, and the session sends nothing.
LEMMA QuietStep ==
    ASSUME LinkInv, NEW g, g = FALSE, UNCHANGED <<toHost, peer, runs>>,
           session = NoSession \/ Answer(session),
           session = NoSession => UNCHANGED <<session, toPeer>>,
           Bridge' \in Bridges,
           Good(session_for, Bridge', g, toPeer, toHost, peer, runs = MaxRuns),
           Stage(session_for, Bridge') = Stage(session_for, Bridge),
           Shown(session_for, Bridge') = Shown(session_for, Bridge)
    PROVE  LinkInv' /\ Viewed
<1> DEFINE l == runs = MaxRuns
<1>1. Good(session_for, Bridge', g, toPeer, toHost, peer, l)
  OBVIOUS
<1> HIDE DEF l
<1>2. /\ session_for' \in Feeding /\ SameSession(session_for, session_for')
      /\ Emptied(session') /\ toPeer' = toPeer
  BY QuietAnswer
<1>3. SameBridge(Bridge', Bridge')
  BY DEF SameBridge
<1>4. /\ Good(session_for', Bridge', g, toPeer, toHost, peer, l)
      /\ Stage(session_for', Bridge') = Stage(session_for, Bridge')
      /\ Shown(session_for', Bridge') = Shown(session_for, Bridge')
  BY <1>1, <1>2, <1>3, GoodSame
<1>5. LinkInv'
  BY <1>2, <1>4, DialogLeaves DEF l
<1> QED
  BY <1>4, <1>5 DEF Viewed, Views

LEMMA DismissedStep ==
    ASSUME LinkInv, UNCHANGED <<toHost, peer, runs>>, SaveDismissed \/ OpenDismissed
    PROVE  LinkInv' /\ Viewed
<1>1. PICK g, l : /\ g = FALSE /\ l = (runs = MaxRuns) /\ g \in BOOLEAN /\ l \in BOOLEAN
                  /\ Good(session_for, Bridge, g, toPeer, toHost, peer, l)
  BY LinkInvGood
<1>2. /\ session' = session /\ toPeer' = toPeer /\ UNCHANGED <<writer, disk, outcome>>
      /\ saveDialogs' \in Nat /\ openDialogs' \in Nat
      /\ saveDialogs' <= saveDialogs /\ openDialogs' <= openDialogs
  BY PartsType DEF SaveDismissed, OpenDismissed
<1>3. Bridge' \in Bridges
  BY <1>2, PartsType, BridgeType
<1>4. /\ Good(session_for, Bridge', g, toPeer, toHost, peer, l)
      /\ Stage(session_for, Bridge') = Stage(session_for, Bridge)
      /\ Shown(session_for, Bridge') = Shown(session_for, Bridge)
  BY <1>1, <1>2, <1>3, BridgeFields, BridgeFieldsPrime, ClosedKeeps
<1>5. session_for' = session_for /\ Emptied(session')
  BY <1>2 DEF session_for, LinkInv
<1>6. LinkInv'
  BY <1>1, <1>2, <1>4, <1>5, DialogLeaves
<1> QED
  BY <1>4, <1>5, <1>6 DEF Viewed, Views

\* What a confirmed save dialog does to the bridge.
LEMMA SaveBridge ==
    ASSUME LinkInv, NEW path \in Paths, NEW created, SaveConfirmed(path, created),
           session' \in Feeding \cup {NoSession}
    PROVE  \E g, l :
             /\ g = FALSE /\ l = (runs = MaxRuns) /\ Bridge' \in Bridges
             /\ Good(session_for, Bridge, g, toPeer, toHost, peer, l)
             /\ Good(session_for, Bridge', g, toPeer, toHost, peer, l)
             /\ Stage(session_for, Bridge') = Stage(session_for, Bridge)
             /\ Shown(session_for, Bridge') = Shown(session_for, Bridge)
             /\ Bridge'.save = Bridge.save - 1 /\ Bridge'.open = Bridge.open
             /\ Bridge'.outcome = Bridge.outcome
             /\ Bridge'.writer # NoFile =>
                  (Bridge'.writer = Bridge.writer /\ Bridge'.disk = Bridge.disk)
                    \/ Bridge'.disk[Bridge'.writer] = <<>>
<1>1. PICK g, l : /\ g = FALSE /\ l = (runs = MaxRuns) /\ g \in BOOLEAN /\ l \in BOOLEAN
                  /\ Good(session_for, Bridge, g, toPeer, toHost, peer, l)
  BY LinkInvGood
<1>2. /\ saveDialogs \in Nat /\ saveDialogs > 0 /\ saveDialogs' = saveDialogs - 1
      /\ openDialogs' = openDialogs /\ openDialogs \in Nat /\ outcome' = outcome
      /\ disk \in [Paths -> Seq(Nat)] /\ writer \in Paths \cup {NoFile}
  BY PartsType DEF SaveConfirmed
<1>3. CASE ~created
  <2>1. UNCHANGED <<writer, disk>>
    BY <1>3 DEF SaveConfirmed, install_receive_path
  <2>2. Bridge' \in Bridges
    BY <1>2, <2>1, BridgeType
  <2>3. /\ Bridge'.writer = Bridge.writer /\ Bridge'.disk = Bridge.disk
        /\ Bridge'.outcome = Bridge.outcome
        /\ Bridge'.save <= Bridge.save /\ Bridge'.open <= Bridge.open
    BY <1>2, <2>1, BridgeFields, BridgeFieldsPrime
  <2>4. /\ Good(session_for, Bridge', g, toPeer, toHost, peer, l)
        /\ Stage(session_for, Bridge') = Stage(session_for, Bridge)
        /\ Shown(session_for, Bridge') = Shown(session_for, Bridge)
    BY <1>1, <2>2, <2>3, ClosedKeeps
  <2> QED
    BY <1>1, <1>2, <2>1, <2>2, <2>4, BridgeFields, BridgeFieldsPrime
<1>4. CASE created
  <2>1. writer' = path /\ disk' = [disk EXCEPT ![path] = <<>>]
    BY <1>4 DEF SaveConfirmed, install_receive_path
  <2>2. <<>> \in Seq(Nat)
    OBVIOUS
  <2>3. /\ disk' \in [Paths -> Seq(Nat)] /\ disk'[path] = <<>>
        /\ \A x \in Paths : x # path => disk'[x] = disk[x]
    BY <1>2, <2>1, <2>2
  <2>4. Bridge' \in Bridges
    BY <1>2, <2>1, <2>3, BridgeType
  <2>5. PlacedIn(path, Bridge, Bridge')
    BY <1>2, <2>1, <2>3, BridgeFields, BridgeFieldsPrime DEF PlacedIn
  <2>6. /\ Good(session_for, Bridge', g, toPeer, toHost, peer, l)
        /\ Stage(session_for, Bridge') = Stage(session_for, Bridge)
        /\ Shown(session_for, Bridge') = Shown(session_for, Bridge)
    <3>1. g = FALSE /\ Good(session_for, Bridge, g, toPeer, toHost, peer, l)
      BY <1>1
    <3> DEFINE x == Bridge'
               y == Bridge
               s == session_for
    <3>2. x \in Bridges /\ PlacedIn(path, y, x) /\ Good(s, y, g, toPeer, toHost, peer, l)
      BY <2>4, <2>5, <3>1
    <3> HIDE DEF x, y, s
    <3>3. Good(s, x, g, toPeer, toHost, peer, l)
      BY <3>1, <3>2, PlaceChosenKeeps, Zenon
    <3>4. Stage(s, x) = Stage(s, y) /\ Shown(s, x) = Shown(s, y)
      <4>1. y.outcome.how # "Receive" /\ s.phase # "Receiving"
        BY <3>1, <3>2, SaveOpen DEF PlacedIn
      <4> QED
        BY <3>2, <4>1, PlaceChosenView DEF PlacedIn
    <3> QED
      BY <3>3, <3>4 DEF x, y, s
  <2> QED
    BY <1>1, <2>4, <2>5, <2>6 DEF PlacedIn
<1> QED
  BY <1>3, <1>4

LEMMA SaveConfirmedStep ==
    ASSUME LinkInv, NEW path \in Paths, NEW created, SaveConfirmed(path, created),
           UNCHANGED <<toHost, peer, runs>>
    PROVE  LinkInv' /\ (Viewed \/ Accepted)
<1>1. CASE session = NoSession \/ session.phase # "AwaitSavePath"
  <2>1. /\ session = NoSession \/ Answer(session)
        /\ session = NoSession => UNCHANGED <<session, toPeer>>
    BY <1>1 DEF SaveConfirmed, install_receive_path, set_save_path, Answer
  <2>2. session' \in Feeding \cup {NoSession}
    BY <2>1, QuietAnswer
  <2>3. PICK g, l :
             /\ g = FALSE /\ l = (runs = MaxRuns) /\ Bridge' \in Bridges
             /\ Good(session_for, Bridge', g, toPeer, toHost, peer, l)
             /\ Stage(session_for, Bridge') = Stage(session_for, Bridge)
             /\ Shown(session_for, Bridge') = Shown(session_for, Bridge)
    BY <2>2, SaveBridge
  <2> QED
    BY <2>1, <2>3, QuietStep
<1>2. CASE session # NoSession /\ session.phase = "AwaitSavePath"
  <2> DEFINE f == Header("ZRPOS", 0)
             s1 == Send(Enter(session, "Receiving"), f)
  <2>1. /\ session \in Feeding /\ session_for = session /\ toPeer \in Seq(Frames)
        /\ session.to_pty = <<>>
    BY <1>2, PartsType, LinkInvParts
  <2>2. f \in Frames /\ f.type = "ZRPOS" /\ f.pos = 0
    <3>1. f \in Frames
      BY HeaderType DEF HeaderTypes
    <3> QED
      BY <3>1 DEF Header
  <2>3. s1 \in Feeding
    <3>1. Enter(session, "Receiving") \in Feeding
      BY <2>1 DEF Enter, Feeding, Phases
    <3> QED
      BY <2>2, <3>1, SendType
  <2>4. /\ s1.phase = "Receiving" /\ s1.detector = session.detector
        /\ s1.named = session.named /\ s1.to_pty = <<f>>
    <3> DEFINE t == Append(session.to_pty, f)
               x == [session EXCEPT !.phase = "Receiving"]
    <3>1. t = <<f>>
      BY <2>1
    <3>2. x = Enter(session, "Receiving") /\ x.to_pty = session.to_pty
      BY <2>1 DEF Enter, Feeding
    <3>3. s1 = [x EXCEPT !.to_pty = t]
      BY <3>2 DEF Send
    <3>4. x.phase = "Receiving" /\ x.detector = session.detector /\ x.named = session.named
          /\ x \in Feeding
      BY <2>1 DEF Feeding, Phases
    <3> HIDE DEF t, x
    <3> QED
      BY <3>1, <3>3, <3>4 DEF Feeding
  <2>5. Answer(s1)
    BY <1>2 DEF SaveConfirmed, install_receive_path, set_save_path
  <2> HIDE DEF f, s1
  <2>6. /\ session_for' \in Feeding /\ SameSession(s1, session_for') /\ session' \in Feeding
        /\ Emptied(session') /\ toPeer' = toPeer \o s1.to_pty
    BY <1>2, <2>3, <2>5, AnswerIs
  <2>7. IsAppended(toPeer', toPeer, f)
    BY <2>1, <2>2, <2>4, <2>6, AppendedIs
  <2>8. PICK g, l :
             /\ g = FALSE /\ l = (runs = MaxRuns) /\ Bridge' \in Bridges
             /\ Good(session_for, Bridge, g, toPeer, toHost, peer, l)
             /\ Good(session_for, Bridge', g, toPeer, toHost, peer, l)
             /\ Stage(session_for, Bridge') = Stage(session_for, Bridge)
             /\ Shown(session_for, Bridge') = Shown(session_for, Bridge)
             /\ Bridge'.save = Bridge.save - 1 /\ Bridge'.open = Bridge.open
             /\ Bridge'.outcome = Bridge.outcome
             /\ Bridge'.writer # NoFile =>
                  (Bridge'.writer = Bridge.writer /\ Bridge'.disk = Bridge.disk)
                    \/ Bridge'.disk[Bridge'.writer] = <<>>
    BY <2>6, SaveBridge
  <2>9. /\ AllJunk(toHost) /\ (peer.prog = "shell" \/ Is(peer, "sz", "asked"))
        /\ session_for.detector = "idle" /\ Bridge.save - 1 = 0 /\ Bridge.open = 0
        /\ session_for.phase = "AwaitSavePath" /\ session_for.named
        /\ Bridge.writer # NoFile => Bridge.disk[Bridge.writer] = <<>>
        /\ Bridge.outcome.how # "Receive"
        /\ Is(peer, "sz", "asked") => toHost = <<>>
    <3>1. Bridge.save > 0
      BY BridgeFields DEF SaveConfirmed
    <3> QED
      BY <1>2, <2>1, <2>8, <3>1, SaveOpen
  <2>10. Placed(session_for, Bridge', toHost, peer)
    <3>1. /\ Bridge'.save = 0 /\ Bridge'.open = 0 /\ Bridge'.outcome.how # "Receive"
          /\ Bridge'.writer # NoFile => Bridge'.disk[Bridge'.writer] = <<>>
      BY <2>8, <2>9
    <3> QED
      BY <2>9, <3>1 DEF Placed
  <2>11. Requests(session_for, session_for')
    BY <2>1, <2>4, <2>6, <2>9 DEF SameSession, Requests
  <2>12. session_for' \in Feeding /\ g = FALSE
    BY <2>6, <2>8
  <2>13. Good(session_for, Bridge', g, toPeer, toHost, peer, l)
    BY <2>8
  <2>14. /\ Good(session_for', Bridge', g, toPeer', toHost, peer, l)
         /\ Stage(session_for, Bridge') = "offered" /\ Stage(session_for', Bridge') = "accepted"
         /\ Shown(session_for', Bridge') = Shown(session_for, Bridge')
    BY <2>2, <2>7, <2>10, <2>11, <2>12, <2>13, RequestedKeeps
  <2>15. LinkInv'
    BY <2>6, <2>8, <2>14, DialogLeaves
  <2> QED
    BY <2>8, <2>14, <2>15 DEF Accepted
<1> QED
  BY <1>1, <1>2

\* What holds while an open dialog is open.
LEMMA OpenOpen ==
    ASSUME NEW s, NEW b, NEW g, NEW out, NEW q, NEW p, NEW l,
           Good(s, b, g, out, q, p, l), g = FALSE, b.open > 0
    PROVE  /\ AllJunk(q) /\ (p.prog = "shell" \/ Is(p, "rz", "start"))
           /\ s.detector = "idle" /\ s.phase = "Init"
           /\ b.save = 0 /\ b.open - 1 = 0
<1>1. b.save \in Nat /\ b.open \in Nat /\ DialogsOK(s, b, q, p)
  BY DEF Good, Typed, Bridges
<1>2. b.save = 0 /\ b.open - 1 = 0
  BY <1>1 DEF DialogsOK
<1>3. s.phase \notin Dead
  BY DEF Good, GoneOK
<1> QED
  BY <1>1, <1>2, <1>3 DEF DialogsOK

\* An open dialog that is closed leaves the bridge without dialogs.
LEMMA OpenBridge ==
    ASSUME LinkInv, NEW n, OpenConfirmed(n), session' \in Feeding \cup {NoSession}
    PROVE  \E g, l :
             /\ g = FALSE /\ l = (runs = MaxRuns) /\ Bridge' \in Bridges
             /\ Good(session_for, Bridge', g, toPeer, toHost, peer, l)
             /\ Stage(session_for, Bridge') = Stage(session_for, Bridge)
             /\ Shown(session_for, Bridge') = Shown(session_for, Bridge)
             /\ AllJunk(toHost) /\ (peer.prog = "shell" \/ Is(peer, "rz", "start"))
             /\ session_for.detector = "idle" /\ session_for.phase = "Init"
             /\ Bridge'.save = 0 /\ Bridge'.open = 0
<1>1. PICK g, l : /\ g = FALSE /\ l = (runs = MaxRuns) /\ g \in BOOLEAN /\ l \in BOOLEAN
                  /\ Good(session_for, Bridge, g, toPeer, toHost, peer, l)
  BY LinkInvGood
<1>2. /\ openDialogs \in Nat /\ openDialogs > 0 /\ openDialogs' = openDialogs - 1
      /\ saveDialogs' = saveDialogs /\ saveDialogs \in Nat
      /\ UNCHANGED <<writer, disk, outcome>>
  BY PartsType DEF OpenConfirmed
<1>3. /\ Bridge'.writer = Bridge.writer /\ Bridge'.disk = Bridge.disk
      /\ Bridge'.outcome = Bridge.outcome
      /\ Bridge'.save <= Bridge.save /\ Bridge'.open <= Bridge.open
      /\ Bridge'.save = Bridge.save /\ Bridge'.open = Bridge.open - 1 /\ Bridge.open > 0
  BY <1>2, BridgeFields, BridgeFieldsPrime
<1>4. Bridge' \in Bridges
  BY <1>2, PartsType, BridgeType
<1>5. /\ Good(session_for, Bridge', g, toPeer, toHost, peer, l)
      /\ Stage(session_for, Bridge') = Stage(session_for, Bridge)
      /\ Shown(session_for, Bridge') = Shown(session_for, Bridge)
  BY <1>1, <1>3, <1>4, ClosedKeeps
<1>6. /\ AllJunk(toHost) /\ (peer.prog = "shell" \/ Is(peer, "rz", "start"))
      /\ session_for.detector = "idle" /\ session_for.phase = "Init"
      /\ Bridge.save = 0 /\ Bridge.open - 1 = 0
  BY <1>1, <1>3, OpenOpen
<1>7. Bridge'.save = 0 /\ Bridge'.open = 0
  BY <1>3, <1>6
<1> QED
  BY <1>1, <1>4, <1>5, <1>6, <1>7

LEMMA OpenConfirmedStep ==
    ASSUME LinkInv, NEW n \in Nat, OpenConfirmed(n), UNCHANGED <<toHost, peer, runs>>
    PROVE  LinkInv' /\ Viewed
<1>1. CASE session = NoSession
  <2>1. UNCHANGED <<session, toPeer>>
    BY <1>1 DEF OpenConfirmed, Answer
  <2>2. session' \in Feeding \cup {NoSession}
    BY <1>1, <2>1
  <2>3. PICK g, l :
             /\ g = FALSE /\ l = (runs = MaxRuns) /\ Bridge' \in Bridges
             /\ Good(session_for, Bridge', g, toPeer, toHost, peer, l)
             /\ Stage(session_for, Bridge') = Stage(session_for, Bridge)
             /\ Shown(session_for, Bridge') = Shown(session_for, Bridge)
    BY <2>2, OpenBridge
  <2> QED
    BY <1>1, <2>1, <2>3, QuietStep
<1>2. CASE session # NoSession
  <2> DEFINE f == Header("ZFILE", 0)
             h == Data(MetaBlock, "AckEnd")
             x == [session EXCEPT !.direction = "Send", !.phase = "AwaitRpos",
                                  !.payload = n, !.named = TRUE]
             s1 == Send(Send(x, f), h)
             out1 == Append(toPeer, f)
  <2>1. /\ session \in Feeding /\ session_for = session /\ toPeer \in Seq(Frames)
        /\ session.to_pty = <<>>
    BY <1>2, PartsType, LinkInvParts
  <2>2. /\ f \in Frames /\ h \in Frames /\ f.type = "ZFILE" /\ h.type = "DATA"
    BY HeaderType, DataType DEF HeaderTypes, Ends, Header, Data, MetaBlock
  <2>3. /\ x \in Feeding /\ x.phase = "AwaitRpos" /\ x.direction = "Send"
        /\ x.detector = session.detector /\ x.to_pty = session.to_pty
    BY <2>1 DEF Feeding, Phases, Directions
  <2>4. Answer(s1)
    BY <1>2 DEF OpenConfirmed, begin_send
  <2> HIDE DEF f, h, x
  <2>5. /\ s1 \in Feeding /\ s1.phase = "AwaitRpos" /\ s1.direction = "Send"
        /\ s1.detector = session.detector /\ s1.to_pty = Append(Append(session.to_pty, f), h)
    <3> DEFINE t == Append(x.to_pty, f)
               y == [x EXCEPT !.to_pty = t]
               u == Append(t, h)
    <3>2. y = Send(x, f) /\ y \in Feeding /\ s1 \in Feeding
      BY <2>2, <2>3, SendType DEF Send
    <3> HIDE DEF t
    <3>3. /\ y.to_pty = t /\ y.phase = "AwaitRpos" /\ y.direction = "Send"
          /\ y.detector = session.detector
      BY <2>3 DEF Feeding
    <3>4. s1 = [y EXCEPT !.to_pty = u]
      BY <3>2, <3>3 DEF Send
    <3>5. u = Append(Append(session.to_pty, f), h)
      BY <2>3 DEF t
    <3> HIDE DEF y, u, s1
    <3> QED
      BY <3>2, <3>3, <3>4, <3>5 DEF Feeding
  <2> HIDE DEF s1
  <2>6. /\ session_for' \in Feeding /\ SameSession(s1, session_for') /\ session' \in Feeding
        /\ Emptied(session') /\ toPeer' = toPeer \o s1.to_pty
    BY <1>2, <2>4, <2>5, AnswerIs
  <2>7. IsAppended(out1, toPeer, f) /\ IsAppended(toPeer', out1, h)
    <3>1. toPeer = toPeer \o session.to_pty
      BY <2>1
    <3>2. Sent(session, s1, toPeer, toPeer')
      BY <2>1, <2>6, <3>1 DEF Sent
    <3> QED
      BY <2>1, <2>2, <2>5, <3>2, SentTwo
  <2> HIDE DEF out1
  <2>8. PICK g, l :
             /\ g = FALSE /\ l = (runs = MaxRuns) /\ Bridge' \in Bridges
             /\ Good(session_for, Bridge', g, toPeer, toHost, peer, l)
             /\ Stage(session_for, Bridge') = Stage(session_for, Bridge)
             /\ Shown(session_for, Bridge') = Shown(session_for, Bridge)
             /\ AllJunk(toHost) /\ (peer.prog = "shell" \/ Is(peer, "rz", "start"))
             /\ session_for.detector = "idle" /\ session_for.phase = "Init"
             /\ Bridge'.save = 0 /\ Bridge'.open = 0
    BY <2>6, OpenBridge
  <2>9. /\ session_for' \in Feeding /\ Sets(session_for, session_for') /\ g = FALSE
        /\ session_for'.phase = "AwaitRpos"
    BY <2>1, <2>5, <2>6, <2>8 DEF SameSession, Sets
  <2>10. /\ Ready(session_for, Bridge', toHost, peer) /\ session_for.phase = "Init"
         /\ Good(session_for, Bridge', g, toPeer, toHost, peer, l)
    BY <2>8 DEF Ready
  <2>11. Good(session_for', Bridge', g, toPeer', toHost, peer, l)
    BY <2>2, <2>7, <2>9, <2>10, PickedKeeps
  <2>12. /\ Stage(session_for', Bridge') = Stage(session_for, Bridge')
         /\ Shown(session_for', Bridge') = Shown(session_for, Bridge')
    BY <2>9, <2>10, UnchangedView
  <2>13. LinkInv'
    BY <2>6, <2>8, <2>11, DialogLeaves
  <2> QED
    BY <2>8, <2>12, <2>13 DEF Viewed, Views
<1> QED
  BY <1>1, <1>2

LEMMA DialogsStep ==
    ASSUME LinkInv, Dialogs
    PROVE  LinkInv' /\ (Viewed \/ Accepted)
<1>1. UNCHANGED <<toHost, peer, runs>>
  BY DEF Dialogs
<1>2. CASE \E path \in Paths, created \in Created : SaveConfirmed(path, created)
  BY <1>1, <1>2, SaveConfirmedStep
<1>3. CASE SaveDismissed \/ OpenDismissed
  BY <1>1, <1>3, DismissedStep
<1>4. CASE \E n \in Uploads : OpenConfirmed(n)
  BY <1>1, <1>4, OpenConfirmedStep, LinkAssumption
<1> QED
  BY <1>2, <1>3, <1>4 DEF Dialogs

LEMMA LostStep ==
    ASSUME LinkInv, Disconnect
    PROVE  LinkInv' /\ Viewed
<1>1. PICK g, l : /\ g = FALSE /\ l = (runs = MaxRuns) /\ g \in BOOLEAN /\ l \in BOOLEAN
                  /\ Good(session_for, Bridge, g, toPeer, toHost, peer, l)
  BY LinkInvGood
<1>2. /\ session' = NoSession /\ writer' = NoFile /\ toHost' = <<>> /\ toPeer' = <<>>
      /\ peer' = Shell /\ runs' = runs
      /\ UNCHANGED <<disk, saveDialogs, openDialogs, outcome>>
  BY DEF Disconnect, remove
<1>3. session_for' = New /\ Emptied(session')
  BY <1>2 DEF session_for, Emptied
<1>4. Bridge' \in Bridges
  BY <1>2, PartsType, BridgeType
<1>5. /\ Bridge'.writer = NoFile /\ Bridge'.disk = Bridge.disk /\ Bridge'.save = Bridge.save
      /\ Bridge'.open = Bridge.open /\ Bridge'.outcome = Bridge.outcome
  BY <1>2, BridgeFields, BridgeFieldsPrime
<1>6. peer' \in Peers /\ peer'.prog = "shell"
  BY <1>2, ShellType
<1>7. /\ Good(New, Bridge', g, <<>>, <<>>, peer', l)
      /\ Views(Stage(session_for, Bridge), Shown(session_for, Bridge),
               Stage(New, Bridge'), Shown(New, Bridge'))
  <2>1. Lost(session_for, Bridge, Bridge', g, toPeer, toHost, peer, peer', l)
    BY <1>1, <1>4, <1>5, <1>6 DEF Lost
  <2> QED
    BY <2>1, LostKeeps
<1>8. LinkInv'
  <2>1. Good(session_for', Bridge', FALSE, toPeer', toHost', peer', runs' = MaxRuns)
    BY <1>1, <1>2, <1>3, <1>7
  <2> QED
    BY <1>2, <1>3, <2>1 DEF LinkInv
<1> QED
  BY <1>3, <1>7, <1>8 DEF Viewed

-----------------------------------------------------------------------------
(* The theorems. All of them take ~SkipAnytime: what follows a ZSKIP is    *)
(* not safe (handle_header keeps file_name), and a counterexample is known *)
(* to TLC when any `rz` may skip its file and another program follows.     *)

LEMMA LinkInitInv == LinkInit => LinkInv
<1> SUFFICES ASSUME LinkInit
             PROVE  LinkInv
  OBVIOUS
<1> DEFINE e == <<>>
           l == runs = MaxRuns
           b == Bridge
<1>1. /\ session = NoSession /\ writer = NoFile /\ disk = [p \in Paths |-> <<>>]
      /\ saveDialogs = 0 /\ openDialogs = 0 /\ outcome = NoOutcome
      /\ toPeer = e /\ toHost = e /\ peer = Shell /\ runs = 0
  BY DEF LinkInit, InitBridge
<1>2. session_for = New /\ Emptied(session)
  BY <1>1 DEF session_for, Emptied
<1>3. /\ New.phase = "Init" /\ New.detector = "idle" /\ ~New.named /\ New.bytes = 0
      /\ New \in Feeding
  BY NewIs DEF New
<1>4. DOMAIN e = {} /\ e = <<>> /\ e \in Seq(Frames)
  OBVIOUS
<1>5. \A x \in Paths : disk[x] = <<>>
  BY <1>1
<1>6. b \in Bridges
  <2>1. disk \in [Paths -> Seq(Nat)]
    <3>1. <<>> \in Seq(Nat)
      OBVIOUS
    <3> QED
      BY <1>1, <3>1
  <2>2. NoOutcome \in Outcomes
    BY DEF NoOutcome, Outcomes
  <2> QED
    BY <1>1, <2>1, <2>2 DEF Bridge, Bridges
<1>7. b.writer = NoFile /\ b.save = 0 /\ b.open = 0 /\ b.disk = disk
  BY <1>1, BridgeFields
<1> HIDE DEF e, b, l
<1>8. /\ ~Is(peer, "sz", "start") /\ ~Is(peer, "sz", "asked") /\ ~Is(peer, "sz", "stream")
      /\ ~Is(peer, "sz", "ended") /\ ~Is(peer, "rz", "start") /\ ~Is(peer, "rz", "data")
      /\ peer \in Peers
  BY <1>1, ShellType DEF Is
<1>9. l \in BOOLEAN
  BY DEF l
<1>10. AllJunk(e) /\ QueueOK(e) /\ OffsetsOK(e)
  BY <1>4 DEF AllJunk, QueueOK, OffsetsOK
<1>11. Typed(New, b, FALSE, e, e, peer, l) /\ PeerOK(e, peer, l)
  BY <1>3, <1>4, <1>6, <1>8, <1>9 DEF Typed, PeerOK
<1>12. StreamOK(New, b, e, e, peer) /\ WriterOK(New, b, e, e, peer, l)
  BY <1>4, <1>7, <1>8, <1>10 DEF StreamOK, WriterOK
<1>13. DetectorOK(New, e) /\ DialogsOK(New, b, e, peer) /\ GoneOK(New, b, FALSE, e)
  BY <1>3, <1>7 DEF DetectorOK, DialogsOK, GoneOK, Dead
<1>14. UploadOK(New, b, FALSE, e, e, peer) /\ DiskOK(b)
  <2>1. DiskOK(b)
    BY <1>5, <1>7, LinkAssumption DEF DiskOK, IsPrefixOfFile
  <2> QED
    BY <1>8, <2>1 DEF UploadOK
<1>15. EndingOK(New, b, e, e, peer) /\ OutcomeOK(New, b, FALSE, e, peer, l)
  BY <1>3, <1>4, <1>7, <1>8 DEF EndingOK, FinExpected, OutcomeOK
<1>16. Good(New, b, FALSE, e, e, peer, l)
  BY <1>10, <1>11, <1>12, <1>13, <1>14, <1>15 DEF Good
<1>17. runs \in 0..MaxRuns
  BY <1>1, LinkAssumption
<1> QED
  BY <1>1, <1>2, <1>16, <1>17 DEF LinkInv, b, l

LEMMA LinkNextInv ==
    ASSUME LinkInv, [LinkNext]_linkVars, ~SkipAnytime
    PROVE  LinkInv' /\ (Viewed \/ Accepted)
<1>1. CASE \E prog \in {"sz", "rz"} : Start(prog)
  BY <1>1, StartStep
<1>2. CASE ShellPrints
  BY <1>2, ShellPrintsStep
<1>3. CASE ShellReads
  BY <1>3, ShellReadsStep
<1>4. CASE SzReads
  BY <1>4, SzReadsStep
<1>5. CASE SzStreams
  BY <1>5, SzStreamsStep
<1>6. CASE RzReads
  BY <1>6, RzReadsStep
<1>7. CASE RzSkips
  BY <1>7, RzSkipsStep
<1>8. CASE Interrupted
  BY <1>8, InterruptedStep
<1>9. CASE Output
  BY <1>9, OutputKeeps
<1>10. CASE Dialogs
  BY <1>10, DialogsStep
<1>11. CASE Disconnect
  BY <1>11, LostStep
<1>12. CASE UNCHANGED linkVars
  <2>1. /\ session' = session /\ Bridge' = Bridge /\ runs' = runs /\ toPeer' = toPeer
        /\ toHost' = toHost /\ peer' = peer
    BY <1>12 DEF linkVars, bridge, Bridge
  <2>2. runs' \in 0..MaxRuns
    BY <2>1 DEF LinkInv
  <2>3. Good(session_for, Bridge, FALSE, toPeer', toHost', peer', runs' = MaxRuns)
    BY <2>1 DEF LinkInv
  <2> QED
    BY <2>1, <2>2, <2>3, AloneKeeps
<1> QED
  BY <1>1, <1>2, <1>3, <1>4, <1>5, <1>6, <1>7, <1>8, <1>9, <1>10, <1>11, <1>12
     DEF LinkNext

\* The inductive invariant holds in every reachable state.
THEOREM LinkInvariance ==
    ASSUME ~SkipAnytime
    PROVE  LinkSpec => []LinkInv
<1>1. LinkInv /\ [LinkNext]_linkVars => LinkInv'
  BY LinkNextInv
<1> QED
  BY <1>1, LinkInitInv, PTL DEF LinkSpec

LEMMA LinkInvTypes == LinkInv => LinkTypeOK
<1> SUFFICES ASSUME LinkInv
             PROVE  LinkTypeOK
  OBVIOUS
<1>1. Bridge \in Bridges /\ session_for.to_pty = <<>> /\ session_for.events = <<>>
  BY LinkInvParts
<1>2. /\ session \in Feeding \cup {NoSession} /\ writer \in Paths \cup {NoFile}
      /\ disk \in [Paths -> Seq(Nat)] /\ saveDialogs \in Nat /\ openDialogs \in Nat
      /\ outcome \in Outcomes
  BY <1>1, BridgeFields DEF Bridges
<1>3. session = NoSession \/ session \in SessionRecords
  <2> SUFFICES ASSUME session # NoSession
               PROVE  session \in SessionRecords
    OBVIOUS
  <2>1. session \in Feeding /\ session.to_pty \in {<<>>} /\ session.events \in {<<>>}
    BY <1>1, <1>2 DEF session_for
  <2> QED
    BY <2>1 DEF Feeding, SessionRecords, Directions
<1>4. \A p \in Paths : disk[p] \in Seq(Nat)
  BY <1>2
<1>5. /\ outcome.how \in {"none", "Receive", "Send", "Cancelled"}
      /\ outcome.path \in Paths \cup {NoFile}
  BY <1>2 DEF Outcomes
<1> QED
  BY <1>2, <1>3, <1>4, <1>5 DEF LinkTypeOK

LEMMA LinkInvFiles == LinkInv => FilesArrive
<1> SUFFICES ASSUME LinkInv
             PROVE  FilesArrive
  OBVIOUS
<1>1. /\ DiskOK(Bridge) /\ UploadOK(session_for, Bridge, FALSE, toPeer, toHost, peer)
      /\ peer \in Peers /\ toPeer \in Seq(Frames)
  BY LinkInvParts DEF Good
<1>2. KeptIsPrefix
  BY <1>1, BridgeFields DEF DiskOK, KeptIsPrefix
<1>3. UploadIsWhole
  <2> SUFFICES ASSUME EndOfUpload
               PROVE  Len(peer.got) = In.pos /\ IsPrefixOfFile(peer.got)
    BY DEF UploadIsWhole
  <2>1. Is(peer, "rz", "data") /\ toPeer # <<>> /\ toPeer[1].type = "ZEOF" /\ In = toPeer[1]
    BY <1>1 DEF EndOfUpload, Is, In
  <2>2. IsPrefixOfFile(peer.got)
    BY <1>1, <2>1 DEF UploadOK
  <2> DEFINE n == Len(peer.got)
  <2>3. \/ toPeer = <<Header("ZEOF", n)>>
        \/ \E e \in {"AckContinue", "AckEnd"} :
             \/ toPeer = <<Data(n + 1, e)>>
             \/ toPeer = <<Header("ZDATA", n), Data(n + 1, e)>>
    BY <1>1, <2>1 DEF UploadOK
  <2> HIDE DEF n
  <2>4. toPeer = <<Header("ZEOF", n)>>
    BY <2>1, <2>3 DEF Header, Data
  <2>5. toPeer[1].pos = n
    BY <2>4 DEF Header
  <2> QED
    BY <2>1, <2>2, <2>5 DEF n
<1> QED
  BY <1>2, <1>3 DEF FilesArrive

\* The session, the writer and the disk are well-typed, and nothing the session
\* wanted to send or to report is left in it between two steps.
THEOREM LinkTypeCorrect ==
    ASSUME ~SkipAnytime
    PROVE  LinkSpec => []LinkTypeOK
BY LinkInvariance, LinkInvTypes, PTL

\* Files arrive as they are, as far as they arrive, in either direction: for files
\* of any length, chunks of any size, any number of programs, whatever is
\* interrupted, dismissed or lost (session.rs, handle_data and pump_send_blocks).
THEOREM WhatArrivesIsTheFile ==
    ASSUME ~SkipAnytime
    PROVE  LinkSpec => []FilesArrive
BY LinkInvariance, LinkInvFiles, PTL

LEMMA StageIs == stage = Stage(session_for, Bridge) /\ kept = Shown(session_for, Bridge)
<1>1. stage = Stage(session_for, Bridge)
  <2>1. CASE session = NoSession
    <3>1. session.phase = "none" /\ session_for.phase = "Init"
      BY <2>1 DEF NoSession, New, session_for
    <3> QED
      BY <3>1, BridgeFields DEF stage, Stage
  <2>2. CASE session # NoSession
    BY <2>2, BridgeFields DEF stage, Stage, session_for
  <2> QED
    BY <2>1, <2>2
<1> QED
  BY <1>1, BridgeFields DEF kept, Shown

\* A download is what FileDownload promises: nothing is kept of a file that was not
\* offered and accepted, what is kept only grows, and the transfer is reported as
\* done only with all of it (zmodem.rs, dispatch_event and install_receive_path).
THEOREM DownloadAsPromised ==
    ASSUME ~SkipAnytime
    PROVE  LinkSpec => DownloadSpec
<1>1. LinkInit => Download!Init
  <2> SUFFICES ASSUME LinkInit
               PROVE  stage = "none" /\ kept = 0
    BY DEF Download!Init
  <2>1. /\ session_for.phase = "Init" /\ Bridge.outcome.how = "none"
        /\ session_for.phase # "Receiving" /\ session_for.phase # "AwaitSavePath"
    BY BridgeFields DEF LinkInit, InitBridge, session_for, New, NoOutcome
  <2> QED
    BY <2>1, NoView, StageIs
<1>2. LinkInv /\ LinkInv' /\ [LinkNext]_linkVars => [Download!Next]_(Download!vars)
  <2> SUFFICES ASSUME LinkInv, [LinkNext]_linkVars
               PROVE  [Download!Next]_(Download!vars)
    OBVIOUS
  <2> DEFINE st0 == stage
             k0 == kept
             st == stage'
             k == kept'
  <2>1. Viewed \/ Accepted
    BY LinkNextInv
  <2>2. st0 = Stage(session_for, Bridge) /\ k0 = Shown(session_for, Bridge)
    BY StageIs
  <2>3. st = Stage(session_for', Bridge') /\ k = Shown(session_for', Bridge')
    <3>1. (stage = Stage(session_for, Bridge) /\ kept = Shown(session_for, Bridge))'
      BY StageIs, PTL
    <3> QED
      BY <3>1 DEF Stage, Shown
  <2>4. k0 \in Nat /\ Total \in Nat
    BY <2>2, LinkInvParts, ShownType, LinkAssumption
  <2>5. \/ Views(st0, k0, st, k)
        \/ st0 = "offered" /\ st = "accepted" /\ k = k0
    BY <2>1, <2>2, <2>3 DEF Viewed, Accepted
  <2>6. CASE st = st0 /\ k = k0
    BY <2>6 DEF Download!vars
  <2>7. CASE st = "none" /\ k = 0
    BY <2>7 DEF Download!Next, Download!GiveUp
  <2>8. CASE st0 \in {"none", "finished"} /\ st = "offered" /\ k = 0
    BY <2>8 DEF Download!Next, Download!Offer
  <2>9. CASE st0 = "accepted" /\ st = "accepted" /\ k \in k0..Total
    <3>1. k = k0 \/ k \in (k0 + 1)..Total
      BY <2>4, <2>9
    <3> QED
      BY <2>9, <3>1 DEF Download!Next, Download!Keep, Download!vars
  <2>10. CASE st0 = "accepted" /\ st = "finished" /\ k = Total
    BY <2>10 DEF Download!Next, Download!Finish
  <2>11. CASE st0 = "offered" /\ st = "accepted" /\ k = k0
    BY <2>11 DEF Download!Next, Download!Accept
  <2> QED
    BY <2>5, <2>6, <2>7, <2>8, <2>9, <2>10, <2>11 DEF Views
<1> QED
  BY <1>1, <1>2, LinkInvariance, PTL DEF LinkSpec, DownloadSpec, Download!Spec

=============================================================================
