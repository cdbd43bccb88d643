------------------------------ MODULE RelayExec ------------------------------
(***************************************************************************)
(* Commands of the relay API in a terminal the user has open.              *)
(*                                                                         *)
(* A request of the HTTP relay names a host. When a tab is connected to it *)
(* the command is typed into that tab's PTY, behind the prompt the user    *)
(* sees, and its output is copied from the tab's reader task through an    *)
(* *output tap* (crates/rusterm-ssh/src/client.rs) until a marker that the *)
(* command line prints at its end comes by (crates/rusterm-ui/src/         *)
(* relay_tunnel.rs). Otherwise the command runs on a connection of its own.*)
(*                                                                         *)
(* Requests run on the threads of the relay's runtime, the reader and      *)
(* writer tasks of the SSH channel on theirs, keystrokes on the UI thread: *)
(* they share the session's atomics, its tap and its input channel. An     *)
(* action ends where what another task does next could make a difference:  *)
(* the tap is written and relay_exec_active set in one action, because     *)
(* nobody looks at both.                                                   *)
(*                                                                         *)
(* The remote shell reads the lines of its terminal in order, one command  *)
(* at a time; what is typed meanwhile waits in the terminal.               *)
(***************************************************************************)
EXTENDS Naturals, Sequences, FiniteSets

CONSTANTS
    Requests,    \* relay requests, each of which arrives at most once
    User,        \* whoever sits at the keyboard
    NoOne,       \* no holder, no tap
    MaxKeys,     \* pieces of input the user types (bound)
    MaxChunks,   \* pieces of output a command writes before it ends (bound)
    ChannelCap,  \* events the response channel of a stream holds
    MayStall     \* a client may stop reading and keep its connection

ASSUME ConstantsAssumption ==
    /\ User \notin Requests /\ NoOne \notin Requests /\ User # NoOne
    /\ MaxKeys \in Nat /\ MaxChunks \in Nat
    /\ ChannelCap \in Nat \ {0}
    /\ MayStall \in BOOLEAN

VARIABLES
    disconnected,  \* SshSession::disconnected
    tap,           \* output_tap: the request whose sender is installed
    lock,          \* output_tap_lock: the request that holds it
    active,        \* relay_exec_active
    reusable,      \* relay_exec_reusable
    reader,        \* the reader task
    writer,        \* the writer task
    registered,    \* the tab is in the live session registry
    pty,           \* the remote terminal and its shell
    user,          \* the keyboard
    req            \* the requests

session == <<disconnected, tap, lock, active, reusable, reader, writer, registered>>
vars == <<session, pty, user, req>>

Pieces == [by : Requests \union {User}, enter : BOOLEAN]

\* typed: what the shell has not read yet; line: who typed into the line it is
\* reading; running: whose line it runs; said: how much that command has written.
PtyRecords ==
    [up : BOOLEAN,
     typed : Seq(Pieces),
     line : SUBSET (Requests \union {User}),
     running : SUBSET (Requests \union {User}),
     said : 0 .. MaxChunks]

\* pending: a keystroke let through by the check and not sent yet.
UserRecords == [pending : {"none", "key", "enter"}, keys : 0 .. MaxKeys]

\* The places a request holds the tap's guard at, and the other ones.
Guarded == {"sending", "waiting", "relaying", "reporting"}
Locked == {"checking", "tapping", "rechecking", "releasing"} \union Guarded
Elsewhere == {"idle", "exec_stream", "exec", "locking", "fresh", "fallback", "sudo", "over"}

\* required: live_session_required. inbox: the tap's channel, where "marker" is
\* the request's own. chan: events in the response channel. live and fresh: how
\* often the command was started in the tab and on a connection of its own.
RequestRecords ==
    [pc : Locked \union Elsewhere,
     stream : BOOLEAN, elevated : BOOLEAN, required : BOOLEAN,
     client : {"reads", "stalled", "gone"},
     inbox : Seq({"chunk", "marker"}),
     chan : 0 .. ChannelCap,
     answer : {"none", "done", "timed_out", "unknown", "refused", "error", "elevate"},
     live : Nat, fresh : Nat]

Init ==
    /\ disconnected = FALSE /\ tap = NoOne /\ lock = NoOne
    /\ active = FALSE /\ reusable = TRUE
    /\ reader = "reading" /\ writer = "running" /\ registered = TRUE
    /\ pty = [up |-> TRUE, typed |-> <<>>, line |-> {}, running |-> {}, said |-> 0]
    /\ user = [pending |-> "none", keys |-> 0]
    /\ req = [r \in Requests |->
                [pc |-> "idle", stream |-> FALSE, elevated |-> FALSE, required |-> FALSE,
                 client |-> "reads", inbox |-> <<>>, chan |-> 0,
                 answer |-> "none", live |-> 0, fresh |-> 0]]

At(r, p) == req[r].pc = p
Goto(r, p) == req' = [req EXCEPT ![r].pc = p]

\* The end of a request: what it held besides its outcome is dropped.
Ended(rec, a) ==
    [rec EXCEPT !.pc = "over", !.answer = a, !.stream = FALSE, !.elevated = FALSE,
                !.inbox = <<>>, !.chan = 0]
Answer(r, a) == req' = [req EXCEPT ![r] = Ended(@, a)]

-----------------------------------------------------------------------------
(* AppRelayExecutor: which way a request goes.                             *)

Arrive(r, stream, elevated, required) ==
    /\ At(r, "idle")
    /\ req' = [req EXCEPT ![r].pc = IF stream THEN "exec_stream" ELSE "exec",
                          ![r].stream = stream,
                          ![r].elevated = elevated,
                          ![r].required = required]
    /\ UNCHANGED <<session, pty, user>>

\* A true stream is for plain commands in a live tab; every other one is a
\* buffered exec whose outcome is replayed.
exec_stream(r) ==
    /\ At(r, "exec_stream")
    /\ IF ~req[r].elevated /\ registered
       THEN Goto(r, "locking")
       ELSE req' = [req EXCEPT ![r].pc = "exec", ![r].stream = FALSE]
    /\ UNCHANGED <<session, pty, user>>

\* A sudo password is never typed into a tab, so an elevated command goes there
\* only when the node behind a bastion can be reached in no other way.
exec(r) ==
    /\ At(r, "exec")
    /\ CASE registered /\ (req[r].elevated => req[r].required) -> Goto(r, "locking")
         [] ~registered /\ req[r].required -> Answer(r, "refused")
         [] OTHER -> Goto(r, "fresh")
    /\ UNCHANGED <<session, pty, user>>

\* LiveExecError::BeforeSend: nothing was typed, so another way is safe. A
\* stream falls back to exec(), which looks for the tab a second time.
NotSent(rec) ==
    CASE rec.required -> Ended(rec, "refused")
      [] ~rec.required /\ rec.stream -> [rec EXCEPT !.pc = "exec", !.stream = FALSE]
      [] OTHER -> [rec EXCEPT !.pc = "fresh"]

-----------------------------------------------------------------------------
(* SshSession::begin_output_tap and the guard it returns.                  *)

LockTaken(r) ==
    /\ At(r, "locking")
    /\ lock = NoOne
    /\ lock' = r
    /\ Goto(r, "checking")
    /\ UNCHANGED <<disconnected, tap, active, reusable, reader, writer, registered, pty, user>>

\* The request's own timeout runs while it waits for the lock.
LockTimeout(r) ==
    /\ At(r, "locking")
    /\ req' = [req EXCEPT ![r] = NotSent(@)]
    /\ UNCHANGED <<session, pty, user>>

Unusable == disconnected \/ ~reusable

CheckFailed(r) ==
    /\ At(r, "checking")
    /\ Unusable
    /\ lock' = NoOne
    /\ req' = [req EXCEPT ![r] = NotSent(@)]
    /\ UNCHANGED <<disconnected, tap, active, reusable, reader, writer, registered, pty, user>>

CheckPassed(r) ==
    /\ At(r, "checking")
    /\ ~Unusable
    /\ Goto(r, "tapping")
    /\ UNCHANGED <<session, pty, user>>

\* A new channel replaces the request's old one, if it had any.
InstallTap(r) ==
    /\ At(r, "tapping")
    /\ tap' = r
    /\ active' = TRUE
    /\ req' = [req EXCEPT ![r].pc = "rechecking", ![r].inbox = <<>>]
    /\ UNCHANGED <<disconnected, lock, reusable, reader, writer, registered, pty, user>>

\* Mutant: the tap outlives its guard.
DropTap_Leaves(r) ==
    /\ active' = FALSE
    /\ UNCHANGED tap

\* What dropping the guard does before it gives the lock back.
DropTap(r) ==
    /\ tap' = NoOne
    /\ active' = FALSE

\* The guard is dropped on the way out; a is the answer the caller will get,
\* "none" when it is told that nothing was sent.
LeaveWith(r, a) ==
    /\ DropTap(r)
    /\ req' = [req EXCEPT ![r].pc = "releasing", ![r].answer = a]

Recheck(r) ==
    /\ At(r, "rechecking")
    /\ IF disconnected
       THEN LeaveWith(r, "none")
       ELSE Goto(r, "sending") /\ UNCHANGED <<tap, active>>
    /\ UNCHANGED <<disconnected, lock, reusable, reader, writer, registered, pty, user>>

ReleaseLock(r) ==
    /\ At(r, "releasing")
    /\ lock' = NoOne
    /\ req' = [req EXCEPT ![r] =
                 IF @.answer # "none" \/ @.client = "gone"
                 THEN Ended(@, @.answer) ELSE NotSent(@)]
    /\ UNCHANGED <<disconnected, tap, active, reusable, reader, writer, registered, pty, user>>

-----------------------------------------------------------------------------
(* exec_via_live_session and exec_stream_via_live_session.                 *)

\* The deadline passed before the command was sent, or the writer is gone.
NothingQueued(r) ==
    /\ At(r, "sending")
    /\ LeaveWith(r, "none")
    /\ UNCHANGED <<disconnected, lock, reusable, reader, writer, registered, pty, user>>

Send(r) ==
    /\ At(r, "sending")
    /\ writer = "running"
    /\ pty' = [pty EXCEPT !.typed = Append(@, [by |-> r, enter |-> TRUE])]
    /\ Goto(r, "waiting")
    /\ UNCHANGED <<session, user>>

\* A piece of output is collected, or handed to the stream's response channel.
TakeChunk(r) ==
    /\ At(r, "waiting")
    /\ req[r].inbox # <<>> /\ Head(req[r].inbox) = "chunk"
    /\ req' = [req EXCEPT ![r].inbox = Tail(@),
                          ![r].pc = IF req[r].stream THEN "relaying" ELSE "waiting"]
    /\ UNCHANGED <<session, pty, user>>

\* `sudo -n` in the tab of a bastion may refuse; its complaint comes with the
\* marker, and no password is typed there.
TakeMarker(r) ==
    /\ At(r, "waiting")
    /\ req[r].inbox # <<>> /\ Head(req[r].inbox) = "marker"
    /\ IF req[r].stream
       THEN /\ req' = [req EXCEPT ![r].inbox = Tail(@), ![r].pc = "reporting",
                                  ![r].answer = "done"]
            /\ UNCHANGED <<tap, active>>
       ELSE \/ LeaveWith(r, "done")
            \/ req[r].elevated /\ LeaveWith(r, "elevate")
    /\ UNCHANGED <<disconnected, lock, reusable, reader, writer, registered, pty, user>>

\* Nothing more will come and the command was typed: its outcome is a, and the
\* session is not used again.
GiveUp(r, a) ==
    /\ reusable' = FALSE
    /\ IF req[r].stream
       THEN /\ req' = [req EXCEPT ![r].pc = "reporting", ![r].answer = a]
            /\ UNCHANGED <<tap, active>>
       ELSE LeaveWith(r, a)
    /\ UNCHANGED <<disconnected, lock, reader, writer, registered, pty, user>>

\* Mutant: a tap that closed counts as a command that was not sent.
TapClosed_Retries(r) ==
    /\ At(r, "waiting")
    /\ req[r].inbox = <<>> /\ tap # r
    /\ LeaveWith(r, "none")
    /\ UNCHANGED <<disconnected, lock, reusable, reader, writer, registered, pty, user>>

TapClosed(r) ==
    /\ At(r, "waiting")
    /\ req[r].inbox = <<>> /\ tap # r
    /\ GiveUp(r, "unknown")

\* Mutant: only the buffered call has a deadline.
Deadline_OnlyBuffered(r) ==
    /\ At(r, "waiting") /\ ~req[r].stream
    /\ req[r].inbox = <<>> /\ tap = r
    /\ GiveUp(r, "timed_out")

\* Mutant: the session stays in use after a timeout.
Deadline_StaysUsable(r) ==
    /\ At(r, "waiting")
    /\ req[r].inbox = <<>> /\ tap = r
    /\ IF req[r].stream
       THEN /\ req' = [req EXCEPT ![r].pc = "reporting", ![r].answer = "timed_out"]
            /\ UNCHANGED <<tap, active>>
       ELSE LeaveWith(r, "timed_out")
    /\ UNCHANGED <<disconnected, lock, reusable, reader, writer, registered, pty, user>>

\* Mutant: the time that ran out is reported like the end of the command.
Deadline_ReportsDone(r) ==
    /\ At(r, "waiting")
    /\ req[r].inbox = <<>> /\ tap = r
    /\ GiveUp(r, "done")

\* The select looks at the output first: the deadline needs it to pause.
Deadline(r) ==
    /\ At(r, "waiting")
    /\ req[r].inbox = <<>> /\ tap = r
    /\ GiveUp(r, "timed_out")

\* Mutant: the response channel is unbounded.
Relayed_Unbounded(r) ==
    /\ At(r, "relaying")
    /\ req[r].client # "gone"
    /\ req' = [req EXCEPT ![r].pc = "waiting", ![r].chan = @ + 1]
    /\ UNCHANGED <<session, pty, user>>

Relayed(r) ==
    /\ At(r, "relaying")
    /\ req[r].client # "gone" /\ req[r].chan < ChannelCap
    /\ req' = [req EXCEPT ![r].pc = "waiting", ![r].chan = @ + 1]
    /\ UNCHANGED <<session, pty, user>>

\* The client hung up: the command keeps running, the stream just ends.
RelayFailed(r) ==
    /\ At(r, "relaying")
    /\ req[r].client = "gone"
    /\ LeaveWith(r, "none")
    /\ UNCHANGED <<disconnected, lock, reusable, reader, writer, registered, pty, user>>

\* The last event of a stream, with the line that was held back; the guard is dropped once it is sent.
Reported(r) ==
    /\ At(r, "reporting")
    /\ req[r].client = "gone" \/ req[r].chan < ChannelCap
    /\ DropTap(r)
    /\ req' = [req EXCEPT ![r].pc = "releasing",
                          ![r].chan = IF req[r].client = "gone" THEN @ ELSE @ + 1]
    /\ UNCHANGED <<disconnected, lock, reusable, reader, writer, registered, pty, user>>

-----------------------------------------------------------------------------
(* A connection of its own: exec channel, PTY fallback, sudo.              *)

RunFresh(rec) == [rec EXCEPT !.fresh = @ + 1]
Started(r, a) == req' = [req EXCEPT ![r] = RunFresh(Ended(@, a))]

\* Connecting failed, or the connection broke under the command.
FreshFails(r) ==
    /\ At(r, "fresh") \/ At(r, "fallback") \/ At(r, "sudo")
    /\ Answer(r, "error") \/ Started(r, "error")
    /\ UNCHANGED <<session, pty, user>>

\* The command runs, after navigation or over a plain exec channel; when it is
\* elevated, `sudo -n` needed no password.
FreshRuns(r) ==
    /\ At(r, "fresh") \/ At(r, "fallback")
    /\ Started(r, "done") \/ Started(r, "timed_out")
    /\ UNCHANGED <<session, pty, user>>

\* The server refuses the exec channel: the command is typed into a shell.
ExecRejected(r) ==
    /\ At(r, "fresh")
    /\ Goto(r, "fallback")
    /\ UNCHANGED <<session, pty, user>>

SudoRefused(r) ==
    /\ At(r, "fresh") \/ At(r, "fallback")
    /\ req[r].elevated
    /\ Goto(r, "sudo")
    /\ UNCHANGED <<session, pty, user>>

\* With the password of the lease.
SudoWithPassword(r) ==
    /\ At(r, "sudo")
    /\ Started(r, "done") \/ Started(r, "timed_out")
    /\ UNCHANGED <<session, pty, user>>

\* No lease, or its password was rejected.
ElevationRequired(r) ==
    /\ At(r, "sudo")
    /\ Answer(r, "elevate")
    /\ UNCHANGED <<session, pty, user>>

-----------------------------------------------------------------------------
(* The HTTP client and its connection.                                     *)

HangUp(r) ==
    /\ req[r].pc \notin {"idle", "over"}
    /\ req[r].client # "gone"
    /\ req' = [req EXCEPT ![r].client = "gone"]
    /\ UNCHANGED <<session, pty, user>>

Stall(r) ==
    /\ MayStall
    /\ req[r].stream /\ req[r].pc \notin {"idle", "over"}
    /\ req[r].client = "reads"
    /\ req' = [req EXCEPT ![r].client = "stalled"]
    /\ UNCHANGED <<session, pty, user>>

ClientReads(r) ==
    /\ req[r].client = "reads" /\ req[r].chan > 0
    /\ req' = [req EXCEPT ![r].chan = @ - 1]
    /\ UNCHANGED <<session, pty, user>>

\* The HTTP server drops the handler of a connection that is gone where the
\* handler awaits. The task of a stream that was spawned is not the handler.
Cancelled(r) ==
    /\ req[r].client = "gone"
    /\ \/ /\ req[r].pc \in {"locking", "fresh", "fallback", "sudo"}
          /\ Answer(r, "none")
          /\ UNCHANGED <<tap, active>>
       \/ /\ At(r, "waiting") /\ ~req[r].stream
          /\ LeaveWith(r, "none")
    /\ UNCHANGED <<disconnected, lock, reusable, reader, writer, registered, pty, user>>

-----------------------------------------------------------------------------
(* The tab: its tasks, its place in the registry, its keyboard.            *)

\* The reader finds the channel closed; the shell is gone by then.
ReaderBreaks ==
    /\ reader = "reading"
    /\ reader' = "closing"
    /\ tap' = NoOne
    /\ pty' = [pty EXCEPT !.up = FALSE, !.typed = <<>>, !.line = {}, !.running = {}, !.said = 0]
    /\ UNCHANGED <<disconnected, lock, active, reusable, writer, registered, user, req>>

ReaderEnds ==
    /\ reader = "closing"
    /\ reader' = "ended"
    /\ disconnected' = TRUE
    /\ UNCHANGED <<tap, lock, active, reusable, writer, registered, pty, user, req>>

\* The writer fails or is told to close; what it had not written is lost.
WriterEnds ==
    /\ writer = "running"
    /\ writer' = "ended"
    /\ disconnected' = TRUE
    /\ \E n \in 0 .. Len(pty.typed) : pty' = [pty EXCEPT !.typed = SubSeq(@, 1, n)]
    /\ UNCHANGED <<tap, lock, active, reusable, reader, registered, user, req>>

\* The tab is closed, or the UI has handled its disconnection.
Unregister ==
    /\ registered
    /\ registered' = FALSE
    /\ UNCHANGED <<disconnected, tap, lock, active, reusable, reader, writer, pty, user, req>>

\* Keystrokes are dropped while a relay command owns the PTY.
KeyAllowed(k) ==
    /\ user.pending = "none" /\ user.keys < MaxKeys
    /\ ~active
    /\ user' = [pending |-> k, keys |-> user.keys + 1]
    /\ UNCHANGED <<session, pty, req>>

KeySent ==
    /\ user.pending # "none"
    /\ user' = [user EXCEPT !.pending = "none"]
    /\ pty' = IF writer = "running"
              THEN [pty EXCEPT !.typed =
                      Append(@, [by |-> User, enter |-> user.pending = "enter"])]
              ELSE pty
    /\ UNCHANGED <<session, req>>

-----------------------------------------------------------------------------
(* The remote shell.                                                       *)

\* It reads its terminal only at the prompt; a whole line is run.
ShellReads ==
    /\ pty.up /\ pty.running = {} /\ pty.typed # <<>>
    /\ LET piece == Head(pty.typed)
           by == pty.line \union {piece.by}
       IN IF piece.enter
          THEN /\ pty' = [pty EXCEPT !.typed = Tail(@), !.line = {}, !.running = by, !.said = 0]
               /\ req' = [r \in Requests |->
                            IF r \in by THEN [req[r] EXCEPT !.live = @ + 1] ELSE req[r]]
          ELSE /\ pty' = [pty EXCEPT !.typed = Tail(@), !.line = by]
               /\ UNCHANGED req
    /\ UNCHANGED <<session, user>>

\* Output goes to the tap that is installed when it arrives.
Deliver(what) ==
    req' = IF tap = NoOne THEN req ELSE [req EXCEPT ![tap].inbox = Append(@, what)]

ShellWrites ==
    /\ pty.running # {} /\ pty.said < MaxChunks
    /\ pty' = [pty EXCEPT !.said = @ + 1]
    /\ Deliver("chunk")
    /\ UNCHANGED <<session, user>>

\* A line that holds a relay command prints that command's marker last.
ShellFinishes ==
    /\ pty.running # {}
    /\ pty' = [pty EXCEPT !.running = {}, !.said = 0]
    /\ Deliver(IF tap \in pty.running THEN "marker" ELSE "chunk")
    /\ UNCHANGED <<session, user>>

-----------------------------------------------------------------------------
Exec(r) == exec_stream(r) \/ exec(r)
BeginTap(r) ==
    \/ LockTaken(r) \/ CheckFailed(r) \/ CheckPassed(r)
    \/ InstallTap(r) \/ Recheck(r) \/ ReleaseLock(r)
LiveExec(r) ==
    \/ Send(r) \/ NothingQueued(r) \/ TakeChunk(r) \/ TakeMarker(r)
    \/ TapClosed(r) \/ Relayed(r) \/ RelayFailed(r) \/ Reported(r)
Timer(r) == LockTimeout(r) \/ Deadline(r)
FreshExec(r) ==
    \/ FreshFails(r) \/ FreshRuns(r) \/ ExecRejected(r)
    \/ SudoRefused(r) \/ SudoWithPassword(r) \/ ElevationRequired(r)
Client(r) == HangUp(r) \/ Stall(r) \/ ClientReads(r) \/ Cancelled(r)
Tab ==
    \/ ReaderBreaks \/ ReaderEnds \/ WriterEnds \/ Unregister
    \/ (\E k \in {"key", "enter"} : KeyAllowed(k)) \/ KeySent
Shell == ShellReads \/ ShellWrites \/ ShellFinishes

Next ==
    \/ \E r \in Requests :
         \/ \E s, e, q \in BOOLEAN : Arrive(r, s, e, q)
         \/ Exec(r) \/ BeginTap(r) \/ LiveExec(r) \/ Timer(r)
         \/ FreshExec(r) \/ Client(r)
    \/ Tab \/ Shell

Spec == Init /\ [][Next]_vars

\* The relay's own steps and timers run; a client that has not stalled reads on.
\* Nothing is assumed of the shell, the user, or of hanging up.
FairSpec ==
    /\ Spec
    /\ \A r \in Requests :
         /\ WF_vars(BeginTap(r)) /\ WF_vars(LiveExec(r)) /\ WF_vars(Timer(r))
         /\ WF_vars(ClientReads(r))

-----------------------------------------------------------------------------
(* Properties.                                                             *)

TypeOK ==
    /\ disconnected \in BOOLEAN /\ active \in BOOLEAN /\ reusable \in BOOLEAN
    /\ registered \in BOOLEAN
    /\ tap \in Requests \union {NoOne} /\ lock \in Requests \union {NoOne}
    /\ reader \in {"reading", "closing", "ended"}
    /\ writer \in {"running", "ended"}
    /\ pty \in PtyRecords /\ user \in UserRecords
    /\ req \in [Requests -> RequestRecords]

\* A tap is only ever that of the request that holds the session, and the
\* keyboard is only held back for a request that holds it: "concurrent relay
\* calls wait for the previous guard to drop rather than replacing its tap and
\* stealing its output" (begin_output_tap).
TapBelongsToHolder ==
    /\ tap # NoOne => tap = lock /\ active
    /\ active => \E r \in Requests : lock = r /\ req[r].pc \in Guarded \union {"rechecking"}

\* Typed into the tab and not run by its shell yet.
Waiting(r) == \E i \in DOMAIN pty.typed : pty.typed[i].by = r

\* A relay command is started at most once, whichever ways were tried for it:
\* "the command was queued, so retrying could execute it twice" (LiveExecError).
StartedOnce ==
    \A r \in Requests : req[r].live + req[r].fresh + (IF Waiting(r) THEN 1 ELSE 0) <= 1

\* A request for the very tab of a bastion session runs there or nowhere: on a
\* connection of its own it would reach another machine (live_session_required).
RequiredStaysInTab ==
    \A r \in Requests : req[r].required => req[r].fresh = 0 /\ ~At(r, "fresh") /\ ~At(r, "fallback")

\* However a command falls from one way to the next, it starts at most once, and
\* where it was meant to.
StartsAsAsked == StartedOnce /\ RequiredStaysInTab

\* What the caller is told is what happened: a finished command was started
\* once, a refused one never was and never will be; one that needs elevation was
\* not, unless as the `sudo -n` of a bastion's tab.
AnswerIsHonest ==
    \A r \in Requests :
        /\ req[r].answer = "done" => req[r].live + req[r].fresh = 1
        /\ req[r].answer \in {"refused", "elevate"} => req[r].fresh = 0 /\ ~Waiting(r)
        /\ req[r].live > 0 =>
              req[r].answer # "refused" /\ (req[r].answer = "elevate" => req[r].required)

\* The command of r is in the terminal: waiting in it or running.
Occupies(r) == pty.up /\ (r \in pty.running \/ Waiting(r))

\* Two relay commands meet in one terminal only after the client of one of them
\* hung up: a command that timed out, or whose output ended, closes the session
\* to later ones (mark_relay_exec_unusable).
OverlapNeedsHangUp ==
    \A r, s \in Requests :
        r # s /\ Occupies(r) /\ Occupies(s) =>
            req[r].client = "gone" \/ req[s].client = "gone"

\* The keyboard is held back only for a "brief interval" (relay_exec_active).
KeyboardComesBack == active ~> ~active
-----------------------------------------------------------------------------
(* What becomes of a command is what RelayCommand says.                    *)

\* Nothing was typed or started for it yet, and still may be.
Unsent(x) ==
    \/ x.pc \in {"idle", "exec_stream", "exec", "locking", "checking", "tapping",
                 "rechecking", "sending", "fresh", "fallback", "sudo"}
    \/ x.pc = "releasing" /\ x.answer = "none" /\ x.client # "gone"

\* Somebody waits for its outcome, or was told that it is not known.
Awaited(x) ==
    x.pc \in {"waiting", "relaying", "reporting"} \/ x.answer \in {"timed_out", "unknown"}

\* x: the request. waits, runs: its line waits in the terminal, or is running.
Fate(x, waits, runs) ==
    IF x.pc = "idle" THEN "idle"
    ELSE IF x.fresh > 0 THEN "own"
    ELSE IF runs THEN "running"
    ELSE IF x.live > 0 THEN "ran"
    ELSE IF waits THEN "typed"
    ELSE IF Unsent(x) THEN "open"
    ELSE IF Awaited(x) THEN "lost"
    ELSE "never"

Command(x, waits, runs) ==
    [fate |-> Fate(x, waits, runs), answer |-> x.answer, required |-> x.required,
     client |-> IF x.client = "gone" THEN "gone" ELSE "listens"]

Commands ==
    [r \in Requests |->
       Command(req[r], pty.up /\ Waiting(r), pty.up /\ r \in pty.running)]

Relay == INSTANCE RelayCommand WITH command <- Commands

\* Over every fall from the tab to another way, every timeout, closed tap, broken
\* terminal and hang-up, a relay command goes through the fates of RelayCommand:
\* it is never started again, and its one answer says what became of it
\* (LiveExecError, live_session_required, mark_relay_exec_unusable).
CommandsAsPromised == Relay!Spec
==============================================================================
