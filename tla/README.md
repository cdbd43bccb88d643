# RusTerm: a verification project

RusTerm is a terminal emulator and SSH client written in Rust (a Dioxus
desktop application). This directory holds TLA+ models of the parts of it where
concurrency, ordering and failure decide whether it works, the TLC
configurations that check them on small instances, and theorems about them that
TLAPS proves for every instance. `PROJECT.json` is the index: components, runs,
mutants, the source lines behind every definition, findings, hazards, theorems.

## 1. The system

RusTerm is one process. A UI thread runs every Dioxus task (cooperatively: a
task yields where it awaits); a Tokio runtime runs the network side; blocking
readers have threads of their own. They meet in unbounded channels
(`SessionEvent`s from the sessions, bytes to them), in the maps of `AppState`
keyed by a session id, in a few mutexes and atomics, and on disk.

| Component | State it keeps | Operations | Meets others through |
|---|---|---|---|
| Tunnels (`rusterm-tunnel`) | registry of definitions, stop channel and watch channel per tunnel, `tunnels.json` | upsert, start, stop, remove, autostart, relaunch; a supervisor task per running tunnel: connect, bind, serve, probe, back off | oneshot stop, watch channel to the panel |
| SSH session lifecycle (`app.rs`, `state.rs`, `rusterm-ssh/client.rs`) | `session_connection_states`, `input_senders`, `ssh_sessions`, `close_senders`, `login_scripts`, the relay's registry | open, reconnect, disconnect, close; attempt, event loop, reader, writer, watchdog, replay, login script | all share the maps of one tab; events carry only the session id |
| ZMODEM (`rusterm-zmodem`, `ui/zmodem.rs`) | protocol session, detector, writer, dialogs | a chunk of output, a dialog answered or dismissed, disconnect | fed by the event loop, answers into the tab's input channel |
| Relay executor (`relay_tunnel.rs`, `client.rs`, `direct.rs`) | output tap, its lock, `relay_exec_active`, `relay_exec_reusable` | exec and exec_stream, in a live tab or on a connection of its own | types into the tab's PTY; holds back the keyboard |
| Relay server (`rusterm-relay`) | audit log, history, rate-limit windows | authenticate, validate, execute, record | HTTP; calls the executor |
| SFTP transfer queue (`transfers.rs`, `app.rs`) | job table, running slots, cancel flags | enqueue, pump, run, retry, cancel, pause | SFTP client shared by the jobs of a session |
| Output pipeline (`app.rs`, `state.rs`) | backlog, render throttle, flush timer | drain, shed, render, flush | event loop, ZMODEM, terminal, log |
| Command status (`state.rs`) | queue of commands awaiting an exit marker | submit, OSC 133 marker, prompt fallback | output pipeline |
| Application files (`config_manager.rs`, `state.rs`) | `settings.json`, `session_state.enc`, what of them is in memory | unlock, read, save by temporary file and rename, the two-second save of the open sessions, restore | every part reads and writes settings; the restore opens sessions |
| Session recovery replay (`state.rs`, `app.rs`, `rusterm-analytics`) | recorder of each tab, its event stream in the database, the snapshot, the remote's menu position | submit, reconnect, copy, close, restore | sessions, application files |
| Credential prompts, OneKey (`app.rs`, `state.rs`) | library, preferences, habits, chooser and last attempt of each terminal | prompt, choose, submit, dismiss, edit, reconnect, restart | output pipeline, settings |
| Login scripts, shadow sandbox, layout, host keys, OTP, sync | see `PROJECT.json` | | |
| Terminal emulation, views, AI requests, encryption, history database, vendored code | mostly sequential or external | | |

### What is hard in it, and what makes each part correct

* **Tunnels.** A stop is looked at only while serving and backing off, so
  `start` after `stop` runs two supervisors for one tunnel, on one watch channel
  and one port. Correct: every supervisor that was not told to stop can be told
  to; the green dot means that somebody serves; a port has one listener; an edit
  is never shown as adopted when it was not; a stop takes effect.
* **Sessions.** Attempts, their event loops, watchdogs, replays and the login
  script of one tab overlap, and nothing says which attempt an event or a timer
  belongs to. Correct: a tab shown as Connected types into a connection that
  lives or whose end is queued; Reconnecting ends; what the relay is offered is
  one connection.
* **ZMODEM.** Chunks cut the protocol anywhere, dialogs answer late, programs
  are killed in the middle. Correct: what is kept of a download is a prefix of
  the file, what is reported as received is whole, uploads arrive whole.
* **Relay executor.** Requests, a user, a client that may hang up or stall, and
  a connection that may end at every step share one terminal. Correct: a command
  starts at most once, on the right machine, the answer is honest, two commands
  do not meet, and the keyboard comes back.
* **Transfer queue.** A slot belongs to a job's status and not to its task, so
  cancelling and retrying put two tasks on one destination, and a client is
  opened across an await. Correct: a running task can be told to stop, an outcome
  is that of the attempt it is shown for, no client outlives its tab's
  connection, what is reported as transferred is there and whole, no queued job
  is forgotten.
* **Relay server.** Handlers run in parallel and may be dropped at any await.
  Correct: the limits hold as far as a fixed window can keep them; a command that
  was answered has one row and its audit entries, one that was refused has none;
  a row is deleted by somebody who may.
* **Output and command status.** Exit markers come without a command, in
  batches, in a flood that is shed, after a disconnect. Correct: a record, a
  badge and a captured result are the command's own as long as markers and
  waiting commands are in step, and only known causes put them out of step.
* **Application files.** Saves read, modify and replace one file; a crash, a
  failed write or an unreadable file comes between. Correct: what was saved and
  not deleted is still there, remembered choices find their entries, a logged-in
  terminal is remembered until somebody decides about it.
* **Credential prompts.** A prompt that comes back is the only sign of a
  rejection, and the prompt just answered is still on the line. Correct: what is
  submitted without asking was chosen at that prompt and not turned down since; a
  prompt the remote did not repeat is neither a rejection nor answered twice.
* **Session replay.** Events are written by independent tasks, tabs change their
  ids, the snapshot is up to two seconds old. Correct: what would be typed again
  leads where the user is; a restore finds what the recorder last held.

`PROJECT.json` lists the hazards, each at its line, with the properties that
cover it or a note why none does.

## 2. Modules and how they correspond to the code

Definitions bear the names of the functions they model where there is one;
operators with an underscore suffix (`DropTap_Leaves`) are mutated forms of the
definition after them, used to show that a property depends on the code, and
are no part of the specification.

### Tunnel (`rusterm-tunnel`: manager.rs, supervisor.rs, config.rs)

`tunnels`, `stop_tx`, `state` are the registry, the stop sender it holds for a
tunnel and the value in its watch channel; `task` the supervisors, each with the
copy of the configuration it was spawned with and where `run_tunnel` is;
`disk` is `tunnels.json`; `booting` what `autostart` has still to start. Manager
methods hold the registry lock for their whole update, so each is an action;
`run_tunnel` is cut at its awaits. A task that `remove` detached publishes to a
channel nobody shows. `relaunch` is an exit and a new launch, after any save
that failed. Left out: the bytes of a forwarded connection, the length of the
backoff.

### SessionLifecycle (`ui/app.rs`, `ui/state.rs`, `ssh/client.rs`)

One tab. `cs`, `input`, `ssh`, `closers`, `script`, `registry` are the tab's
entries in the maps of `AppState`, valued by the attempt they belong to;
`attempt` has for each attempt where its connection is and whether its reader
and writer tasks run; `watchdog` and `replay` are the tasks a reconnect starts.
`typed` records who typed into which connection; no action depends on it. The
code between two awaits is one action. `sync_live_sessions` is part of the
actions that call it, and of no other: `close_session` does not. The login
script is four situations (absent, running, done, suppressed; and what
`Driven` makes of them on output). The watchdog is documented as flipping the
session to Disconnected; the code sets Failed, which the model follows.

### Zmodem, ZmodemLink, FileDownload (`rusterm-zmodem`, `ui/zmodem.rs`)

`Zmodem` is the protocol session (`handle_header`, `handle_data`,
`pump_send_blocks`, `set_save_path`, `begin_send`), the detector (`feed`) and
the bridge (`process_output`, `dispatch_event`, the dialogs, `remove`), as
functions over records that are folded over the frames of a chunk. `ZmodemLink`
composes it with the remote: a shell that starts `sz` or `rz`, which are
external and modelled from what session.rs expects of them. `FileDownload` is
the abstract promise to the user; `DownloadSpec` in `ZmodemLink` is its
refinement mapping (`stage` and `kept` are what the session, the outcome and the
file on disk say).

Assumptions: the link neither loses nor corrupts frames (SSH carries it); a
program is started only when no dialog is open or about to open and the shell
has read what was sent before; `sz` sends one file; `rz` answers ZEOF with
ZFIN and says ZRINIT once; an `rz` that skips its file is the last program
unless `SkipAnytime` (what follows a skip is a known defect, see the hazards).

### RelayExec, RelayCommand (`ui/relay_tunnel.rs`, `ssh/client.rs`, `ssh/direct.rs`)

One tab and some requests. `disconnected`, `tap`, `lock`, `active`, `reusable`
are the fields of `SshSession`; `reader` and `writer` its tasks; `registered`
the tab's entry in the live-session registry; `pty` the remote terminal (what
was typed and not read, the line being read, the command running); `user` a
keystroke between the check of `relay_exec_active` and its send; `req` each
request with its place in the code, its tap's channel, its response channel and
its answer. `begin_output_tap` is cut between its check, the installation of the
tap and its second check; the guard's `Drop` gives back tap and flag and then
the lock. The reader's end is two steps (tap, then `disconnected`), as in the
code.

Assumptions: output reaches the installed tap at once; a shell queues what is
typed ahead and reads it line by line; the HTTP server drops the handler of a
connection that is gone at an await; the sudo lease is a nondeterministic hit
or miss; `sudo` and an exec channel that refuse have not run the command. A
request that ended drops its buffers. When a stream's deadline passes, the line
it had held back goes out with the final event.

`RelayCommand` is what the API promises of each command, with no tab, lock, tap
or marker in it: a command is open, then typed into the terminal, running there
and ran, or run on a connection of its own, or never; it is typed only beside
commands without a client; a result is reported of a command that ran, and
once. `Commands` reads the fate of a request off its place in the code and its
line in the terminal, and `CommandsAsPromised` says that RelayExec implements
it. A command that will not be sent any more stays open until its answer, or
its client's absence, settles it.

### TransferQueue (`ui/transfers.rs`, `ui/app.rs`, `ssh/sftp.rs`)

`order` and `job` are the table, `token` the cancellation tokens, `task` the task
of each attempt with its place between awaits, `conn` and `sftp` a tab's
connection and the client opened on it, `dest` and `whole` the file at a job's
destination and the attempts whose file is complete. `asked` records that the
present attempt was cancelled. `pump` is part of every action whose code calls
it. A cancelled job frees its slot at once; its task ends on its own, beside the
task of a retry. Uploads write the destination directly, downloads a temporary
file that is renamed.

Assumptions: each request of the SFTP client ends, by its timeout if not
otherwise. Listings and single requests of the file panel keep no state and are
left out.

### RelayServer (`rusterm-relay`: server.rs, auth.rs, and its use of history)

`req` has each exec request with its place in the handler; `auth_failures` and
`exec_counts` are the limiter's maps of window counters; `row` the history.
`failed` and `admitted` record times for the property. Two handlers share only
the maps, each behind its lock; the handler is cut at its awaits, and a hang-up
drops it there. A window is fixed and starts with its first request: a span of
one window's length may therefore hold up to twice the limit, which is what
`LimitsHold` states. Credentials are right, wrong or missing.

### CommandStatus (`ui/app.rs`, `ui/state.rs`, `ai/shadow_sandbox`)

One tab: the shell (external) runs lines and prints items (a line, a prompt, a
marker with a status), `chan` and `pending_event` are the output on its way and
what the loop kept of its last turn, `pending` the commands that wait for a
marker. A turn takes a batch, keeps a backlog and sheds the rest; it looks at
one exit code per batch, commits or gives up the command that waited longest,
falls back to the prompt where no marker was ever seen, renders or leaves the
render to the timer. `Only(s, S)` keeps of a sequence what is in a set: the
markers of a batch, the commands among what the shell has to run. `sandbox` is the capture of a suggested command between its
two approvals. `slipped` records that one of the named causes has separated
markers and commands: an untracked line's marker while commands wait, two
markers in one batch, a shed marker, a prompt taken for an end, a program that
reads a typed-ahead line, a command that ends without a marker, a full queue.

### AppFiles (`core/config_manager.rs`, `ui/state.rs`, `ui/app.rs`)

One running application with its two files. All saves run on the UI thread and
are synchronous, so they never interleave: a save is its read, its temporary
file and its rename, and a crash or a failed write may come at each. `health` is
what a read meets; strict saves give up on an unreadable file, lenient ones and
all loads go on with defaults, which `forgiven` records. `tab` is the terminal
of each saved connection, `last_saved` the snapshot the save loop wrote last.

Assumptions: the process may die, the machine does not lose power (the temporary
file is not synchronised before it is renamed); `exists()` tells the truth; one
copy of the application. Serial sessions and the contents of entries are left
out. An empty snapshot while terminals reconnect is not written; one that is not
empty is, and forgets the terminals that are still reconnecting, which is the
exception `SessionsRemembered` names.

### CredentialPrompt (`ui/app.rs`, `ui/state.rs`)

Terminals of one saved connection. `tab` has for each the last line, the
chooser, the last attempt and the cooldown; `library`, `prefs` and `habit` are
the OneKey entries, the remembered preferences and the habit events. One action
per output, selection, dismissal, line typed, edit, reconnect and restart.
`sent`, `choice` and `decided` are records for the properties. `sent` notes of a
submission whether the library has `known` its prompt ever since. Both action
properties except prompts it has not: an entry is changed so that it does not
match the prompt on the line, a second edit brings it back, and in between the
attempt is dropped, after which nothing tells a repeated prompt from a new one.
The proofs met this; one pattern and one edit, the first instance of the run, are
too few to see it.

Left out: the switch that turns OneKey off, full-screen programs, one-time
password prompts (OneKey stands down for them), the relay's sudo lease.

### SessionReplay (`ui/state.rs`, `ui/app.rs`, `rusterm-analytics`)

A bastion (external: a menu, hosts, contexts that ask for a password) and the
tabs on it. `tabs` has each tab's recorder (`record_replay_op`,
`pop_context_command`, freeze and thaw) and where its remote is; `rows` are the
event streams, `writes` the spawned tasks that write them, which run atomically
in any order; `snapshot` is the session state on disk. Restoring folds a stream
(`fold_event`), migrates it to the new id and falls back to the snapshot.
`held`, `sure`, `torn` are records for the properties.

Assumptions: sessions have no login script, the safety checker accepts every
recorded input, a crash loses the tasks that have not run. The `cd` that follows
a replay and the closing of a whole group are left out. `RecorderIsNavigation`
leaves out a tab that has slipped: a context the remote refused stays recorded,
and a menu entered again without a sign of a shell before it is not seen as a
new way. `RestoredIsRecorded` leaves out a stream that had not reached the
database when the application died, or of which a row was lost.

## 3. Runs

Every property of a passing run is also tested against a mutated definition,
which must break it. `session_trailing` is meant to fail, on a sentence of the
code's own comments.

| Run | Instance | Question |
|---|---|---|
| `tunnel` | one id, one port, kinds `socks` and `remote`, two task slots, `FairSpec` | every order of manager calls, failures and relaunches: stop channels, honest Active, pinned runtime fields, and a stop takes effect |
| `session` | two attempts, one recorded operation, login script, `FairSpec` | overlapping attempts: honest Connected, one connection published; Reconnecting ends even if an attempt hangs; a dead connection is noticed |
| `session_trailing` | two attempts | the "idempotent" trailing Disconnected event takes down the next connection |
| `zmodem_transfer` | three programs, files of 3 blocks down and 0 to 2 up, two local paths, chunks of up to 4 frames | prefixes, whole uploads, refinement of FileDownload |
| `relay_exec` | two requests of any kind, one chunk of output, response channel of 1, stalling clients | once, right machine, refinement of RelayCommand, tap and lock together, no overlap without a hang-up |
| `relay_live` | one request, two keystrokes, three chunks, channel of 2, `FairSpec` | the keyboard comes back |
| `transfer_queue` | one upload and one download of one tab, limit 1, two attempts, one retry, one connection, files of one piece, `FairSpec` | cancellation reaches its task, outcomes are true, clients need their session, queued jobs move |
| `relay_server` | three requests of one address, two accounts (one an administrator), budgets 1, windows of 2 ticks, 2 ticks | limits, and the agreement of answers, history and audit log |
| `command_status` | a typed dangerous and a suggested compound command, one untracked line, queue 2, batch 2, backlog 1, channel 3, one reconnect | markers stay in step until a named cause, records and results are the command's own |
| `app_files` | two connections, one entry, two runs of the application, one unreadable file, two changes | nothing saved is lost, preferences resolve, sessions are remembered |
| `credential_prompt` | one terminal, two entries with a pattern each, one prompt that both answer and one that shares a pattern with it, four prompts printed, two edits or one and a restart | what is submitted unasked was earned; only a new prompt counts |
| `session_replay` | two hosts, one context, two ids, three inputs, one restart, one fault, window of 2 | the recorder is the navigation, a restore finds what was recorded |

Why these bounds are enough to be interesting. Two task slots are one supervisor
winding down beside its successor, the only overlap the manager creates (the
theorems hold for any number). Two attempts let one outlive its disconnect
beside its successor; the theorems again hold for any number. An upload of two
blocks is the shortest with a block that is not the last; a download of three
has a first, a middle and a last one; chunks of four hold an end and the next
offer. Two requests make one holder and one waiter; a response channel of one is
full after one piece of output. `relay_exec` leaves out the user's keys, which
no safety property of it depends on; `relay_live` has them. One slot and two
jobs make one of them wait; two attempts of a job are the overlap a retry makes.
A budget of one is reached by the first of three requests, and two ticks cross
one window's boundary. A queue of two overflows with an untracked line's help, a
batch of two holds two markers, a backlog of one sheds. Two runs are a save, a
crash and a restore. The cap of the habit events (2 instead of 32) and the
recorder's window (2 instead of 10) are made small enough to be reached.

State constraints: `command_status` does not follow a tab on its last connection
once it is out of step (nothing is claimed of it there); `app_files` stops where
a failure was answered with defaults (both safety properties except it);
`session_replay` has at most two write tasks waiting, and follows a tab that has
slipped only while it is the only one. `CHECK_DEADLOCK FALSE` stands where the
instance runs out of attempts, requests, commands or runs, or where a tab stays
closed.

## 4. Fairness

* Tunnel: weak fairness of a live supervisor (the runtime polls woken tasks,
  connects and probes have timeouts, timers fire); strong fairness of the stop
  branch of the backoff's `select`, which picks at random among ready branches,
  and of the stop branch of the serve loop, whose `select` is biased to it.
  Nothing of the callers.
* SessionLifecycle: the watchdog's timer fires, the event loop drains its queue.
  An attempt need not end.
* RelayExec: the relay's own steps and timers, and a client that reads goes on
  reading. Nothing of the shell, the user, or of hanging up. With a client that
  stalls for ever the keyboard does not come back (see the hazards).
* TransferQueue: weak fairness of every task (an SFTP request has a timeout, and
  a cancelled task is woken by its token). Nothing of the user or the remote.
* RelayServer, CommandStatus, AppFiles, CredentialPrompt, SessionReplay: safety
  only.

## 5. Proofs

| Module | Theorems | Argument |
|---|---|---|
| `TunnelProofs` | `TypeCorrect`, `NeverOrphaned`, `OneSupervisor`, `EditsArePinned`, `GreenIsTrue` | `IInv` adds to the properties that a held stop channel belongs to an unstopped, attached task of that tunnel (`StopChannelOwned`), that running tunnels are known and that booting ones are idle. Without the first, `start` could forget a live task; `OneUnstoppedSupervisor` then follows: both tasks are the one whose channel is held. `GreenIsTrue` is inductive beside it once it says what it means: a tunnel shown as Active has a task that serves with its listener open, and no other task's exit can take the sign away unseen (`GreenIsServed`). |
| `TerminalSessionProofs`, the connection | `TypeCorrect`, `HonestIndicator`, `OneConnectionPublished`, `AlwaysWatched` | What is published is one connection because whoever sets `input_senders` also sets `ssh_sessions` (`InputHasSession`), the strengthening that makes it inductive. |
| `TerminalSessionProofs`, the transfers | `LinkInvariance`, `LinkTypeCorrect`, `WhatArrivesIsTheFile`, `DownloadAsPromised` | Files of any length, any number of programs, chunks of any size. `LinkInv` says of one session, one bridge and the two queues (`Good`): frames on their way stand in the order of the file and the next one is the one the session can take (`StreamOK`); who sent them is the program that runs, with the rest of its story (`PeerOK`, `QueueOK`, `EndingOK`); an open writer has exactly the blocks the session counts, or metadata is still to come and nothing was written (`WriterOK`); what was kept and how it ended agree (`DiskOK`, `OutcomeOK`); an `rz` has a prefix of the file, as long as what was sent (`UploadOK`). `process_output` folds `handle_header` and `handle_data` over a chunk and `dispatch_event` over what they report, so each is shown to keep `Good` frame by frame and event by event, and the fold over any chunk follows by an induction over sequences (`SequencesInductive`, from the well-foundedness of the naturals). `DownloadAsPromised` is the refinement: `Views` says what a step does to the stage and the shown blocks, `Accepted` is the answer to the save dialog, and each is a step of FileDownload or a stutter. |
| `RelayExecProofs` | `TypeCorrect`, `TapIsTheHolders`, `StartsOnceAsAsked` (of `StartsOnce` and `RequiredNeverLeavesTab`), `AnswersAreHonest`, `CommandsArePromised`, `OverlapsNeedHangUps` | `IInv` adds that the lock is held by the one request whose place in the code says so (`HolderLocked`), that a relay command is typed as one whole line, once (`LinesAreWhole`), and what is known of a request from its record and its line in the terminal (`Coherent`): before the send it neither waits nor runs, a marker in its channel is that of a command that ran and ended, a command still in the terminal whose client is there either has its request in the waiting loop or has closed the session. `CommandsArePromised` is the refinement: every step of RelayExec is a step of RelayCommand for one request, its `Stop`, or a stutter (`NextCommands`). A command is typed only beside commands without a client because its sender has the lock and finds the session reusable (`SendStep`). `OverlapsNeedHangUps` then follows from RelayCommand alone. |
| `TransferQueueProofs` | `TypeCorrect`, `CancelIsHeard`, `OutcomesAreTrue`, `NoClientWithoutSession` | What is promised of a job depends on that job alone, so `IInv` is one formula `JobOK` of a job's values, and each step of the queue, the pump included, is a lemma about values. It says: a token is kept for a running job only, for its present attempt, and every other attempt at work was cancelled (`TokenFits`); attempts to come left no trace; what an attempt has decided fits where it is (`TaskCoherent`); and, while no earlier attempt has come to the destination, the present one's file is its own (`FileFits`). The order of the table is kept beside it (`OrderOK`): what was never enqueued is not in it, and what `retain` leaves of it repeats nothing (`RetainedTyped`). |
| `RelayServerProofs` | `TypeCorrect`, `LimitsAreKept`, `RecordsTellOneStory` | Fixed windows do not overlap, so it is enough to keep of the past how many were admitted in the present window, how many in any stretch that ends where it starts and is shorter than a window, and that nothing lies beyond its end (`AccountFits`): two windows' budgets bound every stretch of one window's length. `StoryFits` ties what a client was told to its row and its lines in the log at each place of the handler. |
| `AppFilesProofs` | `TypeCorrect`, `SavedIsKept`, `ChoicesResolve`, `SnapshotsRemember` | What is kept is in the file and not deleted. Until a failure is answered with defaults (`~forgiven`), memory holds all of it, what is being written is the file with one part of memory in it (`SaveOK`), and every choice agrees both with the entries of the file and with those in memory (`FileOK`, `MemoryOK`): it is the last which a crash between the save of the entries and that of the choices would break. `SnapshotsRemember`, an action property, rests on a snapshot being offered until it is decided about (`SessionOK`). |
| `CredentialPromptProofs` | `TypeCorrect`, `ChosenBeforeSubmitted`, `NewPromptsCount` | `IInv` keeps two stories apart. A terminal's (`TerminalFits`): its attempt is the submission it stands for, with the feedback and cooldown of that submission, and a submission not yet followed by a prompt is the attempt, on the line where it was made. A prompt's (`ChoiceFits`): its preference and its last two events were earned by the user's choices. A prompt that returns to an unanswered submission can then only be a rejection (`TurnedDownIsRejected`), so no choice is withdrawn while its preference or habit stays; `CheckStep` gives the three outcomes of a chunk of output, and both theorems, action properties, follow from them. |
| `TypedLinesProofs`, the commands | `TypeCorrect`, `WaitingIsComing`, `ResultsAreTheirOwn` | `InStep` alone is not inductive: it says nothing of a tab out of step, nor of what a marker says. `IInv` adds that a line is typed once and only after it was asked for (`AskedFits`, `TypedOnce`), what a command's record, its place in the queue and its end in the shell say of each other (`CommandFits`), that every marker in the loop or on the channel bears the status its command ended with (`Truthful`), and that marked and waiting commands agree, the connection up or not (`Agree`). One turn of the loop is `TurnOf`, a lemma about one batch: its markers are split from what is kept and what is shed (`Drained`), at most one is looked at, and it is the head's (`MarkOfHead`). The filter `Only` is a recursive function; `LeastElement` takes from the well-foundedness of the naturals an induction for sets of numbers (`Inductive`), `Recursion` that recursive functions exist, and from these come what `Only` yields, how it distributes over concatenation (`OnlyConcat`) and an induction over sequences (`SequencesInductive`). |
| `TypedLinesProofs`, the way back | `ReplayInvariance`, `ReplayTypeCorrect`, `RecorderLeadsBack`, `RestoredAsRecorded` | `RecorderIsNavigation` says nothing while a replay runs or the connection is away, nor what the database knows. `ReplayInv` adds both. `TabFits`: until the tab has slipped, its ops are a navigation, and it has either no replay and is where they lead (a context that asks for its password counted as entered), or exactly one, whose remaining lines lead from where the remote is to where the recorder leads from the menu. `StreamsFit`: the events of an open tab, written or still to be, are numbered without a gap or a repetition and fold to what its recorder holds (`Tells`, a fold as a function whose values follow from one another, so that the order of writing does not matter); what was on disk for a tab in `sure` folds to what is `held`. `WritesFit` keeps a migration from clearing the stream of an open tab. A step that changes one tab and tells of it is one lemma (`TabTells`), of which each line, evidence, reply and replay is an instance; `From` over an appended line, and that a way is what a navigation lands on, come by the induction over sequences above. `RestoredIsRecorded`, an action property, follows from `StreamsFit` at the step of `restore_sessions` (`ReplayedTells`). |

From the constants' assumptions only (the `ASSUME`s of each module): any sets of
ids, ports, task slots, attempts, requests, jobs, connections, entries and
terminals. Beside the types of the constants they say that a marker for
something absent is none of the values it stands beside (`MarkersAssumption` of
AppFiles, `NoneAssumption` of CredentialPrompt, and for CommandStatus that no
command is the untracked line or the prompt), as `Option` has it in the code;
for SessionReplay that a host, a context, a fruitless line, `exit` and any other
line are different lines, as the classification in `on_input` has it.
The theorems about ZmodemLink have one hypothesis more, `~SkipAnytime`: an `rz`
that skips its file is the last program, as in the run. Without it they are
false, TLC finds how (the metadata of a download after a skipped upload is taken
for data, section 6). TLC checked each inductive invariant on the run's instance
before it was proved.
One lemma per action or group of actions says that it keeps `IInv`; one lemma
combines them; the temporal theorems are one `PTL` step each.

Model-checked only:

* every liveness property (fairness and ENABLED are out of the prover's reach);
* the disagreement of section 6 that is a run.

## 6. Findings

`session_trailing` (app.rs): the Disconnected event of an earlier connection,
handled after a reconnect, disconnects the new one.

Further disagreements and weaknesses the models show, where a property has an
exception for them or a hazard a note; all but those already named are reachable
states of the model:

* Tunnels: a supervisor that gave up keeps its tunnel "already running", so it
  cannot be started again without a stop; a late `Stopped` of an old supervisor
  overwrites the `Active` of the new one.
* Sessions: a replay that waits across a disconnect and a reconnect goes on
  typing beside the new one; the watchdog of a failed reconnect fails its retry;
  a session in the middle of its login script is published.
* ZMODEM: a block of an upload that is not the last is followed by a new ZDATA
  header inside a frame that did not end, so no file of more than 1024 bytes
  arrives; the metadata of a download after a skipped upload is taken for data.
* Relay: a client that hangs up leaves the terminal open to the next command
  while its own still runs; a client that stalls keeps the keyboard; a half-typed
  line of the user joins the relay's command line; an account that is no
  administrator cannot delete its own history rows.
* Transfers: a cancelled attempt of an upload removes the file its retry writes
  or has written.
* Commands: a marker of another line commits a failed command as a success or
  the reverse once markers are out of step.
* Credentials: a rejected pair of login and password is submitted again and
  again, since the other prompt in between drops the attempt that would show the
  rejection; one selection makes a habit where a preference submits next; a
  command broadcast from another pane does not clear the attempt, nor does an
  edit of the library; a password chooser stays open when the terminal moves on.
* Session replay: a second crash before the first save after a restore falls back
  to the older ops of the snapshot; a lost "reset" row puts the old way before
  the new one; a migration that failed half-way leaves a stream that is preferred
  to the snapshot later; a recorder stays open after a restore or a copy, so that
  a menu entered again after an aborted replay is appended; a context the remote
  refused stays recorded.
* Settings: the comment of the close dialog says that the next close is cancelled
  again, which the code does not do; lenient saves replace an unreadable file.

## 7. Plan

| Step | Module | Abstract specification, theorems worth proving |
|---|---|---|
| done | Tunnel, SessionLifecycle, Zmodem with ZmodemLink and FileDownload, RelayExec with RelayCommand, TransferQueue, RelayServer, CommandStatus, AppFiles, CredentialPrompt, SessionReplay; proofs of every invariant and action property of the passing runs | |
| 1 | Login script and bastion retries, as a refinement of SessionLifecycle's four situations; one-time passwords | a step is sent once per prompt; a retry never sends to another host |
| 2 | Known hosts, settings sync, layout tree | sequential, small |

The runs are kept to one for each distinct question.

## 8. What is not modelled, and why

* Terminal emulation: a sequential interpreter over a grid of cells, whose state
  is beyond useful enumeration. Command validation of the relay: pattern matching
  over text, without state.
* User interface components: rendering of state the modelled components keep.
* Encryption, the history database, usage analytics: computations, or calls that
  are each one transaction of an external engine; SessionReplay has the one table
  whose order of writes matters.
* SSH transport, host keys, one-time passwords: the protocol is a library's;
  known hosts and the OTP webhook are in the plan. Login scripts too:
  SessionLifecycle has a tab's script as one of four situations.
* Shell, telnet, serial and TCP sessions: readers and writers around a byte
  stream; they live in the same maps as SSH sessions and never reconnect.
* Settings sync: push and pull replace whole files, and nothing calls them yet.
  Layout of panes: a sequential tree.
* The SOCKS5 parser, port probing and the formula of the backoff; plugins,
  oh-my-zsh, logging; vendored and packaging code.

The text of commands, prompts, file names and answers is abstracted throughout;
what depends on it (a sudo refusal recognised by a phrase, an exec channel judged
rejected by its output) is listed under the hazards.
