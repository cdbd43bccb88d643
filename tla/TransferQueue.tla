---------------------------- MODULE TransferQueue ----------------------------
(***************************************************************************)
(* The SFTP transfer queue: the table of jobs (crates/rusterm-ui/src/      *)
(* transfers.rs), the tasks that run them and the client their session     *)
(* shares (app.rs), and what a task does to the two ends of a transfer     *)
(* (crates/rusterm-ssh/src/sftp.rs).                                       *)
(*                                                                         *)
(* A slot belongs to a job's status, not to its task: cancelling a running *)
(* job frees the slot while its task still winds down, and a retry starts  *)
(* a second task for the same destination beside it.                       *)
(***************************************************************************)
EXTENDS Naturals, Sequences, FiniteSets, SequencesExt

CONSTANTS
    Jobs,         \* ids of transfers, each enqueued at most once (a fresh UUID)
    Uploads,      \* those that go to the remote; the others come from there
    Sessions,     \* tabs
    SessionOf,    \* the tab a job belongs to
    Limit,        \* concurrency_limit
    MaxAttempts,  \* attempts of a job (bound)
    Retried,      \* jobs that are retried (bound)
    MaxConns,     \* connections of a tab (bound)
    Chunks,       \* pieces a file is copied in
    None          \* no token, no connection, no client, no file

Attempts == 0 .. MaxAttempts - 1
Conns == 1 .. MaxConns

ASSUME ConstantsAssumption ==
    /\ Uploads \subseteq Jobs
    /\ SessionOf \in [Jobs -> Sessions]
    /\ Limit \in Nat /\ MaxAttempts \in Nat \ {0} /\ Retried \in Nat
    /\ MaxConns \in Nat /\ Chunks \in Nat
    /\ None \notin Nat

VARIABLES
    order,  \* TransferState::jobs, the ids in the order of the table
    job,    \* their entries
    token,  \* transfer_cancellations: the attempt whose token is kept
    task,   \* the task of each attempt
    conn,   \* ssh_sessions: the connection of a tab
    sftp,   \* sftp_clients: the connection a tab's client was opened on
    conns,  \* connections a tab has had
    dest,   \* the file at a job's destination, named by the attempt that made it
    whole,  \* attempts whose file holds everything
    asked   \* whether the present attempt was cancelled from outside

table == <<order, job, token, asked>>
links == <<conn, sftp, conns>>
files == <<dest, whole>>
vars == <<table, task, links, files>>

Statuses == {"new", "queued", "running", "succeeded", "failed", "cancelled", "cleared"}
JobRecords == [status : Statuses, attempt : Attempts, transferred : 0 .. Chunks]

\* cancelled: its token. via: the connection it opens a client on. handle: the
\* file it writes to. copied: pieces so far. result: what it came to.
Places ==
    {"none", "spawned", "opening", "ready", "copying", "removing", "renaming", "over"}
Results == {"none", "ok", "cancelled", "connection", "other"}
TaskRecords ==
    [pc : Places, cancelled : BOOLEAN, via : Conns \union {None},
     handle : Attempts \union {None}, copied : 0 .. Chunks, result : Results]

Init ==
    /\ order = <<>>
    /\ job = [j \in Jobs |-> [status |-> "new", attempt |-> 0, transferred |-> 0]]
    /\ token = [j \in Jobs |-> None] /\ asked = [j \in Jobs |-> FALSE]
    /\ task = [j \in Jobs |-> [a \in Attempts |->
                 [pc |-> "none", cancelled |-> FALSE, via |-> None, handle |-> None,
                  copied |-> 0, result |-> "none"]]]
    /\ conn = [s \in Sessions |-> None] /\ sftp = [s \in Sessions |-> None]
    /\ conns = [s \in Sessions |-> 0]
    /\ dest = [j \in Jobs |-> None] /\ whole = [j \in Jobs |-> {}]

is_finished(j) == job[j].status \in {"succeeded", "failed", "cancelled"}
Live(j, a) == task[j][a].pc \notin {"none", "over"}
At(j, a, pc) == task[j][a].pc = pc

-----------------------------------------------------------------------------
(* The table and its pump.                                                 *)

running_count(jb) == Cardinality({j \in Jobs : jb[j].status = "running"})

\* The queued jobs that start_next would take one by one: in the order of the
\* table, as many as there are free slots.
ToStart(jb, o) ==
    LET Queued(j) == jb[j].status = "queued"
        Before(j) == {i \in DOMAIN o : Queued(o[i]) /\ \E k \in DOMAIN o : o[k] = j /\ i < k}
    IN {j \in Jobs : Queued(j) /\ running_count(jb) + Cardinality(Before(j)) < Limit}

\* Every change of the table ends here: jb, o, tk, ts are the table, its order,
\* the tokens and the tasks after the change.
pump_transfer_queue(jb, o, tk, ts) ==
    LET started == ToStart(jb, o) IN
    /\ order' = o
    /\ job' = [j \in Jobs |->
                 IF j \in started THEN [jb[j] EXCEPT !.status = "running"] ELSE jb[j]]
    /\ token' = [j \in Jobs |-> IF j \in started THEN jb[j].attempt ELSE tk[j]]
    /\ task' = [j \in Jobs |-> [a \in Attempts |->
                  IF j \in started /\ a = jb[j].attempt
                  THEN [ts[j][a] EXCEPT !.pc = "spawned"] ELSE ts[j][a]]]

\* Mutant: an id is not looked up before it is added.
enqueue_transfer_Twice(j) ==
    /\ Len(order) <= Cardinality(Jobs)
    /\ pump_transfer_queue([job EXCEPT ![j].status = "queued"], Append(order, j), token, task)
    /\ UNCHANGED <<asked, links, files>>

enqueue_transfer(j) ==
    /\ job[j].status = "new"
    /\ pump_transfer_queue([job EXCEPT ![j].status = "queued"], Append(order, j), token, task)
    /\ UNCHANGED <<asked, links, files>>

\* The tokens of the jobs in js, where they are kept, are cancelled.
Cancel(ts, js) ==
    [j \in Jobs |-> [a \in Attempts |->
       IF j \in js /\ token[j] = a THEN [ts[j][a] EXCEPT !.cancelled = TRUE] ELSE ts[j][a]]]

cancel_transfer(j) ==
    /\ job[j].status \in {"queued", "running"}
    /\ pump_transfer_queue([job EXCEPT ![j].status = "cancelled"], order,
                           [token EXCEPT ![j] = None], Cancel(task, {j}))
    /\ asked' = [asked EXCEPT ![j] = TRUE]
    /\ UNCHANGED <<links, files>>

\* Bound: how many jobs are ever retried.
MaxRetried(j) == Cardinality({i \in Jobs : job[i].attempt > 0} \union {j}) <= Retried

retry_transfer(j) ==
    /\ job[j].status \in {"failed", "cancelled"}
    /\ job[j].attempt + 1 < MaxAttempts
    /\ MaxRetried(j)
    /\ pump_transfer_queue(
         [job EXCEPT ![j] = [status |-> "queued", attempt |-> job[j].attempt + 1, transferred |-> 0]],
         order, token, task)
    /\ asked' = [asked EXCEPT ![j] = FALSE]
    /\ UNCHANGED <<links, files>>

\* Vec::retain: the elements of s that are in S, in the order they have in s.
Retained(s, S) ==
    {r \in SetToSeqs(Range(s) \cap S) :
        \A i, k \in DOMAIN r : i < k =>
            \E p, q \in DOMAIN s : p < q /\ s[p] = r[i] /\ s[q] = r[k]}

clear_finished ==
    /\ order' \in Retained(order, {j \in Jobs : ~is_finished(j)})
    /\ job' = [j \in Jobs |->
                 IF is_finished(j) THEN [job[j] EXCEPT !.status = "cleared"] ELSE job[j]]
    /\ UNCHANGED <<token, asked, task, links, files>>

\* Mutant: the jobs of a lost tab are cancelled and their tokens forgotten.
LoseSession_KeepsTokens(s) ==
    LET theirs == {j \in Jobs : SessionOf[j] = s /\ job[j].status \in {"queued", "running"}} IN
    /\ conn[s] # None
    /\ conn' = [conn EXCEPT ![s] = None] /\ sftp' = [sftp EXCEPT ![s] = None]
    /\ job' = [j \in Jobs |->
                 IF j \in theirs THEN [job[j] EXCEPT !.status = "cancelled"] ELSE job[j]]
    /\ asked' = [j \in Jobs |-> asked[j] \/ j \in theirs]
    /\ token' = [j \in Jobs |-> IF SessionOf[j] = s THEN None ELSE token[j]]
    /\ UNCHANGED <<order, task, conns, files>>

\* A tab is disconnected, loses its connection or is closed. The queue is not
\* pumped: the tasks that are told to stop will.
LoseSession(s) ==
    LET theirs == {j \in Jobs : SessionOf[j] = s /\ job[j].status \in {"queued", "running"}} IN
    /\ conn[s] # None
    /\ conn' = [conn EXCEPT ![s] = None] /\ sftp' = [sftp EXCEPT ![s] = None]
    /\ job' = [j \in Jobs |->
                 IF j \in theirs THEN [job[j] EXCEPT !.status = "cancelled"] ELSE job[j]]
    /\ asked' = [j \in Jobs |-> asked[j] \/ j \in theirs]
    /\ token' = [j \in Jobs |-> IF SessionOf[j] = s THEN None ELSE token[j]]
    /\ task' = Cancel(task, {j \in Jobs : SessionOf[j] = s})
    /\ UNCHANGED <<order, conns, files>>

Connect(s) ==
    /\ conns[s] < MaxConns
    /\ conns' = [conns EXCEPT ![s] = @ + 1]
    /\ conn' = [conn EXCEPT ![s] = conns[s] + 1]
    /\ sftp' = [sftp EXCEPT ![s] = None]
    /\ UNCHANGED <<table, task, files>>

-----------------------------------------------------------------------------
(* The task of an attempt: run_transfer_job, and what follows it.          *)

Step(j, a, pc) == task' = [task EXCEPT ![j][a].pc = pc]

\* What is left of a task that came to r.
Over(t, r) ==
    [t EXCEPT !.pc = "over", !.result = r, !.cancelled = FALSE, !.via = None, !.handle = None]

\* The entry of j when attempt a came to r: report_progress, then succeed, fail
\* or cancel, all for a running job only.
Outcome(j, a, r) ==
    IF job[j].status # "running" THEN job[j]
    ELSE CASE r = "ok" -> [job[j] EXCEPT !.status = "succeeded", !.transferred = task[j][a].copied]
           [] r = "cancelled" -> [job[j] EXCEPT !.status = "cancelled"]
           [] OTHER -> [job[j] EXCEPT !.status = "failed"]

\* Mutant: the next job waits for the next change of the table.
Ends_NoPump(j, a, r) ==
    /\ job' = [job EXCEPT ![j] = IF @.attempt = a THEN Outcome(j, a, r) ELSE @]
    /\ token' = [token EXCEPT ![j] = IF @ = a THEN None ELSE @]
    /\ task' = [task EXCEPT ![j][a] = Over(@, r)]
    /\ UNCHANGED <<order, asked>>

\* The attempt ends with result r. Only the attempt the job is at is heard.
Ends(j, a, r) ==
    /\ pump_transfer_queue([job EXCEPT ![j] = IF @.attempt = a THEN Outcome(j, a, r) ELSE @],
           order, [token EXCEPT ![j] = IF @ = a THEN None ELSE @],
           [task EXCEPT ![j][a] = Over(@, r)])
    /\ UNCHANGED asked

\* Where the current attempt met a connection error, the tab's client goes too,
\* whichever connection it is of.
Drops(j, a, r) ==
    sftp' = IF r = "connection" /\ job[j].attempt = a /\ job[j].status # "cleared"
            THEN [sftp EXCEPT ![SessionOf[j]] = None] ELSE sftp

Fails(j, a, r) ==
    /\ Ends(j, a, r)
    /\ Drops(j, a, r)
    /\ UNCHANGED <<conn, conns, files>>

FindClient(j, a) ==
    LET s == SessionOf[j] IN
    /\ At(j, a, "spawned")
    /\ \/ /\ sftp[s] # None /\ Step(j, a, "ready")
          /\ UNCHANGED <<table, links, files>>
       \/ /\ sftp[s] = None /\ conn[s] # None
          /\ task' = [task EXCEPT ![j][a] = [@ EXCEPT !.pc = "opening", !.via = conn[s]]]
          /\ UNCHANGED <<table, links, files>>
       \/ sftp[s] = None /\ conn[s] = None /\ Fails(j, a, "connection")

\* Mutant: the client is stored whether or not the tab is still connected.
Opened_Unchecked(j, a) ==
    LET s == SessionOf[j] IN
    /\ At(j, a, "opening")
    /\ sftp' = IF sftp[s] = None THEN [sftp EXCEPT ![s] = task[j][a].via] ELSE sftp
    /\ task' = [task EXCEPT ![j][a] = [@ EXCEPT !.pc = "ready", !.via = None]]
    /\ UNCHANGED <<table, conn, conns, files>>

\* open_sftp returned, perhaps for a connection the tab no longer has: what is
\* checked is that it has one.
Opened(j, a) ==
    LET s == SessionOf[j] IN
    /\ At(j, a, "opening")
    /\ \/ /\ conn[s] # None
          /\ sftp' = IF sftp[s] = None THEN [sftp EXCEPT ![s] = task[j][a].via] ELSE sftp
          /\ task' = [task EXCEPT ![j][a] = [@ EXCEPT !.pc = "ready", !.via = None]]
          /\ UNCHANGED <<table, conn, conns, files>>
       \/ conn[s] = None /\ Fails(j, a, "connection")

OpenFails(j, a) == At(j, a, "opening") /\ \E r \in {"connection", "other"} : Fails(j, a, r)

\* Before anything was written: cancelled, or one end cannot be opened.
StartFails(j, a) ==
    /\ At(j, a, "ready")
    /\ \/ task[j][a].cancelled /\ Fails(j, a, "cancelled")
       \/ \E r \in {"connection", "other"} : Fails(j, a, r)

\* An upload creates or truncates the file at its destination; a download
\* writes to a temporary file of its own.
Starts(j, a) ==
    /\ At(j, a, "ready") /\ ~task[j][a].cancelled
    /\ IF j \in Uploads
       THEN LET file == IF dest[j] = None THEN a ELSE dest[j] IN
            /\ dest' = [dest EXCEPT ![j] = file]
            /\ whole' = [whole EXCEPT ![j] = @ \ {file}]
            /\ task' = [task EXCEPT ![j][a] = [@ EXCEPT !.pc = "copying", !.handle = file]]
       ELSE /\ task' = [task EXCEPT ![j][a] = [@ EXCEPT !.pc = "copying", !.handle = a]]
            /\ UNCHANGED files
    /\ UNCHANGED <<table, links>>

\* report_progress_for_attempt
Copies(j, a) ==
    /\ At(j, a, "copying") /\ ~task[j][a].cancelled
    /\ task[j][a].copied < Chunks
    /\ task' = [task EXCEPT ![j][a].copied = @ + 1]
    /\ job' = IF job[j].attempt = a /\ job[j].status = "running"
              THEN [job EXCEPT ![j].transferred = task[j][a].copied + 1] ELSE job
    /\ UNCHANGED <<order, token, asked, links, files>>

\* Mutant: a download is moved into place whatever came of it.
CopyEnds_Always(j, a) ==
    LET t == task[j][a] IN
    /\ At(j, a, "copying")
    /\ \E r \in {"ok", "other", "cancelled"} :
         /\ r = "ok" => t.copied = Chunks /\ ~t.cancelled
         /\ r = "cancelled" => t.cancelled
         /\ whole' = IF r = "ok" THEN [whole EXCEPT ![j] = @ \union {t.handle}] ELSE whole
         /\ IF j \in Uploads /\ r = "ok"
            THEN Ends(j, a, "ok")
            ELSE /\ task' = [task EXCEPT ![j][a] = [@ EXCEPT
                       !.pc = IF j \in Uploads THEN "removing" ELSE "renaming", !.result = r]]
                 /\ UNCHANGED table
    /\ UNCHANGED <<links, dest>>

\* The last piece is copied and the handle shut down, one of them fails, or the
\* token is seen, as it is until the last moment. A failed upload is removed by
\* its name, a failed download's temporary file by its own.
CopyEnds(j, a) ==
    LET t == task[j][a] IN
    /\ At(j, a, "copying")
    /\ \E r \in {"ok", "other", "cancelled"} :
         /\ r = "ok" => t.copied = Chunks /\ ~t.cancelled
         /\ r = "cancelled" => t.cancelled
         /\ whole' = IF r = "ok" THEN [whole EXCEPT ![j] = @ \union {t.handle}] ELSE whole
         /\ IF j \in Uploads /\ r = "ok"
            THEN Ends(j, a, "ok")
            ELSE /\ task' = [task EXCEPT ![j][a] = [@ EXCEPT
                       !.pc = IF r = "ok" THEN "renaming" ELSE "removing", !.result = r]]
                 /\ UNCHANGED table
    /\ UNCHANGED <<links, dest>>

Removes(j, a) ==
    /\ At(j, a, "removing")
    /\ \/ j \in Uploads /\ dest' = [dest EXCEPT ![j] = None]
       \/ UNCHANGED dest
    /\ Ends(j, a, task[j][a].result)
    /\ UNCHANGED <<links, whole>>

\* Nothing is checked after the rename: a cancel that came before it is too late.
Renames(j, a) ==
    /\ At(j, a, "renaming")
    /\ \/ /\ dest' = [dest EXCEPT ![j] = a]
          /\ Ends(j, a, task[j][a].result)
       \/ /\ task' = [task EXCEPT ![j][a] = [@ EXCEPT !.pc = "removing", !.result = "other"]]
          /\ UNCHANGED <<table, dest>>
    /\ UNCHANGED <<links, whole>>

-----------------------------------------------------------------------------
Task(j, a) ==
    \/ FindClient(j, a) \/ Opened(j, a) \/ OpenFails(j, a) \/ StartFails(j, a)
    \/ Starts(j, a) \/ Copies(j, a) \/ CopyEnds(j, a)
    \/ Removes(j, a) \/ Renames(j, a)

Next ==
    \/ \E j \in Jobs : enqueue_transfer(j) \/ cancel_transfer(j) \/ retry_transfer(j)
    \/ clear_finished
    \/ \E s \in Sessions : LoseSession(s) \/ Connect(s)
    \/ \E j \in Jobs, a \in Attempts : Task(j, a)

Spec == Init /\ [][Next]_vars

\* Every SFTP request has a timeout and every copy an end: a task goes on.
FairSpec == Spec /\ \A j \in Jobs, a \in Attempts : WF_vars(Task(j, a))

-----------------------------------------------------------------------------
(* Properties.                                                             *)

TypeOK ==
    /\ order \in Seq(Jobs) /\ IsInjective(order)
    /\ job \in [Jobs -> JobRecords]
    /\ token \in [Jobs -> Attempts \union {None}]
    /\ asked \in [Jobs -> BOOLEAN]
    /\ task \in [Jobs -> [Attempts -> TaskRecords]]
    /\ conn \in [Sessions -> Conns \union {None}] /\ sftp \in [Sessions -> Conns \union {None}]
    /\ conns \in [Sessions -> 0 .. MaxConns]
    /\ dest \in [Jobs -> Attempts \union {None}] /\ whole \in [Jobs -> SUBSET Attempts]

\* A job shown as running has a task at work, and cancelling it reaches that
\* task ("A stale completion must not remove a retry's token").
RunningIsReached ==
    \A j \in Jobs : job[j].status = "running" =>
        LET a == job[j].attempt IN
        token[j] = a /\ Live(j, a) /\ ~task[j][a].cancelled

\* A task nobody can reach any more was told to stop.
UnreachedIsCancelled ==
    \A j \in Jobs, a \in Attempts : Live(j, a) => task[j][a].cancelled \/ token[j] = a

\* However cancels, retries and lost connections follow each other, no task runs
\* on that nobody can stop or has stopped.
CancelReaches == RunningIsReached /\ UnreachedIsCancelled

\* What a job shows is what came of its present attempt, not of one it replaced.
OutcomeIsOwn ==
    \A j \in Jobs :
        LET a == job[j].attempt
            t == task[j][a]
        IN /\ job[j].status = "succeeded" => t.pc = "over" /\ t.result = "ok"
           /\ job[j].status = "failed" => t.pc = "over" /\ t.result \in {"connection", "other"}
           /\ job[j].status = "cancelled" => asked[j]
           /\ job[j].transferred <= t.copied

\* A tab without a connection has no SFTP client, whatever open was under way
\* when it was lost.
ClientNeedsSession == \A s \in Sessions : conn[s] = None => sftp[s] = None

\* No earlier attempt of the job got as far as its destination.
NoEarlierFile(j) ==
    \A a \in Attempts : a < job[j].attempt => task[j][a].result = "connection"

\* A transfer shown as succeeded has its whole file at the destination, and a
\* download has no other: "Only a complete, flushed download is renamed into
\* place." Not so for an upload that was retried while the attempt before it still
\* winds down: that one removes the destination by its name.
FilesAreWhole ==
    \A j \in Jobs :
        /\ j \notin Uploads /\ dest[j] # None => dest[j] \in whole[j]
        /\ job[j].status = "succeeded" /\ (j \in Uploads => NoEarlierFile(j))
             => dest[j] # None /\ dest[j] \in whole[j]

\* What a job shows is true of its present attempt and of its file.
OutcomeIsTrue == OutcomeIsOwn /\ FilesAreWhole

\* A queued transfer is started or called off in the end.
QueuedMoves == \A j \in Jobs : job[j].status = "queued" ~> job[j].status # "queued"

==============================================================================
