------------------------ MODULE TransferQueueProofs ------------------------
(***************************************************************************)
(* Proofs about TransferQueue, for any jobs, tabs, attempts and pieces.    *)
(*                                                                         *)
(* Nothing a job is promised depends on another job, apart from when it is *)
(* started: the invariant speaks of one job at a time, and is stated for   *)
(* the values an action hands to the pump as well as for the variables.    *)
(***************************************************************************)
EXTENDS TransferQueue, FiniteSetTheorems, TLAPS

\* An attempt that has not run.
FreshTask ==
    [pc |-> "none", cancelled |-> FALSE, via |-> None, handle |-> None,
     copied |-> 0, result |-> "none"]

Early == {"none", "spawned", "opening", "ready"}

\* The values kept for one job: its entry, its token, its tasks, whether it was
\* cancelled from outside, its destination and the attempts that wrote a whole file.
JobTypes(e, tk, ts, ak, d, w) ==
    /\ e \in JobRecords /\ tk \in Attempts \union {None}
    /\ ts \in [Attempts -> TaskRecords] /\ ak \in BOOLEAN
    /\ d \in Attempts \union {None} /\ w \in SUBSET Attempts

\* A token is kept for a running job only, for its present attempt, and that is
\* at work and was not cancelled; any other attempt at work was.
TokenFits(e, tk, ts) ==
    /\ tk # None => e.status = "running"
    /\ e.status = "running" =>
         /\ tk = e.attempt
         /\ ts[e.attempt].pc \notin {"none", "over"}
         /\ ~ts[e.attempt].cancelled
    /\ \A a \in Attempts : ts[a].pc \notin {"none", "over"} => ts[a].cancelled \/ tk = a

\* Attempts to come have left no trace.
LaterAreFresh(e, ts) ==
    \A a \in Attempts :
        a > e.attempt \/ (a = e.attempt /\ e.status \in {"new", "queued"})
            => ts[a] = FreshTask

\* What is decided of an attempt fits where it is.
TaskCoherent(j, a, t, w) ==
    /\ t.result = "connection" => t.pc = "over"
    /\ t.pc \in Early \union {"copying"} => t.result = "none"
    /\ t.pc = "removing" => t.result \in {"other", "cancelled"}
    /\ t.pc = "removing" /\ t.result = "cancelled" => t.cancelled
    /\ t.pc = "renaming" => j \notin Uploads /\ t.result = "ok" /\ a \in w
    /\ t.pc = "copying" => t.handle # None
    /\ j \notin Uploads /\ t.pc = "copying" => t.handle = a

\* What the table shows is true of the present attempt.
ShownIsTrue(e, ts, ak) ==
    LET t == ts[e.attempt]
    IN  /\ e.status = "succeeded" => t.pc = "over" /\ t.result = "ok"
        /\ e.status = "failed" => t.pc = "over" /\ t.result \in {"connection", "other"}
        /\ e.status = "cancelled" => ak
        /\ e.transferred <= t.copied

\* No earlier attempt has come to its destination so far.
NoEarlierTouch(e, ts) ==
    \A a \in Attempts : a < e.attempt => ts[a].pc \in Early \/ ts[a].result = "connection"

FileFits(j, e, ts, d, w) ==
    /\ j \notin Uploads /\ d # None => d \in w
    /\ j \notin Uploads /\ e.status = "succeeded" => d # None
    /\ j \in Uploads /\ NoEarlierTouch(e, ts) =>
         /\ ts[e.attempt].pc = "copying" => d # None /\ d = ts[e.attempt].handle
         /\ e.status = "succeeded" => d # None /\ d \in w

JobOK(j, e, tk, ts, ak, d, w) ==
    /\ JobTypes(e, tk, ts, ak, d, w)
    /\ TokenFits(e, tk, ts)
    /\ LaterAreFresh(e, ts)
    /\ \A a \in Attempts : TaskCoherent(j, a, ts[a], w)
    /\ ShownIsTrue(e, ts, ak)
    /\ FileFits(j, e, ts, d, w)

TableOK(jb, tk, ts, ak, d, w) ==
    \A j \in Jobs : JobOK(j, jb[j], tk[j], ts[j], ak[j], d[j], w[j])

JobsOK == TableOK(job, token, task, asked, dest, whole)

\* The variables are functions of the jobs and of the tabs.
Shapes ==
    /\ job = [j \in Jobs |-> job[j]] /\ token = [j \in Jobs |-> token[j]]
    /\ task = [j \in Jobs |-> task[j]] /\ asked = [j \in Jobs |-> asked[j]]
    /\ dest = [j \in Jobs |-> dest[j]] /\ whole = [j \in Jobs |-> whole[j]]

LinksOK ==
    /\ conn \in [Sessions -> Conns \union {None}] /\ sftp \in [Sessions -> Conns \union {None}]
    /\ conns \in [Sessions -> 0 .. MaxConns]
    /\ ClientNeedsSession

IInv == Shapes /\ JobsOK /\ LinksOK

-----------------------------------------------------------------------------
(* What the operations do to the values kept for one job.                  *)

LEMMA AttemptsAreNumbers == Attempts \subseteq Nat /\ None \notin Attempts /\ 0 \in Attempts
BY ConstantsAssumption DEF Attempts

\* An untouched job.
LEMMA NewJob ==
    ASSUME NEW j
    PROVE  JobOK(j, [status |-> "new", attempt |-> 0, transferred |-> 0], None,
                 [a \in Attempts |-> FreshTask], FALSE, None, {})
BY ConstantsAssumption, AttemptsAreNumbers
   DEF JobOK, JobTypes, TokenFits, LaterAreFresh, TaskCoherent, ShownIsTrue, FileFits, FreshTask,
       JobRecords, Statuses, TaskRecords, Places, Results, Early, NoEarlierTouch

\* start_next: a queued job becomes a running one.
LEMMA QueuedStarts ==
    ASSUME NEW j, NEW e, NEW tk, NEW ts, NEW ak, NEW d, NEW w,
           JobOK(j, e, tk, ts, ak, d, w), e.status = "queued"
    PROVE  JobOK(j, [e EXCEPT !.status = "running"], e.attempt,
                 [a \in Attempts |-> IF a = e.attempt THEN [ts[a] EXCEPT !.pc = "spawned"]
                                                      ELSE ts[a]],
                 ak, d, w)
<1> DEFINE e2 == [e EXCEPT !.status = "running"]
           ts2 == [a \in Attempts |-> IF a = e.attempt THEN [ts[a] EXCEPT !.pc = "spawned"]
                                                       ELSE ts[a]]
<1>1. /\ e \in JobRecords /\ e.attempt \in Attempts /\ tk = None
      /\ ts \in [Attempts -> TaskRecords] /\ ts[e.attempt] = FreshTask
    BY DEF JobOK, JobTypes, TokenFits, LaterAreFresh, JobRecords
<1>2. /\ e2 \in JobRecords /\ e2.status = "running" /\ e2.attempt = e.attempt
      /\ e2.transferred = e.transferred
    BY <1>1 DEF JobRecords, Statuses
<1>3. /\ ts2[e.attempt] = [FreshTask EXCEPT !.pc = "spawned"]
      /\ ts2[e.attempt] \in TaskRecords
      /\ \A a \in Attempts \ {e.attempt} : ts2[a] = ts[a]
    BY <1>1 DEF FreshTask, TaskRecords, Places
<1>4. ts2 \in [Attempts -> TaskRecords]
    BY <1>1, <1>3
<1> HIDE DEF e2, ts2
<1>5. JobTypes(e2, e.attempt, ts2, ak, d, w)
    BY <1>1, <1>2, <1>4 DEF JobOK, JobTypes
<1>f. ts2[e.attempt].pc = "spawned" /\ ts2[e.attempt].cancelled = FALSE
    BY <1>3 DEF FreshTask
<1>6. TokenFits(e2, e.attempt, ts2)
    <2>1. \A a \in Attempts : ts2[a].pc \notin {"none", "over"} => ts2[a].cancelled \/ e.attempt = a
        BY <1>1, <1>3, AttemptsAreNumbers DEF JobOK, TokenFits
    <2>2. QED
        BY <1>2, <1>f, <2>1 DEF TokenFits
<1>7. LaterAreFresh(e2, ts2)
    BY <1>1, <1>2, <1>3, AttemptsAreNumbers DEF JobOK, LaterAreFresh
<1>8. \A a \in Attempts : TaskCoherent(j, a, ts2[a], w)
    BY <1>1, <1>3 DEF JobOK, TaskCoherent, FreshTask, Early
<1>9. ShownIsTrue(e2, ts2, ak)
    BY <1>1, <1>2, <1>3 DEF JobOK, ShownIsTrue, FreshTask
<1>10. FileFits(j, e2, ts2, d, w)
    BY <1>1, <1>2, <1>3, AttemptsAreNumbers DEF JobOK, FileFits, NoEarlierTouch, FreshTask
<1>11. QED
    BY <1>5, <1>6, <1>7, <1>8, <1>9, <1>10 DEF JobOK, e2, ts2

\* enqueue: a new entry waits.
LEMMA NewIsQueued ==
    ASSUME NEW j, NEW e, NEW tk, NEW ts, NEW ak, NEW d, NEW w,
           JobOK(j, e, tk, ts, ak, d, w), e.status = "new"
    PROVE  JobOK(j, [e EXCEPT !.status = "queued"], tk, ts, ak, d, w)
<1> DEFINE e2 == [e EXCEPT !.status = "queued"]
<1>1. /\ e2 \in JobRecords /\ e2.status = "queued" /\ e2.attempt = e.attempt
      /\ e2.transferred = e.transferred
    BY DEF JobOK, JobTypes, JobRecords, Statuses
<1> HIDE DEF e2
<1>2. JobTypes(e2, tk, ts, ak, d, w)
    BY <1>1 DEF JobOK, JobTypes
<1>3. TokenFits(e2, tk, ts) /\ LaterAreFresh(e2, ts)
    BY <1>1 DEF JobOK, TokenFits, LaterAreFresh
<1>4. ShownIsTrue(e2, ts, ak)
    BY <1>1 DEF JobOK, ShownIsTrue
<1>5. FileFits(j, e2, ts, d, w)
    BY <1>1 DEF JobOK, FileFits, NoEarlierTouch
<1>6. QED
    BY <1>2, <1>3, <1>4, <1>5 DEF JobOK, e2

\* The tasks of a job, once the token tk is cancelled.
Told(ts, tk) ==
    [a \in Attempts |-> IF tk = a THEN [ts[a] EXCEPT !.cancelled = TRUE] ELSE ts[a]]

\* cancel: the token, if one is kept, reaches the task, and is given up.
LEMMA CancelledJob ==
    ASSUME NEW j, NEW e, NEW tk, NEW ts, NEW ak, NEW d, NEW w,
           JobOK(j, e, tk, ts, ak, d, w), e.status \in {"queued", "running"}
    PROVE  JobOK(j, [e EXCEPT !.status = "cancelled"], None, Told(ts, tk), TRUE, d, w)
<1> DEFINE e2 == [e EXCEPT !.status = "cancelled"]
           ts2 == Told(ts, tk)
<1>1. e \in JobRecords /\ e.attempt \in Attempts /\ ts \in [Attempts -> TaskRecords]
    BY DEF JobOK, JobTypes, JobRecords
<1>2. /\ e2 \in JobRecords /\ e2.status = "cancelled" /\ e2.attempt = e.attempt
      /\ e2.transferred = e.transferred
    BY <1>1 DEF JobRecords, Statuses
<1>3. \A a \in Attempts :
          /\ ts2[a] \in TaskRecords /\ ts2[a].pc = ts[a].pc /\ ts2[a].result = ts[a].result
          /\ ts2[a].copied = ts[a].copied /\ ts2[a].handle = ts[a].handle
          /\ tk = a => ts2[a].cancelled = TRUE
          /\ tk # a => ts2[a] = ts[a]
    BY <1>1 DEF TaskRecords, Told
<1>4. ts2 \in [Attempts -> TaskRecords]
    BY <1>3 DEF Told
<1>5. \A a \in Attempts : ts[a].cancelled => ts2[a].cancelled
    BY <1>3
<1> HIDE DEF e2, ts2
<1>6. JobTypes(e2, None, ts2, TRUE, d, w)
    BY <1>1, <1>2, <1>4 DEF JobOK, JobTypes
<1>7. TokenFits(e2, None, ts2)
    <2>1. \A a \in Attempts : ts2[a].pc \notin {"none", "over"} => ts2[a].cancelled
        <3>1. \A a \in Attempts : ts[a].pc \notin {"none", "over"} => ts[a].cancelled \/ tk = a
            BY DEF JobOK, TokenFits
        <3>2. \A a \in Attempts : tk = a => ts2[a].cancelled
            BY <1>3
        <3>3. QED
            BY <3>1, <3>2, <1>3, <1>5
    <2>2. QED
        BY <2>1, <1>2 DEF TokenFits
<1>8. LaterAreFresh(e2, ts2)
    BY <1>1, <1>2, <1>3, AttemptsAreNumbers DEF JobOK, LaterAreFresh, TokenFits
<1>9. \A a \in Attempts : TaskCoherent(j, a, ts2[a], w)
    BY <1>3, <1>5 DEF JobOK, TaskCoherent
<1>10. ShownIsTrue(e2, ts2, TRUE)
    BY <1>1, <1>2, <1>3 DEF JobOK, ShownIsTrue
<1>11. FileFits(j, e2, ts2, d, w)
    BY <1>1, <1>2, <1>3 DEF JobOK, FileFits, NoEarlierTouch
<1>12. QED
    BY <1>6, <1>7, <1>8, <1>9, <1>10, <1>11 DEF JobOK, e2, ts2

\* retry: a failed or cancelled job waits for its next attempt.
LEMMA RetriedJob ==
    ASSUME NEW j, NEW e, NEW tk, NEW ts, NEW ak, NEW d, NEW w,
           JobOK(j, e, tk, ts, ak, d, w), e.status \in {"failed", "cancelled"},
           e.attempt + 1 < MaxAttempts
    PROVE  JobOK(j, [status |-> "queued", attempt |-> e.attempt + 1, transferred |-> 0],
                 tk, ts, FALSE, d, w)
<1> DEFINE e2 == [status |-> "queued", attempt |-> e.attempt + 1, transferred |-> 0]
<1>1. e \in JobRecords /\ e.attempt \in Attempts /\ ts \in [Attempts -> TaskRecords] /\ tk = None
    BY DEF JobOK, JobTypes, JobRecords, TokenFits
<1>2. /\ e2 \in JobRecords /\ e2.status = "queued" /\ e2.attempt = e.attempt + 1
      /\ e2.transferred = 0 /\ e2.attempt \in Attempts /\ e.attempt < e2.attempt
    BY <1>1, ConstantsAssumption DEF JobRecords, Statuses, Attempts
<1>3. ASSUME NEW a \in Attempts, a > e2.attempt PROVE a > e.attempt
    <2>1. a \in Nat /\ e.attempt \in Nat
        BY <1>1, AttemptsAreNumbers
    <2>2. QED
        BY <1>2, <1>3, <2>1
<1>4. \A a \in Attempts : a > e.attempt => ts[a] = FreshTask
    BY DEF JobOK, LaterAreFresh
<1>5. ts[e2.attempt] = FreshTask
    BY <1>2, <1>4
<1> HIDE DEF e2
<1>6. JobTypes(e2, tk, ts, FALSE, d, w)
    BY <1>1, <1>2 DEF JobOK, JobTypes
<1>7. TokenFits(e2, tk, ts)
    BY <1>1, <1>2 DEF JobOK, TokenFits
<1>8. LaterAreFresh(e2, ts)
    BY <1>3, <1>4, <1>5 DEF LaterAreFresh
<1>9. ShownIsTrue(e2, ts, FALSE)
    BY <1>2, <1>5 DEF ShownIsTrue, FreshTask
<1>10. FileFits(j, e2, ts, d, w)
    <2>1. ts[e2.attempt].pc = "none"
        BY <1>5 DEF FreshTask
    <2>2. QED
        BY <1>2, <2>1 DEF JobOK, FileFits
<1>11. QED
    BY <1>6, <1>7, <1>8, <1>9, <1>10 DEF JobOK, e2

\* clear_finished: a finished entry leaves the table.
LEMMA ClearedJob ==
    ASSUME NEW j, NEW e, NEW tk, NEW ts, NEW ak, NEW d, NEW w,
           JobOK(j, e, tk, ts, ak, d, w), e.status \in {"succeeded", "failed", "cancelled"}
    PROVE  JobOK(j, [e EXCEPT !.status = "cleared"], tk, ts, ak, d, w)
<1> DEFINE e2 == [e EXCEPT !.status = "cleared"]
<1>1. /\ e2 \in JobRecords /\ e2.status = "cleared" /\ e2.attempt = e.attempt
      /\ e2.transferred = e.transferred
    BY DEF JobOK, JobTypes, JobRecords, Statuses
<1> HIDE DEF e2
<1>2. JobTypes(e2, tk, ts, ak, d, w)
    BY <1>1 DEF JobOK, JobTypes
<1>3. TokenFits(e2, tk, ts) /\ LaterAreFresh(e2, ts)
    BY <1>1 DEF JobOK, TokenFits, LaterAreFresh
<1>4. ShownIsTrue(e2, ts, ak)
    BY <1>1 DEF JobOK, ShownIsTrue
<1>5. FileFits(j, e2, ts, d, w)
    BY <1>1 DEF JobOK, FileFits, NoEarlierTouch
<1>6. QED
    BY <1>2, <1>3, <1>4, <1>5 DEF JobOK, e2

-----------------------------------------------------------------------------
(* What a task does to the values kept for its job.                        *)

\* A task at work that was not cancelled is that of the present attempt.
LEMMA UncancelledIsPresent ==
    ASSUME NEW j, NEW e, NEW tk, NEW ts, NEW ak, NEW d, NEW w,
           JobOK(j, e, tk, ts, ak, d, w),
           NEW a \in Attempts, ts[a].pc \notin {"none", "over"}, ~ts[a].cancelled
    PROVE  tk = a /\ e.attempt = a /\ e.status = "running"
BY AttemptsAreNumbers DEF JobOK, TokenFits

\* A task at work is not that of an attempt to come.
LEMMA LiveIsNotLater ==
    ASSUME NEW j, NEW e, NEW tk, NEW ts, NEW ak, NEW d, NEW w,
           JobOK(j, e, tk, ts, ak, d, w),
           NEW a \in Attempts, ts[a].pc \notin {"none", "over"}
    PROVE  /\ a = e.attempt \/ a < e.attempt
           /\ ~(a > e.attempt)
           /\ a = e.attempt => e.status \notin {"new", "queued"}
           /\ e.status \in {"succeeded", "failed"} => a # e.attempt
<1>1. e.attempt \in Nat /\ a \in Nat /\ e.attempt \in Attempts
    BY AttemptsAreNumbers DEF JobOK, JobTypes, JobRecords
<1>2. ts[a] # FreshTask
    BY DEF FreshTask
<1>3. ~(a > e.attempt) /\ (a = e.attempt => e.status \notin {"new", "queued"})
    BY <1>2 DEF JobOK, LaterAreFresh
<1>4. e.status \in {"succeeded", "failed"} => a # e.attempt
    BY DEF JobOK, ShownIsTrue
<1>5. QED
    BY <1>1, <1>3, <1>4

\* A task moves on; its entry and its token stay. What it does to the files is
\* asked of its users.
LEMMA TaskMoves ==
    ASSUME NEW j, NEW e, NEW tk, NEW ts, NEW ak, NEW d, NEW w,
           JobOK(j, e, tk, ts, ak, d, w),
           NEW a \in Attempts, ts[a].pc \notin {"none", "over"},
           NEW t2 \in TaskRecords, t2.pc \notin {"none", "over"},
           t2.cancelled = ts[a].cancelled, t2.copied = ts[a].copied,
           NEW d2 \in Attempts \union {None}, NEW w2 \in SUBSET Attempts,
           \A b \in Attempts \ {a} : TaskCoherent(j, b, ts[b], w2),
           TaskCoherent(j, a, t2, w2),
           FileFits(j, e, [ts EXCEPT ![a] = t2], d2, w2)
    PROVE  JobOK(j, e, tk, [ts EXCEPT ![a] = t2], ak, d2, w2)
<1> DEFINE ts2 == [ts EXCEPT ![a] = t2]
<1>1. e \in JobRecords /\ e.attempt \in Attempts /\ ts \in [Attempts -> TaskRecords]
    BY DEF JobOK, JobTypes, JobRecords
<1>2. /\ ts2 \in [Attempts -> TaskRecords] /\ ts2[a] = t2
      /\ \A b \in Attempts \ {a} : ts2[b] = ts[b]
    BY <1>1
<1> HIDE DEF ts2
<1>3. JobTypes(e, tk, ts2, ak, d2, w2)
    BY <1>2 DEF JobOK, JobTypes
<1>4. TokenFits(e, tk, ts2)
    <2>1. \A b \in Attempts : ts2[b].pc \notin {"none", "over"} => ts2[b].cancelled \/ tk = b
        BY <1>2 DEF JobOK, TokenFits
    <2>2. e.status = "running" => tk = e.attempt /\ ts2[e.attempt].pc \notin {"none", "over"}
        BY <1>1, <1>2 DEF JobOK, TokenFits
    <2>3. e.status = "running" => ~ts2[e.attempt].cancelled
        BY <1>1, <1>2 DEF JobOK, TokenFits
    <2>4. QED
        BY <2>1, <2>2, <2>3 DEF JobOK, TokenFits
<1>5. LaterAreFresh(e, ts2)
    <2>1. ~(a > e.attempt) /\ (a = e.attempt => e.status \notin {"new", "queued"})
        BY LiveIsNotLater
    <2>2. LaterAreFresh(e, ts)
        BY DEF JobOK
    <2>3. QED
        BY <1>2, <2>1, <2>2 DEF LaterAreFresh
<1>6. \A b \in Attempts : TaskCoherent(j, b, ts2[b], w2)
    BY <1>2
<1>7. ShownIsTrue(e, ts2, ak)
    BY <1>1, <1>2 DEF JobOK, ShownIsTrue
<1>8. QED
    BY <1>3, <1>4, <1>5, <1>6, <1>7 DEF JobOK, ts2

\* The client is looked for, opened and found.
LEMMA EarlyMove ==
    ASSUME NEW j, NEW e, NEW tk, NEW ts, NEW ak, NEW d, NEW w,
           JobOK(j, e, tk, ts, ak, d, w),
           NEW a \in Attempts, ts[a].pc \in Early \ {"none"},
           NEW t2 \in TaskRecords, t2.pc \in Early \ {"none"},
           t2.cancelled = ts[a].cancelled, t2.copied = ts[a].copied, t2.result = ts[a].result
    PROVE  JobOK(j, e, tk, [ts EXCEPT ![a] = t2], ak, d, w)
<1> DEFINE ts2 == [ts EXCEPT ![a] = t2]
<1>1. /\ e.attempt \in Attempts /\ ts \in [Attempts -> TaskRecords]
      /\ d \in Attempts \union {None} /\ w \in SUBSET Attempts
    BY DEF JobOK, JobTypes, JobRecords
<1>2. ts2[a] = t2 /\ \A b \in Attempts \ {a} : ts2[b] = ts[b]
    BY <1>1
<1>3. \A b \in Attempts \ {a} : TaskCoherent(j, b, ts[b], w)
    BY DEF JobOK
<1>4. TaskCoherent(j, a, t2, w)
    BY DEF JobOK, TaskCoherent, Early
<1>5. FileFits(j, e, ts2, d, w)
    <2>1. NoEarlierTouch(e, ts2) => NoEarlierTouch(e, ts)
        BY <1>2 DEF NoEarlierTouch
    <2>2. ts2[e.attempt].pc = "copying" => ts2[e.attempt] = ts[e.attempt]
        BY <1>1, <1>2 DEF Early
    <2>3. QED
        BY <2>1, <2>2 DEF JobOK, FileFits
<1>6. QED
    BY <1>3, <1>4, <1>5, <1>1, TaskMoves DEF Early

\* An upload takes its destination, or makes it.
LEMMA UploadStarts ==
    ASSUME NEW j \in Uploads, NEW e, NEW tk, NEW ts, NEW ak, NEW d, NEW w,
           JobOK(j, e, tk, ts, ak, d, w),
           NEW a \in Attempts, ts[a].pc = "ready", ~ts[a].cancelled,
           NEW h \in Attempts
    PROVE  JobOK(j, e, tk, [ts EXCEPT ![a] = [@ EXCEPT !.pc = "copying", !.handle = h]],
                 ak, h, w \ {h})
<1> DEFINE t2 == [ts[a] EXCEPT !.pc = "copying", !.handle = h]
           ts2 == [ts EXCEPT ![a] = t2]
<1>1. /\ e.attempt \in Attempts /\ ts \in [Attempts -> TaskRecords]
      /\ w \ {h} \in SUBSET Attempts /\ h # None
    BY AttemptsAreNumbers DEF JobOK, JobTypes, JobRecords
<1>2. /\ t2 \in TaskRecords /\ t2.pc = "copying" /\ t2.handle = h
      /\ t2.cancelled = ts[a].cancelled /\ t2.copied = ts[a].copied /\ t2.result = ts[a].result
    BY <1>1 DEF TaskRecords, Places
<1> HIDE DEF t2
<1>3. ts2[a] = t2 /\ \A b \in Attempts \ {a} : ts2[b] = ts[b]
    BY <1>1
<1>4. a = e.attempt /\ e.status = "running"
    BY AttemptsAreNumbers DEF JobOK, TokenFits
<1>5. \A b \in Attempts \ {a} : TaskCoherent(j, b, ts[b], w \ {h})
    BY DEF JobOK, TaskCoherent
<1>6. TaskCoherent(j, a, t2, w \ {h})
    BY <1>1, <1>2 DEF JobOK, TaskCoherent, Early
<1>7. FileFits(j, e, ts2, h, w \ {h})
    BY <1>1, <1>2, <1>3, <1>4 DEF FileFits
<1> HIDE DEF ts2
<1>8. JobOK(j, e, tk, [ts EXCEPT ![a] = t2], ak, h, w \ {h})
    BY <1>1, <1>2, <1>5, <1>6, <1>7, TaskMoves DEF ts2
<1>9. QED
    BY <1>8 DEF t2

\* A download opens a temporary file of its own.
LEMMA DownloadStarts ==
    ASSUME NEW j, j \notin Uploads, NEW e, NEW tk, NEW ts, NEW ak, NEW d, NEW w,
           JobOK(j, e, tk, ts, ak, d, w),
           NEW a \in Attempts, ts[a].pc = "ready"
    PROVE  JobOK(j, e, tk, [ts EXCEPT ![a] = [@ EXCEPT !.pc = "copying", !.handle = a]],
                 ak, d, w)
<1> DEFINE t2 == [ts[a] EXCEPT !.pc = "copying", !.handle = a]
           ts2 == [ts EXCEPT ![a] = t2]
<1>1. /\ e.attempt \in Attempts /\ ts \in [Attempts -> TaskRecords]
      /\ d \in Attempts \union {None} /\ w \in SUBSET Attempts
    BY DEF JobOK, JobTypes, JobRecords
<1>2. /\ t2 \in TaskRecords /\ t2.pc = "copying" /\ t2.handle = a
      /\ t2.cancelled = ts[a].cancelled /\ t2.copied = ts[a].copied /\ t2.result = ts[a].result
    BY <1>1 DEF TaskRecords, Places
<1> HIDE DEF t2
<1>3. \A b \in Attempts \ {a} : TaskCoherent(j, b, ts[b], w)
    BY DEF JobOK
<1>4. TaskCoherent(j, a, t2, w)
    BY <1>2, AttemptsAreNumbers DEF JobOK, TaskCoherent, Early
<1>5. FileFits(j, e, ts2, d, w)
    BY DEF JobOK, FileFits
<1> HIDE DEF ts2
<1>6. JobOK(j, e, tk, [ts EXCEPT ![a] = t2], ak, d, w)
    BY <1>1, <1>2, <1>3, <1>4, <1>5, TaskMoves DEF ts2
<1>7. QED
    BY <1>6 DEF t2

\* What was written is to be removed, or, of a download, to be moved into place.
LEMMA CopyTurns ==
    ASSUME NEW j, NEW e, NEW tk, NEW ts, NEW ak, NEW d, NEW w,
           JobOK(j, e, tk, ts, ak, d, w),
           NEW a \in Attempts, ts[a].pc \in {"copying", "renaming"},
           NEW r \in {"ok", "other", "cancelled"},
           NEW w2 \in SUBSET Attempts, w \subseteq w2,
           r = "ok" => j \notin Uploads /\ a \in w2,
           r = "cancelled" => ts[a].cancelled,
           NEW p, p = IF r = "ok" THEN "renaming" ELSE "removing"
    PROVE  JobOK(j, e, tk, [ts EXCEPT ![a] = [@ EXCEPT !.pc = p, !.result = r]], ak, d, w2)
<1> DEFINE t2 == [ts[a] EXCEPT !.pc = p, !.result = r]
           ts2 == [ts EXCEPT ![a] = t2]
<1>1. /\ e.attempt \in Attempts /\ ts \in [Attempts -> TaskRecords]
      /\ d \in Attempts \union {None}
    BY DEF JobOK, JobTypes, JobRecords
<1>0. p \in Places /\ r \in Results /\ ts[a] \in TaskRecords
    BY <1>1 DEF Places, Results
<1>2. /\ t2 \in TaskRecords /\ t2.pc = p /\ t2.result = r
      /\ t2.cancelled = ts[a].cancelled /\ t2.copied = ts[a].copied
    BY <1>0 DEF TaskRecords
<1> HIDE DEF t2
<1>3. ts2[a] = t2 /\ \A b \in Attempts \ {a} : ts2[b] = ts[b]
    BY <1>1
<1>4. \A b \in Attempts \ {a} : TaskCoherent(j, b, ts[b], w2)
    BY DEF JobOK, TaskCoherent
<1>5. TaskCoherent(j, a, t2, w2)
    BY <1>2 DEF TaskCoherent, Early
<1>6. FileFits(j, e, ts2, d, w2)
    <2>1. NoEarlierTouch(e, ts2) => NoEarlierTouch(e, ts)
        BY <1>2, <1>3 DEF NoEarlierTouch, Early
    <2>2. ts2[e.attempt].pc = "copying" => ts2[e.attempt] = ts[e.attempt]
        BY <1>1, <1>2, <1>3
    <2>3. FileFits(j, e, ts, d, w)
        BY DEF JobOK
    <2>4. QED
        BY <2>1, <2>2, <2>3 DEF FileFits
<1> HIDE DEF ts2
<1>7. JobOK(j, e, tk, [ts EXCEPT ![a] = t2], ak, d, w2)
    BY <1>1, <1>2, <1>4, <1>5, <1>6, TaskMoves DEF ts2
<1>8. QED
    BY <1>7 DEF t2

\* report_progress_for_attempt: the attempt that copies on is the present one.
LEMMA CopiesOn ==
    ASSUME NEW j, NEW e, NEW tk, NEW ts, NEW ak, NEW d, NEW w,
           JobOK(j, e, tk, ts, ak, d, w),
           NEW a \in Attempts, ts[a].pc = "copying", ~ts[a].cancelled, ts[a].copied < Chunks
    PROVE  /\ e.attempt = a /\ e.status = "running"
           /\ JobOK(j, [e EXCEPT !.transferred = ts[a].copied + 1], tk,
                    [ts EXCEPT ![a].copied = @ + 1], ak, d, w)
<1> DEFINE t2 == [ts[a] EXCEPT !.copied = @ + 1]
           ts2 == [ts EXCEPT ![a] = t2]
           e2 == [e EXCEPT !.transferred = ts[a].copied + 1]
<1>1. /\ e \in JobRecords /\ e.attempt \in Attempts /\ ts \in [Attempts -> TaskRecords]
      /\ d \in Attempts \union {None} /\ w \in SUBSET Attempts
    BY DEF JobOK, JobTypes, JobRecords
<1>0. ts[a].copied \in Nat /\ ts[a].copied + 1 \in 0 .. Chunks
    BY <1>1, ConstantsAssumption DEF TaskRecords
<1>2. /\ t2 \in TaskRecords /\ t2.pc = ts[a].pc /\ t2.handle = ts[a].handle
      /\ t2.cancelled = ts[a].cancelled /\ t2.copied = ts[a].copied + 1
      /\ t2.result = ts[a].result
    BY <1>0, <1>1 DEF TaskRecords
<1>3. /\ e2 \in JobRecords /\ e2.status = e.status /\ e2.attempt = e.attempt
      /\ e2.transferred = ts[a].copied + 1
    BY <1>0, <1>1 DEF JobRecords
<1> HIDE DEF t2, e2
<1>4. /\ ts2 \in [Attempts -> TaskRecords] /\ ts2[a] = t2
      /\ \A b \in Attempts \ {a} : ts2[b] = ts[b]
    BY <1>1, <1>2
<1> HIDE DEF ts2
<1>5. a = e.attempt /\ e.status = "running" /\ tk = a
    BY UncancelledIsPresent
<1>6. JobTypes(e2, tk, ts2, ak, d, w)
    BY <1>3, <1>4 DEF JobOK, JobTypes
<1>7. TokenFits(e2, tk, ts2)
    <2>1. \A b \in Attempts : ts2[b].pc \notin {"none", "over"} => ts2[b].cancelled \/ tk = b
        BY <1>4, <1>5 DEF JobOK, TokenFits
    <2>2. ~ts2[e.attempt].cancelled
        BY <1>2, <1>4, <1>5
    <2>3. QED
        BY <1>2, <1>3, <1>4, <1>5, <2>1, <2>2 DEF TokenFits
<1>8. LaterAreFresh(e2, ts2)
    <2>1. ~(a > a)
        BY AttemptsAreNumbers
    <2>2. QED
        BY <1>3, <1>4, <1>5, <2>1 DEF JobOK, LaterAreFresh
<1>9. \A b \in Attempts : TaskCoherent(j, b, ts2[b], w)
    BY <1>2, <1>4 DEF JobOK, TaskCoherent
<1>10. ShownIsTrue(e2, ts2, ak)
    BY <1>0, <1>2, <1>3, <1>4, <1>5 DEF ShownIsTrue
<1>11. FileFits(j, e2, ts2, d, w)
    <2>1. NoEarlierTouch(e2, ts2) => NoEarlierTouch(e, ts)
        BY <1>2, <1>3, <1>4 DEF NoEarlierTouch
    <2>2. QED
        BY <1>2, <1>3, <1>4, <1>5, <2>1 DEF JobOK, FileFits
<1>12. QED
    BY <1>5, <1>6, <1>7, <1>8, <1>9, <1>10, <1>11 DEF JobOK, e2, ts2, t2

-----------------------------------------------------------------------------
(* The end of an attempt.                                                  *)

\* Outcome, for an entry and a task: only the present attempt is heard.
EntryAfter(e, t, a, r) ==
    IF e.attempt # a \/ e.status # "running" THEN e
    ELSE CASE r = "ok" -> [e EXCEPT !.status = "succeeded", !.transferred = t.copied]
           [] r = "cancelled" -> [e EXCEPT !.status = "cancelled"]
           [] OTHER -> [e EXCEPT !.status = "failed"]

Ended(j, e, tk, ts, ak, d, w, a, r) ==
    JobOK(j, EntryAfter(e, ts[a], a, r), IF tk = a THEN None ELSE tk,
          [ts EXCEPT ![a] = Over(@, r)], ak, d, w)

LEMMA TaskEnds ==
    ASSUME NEW j, NEW e, NEW tk, NEW ts, NEW ak, NEW d, NEW w,
           JobOK(j, e, tk, ts, ak, d, w),
           NEW a \in Attempts, ts[a].pc \notin {"none", "over"},
           NEW r \in {"ok", "cancelled", "connection", "other"},
           r = "cancelled" => ts[a].cancelled,
           NEW d2 \in Attempts \union {None}, NEW w2 \in SUBSET Attempts, w \subseteq w2,
           FileFits(j, EntryAfter(e, ts[a], a, r), [ts EXCEPT ![a] = Over(@, r)], d2, w2)
    PROVE  Ended(j, e, tk, ts, ak, d2, w2, a, r)
<1> DEFINE t2 == Over(ts[a], r)
           ts2 == [ts EXCEPT ![a] = t2]
           e2 == EntryAfter(e, ts[a], a, r)
           tk2 == IF tk = a THEN None ELSE tk
<1>1. /\ e \in JobRecords /\ e.attempt \in Attempts /\ ts \in [Attempts -> TaskRecords]
      /\ tk \in Attempts \union {None} /\ ts[a] \in TaskRecords
    BY DEF JobOK, JobTypes, JobRecords
<1>2. /\ t2 \in TaskRecords /\ t2.pc = "over" /\ t2.result = r
      /\ t2.copied = ts[a].copied
    BY <1>1 DEF TaskRecords, Places, Results, Over
<1> HIDE DEF t2
<1>3. /\ ts2 \in [Attempts -> TaskRecords] /\ ts2[a] = t2
      /\ \A b \in Attempts \ {a} : ts2[b] = ts[b]
    BY <1>1, <1>2
<1> HIDE DEF ts2
<1>c. CASE e.attempt = a /\ e.status = "running"
    <2>1. ~ts[a].cancelled /\ tk = a
        BY <1>c DEF JobOK, TokenFits
    <2>2. r # "cancelled"
        BY <2>1
    <2>3. ts[a].copied \in 0 .. Chunks
        BY <1>1 DEF TaskRecords
    <2>4. /\ e2 \in JobRecords /\ e2.attempt = a
          /\ e2.status = IF r = "ok" THEN "succeeded" ELSE "failed"
          /\ e2.transferred = IF r = "ok" THEN ts[a].copied ELSE e.transferred
        <3>1. CASE r = "ok"
            <4>1. e2 = [e EXCEPT !.status = "succeeded", !.transferred = ts[a].copied]
                BY <1>c, <3>1 DEF EntryAfter
            <4>2. QED
                BY <1>1, <1>c, <2>3, <3>1, <4>1 DEF JobRecords, Statuses
        <3>2. CASE r # "ok"
            <4>1. e2 = [e EXCEPT !.status = "failed"]
                BY <1>c, <2>2, <3>2 DEF EntryAfter
            <4>2. QED
                BY <1>1, <1>c, <3>2, <4>1 DEF JobRecords, Statuses
        <3>3. QED
            BY <3>1, <3>2
    <2> HIDE DEF e2
    <2>5. JobTypes(e2, tk2, ts2, ak, d2, w2)
        BY <1>3, <2>4 DEF JobOK, JobTypes
    <2>6. TokenFits(e2, tk2, ts2)
        <3>1. \A b \in Attempts : ts2[b].pc \notin {"none", "over"} => ts2[b].cancelled
            BY <1>2, <1>3, <2>1 DEF JobOK, TokenFits
        <3>2. QED
            BY <2>1, <2>4, <3>1 DEF TokenFits
    <2>7. LaterAreFresh(e2, ts2)
        <3>1. ~(a > a)
            BY AttemptsAreNumbers
        <3>2. QED
            BY <1>3, <1>c, <2>4, <3>1 DEF JobOK, LaterAreFresh
    <2>8. \A b \in Attempts : TaskCoherent(j, b, ts2[b], w2)
        <3>1. TaskCoherent(j, a, t2, w2)
            BY <1>2 DEF TaskCoherent, Early
        <3>2. \A b \in Attempts \ {a} : TaskCoherent(j, b, ts[b], w2)
            BY DEF JobOK, TaskCoherent
        <3>3. QED
            BY <1>3, <3>1, <3>2
    <2>9. ShownIsTrue(e2, ts2, ak)
        <3>1. e.transferred <= ts[a].copied
            BY <1>c DEF JobOK, ShownIsTrue
        <3>2. e2.transferred <= ts2[a].copied
            BY <1>2, <1>3, <2>3, <2>4, <3>1
        <3>3. QED
            BY <1>2, <1>3, <2>2, <2>4, <3>2 DEF ShownIsTrue
    <2>10. QED
        BY <2>5, <2>6, <2>7, <2>8, <2>9 DEF JobOK, Ended, ts2, t2, e2
<1>n. CASE ~(e.attempt = a /\ e.status = "running")
    <2>1. e2 = e
        BY <1>n DEF EntryAfter
    <2> HIDE DEF e2
    <2>2. tk # a
        BY <1>n, AttemptsAreNumbers DEF JobOK, TokenFits
    <2>3. JobTypes(e, tk, ts2, ak, d2, w2)
        BY <1>3 DEF JobOK, JobTypes
    <2>4. TokenFits(e, tk, ts2)
        <3>1. \A b \in Attempts : ts2[b].pc \notin {"none", "over"} => ts2[b].cancelled \/ tk = b
            BY <1>2, <1>3 DEF JobOK, TokenFits
        <3>2. e.status = "running" => ts2[e.attempt] = ts[e.attempt]
            BY <1>1, <1>3, <1>n
        <3>3. QED
            BY <3>1, <3>2 DEF JobOK, TokenFits
    <2>5. LaterAreFresh(e, ts2)
        <3>1. ~(a > e.attempt) /\ (a = e.attempt => e.status \notin {"new", "queued"})
            BY LiveIsNotLater
        <3>2. LaterAreFresh(e, ts)
            BY DEF JobOK
        <3>3. QED
            BY <1>3, <3>1, <3>2 DEF LaterAreFresh
    <2>6. \A b \in Attempts : TaskCoherent(j, b, ts2[b], w2)
        <3>1. TaskCoherent(j, a, t2, w2)
            BY <1>2 DEF TaskCoherent, Early
        <3>2. \A b \in Attempts \ {a} : TaskCoherent(j, b, ts[b], w2)
            BY DEF JobOK, TaskCoherent
        <3>3. QED
            BY <1>3, <3>1, <3>2
    <2>7. ShownIsTrue(e, ts2, ak)
        <3>1. e.status \in {"succeeded", "failed"} => a # e.attempt
            BY LiveIsNotLater
        <3>2. ts2[e.attempt].copied = ts[e.attempt].copied
            BY <1>1, <1>2, <1>3
        <3>3. ShownIsTrue(e, ts, ak)
            BY DEF JobOK
        <3>4. QED
            BY <1>1, <1>3, <3>1, <3>2, <3>3 DEF ShownIsTrue
    <2>8. QED
        BY <2>1, <2>2, <2>3, <2>4, <2>5, <2>6, <2>7 DEF JobOK, Ended, ts2, t2, e2
<1>q. QED
    BY <1>c, <1>n

\* An attempt that did not succeed leaves the destination, or has removed it.
LEMMA TaskFails ==
    ASSUME NEW j, NEW e, NEW tk, NEW ts, NEW ak, NEW d, NEW w,
           JobOK(j, e, tk, ts, ak, d, w),
           NEW a \in Attempts, ts[a].pc \notin {"none", "over"},
           NEW r \in {"cancelled", "connection", "other"},
           r = "cancelled" => ts[a].cancelled,
           r = "connection" => ts[a].pc \in Early,
           NEW d2, d2 = d \/ (j \in Uploads /\ d2 = None /\ ts[a].pc = "removing")
    PROVE  Ended(j, e, tk, ts, ak, d2, w, a, r)
<1> DEFINE ts2 == [ts EXCEPT ![a] = Over(@, r)]
           e2 == EntryAfter(e, ts[a], a, r)
<1>1. /\ e \in JobRecords /\ e.attempt \in Attempts /\ ts \in [Attempts -> TaskRecords]
      /\ d2 \in Attempts \union {None} /\ w \in SUBSET Attempts
    BY DEF JobOK, JobTypes, JobRecords
<1>2. /\ ts2[a].pc = "over" /\ ts2[a].result = r
      /\ \A b \in Attempts \ {a} : ts2[b] = ts[b]
    BY <1>1 DEF Over, TaskRecords
<1>3. e2.attempt = e.attempt /\ (e2.status = "succeeded" => e.status = "succeeded")
    <2>1. CASE e.attempt # a \/ e.status # "running"
        BY <2>1 DEF EntryAfter
    <2>2. CASE ~(e.attempt # a \/ e.status # "running") /\ r = "cancelled"
        BY <1>1, <2>2 DEF EntryAfter, JobRecords
    <2>3. CASE ~(e.attempt # a \/ e.status # "running") /\ r # "cancelled"
        <3>1. e2 = [e EXCEPT !.status = "failed"]
            BY <2>3 DEF EntryAfter
        <3>2. QED
            BY <1>1, <3>1 DEF JobRecords
    <2>4. QED
        BY <2>1, <2>2, <2>3
<1>4. /\ a = e.attempt \/ a < e.attempt
      /\ e.status = "succeeded" => a # e.attempt
    BY LiveIsNotLater
<1> HIDE DEF ts2, e2
<1>5. FileFits(j, e, ts, d, w)
    BY DEF JobOK
<1>6. ASSUME j \in Uploads, NoEarlierTouch(e2, ts2), a # e.attempt PROVE d2 = d /\ NoEarlierTouch(e, ts)
    <2>1. r = "connection"
        BY <1>2, <1>3, <1>4, <1>6 DEF NoEarlierTouch, Early
    <2>2. QED
        BY <1>2, <1>3, <1>6, <2>1 DEF NoEarlierTouch, Early
<1>7. FileFits(j, e2, ts2, d2, w)
    <2>1. CASE j \notin Uploads
        BY <1>3, <1>5, <2>1 DEF FileFits
    <2>2. CASE j \in Uploads
        <3>1. ts2[e.attempt].pc = "copying" => a # e.attempt /\ ts2[e.attempt] = ts[e.attempt]
            BY <1>1, <1>2
        <3>2. QED
            BY <1>3, <1>4, <1>5, <1>6, <2>2, <3>1 DEF FileFits
    <2>3. QED
        BY <2>1, <2>2
<1>8. w \subseteq w /\ r \in {"ok", "cancelled", "connection", "other"}
    OBVIOUS
<1>9. FileFits(j, EntryAfter(e, ts[a], a, r), [ts EXCEPT ![a] = Over(@, r)], d2, w)
    BY <1>7 DEF ts2, e2
<1>10. QED
    BY <1>1, <1>8, <1>9, TaskEnds

\* The entry of the present attempt that succeeds.
LEMMA SuccessShown ==
    ASSUME NEW e \in JobRecords, NEW t
    PROVE  LET e2 == EntryAfter(e, t, e.attempt, "ok")
           IN  e2.attempt = e.attempt
BY DEF EntryAfter, JobRecords

\* The last piece of an upload is at its destination.
LEMMA UploadDone ==
    ASSUME NEW j \in Uploads, NEW e, NEW tk, NEW ts, NEW ak, NEW d, NEW w,
           JobOK(j, e, tk, ts, ak, d, w),
           NEW a \in Attempts, ts[a].pc = "copying", ~ts[a].cancelled
    PROVE  Ended(j, e, tk, ts, ak, d, w \union {ts[a].handle}, a, "ok")
<1> DEFINE ts2 == [ts EXCEPT ![a] = Over(@, "ok")]
           e2 == EntryAfter(e, ts[a], a, "ok")
           w2 == w \union {ts[a].handle}
<1>1. /\ e \in JobRecords /\ e.attempt \in Attempts /\ ts \in [Attempts -> TaskRecords]
      /\ d \in Attempts \union {None} /\ w \in SUBSET Attempts
      /\ ts[a].handle \in Attempts \union {None}
    BY DEF JobOK, JobTypes, JobRecords, TaskRecords
<1>2. w2 \in SUBSET Attempts
    BY <1>1 DEF JobOK, TaskCoherent
<1>3. /\ ts2[a].pc = "over" /\ \A b \in Attempts \ {a} : ts2[b] = ts[b]
    BY <1>1 DEF Over, TaskRecords
<1>4. a = e.attempt
    BY AttemptsAreNumbers DEF JobOK, TokenFits
<1>5. e2.attempt = e.attempt
    BY <1>1, <1>4, SuccessShown
<1> HIDE DEF ts2, e2
<1>6. FileFits(j, e2, ts2, d, w2)
    <2>1. NoEarlierTouch(e2, ts2) => NoEarlierTouch(e, ts)
        <3>1. ~(a < a)
            BY AttemptsAreNumbers
        <3>2. QED
            BY <1>3, <1>4, <1>5, <3>1 DEF NoEarlierTouch
    <2>2. NoEarlierTouch(e2, ts2) => d # None /\ d \in w2
        BY <1>4, <2>1 DEF JobOK, FileFits
    <2>3. QED
        BY <1>3, <1>4, <1>5, <2>2 DEF FileFits
<1>7. QED
    BY <1>1, <1>2, <1>6, TaskEnds DEF ts2, e2

\* A whole download is renamed into place.
LEMMA DownloadDone ==
    ASSUME NEW j, j \notin Uploads, NEW e, NEW tk, NEW ts, NEW ak, NEW d, NEW w,
           JobOK(j, e, tk, ts, ak, d, w),
           NEW a \in Attempts, ts[a].pc = "renaming"
    PROVE  Ended(j, e, tk, ts, ak, a, w, a, "ok")
<1>1. w \in SUBSET Attempts /\ a \in w /\ a # None
    BY AttemptsAreNumbers DEF JobOK, JobTypes, TaskCoherent
<1>2. FileFits(j, EntryAfter(e, ts[a], a, "ok"), [ts EXCEPT ![a] = Over(@, "ok")], a, w)
    BY <1>1 DEF FileFits
<1>3. w \subseteq w /\ ts[a].pc \notin {"none", "over"}
    OBVIOUS
<1>4. QED
    BY <1>1, <1>2, <1>3, TaskEnds

-----------------------------------------------------------------------------
(* The steps of the queue.                                                 *)

LEMMA PumpKeeps ==
    ASSUME NEW jb, NEW o, NEW tk, NEW ts, NEW ak, NEW d, NEW w,
           TableOK(jb, tk, ts, ak, d, w),
           pump_transfer_queue(jb, o, tk, ts)
    PROVE  /\ TableOK(job', token', task', ak, d, w)
           /\ job' = [j \in Jobs |-> job'[j]] /\ token' = [j \in Jobs |-> token'[j]]
           /\ task' = [j \in Jobs |-> task'[j]]
<1> DEFINE started == ToStart(jb, o)
<1>1. \A j \in started : j \in Jobs /\ jb[j].status = "queued"
    BY DEF ToStart
<1>2. /\ job' = [j \in Jobs |-> IF j \in started THEN [jb[j] EXCEPT !.status = "running"]
                                              ELSE jb[j]]
      /\ token' = [j \in Jobs |-> IF j \in started THEN jb[j].attempt ELSE tk[j]]
      /\ task' = [j \in Jobs |-> [a \in Attempts |->
                     IF j \in started /\ a = jb[j].attempt
                     THEN [ts[j][a] EXCEPT !.pc = "spawned"] ELSE ts[j][a]]]
    BY DEF pump_transfer_queue
<1> HIDE DEF started
<1>3. ASSUME NEW j \in Jobs
      PROVE  JobOK(j, job'[j], token'[j], task'[j], ak[j], d[j], w[j])
    <2>1. JobOK(j, jb[j], tk[j], ts[j], ak[j], d[j], w[j])
        BY DEF TableOK
    <2>2. CASE j \in started
        <3>1. /\ job'[j] = [jb[j] EXCEPT !.status = "running"] /\ token'[j] = jb[j].attempt
              /\ task'[j] = [a \in Attempts |-> IF a = jb[j].attempt
                                 THEN [ts[j][a] EXCEPT !.pc = "spawned"] ELSE ts[j][a]]
            BY <1>2, <2>2
        <3>2. jb[j].status = "queued"
            BY <1>1, <2>2
        <3>3. QED
            BY <2>1, <3>1, <3>2, QueuedStarts
    <2>3. CASE j \notin started
        <3>1. ts[j] = [a \in Attempts |-> ts[j][a]]
            BY <2>1 DEF JobOK, JobTypes
        <3>2. job'[j] = jb[j] /\ token'[j] = tk[j] /\ task'[j] = ts[j]
            BY <1>2, <2>3, <3>1
        <3>3. QED
            BY <2>1, <3>2
    <2>4. QED
        BY <2>2, <2>3
<1>4. QED
    BY <1>2, <1>3 DEF TableOK

\* One job's values change, and stay in order.
LEMMA OneJobChanges ==
    ASSUME NEW jb, NEW tk, NEW ts, NEW ak, NEW d, NEW w, TableOK(jb, tk, ts, ak, d, w),
           NEW jb2, NEW tk2, NEW ts2, NEW ak2, NEW d2, NEW w2, NEW j \in Jobs,
           \A i \in Jobs \ {j} : /\ jb2[i] = jb[i] /\ tk2[i] = tk[i] /\ ts2[i] = ts[i]
                                 /\ ak2[i] = ak[i] /\ d2[i] = d[i] /\ w2[i] = w[i],
           JobOK(j, jb2[j], tk2[j], ts2[j], ak2[j], d2[j], w2[j])
    PROVE  TableOK(jb2, tk2, ts2, ak2, d2, w2)
<1> SUFFICES ASSUME NEW i \in Jobs
             PROVE  JobOK(i, jb2[i], tk2[i], ts2[i], ak2[i], d2[i], w2[i])
    BY DEF TableOK
<1>1. CASE i = j
    BY <1>1
<1>2. CASE i # j
    BY <1>2 DEF TableOK
<1>3. QED
    BY <1>1, <1>2

JobsInv == Shapes /\ JobsOK

LEMMA InitIInv == Init => IInv
<1> SUFFICES ASSUME Init PROVE IInv
    OBVIOUS
<1>1. Shapes
    BY DEF Init, Shapes
<1>2. ASSUME NEW j \in Jobs
      PROVE  JobOK(j, job[j], token[j], task[j], asked[j], dest[j], whole[j])
    <2>1. /\ job[j] = [status |-> "new", attempt |-> 0, transferred |-> 0] /\ token[j] = None
          /\ task[j] = [a \in Attempts |-> FreshTask] /\ asked[j] = FALSE
          /\ dest[j] = None /\ whole[j] = {}
        BY DEF Init, FreshTask
    <2>2. QED
        BY <2>1, NewJob
<1>3. LinksOK
    BY ConstantsAssumption DEF Init, LinksOK, ClientNeedsSession
<1>4. QED
    BY <1>1, <1>2, <1>3 DEF IInv, JobsOK, TableOK

LEMMA EnqueueKeeps ==
    ASSUME JobsInv, NEW j \in Jobs, enqueue_transfer(j) PROVE JobsInv'
<1> DEFINE jb == [job EXCEPT ![j].status = "queued"]
<1>1. jb[j] = [job[j] EXCEPT !.status = "queued"] /\ \A i \in Jobs \ {j} : jb[i] = job[i]
    BY DEF JobsInv, Shapes
<1>2. JobOK(j, job[j], token[j], task[j], asked[j], dest[j], whole[j])
    BY DEF JobsInv, JobsOK, TableOK
<1>3. job[j].status = "new"
    BY DEF enqueue_transfer
<1>4. pump_transfer_queue(jb, Append(order, j), token, task) /\ UNCHANGED <<asked, files>>
    BY DEF enqueue_transfer
<1> HIDE DEF jb
<1>5. JobOK(j, jb[j], token[j], task[j], asked[j], dest[j], whole[j])
    BY <1>1, <1>2, <1>3, NewIsQueued
<1>6. TableOK(jb, token, task, asked, dest, whole)
    BY <1>1, <1>5 DEF JobsInv, JobsOK, TableOK
<1>7. /\ TableOK(job', token', task', asked, dest, whole)
      /\ job' = [i \in Jobs |-> job'[i]] /\ token' = [i \in Jobs |-> token'[i]]
      /\ task' = [i \in Jobs |-> task'[i]]
    BY <1>4, <1>6, PumpKeeps
<1>8. QED
    BY <1>4, <1>7 DEF JobsInv, JobsOK, Shapes, files

\* One job's values change without the pump.
LEMMA OneJobSteps ==
    ASSUME JobsInv, Shapes', NEW j \in Jobs,
           \A i \in Jobs \ {j} :
               /\ job'[i] = job[i] /\ token'[i] = token[i] /\ task'[i] = task[i]
               /\ asked'[i] = asked[i] /\ dest'[i] = dest[i] /\ whole'[i] = whole[i],
           JobOK(j, job'[j], token'[j], task'[j], asked'[j], dest'[j], whole'[j])
    PROVE  JobsInv'
<1>1. ASSUME NEW i \in Jobs
      PROVE  JobOK(i, job'[i], token'[i], task'[i], asked'[i], dest'[i], whole'[i])
    <2>1. CASE i = j
        BY <2>1
    <2>2. CASE i # j
        BY <2>2 DEF JobsInv, JobsOK, TableOK
    <2>3. QED
        BY <2>1, <2>2
<1>2. QED
    BY <1>1 DEF JobsInv, JobsOK, TableOK

LEMMA CancelKeeps ==
    ASSUME JobsInv, NEW j \in Jobs, cancel_transfer(j) PROVE JobsInv'
<1> DEFINE jb == [job EXCEPT ![j].status = "cancelled"]
           tk == [token EXCEPT ![j] = None]
           ts == Cancel(task, {j})
           ak == [asked EXCEPT ![j] = TRUE]
<1>1. ASSUME NEW i \in Jobs
      PROVE  /\ JobOK(i, job[i], token[i], task[i], asked[i], dest[i], whole[i])
             /\ task[i] = [a \in Attempts |-> task[i][a]]
    BY DEF JobsInv, JobsOK, TableOK, JobOK, JobTypes
<1>2. /\ jb[j] = [job[j] EXCEPT !.status = "cancelled"] /\ tk[j] = None /\ ak[j] = TRUE
      /\ \A i \in Jobs \ {j} : jb[i] = job[i] /\ tk[i] = token[i] /\ ak[i] = asked[i]
      /\ ak = [i \in Jobs |-> ak[i]]
    BY DEF JobsInv, Shapes
<1>3. ts[j] = Told(task[j], token[j])
    BY DEF Cancel, Told
<1>4. \A i \in Jobs \ {j} : ts[i] = task[i]
    BY <1>1 DEF Cancel
<1>5. /\ job[j].status \in {"queued", "running"}
      /\ pump_transfer_queue(jb, order, tk, ts) /\ asked' = ak /\ UNCHANGED files
    BY DEF cancel_transfer
<1> HIDE DEF jb, tk, ts, ak
<1>6. JobOK(j, jb[j], tk[j], ts[j], ak[j], dest[j], whole[j])
    <2>1. JobOK(j, [job[j] EXCEPT !.status = "cancelled"], None, Told(task[j], token[j]),
                TRUE, dest[j], whole[j])
        BY <1>1, <1>5, CancelledJob
    <2>2. QED
        BY <1>2, <1>3, <2>1
<1>7. TableOK(jb, tk, ts, ak, dest, whole)
    BY <1>2, <1>4, <1>6 DEF JobsInv, JobsOK, TableOK
<1>8. /\ TableOK(job', token', task', ak, dest, whole)
      /\ job' = [i \in Jobs |-> job'[i]] /\ token' = [i \in Jobs |-> token'[i]]
      /\ task' = [i \in Jobs |-> task'[i]]
    BY <1>5, <1>7, PumpKeeps
<1>9. QED
    BY <1>2, <1>5, <1>8 DEF JobsInv, JobsOK, Shapes, files

LEMMA RetryKeeps ==
    ASSUME JobsInv, NEW j \in Jobs, retry_transfer(j) PROVE JobsInv'
<1> DEFINE e2 == [status |-> "queued", attempt |-> job[j].attempt + 1, transferred |-> 0]
           jb == [job EXCEPT ![j] = e2]
           ak == [asked EXCEPT ![j] = FALSE]
<1>1. /\ jb[j] = e2 /\ ak[j] = FALSE
      /\ \A i \in Jobs \ {j} : jb[i] = job[i] /\ ak[i] = asked[i]
      /\ ak = [i \in Jobs |-> ak[i]]
    BY DEF JobsInv, Shapes
<1>2. /\ job[j].status \in {"failed", "cancelled"} /\ job[j].attempt + 1 < MaxAttempts
      /\ pump_transfer_queue(jb, order, token, task) /\ asked' = ak /\ UNCHANGED files
    BY DEF retry_transfer
<1>3. JobOK(j, job[j], token[j], task[j], asked[j], dest[j], whole[j])
    BY DEF JobsInv, JobsOK, TableOK
<1>4. JobOK(j, e2, token[j], task[j], FALSE, dest[j], whole[j])
    BY <1>2, <1>3, RetriedJob
<1> HIDE DEF e2, jb, ak
<1>5. TableOK(jb, token, task, ak, dest, whole)
    BY <1>1, <1>4 DEF JobsInv, JobsOK, TableOK
<1>6. /\ TableOK(job', token', task', ak, dest, whole)
      /\ job' = [i \in Jobs |-> job'[i]] /\ token' = [i \in Jobs |-> token'[i]]
      /\ task' = [i \in Jobs |-> task'[i]]
    BY <1>2, <1>5, PumpKeeps
<1>7. QED
    BY <1>1, <1>2, <1>6 DEF JobsInv, JobsOK, Shapes, files

LEMMA ClearKeeps == ASSUME JobsInv, clear_finished PROVE JobsInv'
<1>1. ASSUME NEW j \in Jobs
      PROVE  JobOK(j, job'[j], token[j], task[j], asked[j], dest[j], whole[j])
    <2>1. JobOK(j, job[j], token[j], task[j], asked[j], dest[j], whole[j])
        BY DEF JobsInv, JobsOK, TableOK
    <2>2. job'[j] = IF is_finished(j) THEN [job[j] EXCEPT !.status = "cleared"] ELSE job[j]
        BY DEF clear_finished
    <2>3. CASE is_finished(j)
        BY <2>1, <2>2, <2>3, ClearedJob DEF is_finished
    <2>4. CASE ~is_finished(j)
        BY <2>1, <2>2, <2>4
    <2>5. QED
        BY <2>3, <2>4
<1>2. job' = [j \in Jobs |-> job'[j]] /\ UNCHANGED <<token, task, asked, dest, whole>>
    BY DEF clear_finished, files
<1>3. QED
    BY <1>1, <1>2 DEF JobsInv, JobsOK, TableOK, Shapes

LEMMA LoseSessionKeeps ==
    ASSUME JobsInv, NEW s \in Sessions, LoseSession(s) PROVE JobsInv'
<1>1. ASSUME NEW j \in Jobs
      PROVE  JobOK(j, job'[j], token'[j], task'[j], asked'[j], dest[j], whole[j])
    <2>1. JobOK(j, job[j], token[j], task[j], asked[j], dest[j], whole[j])
        BY DEF JobsInv, JobsOK, TableOK
    <2>2. task[j] = [a \in Attempts |-> task[j][a]] /\ asked[j] \in BOOLEAN
        BY <2>1 DEF JobOK, JobTypes
    <2>3. CASE SessionOf[j] = s /\ job[j].status \in {"queued", "running"}
        <3>1. /\ job'[j] = [job[j] EXCEPT !.status = "cancelled"] /\ token'[j] = None
              /\ task'[j] = Told(task[j], token[j])
            BY <2>3 DEF LoseSession, Cancel, Told
        <3>2. asked'[j] = TRUE
            BY <2>3 DEF LoseSession
        <3>3. JobOK(j, [job[j] EXCEPT !.status = "cancelled"], None, Told(task[j], token[j]),
                    TRUE, dest[j], whole[j])
            BY <2>1, <2>3, CancelledJob
        <3>4. QED
            BY <3>1, <3>2, <3>3
    <2>4. CASE ~(SessionOf[j] = s /\ job[j].status \in {"queued", "running"})
        <3>1. job'[j] = job[j] /\ token'[j] = IF SessionOf[j] = s THEN None ELSE token[j]
            BY <2>4 DEF LoseSession
        <3>2. asked'[j] = asked[j]
            BY <2>2, <2>4 DEF LoseSession
        <3>3. SessionOf[j] = s => token[j] = None
            BY <2>1, <2>4 DEF JobOK, TokenFits
        <3>4. task'[j] = [a \in Attempts |->
                             IF SessionOf[j] = s /\ token[j] = a
                             THEN [task[j][a] EXCEPT !.cancelled = TRUE] ELSE task[j][a]]
            BY DEF LoseSession, Cancel
        <3>5. ASSUME NEW a \in Attempts PROVE ~(SessionOf[j] = s /\ token[j] = a)
            BY <3>3, AttemptsAreNumbers
        <3>6. task'[j] = task[j]
            BY <2>2, <3>4, <3>5
        <3>7. token'[j] = token[j]
            BY <3>1, <3>3
        <3>8. QED
            BY <2>1, <3>1, <3>2, <3>6, <3>7
    <2>5. QED
        BY <2>3, <2>4
<1>2. /\ job' = [j \in Jobs |-> job'[j]] /\ token' = [j \in Jobs |-> token'[j]]
      /\ task' = [j \in Jobs |-> task'[j]] /\ asked' = [j \in Jobs |-> asked'[j]]
      /\ UNCHANGED <<dest, whole>>
    BY DEF LoseSession, Cancel, files
<1>3. QED
    BY <1>1, <1>2 DEF JobsInv, JobsOK, TableOK, Shapes
-----------------------------------------------------------------------------
(* The steps of a task.                                                    *)

\* A task at work moves, and no entry does.
LEMMA TaskOf ==
    ASSUME JobsInv, NEW j \in Jobs, NEW a \in Attempts, NEW t2,
           task' = [task EXCEPT ![j][a] = t2]
    PROVE  /\ task'[j] = [task[j] EXCEPT ![a] = t2]
           /\ \A i \in Jobs \ {j} : task'[i] = task[i]
           /\ task' = [i \in Jobs |-> task'[i]]
BY DEF JobsInv, Shapes

LEMMA OwnJob ==
    ASSUME JobsInv, NEW j \in Jobs
    PROVE  /\ JobOK(j, job[j], token[j], task[j], asked[j], dest[j], whole[j])
           /\ \A a \in Attempts : task[j][a] \in TaskRecords
           /\ \A a \in Attempts : TaskCoherent(j, a, task[j][a], whole[j])
BY DEF JobsInv, JobsOK, TableOK, JobOK, JobTypes

\* Ends, when the job's values are in order after it.
LEMMA AttemptEnds ==
    ASSUME JobsInv, NEW j \in Jobs, NEW a \in Attempts, NEW r, Ends(j, a, r),
           dest' = [i \in Jobs |-> dest'[i]], whole' = [i \in Jobs |-> whole'[i]],
           \A i \in Jobs \ {j} : dest'[i] = dest[i] /\ whole'[i] = whole[i],
           Ended(j, job[j], token[j], task[j], asked[j], dest'[j], whole'[j], a, r)
    PROVE  JobsInv'
<1> DEFINE jb == [job EXCEPT ![j] = IF @.attempt = a THEN Outcome(j, a, r) ELSE @]
           tk == [token EXCEPT ![j] = IF @ = a THEN None ELSE @]
           ts == [task EXCEPT ![j][a] = Over(@, r)]
<1>1. pump_transfer_queue(jb, order, tk, ts) /\ asked' = asked
    BY DEF Ends
<1>2. /\ jb[j] = EntryAfter(job[j], task[j][a], a, r)
      /\ \A i \in Jobs \ {j} : jb[i] = job[i]
    BY DEF JobsInv, Shapes, Outcome, EntryAfter
<1>3. /\ tk[j] = (IF token[j] = a THEN None ELSE token[j])
      /\ \A i \in Jobs \ {j} : tk[i] = token[i]
    BY DEF JobsInv, Shapes
<1>4. /\ ts[j] = [task[j] EXCEPT ![a] = Over(@, r)]
      /\ \A i \in Jobs \ {j} : ts[i] = task[i]
    BY DEF JobsInv, Shapes
<1> HIDE DEF jb, tk, ts
<1>5. JobOK(j, jb[j], tk[j], ts[j], asked[j], dest'[j], whole'[j])
    BY <1>2, <1>3, <1>4 DEF Ended
<1>6. TableOK(jb, tk, ts, asked, dest', whole')
    BY <1>2, <1>3, <1>4, <1>5 DEF JobsInv, JobsOK, TableOK
<1>7. /\ TableOK(job', token', task', asked, dest', whole')
      /\ job' = [i \in Jobs |-> job'[i]] /\ token' = [i \in Jobs |-> token'[i]]
      /\ task' = [i \in Jobs |-> task'[i]]
    BY <1>1, <1>6, PumpKeeps
<1>8. QED
    BY <1>1, <1>7 DEF JobsInv, JobsOK, Shapes

\* A task gives up before it has touched the destination.
LEMMA FailsKeeps ==
    ASSUME JobsInv, NEW j \in Jobs, NEW a \in Attempts,
           NEW r \in {"cancelled", "connection", "other"}, Fails(j, a, r),
           task[j][a].pc \in Early \ {"none"}, r = "cancelled" => task[j][a].cancelled
    PROVE  JobsInv'
<1>1. JobOK(j, job[j], token[j], task[j], asked[j], dest[j], whole[j])
    BY OwnJob
<1>2. Ends(j, a, r) /\ dest' = dest /\ whole' = whole
    BY DEF Fails, files
<1>3. task[j][a].pc \notin {"none", "over"} /\ dest[j] = dest[j]
    BY DEF Early
<1>4. Ended(j, job[j], token[j], task[j], asked[j], dest[j], whole[j], a, r)
    BY <1>1, <1>3, TaskFails
<1>5. /\ dest' = [i \in Jobs |-> dest'[i]] /\ whole' = [i \in Jobs |-> whole'[i]]
      /\ \A i \in Jobs \ {j} : dest'[i] = dest[i] /\ whole'[i] = whole[i]
    BY <1>2 DEF JobsInv, Shapes
<1>6. Ended(j, job[j], token[j], task[j], asked[j], dest'[j], whole'[j], a, r)
    BY <1>2, <1>4
<1>7. QED
    BY <1>2, <1>5, <1>6, AttemptEnds

\* A task that looks for a client, or waits for one, goes on.
LEMMA EarlyKeeps ==
    ASSUME JobsInv, NEW j \in Jobs, NEW a \in Attempts,
           NEW t2 \in TaskRecords, t2.pc \in Early \ {"none"},
           task[j][a].pc \in Early \ {"none"},
           t2.cancelled = task[j][a].cancelled, t2.copied = task[j][a].copied,
           t2.result = task[j][a].result,
           task' = [task EXCEPT ![j][a] = t2], UNCHANGED <<table, files>>
    PROVE  JobsInv'
<1>1. JobOK(j, job[j], token[j], [task[j] EXCEPT ![a] = t2], asked[j], dest[j], whole[j])
    BY OwnJob, EarlyMove
<1>2. UNCHANGED <<job, token, asked, dest, whole>>
    BY DEF table, files
<1>3. /\ task'[j] = [task[j] EXCEPT ![a] = t2]
      /\ \A i \in Jobs \ {j} : task'[i] = task[i]
      /\ task' = [i \in Jobs |-> task'[i]]
    BY TaskOf
<1>4. Shapes'
    BY <1>2, <1>3 DEF JobsInv, Shapes
<1>5. QED
    BY <1>1, <1>2, <1>3, <1>4, OneJobSteps

\* A client is dropped, and no tab is connected or loses its connection.
LEMMA FailsKeepsLinks ==
    ASSUME LinksOK, NEW j \in Jobs, NEW a, NEW r, Fails(j, a, r) PROVE LinksOK'
BY ConstantsAssumption DEF Fails, Drops, LinksOK, ClientNeedsSession

LEMMA FindClientKeeps ==
    ASSUME IInv, NEW j \in Jobs, NEW a \in Attempts, FindClient(j, a)
    PROVE  IInv'
<1>1. JobsInv /\ LinksOK /\ SessionOf[j] \in Sessions
    BY ConstantsAssumption DEF IInv, JobsInv
<1>2. task[j][a] \in TaskRecords /\ task[j][a].pc = "spawned"
    BY <1>1, OwnJob DEF FindClient, At
<1>3. CASE Step(j, a, "ready") /\ UNCHANGED <<table, links, files>>
    <2> DEFINE t2 == [task[j][a] EXCEPT !.pc = "ready"]
    <2>1. /\ t2 \in TaskRecords /\ t2.pc = "ready" /\ t2.cancelled = task[j][a].cancelled
          /\ t2.copied = task[j][a].copied /\ t2.result = task[j][a].result
        BY <1>2 DEF TaskRecords, Places
    <2>2. task' = [task EXCEPT ![j][a] = t2] /\ UNCHANGED <<table, files>>
        BY <1>3 DEF Step
    <2> HIDE DEF t2
    <2>3. JobsInv'
        BY <1>1, <1>2, <2>1, <2>2, EarlyKeeps DEF Early
    <2>4. QED
        BY <1>1, <1>3, <2>3 DEF IInv, JobsInv, LinksOK, ClientNeedsSession, links
<1>4. CASE /\ conn[SessionOf[j]] # None
           /\ task' = [task EXCEPT ![j][a] = [@ EXCEPT !.pc = "opening",
                                                      !.via = conn[SessionOf[j]]]]
           /\ UNCHANGED <<table, links, files>>
    <2> DEFINE t2 == [task[j][a] EXCEPT !.pc = "opening", !.via = conn[SessionOf[j]]]
    <2>0. conn[SessionOf[j]] \in Conns \union {None}
        BY <1>1 DEF LinksOK
    <2>1. /\ t2 \in TaskRecords /\ t2.pc = "opening" /\ t2.cancelled = task[j][a].cancelled
          /\ t2.copied = task[j][a].copied /\ t2.result = task[j][a].result
        BY <1>2, <2>0 DEF TaskRecords, Places
    <2>2. task' = [task EXCEPT ![j][a] = t2] /\ UNCHANGED <<table, files>>
        BY <1>4
    <2> HIDE DEF t2
    <2>3. JobsInv'
        BY <1>1, <1>2, <2>1, <2>2, EarlyKeeps DEF Early
    <2>4. QED
        BY <1>1, <1>4, <2>3 DEF IInv, JobsInv, LinksOK, ClientNeedsSession, links
<1>5. CASE Fails(j, a, "connection")
    <2>1. JobsInv'
        BY <1>1, <1>2, <1>5, FailsKeeps DEF Early
    <2>2. QED
        BY <1>1, <1>5, <2>1, FailsKeepsLinks DEF IInv, JobsInv
<1>6. QED
    BY <1>3, <1>4, <1>5 DEF FindClient

LEMMA OpenedKeeps ==
    ASSUME IInv, NEW j \in Jobs, NEW a \in Attempts, Opened(j, a)
    PROVE  IInv'
<1>1. JobsInv /\ LinksOK /\ SessionOf[j] \in Sessions
    BY ConstantsAssumption DEF IInv, JobsInv
<1>2. task[j][a] \in TaskRecords /\ task[j][a].pc = "opening"
    BY <1>1, OwnJob DEF Opened, At
<1>3. CASE /\ conn[SessionOf[j]] # None
           /\ sftp' = IF sftp[SessionOf[j]] = None
                      THEN [sftp EXCEPT ![SessionOf[j]] = task[j][a].via] ELSE sftp
           /\ task' = [task EXCEPT ![j][a] = [@ EXCEPT !.pc = "ready", !.via = None]]
           /\ UNCHANGED <<table, conn, conns, files>>
    <2> DEFINE t2 == [task[j][a] EXCEPT !.pc = "ready", !.via = None]
    <2>1. /\ t2 \in TaskRecords /\ t2.pc = "ready" /\ t2.cancelled = task[j][a].cancelled
          /\ t2.copied = task[j][a].copied /\ t2.result = task[j][a].result
        BY <1>2 DEF TaskRecords, Places
    <2>2. task' = [task EXCEPT ![j][a] = t2] /\ UNCHANGED <<table, files>>
        BY <1>3
    <2> HIDE DEF t2
    <2>3. JobsInv'
        BY <1>1, <1>2, <2>1, <2>2, EarlyKeeps DEF Early
    <2>4. task[j][a].via \in Conns \union {None}
        BY <1>2 DEF TaskRecords
    <2>5. LinksOK'
        BY <1>1, <1>3, <2>4 DEF LinksOK, ClientNeedsSession
    <2>6. QED
        BY <2>3, <2>5 DEF IInv, JobsInv
<1>4. CASE Fails(j, a, "connection")
    <2>1. JobsInv'
        BY <1>1, <1>2, <1>4, FailsKeeps DEF Early
    <2>2. QED
        BY <1>1, <1>4, <2>1, FailsKeepsLinks DEF IInv, JobsInv
<1>5. QED
    BY <1>3, <1>4 DEF Opened

LEMMA EarlyFailuresKeep ==
    ASSUME IInv, NEW j \in Jobs, NEW a \in Attempts, OpenFails(j, a) \/ StartFails(j, a)
    PROVE  IInv'
<1>1. JobsInv /\ LinksOK
    BY DEF IInv, JobsInv
<1>2. PICK r \in {"cancelled", "connection", "other"} :
          Fails(j, a, r) /\ (r = "cancelled" => task[j][a].cancelled)
    BY DEF OpenFails, StartFails
<1>3. task[j][a].pc \in Early \ {"none"}
    BY DEF OpenFails, StartFails, At, Early
<1>4. JobsInv'
    BY <1>1, <1>2, <1>3, FailsKeeps
<1>5. QED
    BY <1>1, <1>2, <1>4, FailsKeepsLinks DEF IInv, JobsInv
LEMMA StartsKeeps ==
    ASSUME JobsInv, NEW j \in Jobs, NEW a \in Attempts, Starts(j, a)
    PROVE  JobsInv'
<1>1. /\ JobOK(j, job[j], token[j], task[j], asked[j], dest[j], whole[j])
      /\ dest[j] \in Attempts \union {None}
    BY OwnJob DEF JobOK, JobTypes
<1>2. task[j][a].pc = "ready" /\ ~task[j][a].cancelled /\ UNCHANGED <<job, token, asked>>
    BY DEF Starts, At, table
<1>3. CASE j \in Uploads
    <2> DEFINE h == IF dest[j] = None THEN a ELSE dest[j]
               t2 == [task[j][a] EXCEPT !.pc = "copying", !.handle = h]
    <2>1. h \in Attempts
        BY <1>1
    <2>2. /\ task' = [task EXCEPT ![j][a] = t2]
          /\ dest' = [dest EXCEPT ![j] = h] /\ whole' = [whole EXCEPT ![j] = @ \ {h}]
        BY <1>3 DEF Starts
    <2> HIDE DEF h
    <2>3. JobOK(j, job[j], token[j],
                [task[j] EXCEPT ![a] = [@ EXCEPT !.pc = "copying", !.handle = h]],
                asked[j], h, whole[j] \ {h})
        BY <1>1, <1>2, <1>3, <2>1, UploadStarts
    <2>4. JobOK(j, job[j], token[j], [task[j] EXCEPT ![a] = t2], asked[j], h, whole[j] \ {h})
        BY <2>3
    <2> HIDE DEF t2
    <2>5. /\ task'[j] = [task[j] EXCEPT ![a] = t2]
          /\ \A i \in Jobs \ {j} : task'[i] = task[i]
          /\ task' = [i \in Jobs |-> task'[i]]
        BY <2>2, TaskOf
    <2>6. /\ dest'[j] = h /\ whole'[j] = whole[j] \ {h}
          /\ \A i \in Jobs \ {j} : dest'[i] = dest[i] /\ whole'[i] = whole[i]
          /\ dest' = [i \in Jobs |-> dest'[i]] /\ whole' = [i \in Jobs |-> whole'[i]]
        BY <2>2 DEF JobsInv, Shapes
    <2>7. Shapes'
        BY <1>2, <2>5, <2>6 DEF JobsInv, Shapes
    <2>8. JobOK(j, job'[j], token'[j], task'[j], asked'[j], dest'[j], whole'[j])
        BY <1>2, <2>4, <2>5, <2>6
    <2>9. QED
        BY <1>2, <2>5, <2>6, <2>7, <2>8, OneJobSteps
<1>4. CASE j \notin Uploads
    <2> DEFINE t2 == [task[j][a] EXCEPT !.pc = "copying", !.handle = a]
    <2>1. task' = [task EXCEPT ![j][a] = t2] /\ dest' = dest /\ whole' = whole
        BY <1>4 DEF Starts, files
    <2>2. JobOK(j, job[j], token[j],
                [task[j] EXCEPT ![a] = [@ EXCEPT !.pc = "copying", !.handle = a]],
                asked[j], dest[j], whole[j])
        BY <1>1, <1>2, <1>4, DownloadStarts
    <2>3. JobOK(j, job[j], token[j], [task[j] EXCEPT ![a] = t2], asked[j], dest[j], whole[j])
        BY <2>2
    <2> HIDE DEF t2
    <2>4. /\ task'[j] = [task[j] EXCEPT ![a] = t2]
          /\ \A i \in Jobs \ {j} : task'[i] = task[i]
          /\ task' = [i \in Jobs |-> task'[i]]
        BY <2>1, TaskOf
    <2>5. Shapes'
        BY <1>2, <2>1, <2>4 DEF JobsInv, Shapes
    <2>6. JobOK(j, job'[j], token'[j], task'[j], asked'[j], dest'[j], whole'[j])
        BY <1>2, <2>1, <2>3, <2>4
    <2>7. QED
        BY <1>2, <2>1, <2>4, <2>5, <2>6, OneJobSteps
<1>5. QED
    BY <1>3, <1>4

LEMMA CopiesKeeps ==
    ASSUME JobsInv, NEW j \in Jobs, NEW a \in Attempts, Copies(j, a)
    PROVE  JobsInv'
<1> DEFINE t2 == [task[j][a] EXCEPT !.copied = @ + 1]
           e2 == [job[j] EXCEPT !.transferred = task[j][a].copied + 1]
<1>1. JobOK(j, job[j], token[j], task[j], asked[j], dest[j], whole[j])
    BY OwnJob
<1>2. /\ task[j][a].pc = "copying" /\ ~task[j][a].cancelled /\ task[j][a].copied < Chunks
      /\ UNCHANGED <<token, asked, dest, whole>>
      /\ task' = [task EXCEPT ![j][a] = t2]
    BY DEF Copies, At, files
<1>3. /\ job[j].attempt = a /\ job[j].status = "running"
      /\ JobOK(j, [job[j] EXCEPT !.transferred = task[j][a].copied + 1], token[j],
               [task[j] EXCEPT ![a].copied = @ + 1], asked[j], dest[j], whole[j])
    BY <1>1, <1>2, CopiesOn
<1>4. JobOK(j, e2, token[j], [task[j] EXCEPT ![a] = t2], asked[j], dest[j], whole[j])
    BY <1>3
<1>5. job' = [job EXCEPT ![j] = e2]
    BY <1>3 DEF Copies
<1> HIDE DEF t2, e2
<1>6. /\ task'[j] = [task[j] EXCEPT ![a] = t2]
      /\ \A i \in Jobs \ {j} : task'[i] = task[i]
      /\ task' = [i \in Jobs |-> task'[i]]
    BY <1>2, TaskOf
<1>7. job'[j] = e2 /\ \A i \in Jobs \ {j} : job'[i] = job[i]
    BY <1>5 DEF JobsInv, Shapes
<1>8. Shapes'
    BY <1>2, <1>5, <1>6 DEF JobsInv, Shapes
<1>9. JobOK(j, job'[j], token'[j], task'[j], asked'[j], dest'[j], whole'[j])
    BY <1>2, <1>4, <1>6, <1>7
<1>10. QED
    BY <1>2, <1>6, <1>7, <1>8, <1>9, OneJobSteps

\* A task turns to removing or renaming what it wrote.
LEMMA TurnKeeps ==
    ASSUME JobsInv, NEW j \in Jobs, NEW a \in Attempts,
           task[j][a].pc \in {"copying", "renaming"},
           NEW r \in {"ok", "other", "cancelled"},
           NEW w \in SUBSET Attempts, whole[j] \subseteq w,
           r = "ok" => j \notin Uploads /\ a \in w,
           r = "cancelled" => task[j][a].cancelled,
           NEW p, p = IF r = "ok" THEN "renaming" ELSE "removing",
           task' = [task EXCEPT ![j][a] = [@ EXCEPT !.pc = p, !.result = r]],
           whole'[j] = w, whole' = [i \in Jobs |-> whole'[i]],
           \A i \in Jobs \ {j} : whole'[i] = whole[i],
           UNCHANGED <<table, dest>>
    PROVE  JobsInv'
<1> DEFINE t2 == [task[j][a] EXCEPT !.pc = p, !.result = r]
<1>1. JobOK(j, job[j], token[j], task[j], asked[j], dest[j], whole[j])
    BY OwnJob
<1>2. JobOK(j, job[j], token[j], [task[j] EXCEPT ![a] = [@ EXCEPT !.pc = p, !.result = r]],
            asked[j], dest[j], w)
    BY <1>1, CopyTurns
<1>3. JobOK(j, job[j], token[j], [task[j] EXCEPT ![a] = t2], asked[j], dest[j], w)
    BY <1>2
<1>4. task' = [task EXCEPT ![j][a] = t2] /\ UNCHANGED <<job, token, asked, dest>>
    BY DEF table
<1> HIDE DEF t2
<1>5. /\ task'[j] = [task[j] EXCEPT ![a] = t2]
      /\ \A i \in Jobs \ {j} : task'[i] = task[i]
      /\ task' = [i \in Jobs |-> task'[i]]
    BY ONLY JobsInv, j \in Jobs, a \in Attempts, <1>4, TaskOf
<1>6. Shapes'
    BY <1>4, <1>5 DEF JobsInv, Shapes
<1>7. JobOK(j, job'[j], token'[j], task'[j], asked'[j], dest'[j], whole'[j])
    BY <1>3, <1>4, <1>5
<1>8. QED
    BY <1>4, <1>5, <1>6, <1>7, OneJobSteps

LEMMA CopyEndsKeeps ==
    ASSUME JobsInv, NEW j \in Jobs, NEW a \in Attempts, CopyEnds(j, a)
    PROVE  JobsInv'
<1> DEFINE t == task[j][a]
<1>1. /\ JobOK(j, job[j], token[j], task[j], asked[j], dest[j], whole[j])
      /\ t \in TaskRecords /\ TaskCoherent(j, a, t, whole[j])
    BY OwnJob
<1>2. t.pc = "copying" /\ dest' = dest
    BY DEF CopyEnds, At
<1>3. PICK r \in {"ok", "other", "cancelled"} :
         /\ r = "ok" => t.copied = Chunks /\ ~t.cancelled
         /\ r = "cancelled" => t.cancelled
         /\ whole' = IF r = "ok" THEN [whole EXCEPT ![j] = @ \union {t.handle}] ELSE whole
         /\ IF j \in Uploads /\ r = "ok"
            THEN Ends(j, a, "ok")
            ELSE /\ task' = [task EXCEPT ![j][a] = [@ EXCEPT
                       !.pc = IF r = "ok" THEN "renaming" ELSE "removing", !.result = r]]
                 /\ UNCHANGED table
    BY DEF CopyEnds
<1>4. t.handle # None /\ t.handle \in Attempts /\ (j \notin Uploads => t.handle = a)
    BY <1>1, <1>2 DEF TaskRecords, TaskCoherent
<1> DEFINE w == IF r = "ok" THEN whole[j] \union {t.handle} ELSE whole[j]
<1>5. /\ whole'[j] = w /\ whole' = [i \in Jobs |-> whole'[i]]
      /\ \A i \in Jobs \ {j} : whole'[i] = whole[i]
    BY <1>3 DEF JobsInv, Shapes
<1>6. w \in SUBSET Attempts /\ whole[j] \subseteq w
    BY <1>1, <1>4 DEF JobOK, JobTypes
<1>7. CASE j \in Uploads /\ r = "ok"
    <2>1. Ended(j, job[j], token[j], task[j], asked[j], dest[j], whole[j] \union {t.handle}, a, "ok")
        BY <1>1, <1>2, <1>3, <1>7, UploadDone
    <2>2. Ended(j, job[j], token[j], task[j], asked[j], dest'[j], whole'[j], a, "ok")
        BY <1>2, <1>5, <1>7, <2>1
    <2>3. /\ dest' = [i \in Jobs |-> dest'[i]]
          /\ \A i \in Jobs \ {j} : dest'[i] = dest[i] /\ whole'[i] = whole[i]
        BY <1>2, <1>5 DEF JobsInv, Shapes
    <2>4. Ends(j, a, "ok")
        BY <1>3, <1>7
    <2>5. QED
        BY <1>5, <2>2, <2>3, <2>4, AttemptEnds
<1>8. CASE ~(j \in Uploads /\ r = "ok")
    <2>1. PICK p : p = IF r = "ok" THEN "renaming" ELSE "removing"
        OBVIOUS
    <2>2. /\ task' = [task EXCEPT ![j][a] = [@ EXCEPT !.pc = p, !.result = r]]
          /\ UNCHANGED <<table, dest>>
        BY <1>2, <1>3, <1>8, <2>1
    <2>3. /\ r = "ok" => j \notin Uploads /\ a \in w
          /\ r = "cancelled" => task[j][a].cancelled
        BY <1>3, <1>4, <1>8
    <2> HIDE DEF w
    <2>4. QED
        BY <1>2, <1>5, <1>6, <2>1, <2>2, <2>3, TurnKeeps
<1>9. QED
    BY <1>7, <1>8

LEMMA RemovesKeeps ==
    ASSUME JobsInv, NEW j \in Jobs, NEW a \in Attempts, Removes(j, a)
    PROVE  JobsInv'
<1>1. /\ JobOK(j, job[j], token[j], task[j], asked[j], dest[j], whole[j])
      /\ TaskCoherent(j, a, task[j][a], whole[j])
    BY OwnJob
<1>2. /\ task[j][a].pc = "removing" /\ whole' = whole
      /\ dest' = dest \/ (j \in Uploads /\ dest' = [dest EXCEPT ![j] = None])
    BY DEF Removes, At
<1>3. PICK r : r = task[j][a].result
    OBVIOUS
<1>4. /\ r \in {"cancelled", "connection", "other"} /\ r # "connection"
      /\ r = "cancelled" => task[j][a].cancelled
    BY <1>1, <1>2, <1>3 DEF TaskCoherent
<1>5. Ends(j, a, r)
    BY <1>3 DEF Removes
<1>6. /\ dest' = [i \in Jobs |-> dest'[i]] /\ whole' = [i \in Jobs |-> whole'[i]]
      /\ \A i \in Jobs \ {j} : dest'[i] = dest[i] /\ whole'[i] = whole[i]
      /\ dest'[j] = dest[j] \/ (j \in Uploads /\ dest'[j] = None)
    BY <1>2 DEF JobsInv, Shapes
<1>7. dest'[j] = dest[j] \/ (j \in Uploads /\ dest'[j] = None /\ task[j][a].pc = "removing")
    BY <1>2, <1>6
<1>8. task[j][a].pc \notin {"none", "over"} /\ (r = "connection" => task[j][a].pc \in Early)
    BY <1>2, <1>4
<1>9. Ended(j, job[j], token[j], task[j], asked[j], dest'[j], whole[j], a, r)
    BY <1>1, <1>4, <1>7, <1>8, TaskFails
<1>10. Ended(j, job[j], token[j], task[j], asked[j], dest'[j], whole'[j], a, r)
    BY <1>2, <1>9
<1>11. QED
    BY <1>5, <1>6, <1>10, AttemptEnds

LEMMA RenamesKeeps ==
    ASSUME JobsInv, NEW j \in Jobs, NEW a \in Attempts, Renames(j, a)
    PROVE  JobsInv'
<1>1. /\ JobOK(j, job[j], token[j], task[j], asked[j], dest[j], whole[j])
      /\ TaskCoherent(j, a, task[j][a], whole[j]) /\ whole[j] \in SUBSET Attempts
    BY OwnJob DEF JobOK, JobTypes
<1>2. task[j][a].pc = "renaming" /\ whole' = whole
    BY DEF Renames, At
<1>3. j \notin Uploads /\ task[j][a].result = "ok"
    BY <1>1, <1>2 DEF TaskCoherent
<1>4. whole' = [i \in Jobs |-> whole'[i]] /\ \A i \in Jobs : whole'[i] = whole[i]
    BY <1>2 DEF JobsInv, Shapes
<1>5. CASE dest' = [dest EXCEPT ![j] = a] /\ Ends(j, a, task[j][a].result)
    <2>1. Ended(j, job[j], token[j], task[j], asked[j], a, whole[j], a, "ok")
        BY <1>1, <1>2, <1>3, DownloadDone
    <2>2. /\ dest' = [i \in Jobs |-> dest'[i]] /\ dest'[j] = a
          /\ \A i \in Jobs \ {j} : dest'[i] = dest[i]
        BY <1>5 DEF JobsInv, Shapes
    <2>3. Ended(j, job[j], token[j], task[j], asked[j], dest'[j], whole'[j], a, "ok")
        BY <1>4, <2>1, <2>2
    <2>4. Ends(j, a, "ok")
        BY <1>3, <1>5
    <2>5. QED
        BY <1>4, <2>2, <2>3, <2>4, AttemptEnds
<1>6. CASE /\ task' = [task EXCEPT ![j][a] = [@ EXCEPT !.pc = "removing", !.result = "other"]]
           /\ UNCHANGED <<table, dest>>
    <2>1. /\ whole[j] \subseteq whole[j] /\ task[j][a].pc \in {"copying", "renaming"}
          /\ "removing" = IF "other" = "ok" THEN "renaming" ELSE "removing"
          /\ "other" \in {"ok", "other", "cancelled"} /\ "other" # "ok" /\ "other" # "cancelled"
        BY <1>2
    <2>2. QED
        BY <1>1, <1>4, <1>6, <2>1, TurnKeeps
<1>7. QED
    BY <1>5, <1>6 DEF Renames

-----------------------------------------------------------------------------
LEMMA NextKeepsIInv == IInv /\ [Next]_vars => IInv'
<1> SUFFICES ASSUME IInv, [Next]_vars PROVE IInv'
    OBVIOUS
<1>1. JobsInv /\ LinksOK
    BY DEF IInv, JobsInv
<1>2. ASSUME NEW j \in Jobs, enqueue_transfer(j) \/ cancel_transfer(j) \/ retry_transfer(j)
      PROVE  IInv'
    <2>1. JobsInv'
        BY <1>1, <1>2, EnqueueKeeps, CancelKeeps, RetryKeeps
    <2>2. UNCHANGED links
        BY <1>2 DEF enqueue_transfer, cancel_transfer, retry_transfer
    <2>3. QED
        BY <1>1, <2>1, <2>2 DEF IInv, JobsInv, LinksOK, ClientNeedsSession, links
<1>3. CASE clear_finished
    <2>1. JobsInv' /\ UNCHANGED links
        BY <1>1, <1>3, ClearKeeps DEF clear_finished
    <2>2. QED
        BY <1>1, <2>1 DEF IInv, JobsInv, LinksOK, ClientNeedsSession, links
<1>4. ASSUME NEW s \in Sessions, LoseSession(s) PROVE IInv'
    <2>1. JobsInv'
        BY <1>1, <1>4, LoseSessionKeeps
    <2>2. /\ conn' = [conn EXCEPT ![s] = None] /\ sftp' = [sftp EXCEPT ![s] = None]
          /\ conns' = conns
        BY <1>4 DEF LoseSession
    <2>3. LinksOK'
        BY <1>1, <2>2 DEF LinksOK, ClientNeedsSession
    <2>4. QED
        BY <2>1, <2>3 DEF IInv, JobsInv
<1>5. ASSUME NEW s \in Sessions, Connect(s) PROVE IInv'
    <2>1. JobsInv'
        BY <1>1, <1>5 DEF Connect, table, files, JobsInv, JobsOK, TableOK, Shapes
    <2>2. conns[s] \in 0 .. MaxConns /\ conns[s] + 1 \in Conns /\ conns[s] + 1 # None
        BY <1>1, <1>5, ConstantsAssumption DEF LinksOK, Connect, Conns
    <2>3. LinksOK'
        BY <1>1, <1>5, <2>2, ConstantsAssumption DEF Connect, LinksOK, ClientNeedsSession, Conns
    <2>4. QED
        BY <2>1, <2>3 DEF IInv, JobsInv
<1>6. ASSUME NEW j \in Jobs, NEW a \in Attempts, Task(j, a) PROVE IInv'
    <2>1. CASE FindClient(j, a) \/ Opened(j, a)
        BY <2>1, FindClientKeeps, OpenedKeeps
    <2>2. CASE OpenFails(j, a) \/ StartFails(j, a)
        BY <2>2, EarlyFailuresKeep
    <2>3. CASE \/ Starts(j, a) \/ Copies(j, a) \/ CopyEnds(j, a)
               \/ Removes(j, a) \/ Renames(j, a)
        <3>1. JobsInv'
            BY <1>1, <2>3, StartsKeeps, CopiesKeeps, CopyEndsKeeps, RemovesKeeps, RenamesKeeps
        <3>2. UNCHANGED links
            BY <2>3 DEF Starts, Copies, CopyEnds, Removes, Renames
        <3>3. QED
            BY <1>1, <3>1, <3>2 DEF IInv, JobsInv, LinksOK, ClientNeedsSession, links
    <2>4. QED
        BY <1>6, <2>1, <2>2, <2>3 DEF Task
<1>7. CASE UNCHANGED vars
    BY <1>1, <1>7 DEF vars, table, links, files, IInv, Shapes, JobsOK, TableOK, LinksOK,
                      ClientNeedsSession
<1>8. QED
    BY <1>2, <1>3, <1>4, <1>5, <1>6, <1>7 DEF Next

\* What is invariant of every value of the constants, and whatever the tasks do.
LEMMA IInvAlways == Spec => []IInv
<1>1. QED
    BY InitIInv, NextKeepsIInv, PTL DEF Spec

-----------------------------------------------------------------------------
(* The order of the table.                                                 *)

\* Every job is in the table at most once, and one that was never enqueued is not.
OrderOK ==
    /\ order \in Seq(Jobs) /\ IsInjective(order)
    /\ \A i \in DOMAIN order : job[order[i]].status # "new"

JobTyped == job \in [Jobs -> JobRecords]

\* A job that was enqueued stays so.
Enqueued(jb, jb2) == \A j \in Jobs : jb[j].status # "new" => jb2[j].status # "new"

LEMMA OrderStays ==
    ASSUME OrderOK, UNCHANGED order, Enqueued(job, job') PROVE OrderOK'
<1>1. \A i \in DOMAIN order : order[i] \in Jobs
    BY DEF OrderOK
<1>2. QED
    BY <1>1 DEF OrderOK, Enqueued

LEMMA RetainedTyped ==
    ASSUME NEW V, NEW s \in Seq(V), NEW S, NEW r \in Retained(s, S)
    PROVE  /\ r \in Seq(V) /\ IsInjective(r)
           /\ \A i \in DOMAIN r : \E p \in DOMAIN s : s[p] = r[i]
<1> DEFINE K == Range(s) \cap S
           n == Cardinality(K)
<1>1. IsFiniteSet(1..Len(s))
    BY FS_Interval
<1>2. s \in Surjection(1..Len(s), Range(s))
    BY DEF Range, Surjection
<1>3. IsFiniteSet(Range(s))
    BY <1>1, <1>2, FS_Surjection
<1>4. IsFiniteSet(K)
    BY <1>3, FS_Subset
<1>5. n \in Nat
    BY <1>4, FS_CardinalityType
<1>6. r \in [1..n -> K] /\ \A i, k \in 1..n : i # k => r[i] # r[k]
    BY DEF Retained, SetToSeqs
<1>7. \A x \in K : x \in V /\ \E p \in DOMAIN s : s[p] = x
    BY DEF Range
<1> HIDE DEF K, n
<1>8. r \in [1..n -> V]
    BY <1>6, <1>7
<1>9. r \in Seq(V)
    BY <1>5, <1>8
<1>10. IsInjective(r)
    BY <1>6 DEF IsInjective
<1>11. QED
    BY <1>6, <1>7, <1>9, <1>10

\* The pump starts jobs that are queued and leaves the order alone.
LEMMA PumpShows ==
    ASSUME NEW jb, NEW o, NEW tk, NEW ts, jb \in [Jobs -> JobRecords],
           pump_transfer_queue(jb, o, tk, ts)
    PROVE  order' = o /\ \A j \in Jobs : job'[j].status \in {jb[j].status, "running"}
<1>1. order' = o
    BY DEF pump_transfer_queue
<1>2. ASSUME NEW j \in Jobs PROVE job'[j].status \in {jb[j].status, "running"}
    <2>1. job'[j] = jb[j] \/ job'[j] = [jb[j] EXCEPT !.status = "running"]
        BY DEF pump_transfer_queue
    <2>2. jb[j] \in JobRecords
        OBVIOUS
    <2>3. [jb[j] EXCEPT !.status = "running"].status = "running"
        BY <2>2 DEF JobRecords
    <2>4. QED
        BY <2>1, <2>3
<1>3. QED
    BY <1>1, <1>2

LEMMA PumpEnqueues ==
    ASSUME JobTyped, NEW j \in Jobs, NEW e \in JobRecords, e.status # "new",
           NEW o, NEW tk, NEW ts, pump_transfer_queue([job EXCEPT ![j] = e], o, tk, ts)
    PROVE  /\ order' = o /\ Enqueued(job, job') /\ job'[j].status # "new"
<1> DEFINE jb == [job EXCEPT ![j] = e]
<1>1. jb \in [Jobs -> JobRecords]
    BY DEF JobTyped
<1>2. jb[j] = e /\ \A i \in Jobs : i # j => jb[i] = job[i]
    BY DEF JobTyped
<1> HIDE DEF jb
<1>3. order' = o /\ \A i \in Jobs : job'[i].status \in {jb[i].status, "running"}
    BY <1>1, PumpShows DEF jb
<1>4. QED
    BY <1>2, <1>3 DEF Enqueued

LEMMA InvTypes ==
    ASSUME IInv
    PROVE  /\ JobTyped /\ token \in [Jobs -> Attempts \union {None}]
           /\ asked \in [Jobs -> BOOLEAN] /\ task \in [Jobs -> [Attempts -> TaskRecords]]
           /\ dest \in [Jobs -> Attempts \union {None}] /\ whole \in [Jobs -> SUBSET Attempts]
<1>1. \A j \in Jobs : JobTypes(job[j], token[j], task[j], asked[j], dest[j], whole[j])
    BY DEF IInv, JobsOK, TableOK, JobOK
<1>2. Shapes
    BY DEF IInv
<1>3. /\ JobTyped /\ token \in [Jobs -> Attempts \union {None}]
      /\ asked \in [Jobs -> BOOLEAN]
    BY <1>1, <1>2 DEF JobTypes, Shapes, JobTyped
<1>4. task \in [Jobs -> [Attempts -> TaskRecords]]
    BY <1>1, <1>2 DEF JobTypes, Shapes
<1>5. dest \in [Jobs -> Attempts \union {None}] /\ whole \in [Jobs -> SUBSET Attempts]
    BY <1>1, <1>2 DEF JobTypes, Shapes
<1>6. QED
    BY <1>3, <1>4, <1>5

LEMMA EnqueueOrders ==
    ASSUME OrderOK, JobTyped, NEW j \in Jobs, enqueue_transfer(j) PROVE OrderOK'
<1> DEFINE e == [job[j] EXCEPT !.status = "queued"]
           n == Len(order)
<1>1. e \in JobRecords /\ e.status = "queued"
    BY DEF JobTyped, JobRecords, Statuses
<1>2. pump_transfer_queue([job EXCEPT ![j] = e], Append(order, j), token, task)
    BY DEF enqueue_transfer
<1> HIDE DEF e
<1>3. /\ order' = Append(order, j) /\ Enqueued(job, job') /\ job'[j].status # "new"
    BY <1>1, <1>2, PumpEnqueues
<1>4. order \in Seq(Jobs) /\ n \in Nat /\ \A i \in 1..n : order[i] \in Jobs /\ order[i] # j
    BY DEF OrderOK, enqueue_transfer
<1>5. order' \in Seq(Jobs) /\ DOMAIN order' = 1..n + 1
    BY <1>3, <1>4
<1>6. order'[n + 1] = j /\ \A i \in 1..n : order'[i] = order[i]
    BY <1>3, <1>4
<1>7. ASSUME NEW i \in 1..n + 1, NEW k \in 1..n + 1, order'[i] = order'[k]
      PROVE  i = k
    <2>1. \A x \in 1..n + 1 : x # n + 1 => x \in 1..n
        BY <1>4
    <2>2. \A x, y \in 1..n : order[x] = order[y] => x = y
        BY <1>4 DEF OrderOK, IsInjective
    <2>3. QED
        BY <1>4, <1>6, <1>7, <2>1, <2>2
<1>8. ASSUME NEW i \in 1..n + 1 PROVE job'[order'[i]].status # "new"
    <2>1. i # n + 1 => i \in 1..n
        BY <1>4
    <2>2. \A x \in 1..n : job[order[x]].status # "new"
        BY <1>4 DEF OrderOK
    <2>3. QED
        BY <1>3, <1>4, <1>6, <2>1, <2>2 DEF Enqueued
<1> HIDE DEF n
<1>9. IsInjective(order')
    BY <1>5, <1>7 DEF IsInjective
<1>10. QED
    BY <1>5, <1>8, <1>9 DEF OrderOK

LEMMA ClearOrders == ASSUME OrderOK, JobTyped, clear_finished PROVE OrderOK'
<1>1. /\ order' \in Seq(Jobs) /\ IsInjective(order')
      /\ \A i \in DOMAIN order' : \E p \in DOMAIN order : order[p] = order'[i]
    BY RetainedTyped DEF OrderOK, clear_finished
<1>2. Enqueued(job, job')
    <2>1. ASSUME NEW j \in Jobs, job[j].status # "new" PROVE job'[j].status # "new"
        <3>1. job[j] \in JobRecords
            BY DEF JobTyped
        <3>2. job'[j] = [job[j] EXCEPT !.status = "cleared"] \/ job'[j] = job[j]
            BY DEF clear_finished
        <3>3. [job[j] EXCEPT !.status = "cleared"].status = "cleared"
            BY <3>1 DEF JobRecords
        <3>4. QED
            BY <2>1, <3>2, <3>3
    <2>2. QED
        BY <2>1 DEF Enqueued
<1>3. \A p \in DOMAIN order : order[p] \in Jobs /\ job[order[p]].status # "new"
    BY DEF OrderOK
<1>4. QED
    BY <1>1, <1>2, <1>3 DEF OrderOK, Enqueued

LEMMA TableKeepsOrder ==
    ASSUME OrderOK, JobTyped, NEW j \in Jobs, cancel_transfer(j) \/ retry_transfer(j)
    PROVE  OrderOK'
<1>1. CASE cancel_transfer(j)
    <2> DEFINE e == [job[j] EXCEPT !.status = "cancelled"]
    <2>1. e \in JobRecords /\ e.status = "cancelled"
        BY DEF JobTyped, JobRecords, Statuses
    <2>2. pump_transfer_queue([job EXCEPT ![j] = e], order, [token EXCEPT ![j] = None],
                              Cancel(task, {j}))
        BY <1>1 DEF cancel_transfer
    <2> HIDE DEF e
    <2>3. QED
        BY <2>1, <2>2, PumpEnqueues, OrderStays
<1>2. CASE retry_transfer(j)
    <2> DEFINE e == [status |-> "queued", attempt |-> job[j].attempt + 1, transferred |-> 0]
    <2>1. e \in JobRecords /\ e.status = "queued"
        <3>1. job[j].attempt + 1 \in Attempts
            BY <1>2, ConstantsAssumption DEF retry_transfer, JobTyped, JobRecords, Attempts
        <3>2. 0 \in 0 .. Chunks
            BY ConstantsAssumption
        <3>3. QED
            BY <3>1, <3>2 DEF JobRecords, Statuses
    <2>2. pump_transfer_queue([job EXCEPT ![j] = e], order, token, task)
        BY <1>2 DEF retry_transfer
    <2> HIDE DEF e
    <2>3. QED
        BY <2>1, <2>2, PumpEnqueues, OrderStays
<1>3. QED
    BY <1>1, <1>2

LEMMA EndsKeepsOrder ==
    ASSUME IInv, OrderOK, NEW j \in Jobs, NEW a \in Attempts, NEW r, Ends(j, a, r)
    PROVE  OrderOK'
<1> DEFINE e == IF job[j].attempt = a THEN Outcome(j, a, r) ELSE job[j]
           tk == [token EXCEPT ![j] = IF @ = a THEN None ELSE @]
           ts == [task EXCEPT ![j][a] = Over(@, r)]
<1>1. JobTyped /\ job[j] \in JobRecords /\ task[j][a].copied \in 0 .. Chunks
    BY InvTypes DEF JobTyped, TaskRecords
<1>2. e \in JobRecords
    BY <1>1 DEF Outcome, JobRecords, Statuses
<1>3. job[j].status # "new" => e.status # "new"
    BY <1>1 DEF Outcome, JobRecords
<1>4. pump_transfer_queue([job EXCEPT ![j] = e], order, tk, ts)
    BY DEF Ends
<1> DEFINE jb == [job EXCEPT ![j] = e]
<1> HIDE DEF e
<1>5. jb \in [Jobs -> JobRecords]
    BY <1>1, <1>2 DEF JobTyped
<1>6. jb[j] = e /\ \A i \in Jobs : i # j => jb[i] = job[i]
    BY <1>1 DEF JobTyped
<1> HIDE DEF jb, tk, ts
<1>7. order' = order /\ \A i \in Jobs : job'[i].status \in {jb[i].status, "running"}
    BY <1>4, <1>5, PumpShows DEF jb
<1>8. Enqueued(job, job')
    BY <1>3, <1>6, <1>7 DEF Enqueued
<1>9. QED
    BY <1>7, <1>8, OrderStays

LEMMA LoseSessionKeepsOrder ==
    ASSUME OrderOK, JobTyped, NEW s \in Sessions, LoseSession(s) PROVE OrderOK'
<1>1. ASSUME NEW j \in Jobs, job[j].status # "new" PROVE job'[j].status # "new"
    <2>1. job[j] \in JobRecords
        BY DEF JobTyped
    <2>2. job'[j] = [job[j] EXCEPT !.status = "cancelled"] \/ job'[j] = job[j]
        BY DEF LoseSession
    <2>3. [job[j] EXCEPT !.status = "cancelled"].status = "cancelled"
        BY <2>1 DEF JobRecords
    <2>4. QED
        BY <1>1, <2>2, <2>3
<1>2. UNCHANGED order
    BY DEF LoseSession
<1>3. QED
    BY <1>1, <1>2, OrderStays DEF Enqueued

\* A step of a task ends an attempt, reports its progress or leaves the table alone.
LEMMA TaskKeepsOrder ==
    ASSUME IInv, OrderOK, NEW j \in Jobs, NEW a \in Attempts, Task(j, a) PROVE OrderOK'
<1>1. ASSUME NEW r, Ends(j, a, r) PROVE OrderOK'
    BY <1>1, EndsKeepsOrder
<1>2. CASE UNCHANGED <<order, job>>
    BY <1>2, OrderStays DEF Enqueued
<1>3. CASE FindClient(j, a)
    BY <1>1, <1>2, <1>3 DEF FindClient, Fails, Step, table
<1>4. CASE Opened(j, a)
    BY <1>1, <1>2, <1>4 DEF Opened, Fails, table
<1>5. CASE OpenFails(j, a) \/ StartFails(j, a)
    BY <1>1, <1>5 DEF OpenFails, StartFails, Fails
<1>6. CASE Starts(j, a)
    BY <1>2, <1>6 DEF Starts, table
<1>7. CASE Copies(j, a)
    <2>1. JobTyped
        BY InvTypes
    <2>2. ASSUME NEW i \in Jobs PROVE job'[i].status = job[i].status
        <3>1. job[i] \in JobRecords /\ job[j] \in JobRecords
            BY <2>1 DEF JobTyped
        <3>2. job'[i] = job[i] \/ job'[i] = [job[i] EXCEPT !.transferred = task[j][a].copied + 1]
            BY <1>7, <2>1 DEF Copies, JobTyped
        <3>3. [job[i] EXCEPT !.transferred = task[j][a].copied + 1].status = job[i].status
            BY <3>1 DEF JobRecords
        <3>4. QED
            BY <3>2, <3>3
    <2>3. UNCHANGED order
        BY <1>7 DEF Copies
    <2>4. QED
        BY <2>2, <2>3, OrderStays DEF Enqueued
<1>8. CASE CopyEnds(j, a)
    <2>1. Ends(j, a, "ok") \/ UNCHANGED <<order, job>>
        BY <1>8 DEF CopyEnds, table
    <2>2. QED
        BY <1>1, <1>2, <2>1
<1>9. CASE Removes(j, a) \/ Renames(j, a)
    <2>1. Ends(j, a, task[j][a].result) \/ UNCHANGED <<order, job>>
        BY <1>9 DEF Removes, Renames, table
    <2>2. QED
        BY <1>1, <1>2, <2>1
<1>10. QED
    BY <1>3, <1>4, <1>5, <1>6, <1>7, <1>8, <1>9 DEF Task

LEMMA NextKeepsOrder == IInv /\ OrderOK /\ [Next]_vars => OrderOK'
<1> SUFFICES ASSUME IInv, OrderOK, [Next]_vars PROVE OrderOK'
    OBVIOUS
<1>1. JobTyped
    BY InvTypes
<1>2. ASSUME NEW j \in Jobs, enqueue_transfer(j) \/ cancel_transfer(j) \/ retry_transfer(j)
      PROVE  OrderOK'
    BY <1>1, <1>2, EnqueueOrders, TableKeepsOrder
<1>3. ASSUME NEW s \in Sessions, LoseSession(s) \/ Connect(s) PROVE OrderOK'
    <2>1. CASE LoseSession(s)
        BY <1>1, <2>1, LoseSessionKeepsOrder
    <2>2. CASE Connect(s)
        BY <2>2, OrderStays DEF Connect, table, Enqueued
    <2>3. QED
        BY <1>3, <2>1, <2>2
<1>4. CASE UNCHANGED vars
    BY <1>4, OrderStays DEF vars, table, Enqueued
<1>5. QED
    BY <1>1, <1>2, <1>3, <1>4, ClearOrders, TaskKeepsOrder DEF Next

\* Every reachable state of the table, the tokens, the tasks, the links and the files
\* is well-typed, and the table holds every job at most once: enqueue looks an id up
\* before it adds it, and retain (crates/rusterm-ui/src/transfers.rs) repeats none.
THEOREM TypeCorrect == Spec => []TypeOK
<1>1. Init => OrderOK
    BY DEF Init, OrderOK, IsInjective
<1>2. IInv /\ OrderOK => TypeOK
    BY InvTypes DEF TypeOK, OrderOK, IInv, LinksOK, JobTyped
<1>3. QED
    BY <1>1, <1>2, IInvAlways, NextKeepsOrder, PTL DEF Spec

\* However cancels, retries and lost connections follow each other
\* (crates/rusterm-ui/src/transfers.rs and app.rs), a job shown as running has a
\* task at work that its token reaches, and a task no token reaches was told to stop.
THEOREM CancelIsHeard == Spec => []CancelReaches
<1>1. IInv => CancelReaches
    <2> SUFFICES ASSUME IInv PROVE CancelReaches
        OBVIOUS
    <2>1. ASSUME NEW j \in Jobs
          PROVE  TokenFits(job[j], token[j], task[j]) /\ job[j].attempt \in Attempts
        BY DEF IInv, JobsOK, TableOK, JobOK, JobTypes, JobRecords
    <2>2. RunningIsReached
        BY <2>1 DEF RunningIsReached, TokenFits, Live
    <2>3. ASSUME NEW j \in Jobs, NEW a \in Attempts, Live(j, a)
          PROVE  task[j][a].cancelled \/ token[j] = a
        BY <2>1, <2>3 DEF TokenFits, Live
    <2>4. QED
        BY <2>2, <2>3 DEF CancelReaches, UnreachedIsCancelled
<1>2. QED
    BY <1>1, IInvAlways, PTL

\* What a job shows is true of its present attempt, never of one a retry replaced,
\* and, where no earlier attempt got to the destination of an upload, of the file:
\* what is shown as succeeded is there, and whole (crates/rusterm-ssh/src/sftp.rs).
THEOREM OutcomesAreTrue == Spec => []OutcomeIsTrue
<1>1. IInv => OutcomeIsTrue
    <2> SUFFICES ASSUME IInv PROVE OutcomeIsTrue
        OBVIOUS
    <2>1. ASSUME NEW j \in Jobs
          PROVE  /\ ShownIsTrue(job[j], task[j], asked[j])
                 /\ FileFits(j, job[j], task[j], dest[j], whole[j])
        BY DEF IInv, JobsOK, TableOK, JobOK
    <2>2. OutcomeIsOwn
        BY <2>1 DEF OutcomeIsOwn, ShownIsTrue
    <2>3. ASSUME NEW j \in Jobs, NoEarlierFile(j) PROVE NoEarlierTouch(job[j], task[j])
        BY <2>3 DEF NoEarlierFile, NoEarlierTouch
    <2>4. FilesAreWhole
        BY <2>1, <2>3 DEF FilesAreWhole, FileFits
    <2>5. QED
        BY <2>2, <2>4 DEF OutcomeIsTrue
<1>2. QED
    BY <1>1, IInvAlways, PTL

\* A tab that has no connection has no SFTP client, whatever a task was opening
\* when it lost it (crates/rusterm-ui/src/app.rs).
THEOREM NoClientWithoutSession == Spec => []ClientNeedsSession
<1>1. IInv => ClientNeedsSession
    BY DEF IInv, LinksOK
<1>2. QED
    BY <1>1, IInvAlways, PTL
=============================================================================
