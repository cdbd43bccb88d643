----------------------------- MODULE RelayServer -----------------------------
(***************************************************************************)
(* The relay's HTTP server (crates/rusterm-relay): a request is checked    *)
(* against the limiter and the accounts, admitted, aimed at a host, given  *)
(* to the executor and recorded in the audit log and the history.          *)
(*                                                                         *)
(* Handlers run on several threads: between two of them only the two maps  *)
(* of the limiter are shared, each behind its lock. A client that hangs up *)
(* drops its handler where it awaits.                                      *)
(***************************************************************************)
EXTENDS Integers, Sequences, FiniteSets

CONSTANTS
    Requests,             \* exec requests
    Ips,                  \* client addresses
    Accounts,             \* configured accounts
    Admins,               \* those whose allowed_hosts is empty
    AuthFailureBudget,    \* AUTH_FAILURE_BUDGET
    PerAccountRateLimit,  \* per_account_rate_limit
    Window,               \* WINDOW, in ticks
    MaxNow,               \* ticks the clock runs for (bound)
    None

ASSUME ConstantsAssumption ==
    /\ Admins \subseteq Accounts
    /\ AuthFailureBudget \in Nat /\ PerAccountRateLimit \in Nat
    /\ Window \in Nat \ {0} /\ MaxNow \in Nat
    /\ None \notin Nat /\ None \notin Ips /\ None \notin Accounts

VARIABLES
    now,            \* the clock
    auth_failures,  \* a WindowCounter for each address
    exec_counts,    \* one for each account
    req,            \* the requests
    row,            \* their rows in the history
    failed,         \* times of the failed logins of an address
    admitted        \* times at which an account was allowed a request

limiter == <<auth_failures, exec_counts>>
ghosts == <<failed, admitted>>
vars == <<now, limiter, req, row, ghosts>>

Counters == [start : (0 .. MaxNow) \union {None}, count : Nat]

\* pc: "checked" passed the throttle, "known" has an account, "valid" was
\* admitted, "running" and "streaming" are with the executor. at: when it was
\* turned away.
RequestRecords ==
    [pc : {"new", "checked", "known", "valid", "running", "streaming", "answered", "gone"},
     stream : BOOLEAN, ip : Ips \union {None}, account : Accounts \union {None},
     audit : Seq({"auth_failure", "rejected", "accepted", "completed", "failed"}),
     answer : {"none", "throttled", "unauthorized", "limited", "refused", "unknown_host",
               "outcome", "error"},
     at : (0 .. MaxNow) \union {None}]

RowStates == {"none", "writing", "stored", "lost", "deleted"}

Init ==
    /\ now = 0
    /\ auth_failures = [i \in Ips |-> [start |-> None, count |-> 0]]
    /\ exec_counts = [a \in Accounts |-> [start |-> None, count |-> 0]]
    /\ req = [r \in Requests |->
                [pc |-> "new", stream |-> FALSE, ip |-> None, account |-> None, audit |-> <<>>,
                 answer |-> "none", at |-> None]]
    /\ row = [r \in Requests |-> [state |-> "none", by |-> None, told |-> "nothing"]]
    /\ failed = [i \in Ips |-> <<>>] /\ admitted = [a \in Accounts |-> <<>>]

Tick ==
    /\ now < MaxNow
    /\ now' = now + 1
    /\ UNCHANGED <<limiter, req, row, ghosts>>

-----------------------------------------------------------------------------
(* The limiter.                                                            *)

InWindow(c) == c.start # None /\ now - c.start < Window

record(c) ==
    IF InWindow(c) THEN [c EXCEPT !.count = @ + 1] ELSE [start |-> now, count |-> 1]

is_auth_throttled(i) == InWindow(auth_failures[i]) /\ auth_failures[i].count > AuthFailureBudget

-----------------------------------------------------------------------------
(* A request: answers, and the steps of prepare_exec.                      *)

Answers(r, a, entries) ==
    req' = [req EXCEPT ![r] = [req[r] EXCEPT !.pc = "answered", !.answer = a,
                                             !.audit = @ \o entries]]
GoesTo(r, pc, entries) ==
    req' = [req EXCEPT ![r] = [req[r] EXCEPT !.pc = pc, !.audit = @ \o entries]]

Arrives(r, i, s) ==
    /\ req[r].pc = "new"
    /\ req' = [req EXCEPT ![r] =
          IF is_auth_throttled(i)
          THEN [@ EXCEPT !.ip = i, !.stream = s, !.pc = "answered", !.answer = "throttled",
                         !.at = now, !.audit = <<"auth_failure">>]
          ELSE [@ EXCEPT !.ip = i, !.stream = s, !.pc = "checked"]]
    /\ UNCHANGED <<now, limiter, row, ghosts>>

\* No credentials: nothing is counted or recorded.
NoCredentials(r) ==
    /\ req[r].pc = "checked"
    /\ Answers(r, "unauthorized", <<>>)
    /\ UNCHANGED <<now, limiter, row, ghosts>>

BadCredentials(r) ==
    LET i == req[r].ip IN
    /\ req[r].pc = "checked"
    /\ auth_failures' = [auth_failures EXCEPT ![i] = record(@)]
    /\ failed' = [failed EXCEPT ![i] = Append(@, now)]
    /\ Answers(r, "unauthorized", <<"auth_failure">>)
    /\ UNCHANGED <<now, exec_counts, row, admitted>>

\* Mutant: the account is forgotten.
authenticate_Anonymous(r, a) ==
    /\ req[r].pc = "checked"
    /\ GoesTo(r, "known", <<>>)
    /\ UNCHANGED <<now, limiter, row, ghosts>>

authenticate(r, a) ==
    /\ req[r].pc = "checked"
    /\ req' = [req EXCEPT ![r] = [@ EXCEPT !.pc = "known", !.account = a]]
    /\ UNCHANGED <<now, limiter, row, ghosts>>

\* Not exactly one of command, script and script_base64: before the limiter.
Malformed(r) ==
    /\ req[r].pc = "known"
    /\ Answers(r, "refused", <<"rejected">>)
    /\ UNCHANGED <<now, limiter, row, ghosts>>

\* Mutant: only a request that is refused is counted.
allow_exec_NotCounted(r) ==
    LET a == req[r].account
        c == record(exec_counts[a])
    IN /\ req[r].pc = "known"
       /\ IF c.count <= PerAccountRateLimit
          THEN /\ admitted' = [admitted EXCEPT ![a] = Append(@, now)]
               /\ GoesTo(r, "valid", <<>>) /\ UNCHANGED exec_counts
          ELSE /\ UNCHANGED admitted /\ Answers(r, "limited", <<"rejected">>)
               /\ exec_counts' = [exec_counts EXCEPT ![a] = c]
       /\ UNCHANGED <<now, auth_failures, row, failed>>

\* allow_exec, and then the validator and the sandbox, which may refuse.
allow_exec(r) ==
    LET a == req[r].account
        c == record(exec_counts[a])
    IN /\ req[r].pc = "known"
       /\ exec_counts' = [exec_counts EXCEPT ![a] = c]
       /\ IF c.count <= PerAccountRateLimit
          THEN /\ admitted' = [admitted EXCEPT ![a] = Append(@, now)]
               /\ GoesTo(r, "valid", <<>>)
          ELSE UNCHANGED admitted /\ Answers(r, "limited", <<"rejected">>)
       /\ UNCHANGED <<now, auth_failures, row, failed>>

\* An allowlist that does not compile is not recorded, a refusal is.
Validation(r) ==
    /\ req[r].pc = "valid"
    /\ \E entries \in {<<>>, <<"rejected">>} : Answers(r, "refused", entries)
    /\ UNCHANGED <<now, limiter, row, ghosts>>

\* list_hosts() has answered.
UnknownHost(r) ==
    /\ req[r].pc = "valid"
    /\ Answers(r, "unknown_host", <<>>)
    /\ UNCHANGED <<now, limiter, row, ghosts>>

HostNotAllowed(r) ==
    /\ req[r].pc = "valid"
    /\ req[r].account \notin Admins
    /\ Answers(r, "refused", <<"rejected">>)
    /\ UNCHANGED <<now, limiter, row, ghosts>>

Accepted(r) ==
    /\ req[r].pc = "valid"
    /\ GoesTo(r, "running", <<"accepted">>)
    /\ UNCHANGED <<now, limiter, row, ghosts>>

-----------------------------------------------------------------------------
(* The executor's answer, and what is recorded of it.                      *)

\* A detached task writes the row.
record_history(r) == row' = [row EXCEPT ![r].state = "writing"]

\* exec_error_response
ExecFails(r) ==
    /\ req[r].pc = "running"
    /\ Answers(r, "error", <<"failed">>)
    /\ record_history(r)
    /\ UNCHANGED <<now, limiter, ghosts>>

\* log_exec_completion
ExecReturns(r) ==
    /\ req[r].pc = "running" /\ ~req[r].stream
    /\ Answers(r, "outcome", <<"completed">>)
    /\ record_history(r)
    /\ UNCHANGED <<now, limiter, ghosts>>

StreamStarts(r) ==
    /\ req[r].pc = "running" /\ req[r].stream
    /\ GoesTo(r, "streaming", <<>>)
    /\ UNCHANGED <<now, limiter, row, ghosts>>

\* The last event, or the end of the channel without one.
StreamEnds(r) ==
    /\ req[r].pc = "streaming"
    /\ \/ Answers(r, "outcome", <<"completed">>)
       \/ Answers(r, "error", <<"failed">>)
    /\ record_history(r)
    /\ UNCHANGED <<now, limiter, ghosts>>

\* Mutant: a dropped handler still writes a row.
HangUp_Recorded(r) ==
    /\ req[r].pc \in {"valid", "running", "streaming"}
    /\ GoesTo(r, "gone", <<>>)
    /\ record_history(r)
    /\ UNCHANGED <<now, limiter, ghosts>>

\* The client hangs up while the handler waits for the hosts, for the executor
\* or for output.
HangUp(r) ==
    /\ req[r].pc \in {"valid", "running", "streaming"}
    /\ GoesTo(r, "gone", <<>>)
    /\ UNCHANGED <<now, limiter, row, ghosts>>

RowWritten(r) ==
    /\ row[r].state = "writing"
    /\ \E s \in {"stored", "lost"} : row' = [row EXCEPT ![r].state = s]
    /\ UNCHANGED <<now, limiter, req, ghosts>>

\* The rows of account a whose command contains the id of r: a command was sent
\* before the id of its row was made.
Mentions(command, id) == FALSE
OwnedBy(a, r) ==
    {x \in Requests : row[x].state = "stored" /\ req[x].account = a /\ Mentions(x, r)}

Removes(a, r) == row' = [row EXCEPT ![r] = [state |-> "deleted", by |-> a, told |-> @.told]]

delete_history(a, r) ==
    /\ row[r].state = "stored"
    /\ IF a \in Admins \/ r \in OwnedBy(a, r)
       THEN Removes(a, r)
       ELSE row' = [row EXCEPT ![r].told = IF req[r].account = a THEN "not_found" ELSE @]
    /\ UNCHANGED <<now, limiter, req, ghosts>>

-----------------------------------------------------------------------------
Handler(r) ==
    \/ NoCredentials(r) \/ BadCredentials(r) \/ (\E a \in Accounts : authenticate(r, a))
    \/ Malformed(r) \/ allow_exec(r) \/ Validation(r)
    \/ UnknownHost(r) \/ HostNotAllowed(r) \/ Accepted(r)
    \/ ExecFails(r) \/ ExecReturns(r) \/ StreamStarts(r) \/ StreamEnds(r)

Next ==
    \/ Tick
    \/ \E r \in Requests :
         \/ \E i \in Ips, s \in BOOLEAN : Arrives(r, i, s)
         \/ Handler(r) \/ HangUp(r) \/ RowWritten(r)
         \/ \E a \in Accounts : delete_history(a, r)

Spec == Init /\ [][Next]_vars

-----------------------------------------------------------------------------
(* Properties.                                                             *)

TypeOK ==
    /\ now \in 0 .. MaxNow
    /\ auth_failures \in [Ips -> Counters] /\ exec_counts \in [Accounts -> Counters]
    /\ req \in [Requests -> RequestRecords]
    /\ \A r \in Requests :
         /\ req[r].pc # "new" => req[r].ip # None
         /\ req[r].pc \in {"known", "valid", "running", "streaming"} => req[r].account # None
    /\ row \in [Requests -> [state : RowStates, by : Accounts \union {None},
                             told : {"nothing", "not_found"}]]
    /\ failed \in [Ips -> Seq(0 .. MaxNow)] /\ admitted \in [Accounts -> Seq(0 .. MaxNow)]

\* How many of the events at the times ts lie in the window that starts at t.
Within(ts, t) == Cardinality({k \in DOMAIN ts : t <= ts[k] /\ ts[k] < t + Window})

\* Wherever a window of time is put, an account gets at most twice its limit:
\* the counter's windows are fixed, and any other overlaps two of them.
TwiceTheLimit ==
    \A a \in Accounts, t \in 0 .. MaxNow : Within(admitted[a], t) <= 2 * PerAccountRateLimit

\* An address that is turned away has used up its budget within the last window.
ThrottledForCause ==
    \A r \in Requests : req[r].answer = "throttled" =>
        LET t == req[r].at
            recent == {k \in DOMAIN failed[req[r].ip] :
                         failed[req[r].ip][k] <= t /\ t - failed[req[r].ip][k] < Window}
        IN Cardinality(recent) > AuthFailureBudget

\* The two limiters admit no more than fixed windows can admit, and turn nobody
\* away for what lies further back than a window (WindowCounter::record).
LimitsHold == TwiceTheLimit /\ ThrottledForCause

\* "A command that reached the executor but failed IS recorded": whoever was
\* answered by the executor finds a row, and the log its acceptance and outcome.
AnsweredIsRecorded ==
    \A r \in Requests : req[r].answer \in {"outcome", "error"} =>
        /\ row[r].state # "none"
        /\ req[r].audit \in {<<"accepted", "completed">>, <<"accepted", "failed">>}

\* "Commands rejected before reaching the executor are NOT recorded", nor are
\* those whose client went away: a row means that an outcome was sent.
RowsHaveOutcome ==
    \A r \in Requests : row[r].state # "none" => req[r].answer \in {"outcome", "error"}

\* The body ends with exactly one `done` or `error`: a request has one outcome.
OneOutcome ==
    \A r \in Requests :
        Cardinality({k \in DOMAIN req[r].audit : req[r].audit[k] \in {"completed", "failed"}}) <= 1

\* The history, the log and the answers tell one story, whichever requests fail
\* or hang up.
RecordsAgree == AnsweredIsRecorded /\ RowsHaveOutcome /\ OneOutcome

==============================================================================
