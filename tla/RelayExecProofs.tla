--------------------------- MODULE RelayExecProofs ---------------------------
(***************************************************************************)
(* Proofs about RelayExec, for any number of requests, keystrokes, pieces  *)
(* of output and room in the response channel, with clients that hang up   *)
(* or stall at any moment.                                                 *)
(*                                                                         *)
(* Three parts carry the induction. HolderLocked: the lock is held by the  *)
(* request whose place in the code says so. LinesAreWhole: a relay command *)
(* is typed as one line, once. Coherent: what is known of one request from *)
(* its record and from its line in the terminal. From them follow the      *)
(* invariants, that every step is one RelayCommand allows, and, by way of  *)
(* RelayCommand, when two commands can be in one terminal.                 *)
(***************************************************************************)
EXTENDS RelayExec, SequenceTheorems, TLAPS

HolderLocked == \A r \in Requests : lock = r <=> req[r].pc \in Locked

LinesAreWhole ==
    /\ pty.line \subseteq {User}
    /\ \A i \in DOMAIN pty.typed : pty.typed[i].by # User => pty.typed[i].enter
    /\ \A i, j \in DOMAIN pty.typed :
         pty.typed[i].by = pty.typed[j].by /\ pty.typed[i].by # User => i = j

Marked(x) == \E i \in DOMAIN x.inbox : x.inbox[i] = "marker"

\* x: the request. waits, runs: its line waits in the terminal, or is running.
\* up, usable: the remote terminal is there, the session is reusable.
Coherent(x, waits, runs, up, usable) ==
    /\ x.live + x.fresh + (IF waits THEN 1 ELSE 0) <= 1
    /\ Unsent(x) => x.live = 0 /\ x.fresh = 0 /\ ~waits
    /\ runs => x.live = 1
    /\ Marked(x) => x.live = 1 /\ ~runs
    /\ x.answer # "none" => x.pc \in {"reporting", "releasing", "over"}
    /\ x.pc = "reporting" => x.answer \in {"done", "timed_out", "unknown"}
    /\ x.answer = "done" => x.live + x.fresh = 1
    /\ x.answer \in {"refused", "elevate"} => x.fresh = 0 /\ ~waits
    /\ x.live > 0 => x.answer # "refused" /\ (x.answer = "elevate" => x.required)
    /\ x.required => x.fresh = 0 /\ x.pc \notin {"fresh", "fallback", "sudo"}
    /\ x.pc \in Locked \union {"locking"} /\ x.elevated => x.required
    /\ x.pc \in {"tapping", "rechecking", "sending"} => usable
    /\ up /\ (runs \/ waits) /\ x.client # "gone" =>
         x.pc \in {"waiting", "relaying"} \/ ~usable
    /\ x.fresh > 0 => x.pc = "over"
    /\ x.pc = "over" /\ x.answer = "none" => x.client = "gone"
    /\ x.answer = "error" => ~waits

CoherentAt(r) == Coherent(req[r], Waiting(r), r \in pty.running, pty.up, reusable)

IInv ==
    /\ TypeOK
    /\ TapBelongsToHolder
    /\ HolderLocked
    /\ LinesAreWhole
    /\ \A r \in Requests : CoherentAt(r)

-----------------------------------------------------------------------------
(* Lemmas about what actions do to the record of a request.                *)

Places == Locked \union Elsewhere
Answers == {"none", "done", "timed_out", "unknown", "refused", "error", "elevate"}

USE DEF Guarded, Locked, Elsewhere, Places, Answers

LEMMA PcUpdate ==
    ASSUME NEW x \in RequestRecords, NEW p \in Places
    PROVE  LET y == [x EXCEPT !.pc = p] IN
           /\ y \in RequestRecords
           /\ y.pc = p /\ y.stream = x.stream /\ y.elevated = x.elevated
           /\ y.required = x.required /\ y.client = x.client /\ y.inbox = x.inbox
           /\ y.chan = x.chan /\ y.answer = x.answer
           /\ y.live = x.live /\ y.fresh = x.fresh
BY DEF RequestRecords

LEMMA EndedRecord ==
    ASSUME NEW x \in RequestRecords, NEW a \in Answers
    PROVE  LET y == Ended(x, a) IN
           /\ y \in RequestRecords
           /\ y.pc = "over" /\ ~y.stream /\ ~y.elevated
           /\ y.required = x.required /\ y.client = x.client /\ y.inbox = <<>>
           /\ y.chan = 0 /\ y.answer = a
           /\ y.live = x.live /\ y.fresh = x.fresh
<1>1. 0 \in 0 .. ChannelCap
  BY ConstantsAssumption
<1>2. <<>> \in Seq({"chunk", "marker"})
  OBVIOUS
<1> QED
  BY <1>1, <1>2 DEF RequestRecords, Ended

\* A request's record is replaced and the terminal is not. The session may be
\* marked unusable by the request that holds it.
LEMMA UpdateKeeps ==
    ASSUME IInv, NEW r \in Requests, NEW x \in RequestRecords,
           req' = [req EXCEPT ![r] = x],
           pty' = pty,
           reusable' = reusable \/ (lock = r /\ ~reusable'),
           Coherent(x, Waiting(r), r \in pty.running, pty.up, reusable')
    PROVE  /\ req' \in [Requests -> RequestRecords]
           /\ \A s \in Requests : CoherentAt(s)'
           /\ req'[r] = x
           /\ \A s \in Requests \ {r} : req'[s] = req[s]
<1>1. req' \in [Requests -> RequestRecords]
  BY DEF IInv, TypeOK
<1>2. req'[r] = x /\ \A s \in Requests \ {r} : req'[s] = req[s]
  BY DEF IInv, TypeOK
<1>3. \A s \in Requests : Waiting(s)' = Waiting(s)
  BY DEF Waiting
<1>4. CoherentAt(r)'
  BY <1>2, <1>3 DEF CoherentAt
<1>5. ASSUME NEW s \in Requests \ {r}
      PROVE  CoherentAt(s)'
  <2>1. CoherentAt(s)
    BY DEF IInv
  <2>2. CASE reusable' = reusable
    BY <1>2, <1>3, <2>1, <2>2 DEF CoherentAt
  <2>3. CASE lock = r /\ ~reusable'
    <3>1. req[s].pc \notin Locked
      BY <2>3 DEF IInv, HolderLocked
    <3> QED
      BY <1>2, <1>3, <2>1, <2>3, <3>1 DEF CoherentAt, Coherent
  <2> QED
    BY <2>2, <2>3
<1> QED
  BY <1>1, <1>2, <1>4, <1>5

InTap == Guarded \union {"rechecking"}

\* A request's record is replaced and nothing else: it neither takes nor leaves
\* the session.
LEMMA QuietKeeps ==
    ASSUME IInv, NEW r \in Requests, NEW x \in RequestRecords,
           req' = [req EXCEPT ![r] = x],
           UNCHANGED <<session, pty, user>>,
           Coherent(x, Waiting(r), r \in pty.running, pty.up, reusable),
           x.pc \in Locked <=> req[r].pc \in Locked,
           req[r].pc \in InTap => x.pc \in InTap
    PROVE  IInv'
<1> USE DEF session
<1>1. /\ req' \in [Requests -> RequestRecords]
      /\ \A s \in Requests : CoherentAt(s)'
      /\ req'[r] = x
      /\ \A s \in Requests \ {r} : req'[s] = req[s]
  BY UpdateKeeps
<1>2. TypeOK'
  BY <1>1 DEF IInv, TypeOK
<1>3. HolderLocked'
  BY <1>1 DEF IInv, HolderLocked
<1>4. TapBelongsToHolder'
  BY <1>1 DEF IInv, TapBelongsToHolder, InTap
<1>5. LinesAreWhole'
  BY DEF IInv, LinesAreWhole
<1> QED
  BY <1>1, <1>2, <1>3, <1>4, <1>5 DEF IInv

\* The holder drops the tap and is about to release the lock.
LEMMA LeaveKeeps ==
    ASSUME IInv, NEW r \in Requests, NEW x \in RequestRecords,
           req[r].pc \in Locked,
           req' = [req EXCEPT ![r] = x],
           x.pc = "releasing",
           DropTap(r),
           UNCHANGED <<disconnected, lock, reader, writer, registered, pty, user>>,
           reusable' = reusable \/ reusable' = FALSE,
           Coherent(x, Waiting(r), r \in pty.running, pty.up, reusable')
    PROVE  IInv'
<1>0. lock = r
  BY DEF IInv, HolderLocked
<1>1. /\ req' \in [Requests -> RequestRecords]
      /\ \A s \in Requests : CoherentAt(s)'
      /\ req'[r] = x
      /\ \A s \in Requests \ {r} : req'[s] = req[s]
  BY <1>0, UpdateKeeps
<1>2. TypeOK'
  BY <1>1 DEF IInv, TypeOK, DropTap
<1>3. HolderLocked'
  BY <1>1 DEF IInv, HolderLocked
<1>4. TapBelongsToHolder'
  BY DEF TapBelongsToHolder, DropTap
<1>5. LinesAreWhole'
  BY DEF IInv, LinesAreWhole
<1> QED
  BY <1>1, <1>2, <1>3, <1>4, <1>5 DEF IInv

-----------------------------------------------------------------------------
LEMMA InitIInv == Init => IInv
<1> SUFFICES ASSUME Init PROVE IInv
  OBVIOUS
<1> USE ConstantsAssumption
<1>1. pty \in PtyRecords
  BY DEF Init, PtyRecords
<1>2. user \in UserRecords
  BY DEF Init, UserRecords
<1>3. req \in [Requests -> RequestRecords]
  BY DEF Init, RequestRecords
<1>4. TypeOK
  BY <1>1, <1>2, <1>3 DEF Init, TypeOK
<1>5. TapBelongsToHolder /\ HolderLocked
  BY DEF Init, TapBelongsToHolder, HolderLocked
<1>6. LinesAreWhole
  BY DEF Init, LinesAreWhole
<1>7. \A r \in Requests : CoherentAt(r)
  BY DEF Init, CoherentAt, Coherent, Unsent, Marked, Waiting
<1> QED
  BY <1>4, <1>5, <1>6, <1>7 DEF IInv
-----------------------------------------------------------------------------
(* Which way a request goes.                                               *)

LEMMA RequestFacts ==
    ASSUME IInv, NEW r \in Requests
    PROVE  req[r] \in RequestRecords /\ CoherentAt(r)
BY DEF IInv, TypeOK

LEMMA GotoKeeps ==
    ASSUME IInv, NEW r \in Requests, NEW p \in Places,
           Goto(r, p), UNCHANGED <<session, pty, user>>,
           \/ req[r].pc = "exec_stream" /\ p = "locking" /\ ~req[r].elevated
           \/ req[r].pc = "exec" /\ p = "locking" /\ (req[r].elevated => req[r].required)
           \/ req[r].pc = "exec" /\ p = "fresh" /\ ~req[r].required
           \/ req[r].pc = "checking" /\ p = "tapping" /\ reusable
           \/ req[r].pc = "rechecking" /\ p = "sending"
           \/ req[r].pc = "fresh" /\ p = "fallback"
           \/ req[r].pc \in {"fresh", "fallback"} /\ p = "sudo"
    PROVE  IInv'
<1> DEFINE x == [req[r] EXCEPT !.pc = p]
<1>1. req[r] \in RequestRecords /\ CoherentAt(r)
  BY RequestFacts
<1>2. /\ x \in RequestRecords
      /\ x.pc = p /\ x.stream = req[r].stream /\ x.elevated = req[r].elevated
      /\ x.required = req[r].required /\ x.client = req[r].client
      /\ x.inbox = req[r].inbox /\ x.chan = req[r].chan /\ x.answer = req[r].answer
      /\ x.live = req[r].live /\ x.fresh = req[r].fresh
  BY <1>1, PcUpdate
<1>3. req' = [req EXCEPT ![r] = x]
  BY DEF Goto
<1> HIDE DEF x
<1>4. Coherent(x, Waiting(r), r \in pty.running, pty.up, reusable)
  BY <1>1, <1>2 DEF CoherentAt, Coherent, Unsent, Marked
<1>5. /\ x.pc \in Locked <=> req[r].pc \in Locked
      /\ req[r].pc \in InTap => x.pc \in InTap
  BY <1>2 DEF InTap
<1> QED
  BY <1>2, <1>3, <1>4, <1>5, QuietKeeps

\* A request ends without holding the session.
LEMMA EndKeeps ==
    ASSUME IInv, NEW r \in Requests, NEW a \in Answers,
           Answer(r, a), UNCHANGED <<session, pty, user>>,
           Unsent(req[r]), req[r].pc \notin Locked,
           a # "done", a = "none" => req[r].client = "gone"
    PROVE  IInv'
<1> DEFINE x == Ended(req[r], a)
<1>1. req[r] \in RequestRecords /\ CoherentAt(r)
  BY RequestFacts
<1>2. /\ x \in RequestRecords
      /\ x.pc = "over" /\ ~x.elevated
      /\ x.required = req[r].required /\ x.client = req[r].client
      /\ x.inbox = <<>> /\ x.answer = a
      /\ x.live = req[r].live /\ x.fresh = req[r].fresh
  BY <1>1, EndedRecord
<1>3. req' = [req EXCEPT ![r] = x]
  BY DEF Answer
<1> HIDE DEF x
<1>4. Coherent(x, Waiting(r), r \in pty.running, pty.up, reusable)
  BY <1>1, <1>2 DEF CoherentAt, Coherent, Unsent, Marked
<1>5. x.pc \notin Locked /\ req[r].pc \notin InTap
  BY <1>2 DEF InTap
<1> QED
  BY <1>2, <1>3, <1>4, <1>5, QuietKeeps

\* NotSent of a request nothing was sent for.
LEMMA NotSentCoherent ==
    ASSUME IInv, NEW r \in Requests, Unsent(req[r]),
           req[r].pc \in Locked \union {"locking"}
    PROVE  LET x == NotSent(req[r]) IN
           /\ x \in RequestRecords
           /\ x.pc \notin Locked
           /\ Coherent(x, Waiting(r), r \in pty.running, pty.up, reusable)
<1> DEFINE x == NotSent(req[r])
<1>1. req[r] \in RequestRecords /\ CoherentAt(r)
  BY RequestFacts
<1>2. CASE req[r].required
  <2>1. x = Ended(req[r], "refused")
    BY <1>2 DEF NotSent
  <2>2. /\ x \in RequestRecords
        /\ x.pc = "over" /\ ~x.elevated
        /\ x.required = req[r].required /\ x.client = req[r].client
        /\ x.inbox = <<>> /\ x.answer = "refused"
        /\ x.live = req[r].live /\ x.fresh = req[r].fresh
    BY <1>1, <2>1, EndedRecord
  <2> HIDE DEF x
  <2>3. Coherent(x, Waiting(r), r \in pty.running, pty.up, reusable)
    BY <1>1, <2>2 DEF CoherentAt, Coherent, Unsent, Marked
  <2> QED
    BY <2>2, <2>3 DEF x
<1>3. CASE ~req[r].required
  <2>1. /\ x \in RequestRecords
        /\ x.pc \in {"exec", "fresh"} /\ x.elevated = req[r].elevated
        /\ x.required = req[r].required /\ x.client = req[r].client
        /\ x.inbox = req[r].inbox /\ x.answer = req[r].answer
        /\ x.live = req[r].live /\ x.fresh = req[r].fresh
    BY <1>1, <1>3 DEF NotSent, RequestRecords
  <2> HIDE DEF x
  <2>2. req[r].answer = "none"
    BY <1>1, <1>3 DEF CoherentAt, Coherent, Unsent
  <2>3. Coherent(x, Waiting(r), r \in pty.running, pty.up, reusable)
    BY <1>1, <1>3, <2>1, <2>2 DEF CoherentAt, Coherent, Unsent, Marked
  <2> QED
    BY <2>1, <2>3 DEF x
<1> QED
  BY <1>2, <1>3

LEMMA ArriveKeeps ==
    ASSUME IInv, NEW r \in Requests,
           NEW stream \in BOOLEAN, NEW elevated \in BOOLEAN, NEW required \in BOOLEAN,
           Arrive(r, stream, elevated, required)
    PROVE  IInv'
<1> DEFINE p == IF stream THEN "exec_stream" ELSE "exec"
           x == [req[r] EXCEPT !.pc = p, !.stream = stream,
                               !.elevated = elevated, !.required = required]
<1>1. req[r] \in RequestRecords /\ CoherentAt(r) /\ req[r].pc = "idle"
  BY RequestFacts DEF Arrive, At
<1>2. p \in {"exec_stream", "exec"}
  OBVIOUS
<1>3. req' = [req EXCEPT ![r] = x]
  BY DEF Arrive
<1> HIDE DEF p
<1>4. x \in RequestRecords
  BY <1>1, <1>2 DEF RequestRecords
<1>5. /\ x.pc = p /\ x.client = req[r].client /\ x.inbox = req[r].inbox
      /\ x.answer = req[r].answer
      /\ x.live = req[r].live /\ x.fresh = req[r].fresh
  BY <1>1 DEF RequestRecords
<1> HIDE DEF x
<1>6. Coherent(x, Waiting(r), r \in pty.running, pty.up, reusable)
  BY <1>1, <1>2, <1>4, <1>5 DEF CoherentAt, Coherent, Unsent, Marked
<1>7. x.pc \notin Locked /\ req[r].pc \notin Locked
  BY <1>1, <1>2, <1>5
<1> QED
  BY <1>3, <1>4, <1>6, <1>7, QuietKeeps DEF InTap, Arrive

LEMMA ExecStreamKeeps ==
    ASSUME IInv, NEW r \in Requests, exec_stream(r)
    PROVE  IInv'
<1>1. req[r] \in RequestRecords /\ CoherentAt(r) /\ req[r].pc = "exec_stream"
  BY RequestFacts DEF exec_stream, At
<1>2. CASE ~req[r].elevated /\ registered
  BY <1>1, <1>2, GotoKeeps DEF exec_stream
<1>3. CASE ~(~req[r].elevated /\ registered)
  <2> DEFINE x == [req[r] EXCEPT !.pc = "exec", !.stream = FALSE]
  <2>1. req' = [req EXCEPT ![r] = x]
    BY <1>3 DEF exec_stream
  <2>2. /\ x \in RequestRecords
        /\ x.pc = "exec" /\ x.elevated = req[r].elevated
        /\ x.required = req[r].required /\ x.client = req[r].client
        /\ x.inbox = req[r].inbox /\ x.answer = req[r].answer
        /\ x.live = req[r].live /\ x.fresh = req[r].fresh
    BY <1>1 DEF RequestRecords
  <2> HIDE DEF x
  <2>3. Coherent(x, Waiting(r), r \in pty.running, pty.up, reusable)
    BY <1>1, <2>2 DEF CoherentAt, Coherent, Unsent, Marked
  <2> QED
    BY <1>1, <2>1, <2>2, <2>3, QuietKeeps DEF InTap, exec_stream
<1> QED
  BY <1>2, <1>3

LEMMA ExecKeeps ==
    ASSUME IInv, NEW r \in Requests, exec(r)
    PROVE  IInv'
<1>1. req[r] \in RequestRecords /\ req[r].pc = "exec"
  BY RequestFacts DEF exec, At
<1>2. CASE registered /\ (req[r].elevated => req[r].required)
  BY <1>1, <1>2, GotoKeeps DEF exec
<1>3. CASE ~registered /\ req[r].required
  BY <1>1, <1>3, EndKeeps DEF exec, Unsent
<1>4. CASE /\ ~(registered /\ (req[r].elevated => req[r].required))
           /\ ~(~registered /\ req[r].required)
  <2>1. ~req[r].required
    BY <1>4
  <2>2. Goto(r, "fresh")
    BY <1>4 DEF exec
  <2> QED
    BY <1>1, <2>1, <2>2, GotoKeeps DEF exec
<1> QED
  BY <1>2, <1>3, <1>4

-----------------------------------------------------------------------------
(* Taking the session and giving it back.                                  *)

LEMMA LockTakenKeeps ==
    ASSUME IInv, NEW r \in Requests, LockTaken(r)
    PROVE  IInv'
<1> DEFINE x == [req[r] EXCEPT !.pc = "checking"]
<1>1. req[r] \in RequestRecords /\ CoherentAt(r) /\ req[r].pc = "locking"
  BY RequestFacts DEF LockTaken, At
<1>2. /\ x \in RequestRecords
      /\ x.pc = "checking" /\ x.elevated = req[r].elevated
      /\ x.required = req[r].required /\ x.client = req[r].client
      /\ x.inbox = req[r].inbox /\ x.answer = req[r].answer
      /\ x.live = req[r].live /\ x.fresh = req[r].fresh
  BY <1>1, PcUpdate
<1>3. req' = [req EXCEPT ![r] = x]
  BY DEF LockTaken, Goto
<1> HIDE DEF x
<1>4. Coherent(x, Waiting(r), r \in pty.running, pty.up, reusable)
  BY <1>1, <1>2 DEF CoherentAt, Coherent, Unsent, Marked
<1>5. /\ req' \in [Requests -> RequestRecords]
      /\ \A s \in Requests : CoherentAt(s)'
      /\ req'[r] = x
      /\ \A s \in Requests \ {r} : req'[s] = req[s]
  BY <1>2, <1>3, <1>4, UpdateKeeps DEF LockTaken
<1>6. TypeOK'
  BY <1>5 DEF LockTaken, IInv, TypeOK
<1>7. lock = NoOne /\ NoOne \notin Requests
  BY ConstantsAssumption DEF LockTaken
<1>8. HolderLocked'
  BY <1>2, <1>5, <1>7 DEF LockTaken, IInv, HolderLocked
<1>9. TapBelongsToHolder'
  BY <1>7 DEF LockTaken, IInv, TapBelongsToHolder
<1>10. LinesAreWhole'
  BY DEF LockTaken, IInv, LinesAreWhole
<1> QED
  BY <1>5, <1>6, <1>8, <1>9, <1>10 DEF IInv

LEMMA LockTimeoutKeeps ==
    ASSUME IInv, NEW r \in Requests, LockTimeout(r)
    PROVE  IInv'
<1> DEFINE x == NotSent(req[r])
<1>1. req[r].pc = "locking"
  BY DEF LockTimeout, At
<1>2. /\ x \in RequestRecords /\ x.pc \notin Locked
      /\ Coherent(x, Waiting(r), r \in pty.running, pty.up, reusable)
  BY <1>1, NotSentCoherent DEF Unsent
<1>3. req' = [req EXCEPT ![r] = x]
  BY DEF LockTimeout
<1> HIDE DEF x
<1> QED
  BY <1>1, <1>2, <1>3, QuietKeeps DEF LockTimeout, InTap

\* The holder, whose tap is gone, gives the lock back and becomes x.
LEMMA ReleaseKeeps ==
    ASSUME IInv, NEW r \in Requests, NEW x \in RequestRecords,
           req[r].pc \in {"checking", "releasing"},
           req' = [req EXCEPT ![r] = x],
           x.pc \notin Locked,
           lock' = NoOne,
           UNCHANGED <<disconnected, tap, active, reusable, reader, writer,
                       registered, pty, user>>,
           Coherent(x, Waiting(r), r \in pty.running, pty.up, reusable)
    PROVE  IInv'
<1>1. lock = r /\ NoOne \notin Requests
  BY ConstantsAssumption DEF IInv, HolderLocked
<1>2. ~active /\ tap = NoOne
  BY <1>1 DEF IInv, TapBelongsToHolder, TypeOK
<1>3. /\ req' \in [Requests -> RequestRecords]
      /\ \A s \in Requests : CoherentAt(s)'
      /\ req'[r] = x
      /\ \A s \in Requests \ {r} : req'[s] = req[s]
  BY UpdateKeeps
<1>4. TypeOK'
  BY <1>3 DEF IInv, TypeOK
<1>5. HolderLocked'
  BY <1>1, <1>3 DEF IInv, HolderLocked
<1>6. TapBelongsToHolder'
  BY <1>2 DEF TapBelongsToHolder
<1>7. LinesAreWhole'
  BY DEF IInv, LinesAreWhole
<1> QED
  BY <1>3, <1>4, <1>5, <1>6, <1>7 DEF IInv

LEMMA CheckKeeps ==
    ASSUME IInv, NEW r \in Requests, CheckFailed(r) \/ CheckPassed(r)
    PROVE  IInv'
<1>1. req[r].pc = "checking"
  BY DEF CheckFailed, CheckPassed, At
<1>2. CASE CheckPassed(r)
  BY <1>1, <1>2, GotoKeeps DEF CheckPassed, Unusable
<1>3. CASE CheckFailed(r)
  <2> DEFINE x == NotSent(req[r])
  <2>1. /\ x \in RequestRecords /\ x.pc \notin Locked
        /\ Coherent(x, Waiting(r), r \in pty.running, pty.up, reusable)
    BY <1>1, NotSentCoherent DEF Unsent
  <2>2. req' = [req EXCEPT ![r] = x]
    BY <1>3 DEF CheckFailed
  <2> HIDE DEF x
  <2> QED
    BY <1>1, <1>3, <2>1, <2>2, ReleaseKeeps DEF CheckFailed
<1> QED
  BY <1>2, <1>3

LEMMA ReleaseLockKeeps ==
    ASSUME IInv, NEW r \in Requests, ReleaseLock(r)
    PROVE  IInv'
<1>1. req[r] \in RequestRecords /\ CoherentAt(r) /\ req[r].pc = "releasing"
  BY RequestFacts DEF ReleaseLock, At
<1>2. CASE req[r].answer # "none" \/ req[r].client = "gone"
  <2> DEFINE x == Ended(req[r], req[r].answer)
  <2>1. req[r].answer \in Answers
    BY <1>1 DEF RequestRecords
  <2>2. /\ x \in RequestRecords
        /\ x.pc = "over" /\ ~x.elevated
        /\ x.required = req[r].required /\ x.client = req[r].client
        /\ x.inbox = <<>> /\ x.answer = req[r].answer
        /\ x.live = req[r].live /\ x.fresh = req[r].fresh
    BY <1>1, <2>1, EndedRecord
  <2>3. req' = [req EXCEPT ![r] = x]
    BY <1>2 DEF ReleaseLock
  <2> HIDE DEF x
  <2>4. Coherent(x, Waiting(r), r \in pty.running, pty.up, reusable)
    BY <1>1, <1>2, <2>2 DEF CoherentAt, Coherent, Unsent, Marked
  <2> QED
    BY <1>1, <2>2, <2>3, <2>4, ReleaseKeeps DEF ReleaseLock
<1>3. CASE ~(req[r].answer # "none" \/ req[r].client = "gone")
  <2> DEFINE x == NotSent(req[r])
  <2>1. /\ x \in RequestRecords /\ x.pc \notin Locked
        /\ Coherent(x, Waiting(r), r \in pty.running, pty.up, reusable)
    BY <1>1, <1>3, NotSentCoherent DEF Unsent
  <2>2. req' = [req EXCEPT ![r] = x]
    BY <1>3 DEF ReleaseLock
  <2> HIDE DEF x
  <2> QED
    BY <1>1, <2>1, <2>2, ReleaseKeeps DEF ReleaseLock
<1> QED
  BY <1>2, <1>3

LEMMA InstallTapKeeps ==
    ASSUME IInv, NEW r \in Requests, InstallTap(r)
    PROVE  IInv'
<1> DEFINE x == [req[r] EXCEPT !.pc = "rechecking", !.inbox = <<>>]
<1>1. req[r] \in RequestRecords /\ CoherentAt(r) /\ req[r].pc = "tapping"
  BY RequestFacts DEF InstallTap, At
<1>2. <<>> \in Seq({"chunk", "marker"})
  OBVIOUS
<1>3. /\ x \in RequestRecords
      /\ x.pc = "rechecking" /\ x.elevated = req[r].elevated
      /\ x.required = req[r].required /\ x.client = req[r].client
      /\ x.inbox = <<>> /\ x.answer = req[r].answer
      /\ x.live = req[r].live /\ x.fresh = req[r].fresh
  BY <1>1, <1>2 DEF RequestRecords
<1>4. req' = [req EXCEPT ![r] = x]
  BY DEF InstallTap
<1> HIDE DEF x
<1>5. Coherent(x, Waiting(r), r \in pty.running, pty.up, reusable)
  BY <1>1, <1>3 DEF CoherentAt, Coherent, Unsent, Marked
<1>6. /\ req' \in [Requests -> RequestRecords]
      /\ \A s \in Requests : CoherentAt(s)'
      /\ req'[r] = x
      /\ \A s \in Requests \ {r} : req'[s] = req[s]
  BY <1>3, <1>4, <1>5, UpdateKeeps DEF InstallTap
<1>7. TypeOK'
  BY <1>6 DEF InstallTap, IInv, TypeOK
<1>8. lock = r
  BY <1>1 DEF IInv, HolderLocked
<1>9. HolderLocked'
  BY <1>1, <1>3, <1>6 DEF InstallTap, IInv, HolderLocked
<1>10. TapBelongsToHolder'
  BY <1>3, <1>6, <1>8 DEF InstallTap, TapBelongsToHolder
<1>11. LinesAreWhole'
  BY DEF InstallTap, IInv, LinesAreWhole
<1> QED
  BY <1>6, <1>7, <1>9, <1>10, <1>11 DEF IInv

\* The holder leaves with an answer; the session may be marked unusable.
LEMMA LeaveWithKeeps ==
    ASSUME IInv, NEW r \in Requests, NEW a \in Answers,
           LeaveWith(r, a), req[r].pc \in Locked,
           UNCHANGED <<disconnected, lock, reader, writer, registered, pty, user>>,
           \/ reusable' = reusable /\ req[r].pc \in {"rechecking", "sending"} /\ a = "none"
           \/ /\ reusable' = reusable /\ req[r].pc \in {"waiting", "relaying"}
              /\ a = "none" /\ req[r].client = "gone"
           \/ /\ reusable' = reusable /\ Marked(req[r]) /\ a = "done"
           \/ /\ reusable' = reusable /\ Marked(req[r]) /\ a = "elevate" /\ req[r].elevated
           \/ /\ reusable' = FALSE /\ req[r].pc = "waiting" /\ a \in {"timed_out", "unknown"}
    PROVE  IInv'
<1> DEFINE x == [req[r] EXCEPT !.pc = "releasing", !.answer = a]
<1>1. req[r] \in RequestRecords /\ CoherentAt(r)
  BY RequestFacts
<1>2. /\ x \in RequestRecords
      /\ x.pc = "releasing" /\ x.elevated = req[r].elevated
      /\ x.required = req[r].required /\ x.client = req[r].client
      /\ x.inbox = req[r].inbox /\ x.answer = a
      /\ x.live = req[r].live /\ x.fresh = req[r].fresh
  BY <1>1 DEF RequestRecords
<1>3. req' = [req EXCEPT ![r] = x]
  BY DEF LeaveWith
<1> DropTap(r)
  BY DEF LeaveWith
<1>4. req[r].live \in Nat /\ req[r].fresh \in Nat
  BY <1>1 DEF RequestRecords
<1> HIDE DEF x
<1>5. Coherent(x, Waiting(r), r \in pty.running, pty.up, reusable')
  <2>1. /\ Coherent(req[r], Waiting(r), r \in pty.running, pty.up, reusable)
        /\ Marked(x) = Marked(req[r])
    BY <1>1, <1>2 DEF CoherentAt, Marked
  <2>2. CASE reusable' = reusable /\ req[r].pc \in {"rechecking", "sending"} /\ a = "none"
    BY <1>2, <1>4, <2>1, <2>2 DEF Coherent, Unsent
  <2>3. CASE /\ reusable' = reusable /\ req[r].pc \in {"waiting", "relaying"}
             /\ a = "none" /\ req[r].client = "gone"
    BY <1>2, <1>4, <2>1, <2>3 DEF Coherent, Unsent
  <2>4. CASE reusable' = reusable /\ Marked(req[r]) /\ a = "done"
    BY <1>2, <1>4, <2>1, <2>4 DEF Coherent, Unsent
  <2>5. CASE reusable' = reusable /\ Marked(req[r]) /\ a = "elevate" /\ req[r].elevated
    BY <1>2, <1>4, <2>1, <2>5 DEF Coherent, Unsent
  <2>6. CASE /\ reusable' = FALSE /\ req[r].pc = "waiting"
             /\ a \in {"timed_out", "unknown"}
    BY <1>2, <1>4, <2>1, <2>6 DEF Coherent, Unsent
  <2> QED
    BY <2>2, <2>3, <2>4, <2>5, <2>6
<1> QED
  BY <1>2, <1>3, <1>5, LeaveKeeps

LEMMA RecheckKeeps ==
    ASSUME IInv, NEW r \in Requests, Recheck(r)
    PROVE  IInv'
<1>1. req[r].pc = "rechecking"
  BY DEF Recheck, At
<1>2. CASE disconnected
  BY <1>1, <1>2, LeaveWithKeeps DEF Recheck
<1>3. CASE ~disconnected
  BY <1>1, <1>3, GotoKeeps DEF Recheck, session
<1> QED
  BY <1>2, <1>3

-----------------------------------------------------------------------------
(* The command in the tab.                                                 *)

LEMMA NothingQueuedKeeps ==
    ASSUME IInv, NEW r \in Requests, NothingQueued(r)
    PROVE  IInv'
BY LeaveWithKeeps DEF NothingQueued, At

\* What is left of a tap's channel after a piece was taken.
LEMMA TailOfInbox ==
    ASSUME NEW q \in Seq({"chunk", "marker"}), q # <<>>
    PROVE  /\ Tail(q) \in Seq({"chunk", "marker"})
           /\ \A i \in DOMAIN Tail(q) : Tail(q)[i] = q[i + 1] /\ i + 1 \in DOMAIN q
           /\ 1 \in DOMAIN q /\ q[1] = Head(q)
OBVIOUS

LEMMA TakeChunkKeeps ==
    ASSUME IInv, NEW r \in Requests, TakeChunk(r)
    PROVE  IInv'
<1> DEFINE p == IF req[r].stream THEN "relaying" ELSE "waiting"
           q == Tail(req[r].inbox)
           x == [req[r] EXCEPT !.inbox = q, !.pc = p]
<1>1. req[r] \in RequestRecords /\ CoherentAt(r) /\ req[r].pc = "waiting"
  BY RequestFacts DEF TakeChunk, At
<1>2. req[r].inbox \in Seq({"chunk", "marker"}) /\ req[r].inbox # <<>>
  BY <1>1 DEF TakeChunk, RequestRecords
<1>3. /\ q \in Seq({"chunk", "marker"})
      /\ \A i \in DOMAIN q : \E j \in DOMAIN req[r].inbox : q[i] = req[r].inbox[j]
  BY <1>2, TailOfInbox
<1>4. p \in {"relaying", "waiting"}
  OBVIOUS
<1>5. req' = [req EXCEPT ![r] = x]
  BY DEF TakeChunk
<1> HIDE DEF p, q
<1>6. x \in RequestRecords
  BY <1>1, <1>3, <1>4 DEF RequestRecords
<1>7. /\ x.pc = p /\ x.elevated = req[r].elevated
      /\ x.required = req[r].required /\ x.client = req[r].client
      /\ x.inbox = q /\ x.answer = req[r].answer
      /\ x.live = req[r].live /\ x.fresh = req[r].fresh
  BY <1>1 DEF RequestRecords
<1> HIDE DEF x
<1>8. Marked(x) => Marked(req[r])
  BY <1>3, <1>7 DEF Marked
<1>9. Coherent(x, Waiting(r), r \in pty.running, pty.up, reusable)
  BY <1>1, <1>4, <1>7, <1>8 DEF CoherentAt, Coherent, Unsent
<1> QED
  BY <1>1, <1>4, <1>5, <1>6, <1>7, <1>9, QuietKeeps DEF InTap, TakeChunk

LEMMA TakeMarkerKeeps ==
    ASSUME IInv, NEW r \in Requests, TakeMarker(r)
    PROVE  IInv'
<1>1. req[r] \in RequestRecords /\ CoherentAt(r) /\ req[r].pc = "waiting"
  BY RequestFacts DEF TakeMarker, At
<1>2. req[r].inbox \in Seq({"chunk", "marker"}) /\ req[r].inbox # <<>>
  BY <1>1 DEF TakeMarker, RequestRecords
<1>3. Marked(req[r])
  BY <1>2, TailOfInbox DEF TakeMarker, Marked
<1>4. CASE req[r].stream
  <2> DEFINE q == Tail(req[r].inbox)
             x == [req[r] EXCEPT !.inbox = q, !.pc = "reporting", !.answer = "done"]
  <2>1. q \in Seq({"chunk", "marker"})
    BY <1>2, TailOfInbox
  <2>2. req' = [req EXCEPT ![r] = x]
    BY <1>4 DEF TakeMarker
  <2> HIDE DEF q
  <2>3. x \in RequestRecords
    BY <1>1, <2>1 DEF RequestRecords
  <2>4. /\ x.pc = "reporting" /\ x.elevated = req[r].elevated
        /\ x.required = req[r].required /\ x.client = req[r].client
        /\ x.answer = "done" /\ x.live = req[r].live /\ x.fresh = req[r].fresh
        /\ req[r].live \in Nat /\ req[r].fresh \in Nat
    BY <1>1 DEF RequestRecords
  <2> HIDE DEF x
  <2>5. Coherent(x, Waiting(r), r \in pty.running, pty.up, reusable)
    BY <1>1, <1>3, <2>4 DEF CoherentAt, Coherent, Unsent
  <2> QED
    BY <1>1, <1>4, <2>2, <2>3, <2>4, <2>5, QuietKeeps DEF InTap, TakeMarker, session
<1>5. CASE ~req[r].stream
  <2>1. LeaveWith(r, "done") \/ (req[r].elevated /\ LeaveWith(r, "elevate"))
    BY <1>5 DEF TakeMarker
  <2>2. CASE LeaveWith(r, "done")
    BY <1>1, <1>3, <2>2, LeaveWithKeeps DEF TakeMarker
  <2>3. CASE req[r].elevated /\ LeaveWith(r, "elevate")
    BY <1>1, <1>3, <2>3, LeaveWithKeeps DEF TakeMarker
  <2> QED
    BY <2>1, <2>2, <2>3
<1> QED
  BY <1>4, <1>5

\* The outcome a of a command that was typed stays open.
LEMMA GiveUpKeeps ==
    ASSUME IInv, NEW r \in Requests, NEW a \in {"timed_out", "unknown"},
           req[r].pc = "waiting", GiveUp(r, a)
    PROVE  IInv'
<1>1. req[r] \in RequestRecords /\ CoherentAt(r)
  BY RequestFacts
<1>2. CASE req[r].stream
  <2> DEFINE x == [req[r] EXCEPT !.pc = "reporting", !.answer = a]
  <2>1. /\ x \in RequestRecords
        /\ x.pc = "reporting" /\ x.elevated = req[r].elevated
        /\ x.required = req[r].required /\ x.client = req[r].client
        /\ x.inbox = req[r].inbox /\ x.answer = a
        /\ x.live = req[r].live /\ x.fresh = req[r].fresh
    BY <1>1 DEF RequestRecords
  <2>2. req' = [req EXCEPT ![r] = x]
    BY <1>2 DEF GiveUp
  <2>3. /\ ~reusable'
        /\ UNCHANGED <<disconnected, tap, lock, active, reader, writer, registered, pty, user>>
    BY <1>2 DEF GiveUp
  <2> HIDE DEF x
  <2>4. Coherent(x, Waiting(r), r \in pty.running, pty.up, reusable')
    BY <1>1, <2>1, <2>3 DEF CoherentAt, Coherent, Unsent, Marked
  <2>5. lock = r
    BY DEF IInv, HolderLocked
  <2>6. /\ req' \in [Requests -> RequestRecords]
        /\ \A s \in Requests : CoherentAt(s)'
        /\ req'[r] = x
        /\ \A s \in Requests \ {r} : req'[s] = req[s]
    BY <2>1, <2>2, <2>3, <2>4, <2>5, UpdateKeeps
  <2>7. TypeOK'
    BY <2>3, <2>6 DEF GiveUp, IInv, TypeOK
  <2>8. HolderLocked'
    BY <2>1, <2>3, <2>6 DEF IInv, HolderLocked
  <2>9. TapBelongsToHolder'
    BY <2>1, <2>3, <2>6 DEF IInv, TapBelongsToHolder
  <2>10. LinesAreWhole'
    BY <2>3 DEF IInv, LinesAreWhole
  <2> QED
    BY <2>6, <2>7, <2>8, <2>9, <2>10 DEF IInv
<1>3. CASE ~req[r].stream
  BY <1>3, LeaveWithKeeps DEF GiveUp
<1> QED
  BY <1>2, <1>3

LEMMA TapClosedKeeps ==
    ASSUME IInv, NEW r \in Requests, TapClosed(r)
    PROVE  IInv'
BY GiveUpKeeps DEF TapClosed, At

LEMMA DeadlineKeeps ==
    ASSUME IInv, NEW r \in Requests, Deadline(r)
    PROVE  IInv'
BY GiveUpKeeps DEF Deadline, At

LEMMA RelayedKeeps ==
    ASSUME IInv, NEW r \in Requests, Relayed(r)
    PROVE  IInv'
<1> DEFINE c == req[r].chan + 1
           x == [req[r] EXCEPT !.pc = "waiting", !.chan = c]
<1>1. req[r] \in RequestRecords /\ CoherentAt(r) /\ req[r].pc = "relaying"
  BY RequestFacts DEF Relayed, At
<1>2. c \in 0 .. ChannelCap
  BY <1>1, ConstantsAssumption DEF Relayed, RequestRecords
<1>3. req' = [req EXCEPT ![r] = x]
  BY DEF Relayed
<1> HIDE DEF c
<1>4. /\ x \in RequestRecords
      /\ x.pc = "waiting" /\ x.elevated = req[r].elevated
      /\ x.required = req[r].required /\ x.client = req[r].client
      /\ x.inbox = req[r].inbox /\ x.answer = req[r].answer
      /\ x.live = req[r].live /\ x.fresh = req[r].fresh
  BY <1>1, <1>2 DEF RequestRecords
<1> HIDE DEF x
<1>5. Coherent(x, Waiting(r), r \in pty.running, pty.up, reusable)
  BY <1>1, <1>4 DEF CoherentAt, Coherent, Unsent, Marked
<1> QED
  BY <1>1, <1>3, <1>4, <1>5, QuietKeeps DEF InTap, Relayed

LEMMA RelayFailedKeeps ==
    ASSUME IInv, NEW r \in Requests, RelayFailed(r)
    PROVE  IInv'
BY LeaveWithKeeps DEF RelayFailed, At

LEMMA ReportedKeeps ==
    ASSUME IInv, NEW r \in Requests, Reported(r)
    PROVE  IInv'
<1> DEFINE c == IF req[r].client = "gone" THEN req[r].chan ELSE req[r].chan + 1
           x == [req[r] EXCEPT !.pc = "releasing", !.chan = c]
<1>1. req[r] \in RequestRecords /\ CoherentAt(r) /\ req[r].pc = "reporting"
  BY RequestFacts DEF Reported, At
<1>2. c \in 0 .. ChannelCap
  BY <1>1, ConstantsAssumption DEF Reported, RequestRecords
<1>3. req' = [req EXCEPT ![r] = x]
  BY DEF Reported
<1>4. DropTap(r)
  BY DEF Reported
<1> HIDE DEF c
<1>5. /\ x \in RequestRecords
      /\ x.pc = "releasing" /\ x.elevated = req[r].elevated
      /\ x.required = req[r].required /\ x.client = req[r].client
      /\ x.inbox = req[r].inbox /\ x.answer = req[r].answer
      /\ x.live = req[r].live /\ x.fresh = req[r].fresh
  BY <1>1, <1>2 DEF RequestRecords
<1> HIDE DEF x
<1>6. Coherent(x, Waiting(r), r \in pty.running, pty.up, reusable)
  BY <1>1, <1>5 DEF CoherentAt, Coherent, Unsent, Marked
<1> QED
  BY <1>1, <1>3, <1>4, <1>5, <1>6, LeaveKeeps DEF Reported

-----------------------------------------------------------------------------
(* A connection of its own, and the client.                                *)

\* Nothing else was started for the request, and it ends as started once.
LEMMA StartedKeeps ==
    ASSUME IInv, NEW r \in Requests, NEW a \in {"done", "timed_out", "error"},
           Started(r, a), UNCHANGED <<session, pty, user>>,
           req[r].pc \in {"fresh", "fallback", "sudo"}
    PROVE  IInv'
<1> DEFINE e == Ended(req[r], a)
           x == RunFresh(e)
<1>1. req[r] \in RequestRecords /\ CoherentAt(r)
  BY RequestFacts
<1>2. /\ e \in RequestRecords
      /\ e.pc = "over" /\ ~e.elevated
      /\ e.required = req[r].required /\ e.client = req[r].client
      /\ e.inbox = <<>> /\ e.answer = a
      /\ e.live = req[r].live /\ e.fresh = req[r].fresh
  BY <1>1, EndedRecord
<1>3. req' = [req EXCEPT ![r] = x]
  BY DEF Started
<1> HIDE DEF e
<1>4. /\ x \in RequestRecords
      /\ x.pc = "over" /\ ~x.elevated
      /\ x.required = e.required /\ x.client = e.client
      /\ x.inbox = e.inbox /\ x.answer = a
      /\ x.live = e.live /\ x.fresh = e.fresh + 1
  BY <1>2 DEF RunFresh, RequestRecords
<1> HIDE DEF x
<1>5. Coherent(x, Waiting(r), r \in pty.running, pty.up, reusable)
  BY <1>1, <1>2, <1>4 DEF CoherentAt, Coherent, Unsent, Marked
<1>6. x.pc \notin Locked
  BY <1>4
<1> QED
  BY <1>3, <1>4, <1>5, <1>6, QuietKeeps DEF InTap

LEMMA FreshKeeps ==
    ASSUME IInv, NEW r \in Requests, FreshExec(r)
    PROVE  IInv'
<1>1. CASE FreshFails(r)
  <2>1. req[r].pc \in {"fresh", "fallback", "sudo"}
    BY <1>1 DEF FreshFails, At
  <2> QED
    BY <1>1, <2>1, StartedKeeps, EndKeeps DEF FreshFails, Unsent
<1>2. CASE FreshRuns(r) \/ SudoWithPassword(r)
  <2>1. req[r].pc \in {"fresh", "fallback", "sudo"}
    BY <1>2 DEF FreshRuns, SudoWithPassword, At
  <2> QED
    BY <1>2, <2>1, StartedKeeps DEF FreshRuns, SudoWithPassword
<1>3. CASE ExecRejected(r)
  BY <1>3, GotoKeeps DEF ExecRejected, At
<1>4. CASE SudoRefused(r)
  BY <1>4, GotoKeeps DEF SudoRefused, At
<1>5. CASE ElevationRequired(r)
  BY <1>5, EndKeeps DEF ElevationRequired, At, Unsent
<1> QED
  BY <1>1, <1>2, <1>3, <1>4, <1>5 DEF FreshExec

LEMMA HangUpStallKeeps ==
    ASSUME IInv, NEW r \in Requests, HangUp(r) \/ Stall(r)
    PROVE  IInv'
<1>1. PICK c \in {"gone", "stalled"} :
        /\ req' = [req EXCEPT ![r].client = c]
        /\ c = "stalled" => req[r].client # "gone"
  BY DEF HangUp, Stall
<1> DEFINE x == [req[r] EXCEPT !.client = c]
<1>2. req[r] \in RequestRecords /\ CoherentAt(r)
  BY RequestFacts
<1>3. req' = [req EXCEPT ![r] = x]
  BY <1>1
<1>4. /\ x \in RequestRecords
      /\ x.pc = req[r].pc /\ x.elevated = req[r].elevated
      /\ x.required = req[r].required /\ x.client = c
      /\ x.inbox = req[r].inbox /\ x.answer = req[r].answer
      /\ x.live = req[r].live /\ x.fresh = req[r].fresh
  BY <1>2 DEF RequestRecords
<1> HIDE DEF x
<1>5. Coherent(x, Waiting(r), r \in pty.running, pty.up, reusable)
  BY <1>1, <1>2, <1>4 DEF CoherentAt, Coherent, Unsent, Marked
<1> QED
  BY <1>3, <1>4, <1>5, QuietKeeps DEF HangUp, Stall

LEMMA ClientReadsKeeps ==
    ASSUME IInv, NEW r \in Requests, ClientReads(r)
    PROVE  IInv'
<1> DEFINE c == req[r].chan - 1
           x == [req[r] EXCEPT !.chan = c]
<1>1. req[r] \in RequestRecords /\ CoherentAt(r)
  BY RequestFacts
<1>2. c \in 0 .. ChannelCap
  BY <1>1, ConstantsAssumption DEF ClientReads, RequestRecords
<1>3. req' = [req EXCEPT ![r] = x]
  BY DEF ClientReads
<1> HIDE DEF c
<1>4. /\ x \in RequestRecords
      /\ x.pc = req[r].pc /\ x.elevated = req[r].elevated
      /\ x.required = req[r].required /\ x.client = req[r].client
      /\ x.inbox = req[r].inbox /\ x.answer = req[r].answer
      /\ x.live = req[r].live /\ x.fresh = req[r].fresh
  BY <1>1, <1>2 DEF RequestRecords
<1> HIDE DEF x
<1>5. Coherent(x, Waiting(r), r \in pty.running, pty.up, reusable)
  BY <1>1, <1>4 DEF CoherentAt, Coherent, Unsent, Marked
<1> QED
  BY <1>3, <1>4, <1>5, QuietKeeps DEF ClientReads

LEMMA CancelledKeeps ==
    ASSUME IInv, NEW r \in Requests, Cancelled(r)
    PROVE  IInv'
<1>1. CASE /\ req[r].pc \in {"locking", "fresh", "fallback", "sudo"}
           /\ Answer(r, "none")
           /\ UNCHANGED <<tap, active>>
  <2>1. UNCHANGED <<session, pty, user>>
    BY <1>1 DEF Cancelled, session
  <2>2. req[r].client = "gone"
    BY DEF Cancelled
  <2> QED
    BY <1>1, <2>1, <2>2, EndKeeps DEF Unsent
<1>2. CASE At(r, "waiting") /\ ~req[r].stream /\ LeaveWith(r, "none")
  BY <1>2, LeaveWithKeeps DEF Cancelled, At
<1> QED
  BY <1>1, <1>2 DEF Cancelled

-----------------------------------------------------------------------------
(* The terminal.                                                           *)

LEMMA PtyFacts ==
    ASSUME IInv
    PROVE  /\ pty \in PtyRecords
           /\ pty.up \in BOOLEAN
           /\ pty.typed \in Seq(Pieces)
           /\ pty.line \in SUBSET (Requests \union {User})
           /\ pty.running \in SUBSET (Requests \union {User})
           /\ pty.said \in 0 .. MaxChunks
BY DEF IInv, TypeOK, PtyRecords

\* Lines that leave the terminal take nothing from what is known of a request.
LEMMA FewerLinesKeep ==
    ASSUME IInv,
           UNCHANGED <<lock, reusable, req>>,
           \A r \in Requests : Waiting(r)' => Waiting(r),
           \A r \in Requests : r \in pty'.running => r \in pty.running,
           pty'.up => pty.up
    PROVE  HolderLocked' /\ \A r \in Requests : CoherentAt(r)'
<1>1. HolderLocked'
  BY DEF IInv, HolderLocked
<1>2. ASSUME NEW r \in Requests
      PROVE  CoherentAt(r)'
  <2>1. CoherentAt(r) /\ req[r] \in RequestRecords
    BY RequestFacts
  <2>2. req[r].live \in Nat /\ req[r].fresh \in Nat
    BY <2>1 DEF RequestRecords
  <2> QED
    BY <2>1, <2>2 DEF CoherentAt, Coherent
<1> QED
  BY <1>1, <1>2

\* A piece b is typed.
LEMMA TypedPiece ==
    ASSUME IInv, NEW b \in Pieces,
           pty' = [pty EXCEPT !.typed = Append(@, b)]
    PROVE  /\ pty' \in PtyRecords
           /\ pty'.up = pty.up /\ pty'.line = pty.line /\ pty'.running = pty.running
           /\ Len(pty.typed) \in Nat
           /\ DOMAIN pty.typed = 1 .. Len(pty.typed)
           /\ DOMAIN pty'.typed = 1 .. (Len(pty.typed) + 1)
           /\ \A i \in DOMAIN pty.typed : pty'.typed[i] = pty.typed[i]
           /\ pty'.typed[Len(pty.typed) + 1] = b
<1> DEFINE q == Append(pty.typed, b)
<1>1. pty \in PtyRecords /\ pty.typed \in Seq(Pieces)
  BY PtyFacts
<1>2. /\ q \in Seq(Pieces)
      /\ Len(pty.typed) \in Nat
      /\ DOMAIN pty.typed = 1 .. Len(pty.typed)
      /\ DOMAIN q = 1 .. (Len(pty.typed) + 1)
      /\ \A i \in DOMAIN pty.typed : q[i] = pty.typed[i]
      /\ q[Len(pty.typed) + 1] = b
  BY <1>1
<1>3. pty' = [pty EXCEPT !.typed = q]
  OBVIOUS
<1> HIDE DEF q
<1>4. /\ pty' \in PtyRecords
      /\ pty'.up = pty.up /\ pty'.line = pty.line /\ pty'.running = pty.running
      /\ pty'.typed = q
  BY <1>1, <1>2, <1>3 DEF PtyRecords
<1> QED
  BY <1>2, <1>4

LEMMA SendKeeps ==
    ASSUME IInv, NEW r \in Requests, Send(r)
    PROVE  IInv'
<1> DEFINE b == [by |-> r, enter |-> TRUE]
           x == [req[r] EXCEPT !.pc = "waiting"]
<1>0. /\ User \notin Requests
      /\ req[r] \in RequestRecords /\ CoherentAt(r) /\ req[r].pc = "sending"
  BY RequestFacts, ConstantsAssumption DEF Send, At
<1>1. b \in Pieces /\ b.by = r /\ b.enter
  BY DEF Pieces
<1>2. pty' = [pty EXCEPT !.typed = Append(@, b)] /\ req' = [req EXCEPT ![r] = x]
  BY DEF Send, Goto
<1>3. /\ x \in RequestRecords
      /\ x.pc = "waiting" /\ x.elevated = req[r].elevated
      /\ x.required = req[r].required /\ x.client = req[r].client
      /\ x.inbox = req[r].inbox /\ x.answer = req[r].answer
      /\ x.live = req[r].live /\ x.fresh = req[r].fresh
  BY <1>0 DEF RequestRecords
<1> HIDE DEF b, x
<1>4. /\ pty' \in PtyRecords
      /\ pty'.up = pty.up /\ pty'.line = pty.line /\ pty'.running = pty.running
      /\ Len(pty.typed) \in Nat
      /\ DOMAIN pty.typed = 1 .. Len(pty.typed)
      /\ DOMAIN pty'.typed = 1 .. (Len(pty.typed) + 1)
      /\ \A i \in DOMAIN pty.typed : pty'.typed[i] = pty.typed[i]
      /\ pty'.typed[Len(pty.typed) + 1] = b
  BY <1>1, <1>2, TypedPiece
<1>5. \A s \in Requests \ {r} : Waiting(s)' => Waiting(s)
  BY <1>1, <1>4 DEF Waiting
<1>6. ~Waiting(r) /\ req[r].live = 0 /\ req[r].fresh = 0 /\ req[r].answer = "none"
  BY <1>0 DEF CoherentAt, Coherent, Unsent
<1>7. /\ req' \in [Requests -> RequestRecords]
      /\ req'[r] = x
      /\ \A s \in Requests \ {r} : req'[s] = req[s]
  BY <1>2, <1>3 DEF IInv, TypeOK
<1>8. TypeOK'
  BY <1>4, <1>7 DEF Send, session, IInv, TypeOK
<1>9. HolderLocked'
  BY <1>0, <1>3, <1>7 DEF Send, session, IInv, HolderLocked
<1>10. TapBelongsToHolder'
  BY <1>3, <1>7 DEF Send, session, IInv, TapBelongsToHolder
<1>11. LinesAreWhole'
  <2>1. \A i \in DOMAIN pty.typed : pty.typed[i].by # r
    BY <1>6 DEF Waiting
  <2>2. LinesAreWhole
    BY DEF IInv
  <2>3. \A i \in DOMAIN pty'.typed :
           \/ i \in DOMAIN pty.typed /\ pty'.typed[i] = pty.typed[i]
           \/ i = Len(pty.typed) + 1 /\ pty'.typed[i] = b
    BY <1>4
  <2>4. pty'.line \subseteq {User}
    BY <1>4, <2>2 DEF LinesAreWhole
  <2>5. \A i \in DOMAIN pty'.typed : pty'.typed[i].by # User => pty'.typed[i].enter
    BY <1>1, <2>2, <2>3 DEF LinesAreWhole
  <2>6. ASSUME NEW i \in DOMAIN pty'.typed, NEW j \in DOMAIN pty'.typed,
               pty'.typed[i].by = pty'.typed[j].by, pty'.typed[i].by # User
        PROVE  i = j
    <3>1. CASE i \in DOMAIN pty.typed /\ j \in DOMAIN pty.typed
      BY <1>4, <2>2, <2>6, <3>1 DEF LinesAreWhole
    <3>2. CASE i \notin DOMAIN pty.typed /\ j \notin DOMAIN pty.typed
      BY <2>3, <3>2
    <3>3. CASE i \in DOMAIN pty.typed /\ j \notin DOMAIN pty.typed
      BY <1>1, <1>4, <2>1, <2>3, <2>6, <3>3
    <3>4. CASE i \notin DOMAIN pty.typed /\ j \in DOMAIN pty.typed
      BY <1>1, <1>4, <2>1, <2>3, <2>6, <3>4
    <3> QED
      BY <3>1, <3>2, <3>3, <3>4
  <2> QED
    BY <2>4, <2>5, <2>6 DEF LinesAreWhole
<1>12. CoherentAt(r)'
  <2>1. reusable' = reusable
    BY DEF Send, session
  <2> QED
    BY <1>0, <1>3, <1>4, <1>6, <1>7, <2>1 DEF CoherentAt, Coherent, Unsent, Marked
<1>13. ASSUME NEW s \in Requests \ {r}
       PROVE  CoherentAt(s)'
  <2>1. CoherentAt(s) /\ req[s] \in RequestRecords /\ req'[s] = req[s]
    BY <1>7, RequestFacts
  <2>2. req[s].live \in Nat /\ req[s].fresh \in Nat
    BY <2>1 DEF RequestRecords
  <2>3. reusable' = reusable
    BY DEF Send, session
  <2> QED
    BY <1>4, <1>5, <2>1, <2>2, <2>3 DEF CoherentAt, Coherent
<1> QED
  BY <1>8, <1>9, <1>10, <1>11, <1>12, <1>13 DEF IInv

LEMMA KeysKeep ==
    ASSUME IInv, KeySent \/ \E k \in {"key", "enter"} : KeyAllowed(k)
    PROVE  IInv'
<1>1. User \notin Requests /\ MaxKeys \in Nat
  BY ConstantsAssumption
<1>2. UNCHANGED <<session, req>>
  BY DEF KeySent, KeyAllowed
<1>3. user' \in UserRecords
  BY <1>1 DEF KeySent, KeyAllowed, IInv, TypeOK, UserRecords
<1>4. CASE pty' = pty
  <2>1. \A r \in Requests : Waiting(r)' = Waiting(r)
    BY <1>4 DEF Waiting
  <2>2. HolderLocked' /\ \A r \in Requests : CoherentAt(r)'
    BY <1>2, <1>4, <2>1, FewerLinesKeep DEF session
  <2>3. TypeOK' /\ TapBelongsToHolder' /\ LinesAreWhole'
    BY <1>2, <1>3, <1>4 DEF session, IInv, TypeOK, TapBelongsToHolder, LinesAreWhole
  <2> QED
    BY <2>2, <2>3 DEF IInv
<1>5. CASE KeySent /\ pty' # pty
  <2> DEFINE b == [by |-> User, enter |-> user.pending = "enter"]
  <2>1. b \in Pieces /\ b.by = User
    BY DEF Pieces
  <2>2. pty' = [pty EXCEPT !.typed = Append(@, b)]
    BY <1>5 DEF KeySent
  <2> HIDE DEF b
  <2>3. /\ pty' \in PtyRecords
        /\ pty'.up = pty.up /\ pty'.line = pty.line /\ pty'.running = pty.running
        /\ Len(pty.typed) \in Nat
        /\ DOMAIN pty.typed = 1 .. Len(pty.typed)
        /\ DOMAIN pty'.typed = 1 .. (Len(pty.typed) + 1)
        /\ \A i \in DOMAIN pty.typed : pty'.typed[i] = pty.typed[i]
        /\ pty'.typed[Len(pty.typed) + 1] = b
    BY <2>1, <2>2, TypedPiece
  <2>4. \A r \in Requests : Waiting(r)' => Waiting(r)
    BY <1>1, <2>1, <2>3 DEF Waiting
  <2>5. HolderLocked' /\ \A r \in Requests : CoherentAt(r)'
    BY <1>2, <2>3, <2>4, FewerLinesKeep DEF session
  <2>6. TypeOK' /\ TapBelongsToHolder'
    BY <1>2, <1>3, <2>3 DEF session, IInv, TypeOK, TapBelongsToHolder
  <2>7. LinesAreWhole'
    BY <2>1, <2>3 DEF IInv, LinesAreWhole
  <2> QED
    BY <2>5, <2>6, <2>7 DEF IInv
<1>6. CASE \E k \in {"key", "enter"} : KeyAllowed(k)
  BY <1>4, <1>6 DEF KeyAllowed
<1> QED
  BY <1>4, <1>5, <1>6

LEMMA ReaderBreaksKeeps ==
    ASSUME IInv, ReaderBreaks
    PROVE  IInv'
<1>1. pty \in PtyRecords /\ MaxChunks \in Nat
  BY PtyFacts, ConstantsAssumption
<1>2. /\ pty' \in PtyRecords
      /\ ~pty'.up /\ pty'.typed = <<>> /\ pty'.line = {} /\ pty'.running = {}
  <2>1. 0 \in 0 .. MaxChunks /\ <<>> \in Seq(Pieces)
    BY <1>1
  <2> QED
    BY <1>1, <2>1 DEF ReaderBreaks, PtyRecords
<1>3. \A r \in Requests : ~Waiting(r)'
  BY <1>2 DEF Waiting
<1>4. HolderLocked' /\ \A r \in Requests : CoherentAt(r)'
  BY <1>2, <1>3, FewerLinesKeep DEF ReaderBreaks
<1>5. TypeOK'
  BY <1>2 DEF ReaderBreaks, IInv, TypeOK
<1>6. TapBelongsToHolder' /\ LinesAreWhole'
  BY <1>2 DEF ReaderBreaks, IInv, TapBelongsToHolder, LinesAreWhole
<1> QED
  BY <1>4, <1>5, <1>6 DEF IInv

LEMMA WriterEndsKeeps ==
    ASSUME IInv, WriterEnds
    PROVE  IInv'
<1>1. PICK n \in 0 .. Len(pty.typed) :
        pty' = [pty EXCEPT !.typed = SubSeq(@, 1, n)]
  BY DEF WriterEnds
<1> DEFINE q == SubSeq(pty.typed, 1, n)
<1>2. pty \in PtyRecords /\ pty.typed \in Seq(Pieces)
  BY PtyFacts
<1>3. /\ q \in Seq(Pieces)
      /\ \A i \in DOMAIN q : i \in DOMAIN pty.typed /\ q[i] = pty.typed[i]
  BY <1>1, <1>2
<1>4. pty' = [pty EXCEPT !.typed = q]
  BY <1>1
<1> HIDE DEF q
<1>5. /\ pty' \in PtyRecords
      /\ pty'.up = pty.up /\ pty'.line = pty.line /\ pty'.running = pty.running
      /\ pty'.typed = q
  BY <1>2, <1>3, <1>4 DEF PtyRecords
<1>6. \A r \in Requests : Waiting(r)' => Waiting(r)
  BY <1>3, <1>5 DEF Waiting
<1>7. HolderLocked' /\ \A r \in Requests : CoherentAt(r)'
  BY <1>5, <1>6, FewerLinesKeep DEF WriterEnds
<1>8. TypeOK'
  BY <1>5 DEF WriterEnds, IInv, TypeOK
<1>9. TapBelongsToHolder' /\ LinesAreWhole'
  BY <1>3, <1>5 DEF WriterEnds, IInv, TapBelongsToHolder, LinesAreWhole
<1> QED
  BY <1>7, <1>8, <1>9 DEF IInv

LEMMA ReaderEndsUnregisterKeep ==
    ASSUME IInv, ReaderEnds \/ Unregister
    PROVE  IInv'
<1>1. UNCHANGED <<tap, lock, active, reusable, pty, user, req>>
  BY DEF ReaderEnds, Unregister
<1>2. \A r \in Requests : Waiting(r)' = Waiting(r)
  BY <1>1 DEF Waiting
<1>3. HolderLocked' /\ \A r \in Requests : CoherentAt(r)'
  BY <1>1, <1>2, FewerLinesKeep
<1>4. TypeOK'
  BY DEF ReaderEnds, Unregister, IInv, TypeOK
<1>5. TapBelongsToHolder' /\ LinesAreWhole'
  BY <1>1 DEF IInv, TapBelongsToHolder, LinesAreWhole
<1> QED
  BY <1>3, <1>4, <1>5 DEF IInv

-----------------------------------------------------------------------------
(* The remote shell.                                                       *)

\* The pieces the shell has left after it took the first one.
LEMMA TailOfTyped ==
    ASSUME NEW q \in Seq(Pieces), q # <<>>
    PROVE  /\ Tail(q) \in Seq(Pieces)
           /\ \A i \in DOMAIN Tail(q) :
                /\ Tail(q)[i] = q[i + 1]
                /\ i \in Nat /\ i + 1 \in DOMAIN q /\ i + 1 # 1
           /\ \A i, j \in DOMAIN Tail(q) : i + 1 = j + 1 => i = j
           /\ 1 \in DOMAIN q /\ q[1] = Head(q) /\ Head(q) \in Pieces
<1>1. /\ Tail(q) \in Seq(Pieces) /\ Len(q) \in Nat /\ Len(q) # 0
      /\ DOMAIN q = 1 .. Len(q) /\ DOMAIN Tail(q) = 1 .. (Len(q) - 1)
      /\ \A i \in 1 .. (Len(q) - 1) : Tail(q)[i] = q[i + 1]
      /\ Head(q) = q[1]
  OBVIOUS
<1>2. 1 \in 1 .. Len(q)
  BY <1>1
<1>3. q[1] \in Pieces
  BY <1>1, <1>2
<1> QED
  BY <1>1, <1>2, <1>3

\* Its line is one command: that of the request which typed it, or the user's.
LEMMA ShellReadsKeeps ==
    ASSUME IInv, ShellReads
    PROVE  IInv'
<1> DEFINE piece == Head(pty.typed)
           by == pty.line \union {piece.by}
           q == Tail(pty.typed)
<1>1. /\ pty \in PtyRecords /\ pty.typed \in Seq(Pieces) /\ pty.typed # <<>>
      /\ pty.line \in SUBSET (Requests \union {User})
      /\ pty.up \in BOOLEAN /\ pty.said \in 0 .. MaxChunks
      /\ pty.running = {} /\ pty.up
  BY PtyFacts DEF ShellReads
<1>2. /\ q \in Seq(Pieces)
      /\ \A i \in DOMAIN q :
           q[i] = pty.typed[i + 1] /\ i \in Nat /\ i + 1 \in DOMAIN pty.typed /\ i + 1 # 1
      /\ \A i, j \in DOMAIN q : i + 1 = j + 1 => i = j
      /\ 1 \in DOMAIN pty.typed /\ pty.typed[1] = piece /\ piece \in Pieces
  BY <1>1, TailOfTyped
<1>3. /\ piece.by \in Requests \union {User} /\ piece.enter \in BOOLEAN
      /\ by \in SUBSET (Requests \union {User})
  BY <1>1, <1>2 DEF Pieces
<1>4. /\ User \notin Requests /\ 0 \in 0 .. MaxChunks
      /\ {} \in SUBSET (Requests \union {User})
  BY ConstantsAssumption
<1>5. LinesAreWhole
  BY DEF IInv
<1>6. UNCHANGED <<disconnected, tap, lock, active, reusable, reader, writer, registered, user>>
  BY DEF ShellReads, session
<1>7. CASE ~piece.enter
  <2>1. piece.by = User
    BY <1>2, <1>5, <1>7 DEF LinesAreWhole
  <2>2. pty' = [pty EXCEPT !.typed = q, !.line = by] /\ req' = req
    BY <1>7 DEF ShellReads
  <2> HIDE DEF piece, by, q
  <2>3. /\ pty' \in PtyRecords
        /\ pty'.up = pty.up /\ pty'.typed = q /\ pty'.line = by /\ pty'.running = pty.running
    BY <1>1, <1>2, <1>3, <2>2 DEF PtyRecords
  <2>4. \A r \in Requests : Waiting(r)' => Waiting(r)
    BY <1>2, <2>3 DEF Waiting
  <2>5. HolderLocked' /\ \A r \in Requests : CoherentAt(r)'
    BY <1>6, <2>2, <2>3, <2>4, FewerLinesKeep
  <2>6. TypeOK'
    BY <1>6, <2>2, <2>3 DEF IInv, TypeOK
  <2>7. TapBelongsToHolder'
    BY <1>6, <2>2 DEF IInv, TapBelongsToHolder
  <2>8. LinesAreWhole'
    BY <1>2, <1>5, <2>1, <2>3 DEF LinesAreWhole, by
  <2> QED
    BY <2>5, <2>6, <2>7, <2>8 DEF IInv
<1>8. CASE piece.enter
  <2>1. /\ pty' = [pty EXCEPT !.typed = q, !.line = {}, !.running = by, !.said = 0]
        /\ req' = [r \in Requests |->
                     IF r \in by THEN [req[r] EXCEPT !.live = @ + 1] ELSE req[r]]
    BY <1>8 DEF ShellReads
  <2>2. \A r \in Requests : r \in by => r = piece.by
    BY <1>4, <1>5 DEF LinesAreWhole
  <2>3. \A r \in Requests : r = piece.by => Waiting(r) /\ r \in by
    BY <1>2 DEF Waiting
  <2>4. \A r \in Requests : r = piece.by => \A i \in DOMAIN q : q[i].by # r
    BY <1>2, <1>4, <1>5 DEF LinesAreWhole
  <2> HIDE DEF piece, by, q
  <2>5. /\ pty' \in PtyRecords
        /\ pty'.up = pty.up /\ pty'.typed = q /\ pty'.line = {} /\ pty'.running = by
    BY <1>1, <1>2, <1>3, <1>4, <2>1 DEF PtyRecords
  <2>6. \A r \in Requests : Waiting(r)' => Waiting(r)
    BY <1>2, <2>5 DEF Waiting
  <2>7. \A r \in Requests : r \in by => ~Waiting(r)'
    BY <2>2, <2>4, <2>5 DEF Waiting
  <2>8. ASSUME NEW r \in Requests
        PROVE  /\ req'[r] \in RequestRecords
               /\ req'[r].pc = req[r].pc
               /\ CoherentAt(r)'
    <3>1. /\ CoherentAt(r) /\ req[r] \in RequestRecords
          /\ req[r].live \in Nat /\ req[r].fresh \in Nat
      BY RequestFacts DEF RequestRecords
    <3>2. CASE r \in by
      <4> DEFINE n == req[r].live + 1
                 x == [req[r] EXCEPT !.live = n]
      <4>1. req'[r] = x
        BY <2>1, <3>2
      <4>2. n \in Nat
        BY <3>1
      <4>3. /\ x \in RequestRecords
            /\ x.pc = req[r].pc /\ x.elevated = req[r].elevated
            /\ x.required = req[r].required /\ x.client = req[r].client
            /\ x.inbox = req[r].inbox /\ x.answer = req[r].answer
            /\ x.live = n /\ x.fresh = req[r].fresh
        BY <3>1, <4>2 DEF RequestRecords
      <4>4. Waiting(r) /\ ~Waiting(r)' /\ r \in pty'.running
        BY <2>2, <2>3, <2>5, <2>7, <3>2
      <4>5. req[r].live = 0 /\ req[r].fresh = 0
        BY <3>1, <4>4 DEF CoherentAt, Coherent
      <4>6. req[r].answer \notin {"done", "refused", "elevate"} /\ ~Marked(req[r])
        BY <3>1, <4>4, <4>5 DEF CoherentAt, Coherent
      <4> HIDE DEF x
      <4>7. ~Marked(x) /\ ~Unsent(x) /\ x.live = 1
        BY <3>1, <4>3, <4>4, <4>5, <4>6 DEF CoherentAt, Coherent, Marked, Unsent
      <4>8. Coherent(x, FALSE, TRUE, pty.up, reusable)
        BY <3>1, <4>3, <4>4, <4>5, <4>6, <4>7 DEF CoherentAt, Coherent
      <4>9. CoherentAt(r)'
        BY <1>6, <2>5, <4>1, <4>4, <4>8 DEF CoherentAt, Coherent
      <4> QED
        BY <4>1, <4>3, <4>9
    <3>3. CASE r \notin by
      <4>1. req'[r] = req[r]
        BY <2>1, <3>3
      <4>2. CoherentAt(r)'
        BY <1>6, <2>5, <2>6, <3>1, <3>3, <4>1 DEF CoherentAt, Coherent
      <4> QED
        BY <3>1, <4>1, <4>2
    <3> QED
      BY <3>2, <3>3
  <2>9. req' \in [Requests -> RequestRecords]
    BY <2>1, <2>8
  <2>10. TypeOK'
    BY <1>6, <2>5, <2>9 DEF IInv, TypeOK
  <2>11. HolderLocked'
    BY <1>6, <2>8 DEF IInv, HolderLocked
  <2>12. TapBelongsToHolder'
    BY <1>6, <2>8 DEF IInv, TapBelongsToHolder
  <2>13. LinesAreWhole'
    BY <1>2, <1>5, <2>5 DEF LinesAreWhole
  <2> QED
    BY <2>8, <2>10, <2>11, <2>12, <2>13 DEF IInv
<1> QED
  BY <1>3, <1>7, <1>8

\* Output is copied to the tap, if there is one. A marker is that of a command
\* that ran and no longer runs.
LEMMA DeliverKeeps ==
    ASSUME IInv, NEW what \in {"chunk", "marker"},
           Deliver(what),
           UNCHANGED <<session, user>>,
           pty' \in PtyRecords,
           pty'.up = pty.up, pty'.typed = pty.typed, pty'.line = pty.line,
           pty'.running \subseteq pty.running,
           what = "marker" => tap \in pty.running /\ tap \notin pty'.running
    PROVE  IInv'
<1> USE DEF session
<1>1. NoOne \notin Requests /\ req \in [Requests -> RequestRecords]
  BY ConstantsAssumption DEF IInv, TypeOK
<1>2. \A r \in Requests : Waiting(r)' = Waiting(r)
  BY DEF Waiting
<1>3. TapBelongsToHolder /\ HolderLocked /\ LinesAreWhole
  BY DEF IInv
<1>4. LinesAreWhole'
  BY <1>3 DEF LinesAreWhole
<1>5. CASE tap = NoOne
  <2>1. req' = req
    BY <1>5 DEF Deliver
  <2>2. HolderLocked' /\ \A r \in Requests : CoherentAt(r)'
    BY <1>2, <2>1, FewerLinesKeep
  <2>3. TypeOK' /\ TapBelongsToHolder'
    BY <2>1 DEF IInv, TypeOK, TapBelongsToHolder
  <2> QED
    BY <1>4, <2>2, <2>3 DEF IInv
<1>6. CASE tap # NoOne
  <2> DEFINE q == Append(req[tap].inbox, what)
             x == [req[tap] EXCEPT !.inbox = q]
  <2>1. tap \in Requests
    BY <1>6 DEF IInv, TypeOK
  <2>2. /\ CoherentAt(tap) /\ req[tap] \in RequestRecords
        /\ req[tap].inbox \in Seq({"chunk", "marker"})
        /\ req[tap].live \in Nat /\ req[tap].fresh \in Nat
    BY <2>1, RequestFacts DEF RequestRecords
  <2>3. /\ q \in Seq({"chunk", "marker"})
        /\ \A i \in DOMAIN q :
             \/ i \in DOMAIN req[tap].inbox /\ q[i] = req[tap].inbox[i]
             \/ q[i] = what
    BY <2>2
  <2>4. req' = [req EXCEPT ![tap] = x]
    BY <1>6 DEF Deliver
  <2> HIDE DEF q
  <2>5. /\ x \in RequestRecords
        /\ x.pc = req[tap].pc /\ x.elevated = req[tap].elevated
        /\ x.required = req[tap].required /\ x.client = req[tap].client
        /\ x.inbox = q /\ x.answer = req[tap].answer
        /\ x.live = req[tap].live /\ x.fresh = req[tap].fresh
    BY <2>2, <2>3 DEF RequestRecords
  <2> HIDE DEF x
  <2>6. /\ req' \in [Requests -> RequestRecords]
        /\ req'[tap] = x
        /\ \A s \in Requests \ {tap} : req'[s] = req[s]
    BY <1>1, <2>1, <2>4, <2>5
  <2>7. Marked(x) => Marked(req[tap]) \/ what = "marker"
    BY <2>3, <2>5 DEF Marked
  <2>8. Marked(x) => x.live = 1 /\ tap \notin pty'.running
    BY <2>2, <2>5, <2>7 DEF CoherentAt, Coherent
  <2>9. Unsent(x) => Unsent(req[tap])
    BY <2>5 DEF Unsent
  <2>10. Coherent(x, Waiting(tap), tap \in pty'.running, pty.up, reusable)
    BY <2>2, <2>5, <2>8, <2>9 DEF CoherentAt, Coherent
  <2>11. CoherentAt(tap)'
    BY <1>2, <2>1, <2>6, <2>10 DEF CoherentAt
  <2>12. ASSUME NEW s \in Requests \ {tap}
         PROVE  CoherentAt(s)'
    <3>1. CoherentAt(s) /\ req[s] \in RequestRecords /\ req'[s] = req[s]
      BY <2>6, RequestFacts
    <3>2. req[s].live \in Nat /\ req[s].fresh \in Nat
      BY <3>1 DEF RequestRecords
    <3> QED
      BY <1>2, <3>1, <3>2 DEF CoherentAt, Coherent
  <2>13. \A s \in Requests : CoherentAt(s)'
    BY <2>11, <2>12
  <2>14. \A s \in Requests : req'[s].pc = req[s].pc
    BY <2>5, <2>6
  <2>15. TypeOK'
    BY <2>6 DEF IInv, TypeOK
  <2>16. HolderLocked' /\ TapBelongsToHolder'
    BY <1>3, <2>14 DEF HolderLocked, TapBelongsToHolder
  <2> QED
    BY <1>4, <2>13, <2>15, <2>16 DEF IInv
<1> QED
  BY <1>5, <1>6

LEMMA ShellOutputKeeps ==
    ASSUME IInv, ShellWrites \/ ShellFinishes
    PROVE  IInv'
<1>1. /\ pty \in PtyRecords /\ pty.said \in 0 .. MaxChunks /\ MaxChunks \in Nat
      /\ 0 \in 0 .. MaxChunks
  BY PtyFacts, ConstantsAssumption
<1>2. CASE ShellWrites
  <2> DEFINE n == pty.said + 1
  <2>1. n \in 0 .. MaxChunks
    BY <1>1, <1>2 DEF ShellWrites
  <2>2. pty' = [pty EXCEPT !.said = n]
    BY <1>2 DEF ShellWrites
  <2> HIDE DEF n
  <2>3. /\ pty' \in PtyRecords
        /\ pty'.up = pty.up /\ pty'.typed = pty.typed /\ pty'.line = pty.line
        /\ pty'.running = pty.running
    BY <1>1, <2>1, <2>2 DEF PtyRecords
  <2> QED
    BY <1>2, <2>3, DeliverKeeps DEF ShellWrites
<1>3. CASE ShellFinishes
  <2> DEFINE what == IF tap \in pty.running THEN "marker" ELSE "chunk"
  <2>1. pty' = [pty EXCEPT !.running = {}, !.said = 0]
    BY <1>3 DEF ShellFinishes
  <2>2. /\ pty' \in PtyRecords
        /\ pty'.up = pty.up /\ pty'.typed = pty.typed /\ pty'.line = pty.line
        /\ pty'.running = {}
    BY <1>1, <2>1 DEF PtyRecords
  <2>3. Deliver(what) /\ UNCHANGED <<session, user>>
    BY <1>3 DEF ShellFinishes
  <2>4. what \in {"chunk", "marker"} /\ (what = "marker" => tap \in pty.running)
    OBVIOUS
  <2> HIDE DEF what
  <2> QED
    BY <2>2, <2>3, <2>4, DeliverKeeps
<1> QED
  BY <1>2, <1>3

-----------------------------------------------------------------------------
LEMMA NextIInv == IInv /\ [Next]_vars => IInv'
<1> SUFFICES ASSUME IInv, [Next]_vars PROVE IInv'
  OBVIOUS
<1>1. ASSUME NEW r \in Requests, NEW s \in BOOLEAN, NEW e \in BOOLEAN, NEW q \in BOOLEAN,
             Arrive(r, s, e, q)
      PROVE  IInv'
  BY <1>1, ArriveKeeps
<1>2. ASSUME NEW r \in Requests, Exec(r)
      PROVE  IInv'
  BY <1>2, ExecStreamKeeps, ExecKeeps DEF Exec
<1>3. ASSUME NEW r \in Requests, BeginTap(r)
      PROVE  IInv'
  BY <1>3, LockTakenKeeps, CheckKeeps, InstallTapKeeps, RecheckKeeps, ReleaseLockKeeps
     DEF BeginTap
<1>4. ASSUME NEW r \in Requests, LiveExec(r)
      PROVE  IInv'
  BY <1>4, SendKeeps, NothingQueuedKeeps, TakeChunkKeeps, TakeMarkerKeeps,
     TapClosedKeeps, RelayedKeeps, RelayFailedKeeps, ReportedKeeps
     DEF LiveExec
<1>5. ASSUME NEW r \in Requests, Timer(r)
      PROVE  IInv'
  BY <1>5, LockTimeoutKeeps, DeadlineKeeps DEF Timer
<1>6. ASSUME NEW r \in Requests, FreshExec(r) \/ Client(r)
      PROVE  IInv'
  BY <1>6, FreshKeeps, HangUpStallKeeps, ClientReadsKeeps, CancelledKeeps DEF Client
<1>7. CASE Tab
  BY <1>7, ReaderBreaksKeeps, ReaderEndsUnregisterKeep, WriterEndsKeeps, KeysKeep DEF Tab
<1>8. CASE Shell
  BY <1>8, ShellReadsKeeps, ShellOutputKeeps DEF Shell
<1>9. CASE UNCHANGED vars
  <2>1. UNCHANGED <<session, pty, user, req>>
    BY <1>9 DEF vars
  <2>2. \A r \in Requests : Waiting(r)' = Waiting(r)
    BY <2>1 DEF Waiting
  <2>3. HolderLocked' /\ \A r \in Requests : CoherentAt(r)'
    BY <2>1, <2>2, FewerLinesKeep DEF session
  <2>4. TypeOK' /\ TapBelongsToHolder' /\ LinesAreWhole'
    BY <2>1 DEF session, IInv, TypeOK, TapBelongsToHolder, LinesAreWhole
  <2> QED
    BY <2>3, <2>4 DEF IInv
<1> QED
  BY <1>1, <1>2, <1>3, <1>4, <1>5, <1>6, <1>7, <1>8, <1>9 DEF Next

LEMMA Invariance == Spec => []IInv
BY InitIInv, NextIInv, PTL DEF Spec

-----------------------------------------------------------------------------
(* What the invariant says.                                                *)

\* The records of the requests, the terminal and the session's atomics keep
\* the ranges the code gives them.
THEOREM TypeCorrect == Spec => []TypeOK
<1>1. IInv => TypeOK
  BY DEF IInv
<1> QED
  BY <1>1, Invariance, PTL

\* No request replaces the tap of another one, and the keyboard is held back
\* only for the request that has the session (begin_output_tap).
THEOREM TapIsTheHolders == Spec => []TapBelongsToHolder
<1>1. IInv => TapBelongsToHolder
  BY DEF IInv
<1> QED
  BY <1>1, Invariance, PTL

\* Through any number of falls from stream to exec, from the tab to a
\* connection of its own, and from there to a shell and to sudo, with taps that
\* close and clients that hang up, a command starts at most once (LiveExecError).
THEOREM StartsOnce == Spec => []StartedOnce
<1>1. IInv => StartedOnce
  BY DEF IInv, CoherentAt, Coherent, StartedOnce
<1> QED
  BY <1>1, Invariance, PTL

\* What was meant for the machine behind a bastion's tab never runs on another
\* one (live_session_required).
THEOREM RequiredNeverLeavesTab == Spec => []RequiredStaysInTab
<1>1. IInv => RequiredStaysInTab
  BY DEF IInv, CoherentAt, Coherent, RequiredStaysInTab, At
<1> QED
  BY <1>1, Invariance, PTL

\* A relay command starts at most once, and where it was meant to.
THEOREM StartsOnceAsAsked == Spec => []StartsAsAsked
<1>1. StartedOnce /\ RequiredStaysInTab => StartsAsAsked
  BY DEF StartsAsAsked
<1> QED
  BY <1>1, StartsOnce, RequiredNeverLeavesTab, PTL

\* No caller is told of an end or of a refusal that did not take place.
THEOREM AnswersAreHonest == Spec => []AnswerIsHonest
<1>1. IInv => AnswerIsHonest
  BY DEF IInv, CoherentAt, Coherent, AnswerIsHonest
<1> QED
  BY <1>1, Invariance, PTL

-----------------------------------------------------------------------------
(* RelayExec implements RelayCommand. A step of one request is a step of   *)
(* its command or none; what the terminal does to the lines that are in it *)
(* is a step of all their commands.                                        *)

CommandAt(r) == Command(req[r], pty.up /\ Waiting(r), pty.up /\ r \in pty.running)

LEMMA CommandFields ==
    ASSUME NEW x \in RequestRecords, NEW w, NEW n
    PROVE  LET c == Command(x, w, n) IN
           /\ c.fate = Fate(x, w, n) /\ c.answer = x.answer /\ c.required = x.required
           /\ c.client = IF x.client = "gone" THEN "gone" ELSE "listens"
           /\ c \in Relay!CommandRecords
<1>1. Fate(x, w, n) \in Relay!Fates
  BY DEF Fate, Relay!Fates, Relay!Sent
<1>2. x.required \in BOOLEAN /\ x.answer \in Relay!Answers
  BY DEF RequestRecords, Relay!Answers
<1> QED
  BY <1>1, <1>2 DEF Command, Relay!CommandRecords

\* A record of a command in terms of another one.
LEMMA CommandChanges ==
    ASSUME NEW c \in Relay!CommandRecords, NEW d \in Relay!CommandRecords,
           d.required = c.required
    PROVE  /\ d.fate = c.fate /\ d.answer = c.answer /\ d.client = c.client => d = c
           /\ d.answer = c.answer /\ d.client = c.client =>
                d = [c EXCEPT !.fate = d.fate]
           /\ d.fate = c.fate /\ d.client = c.client =>
                d = [c EXCEPT !.answer = d.answer]
           /\ d.fate = c.fate /\ d.answer = c.answer =>
                d = [c EXCEPT !.client = d.client]
           /\ d.client = c.client => d = [c EXCEPT !.fate = d.fate, !.answer = d.answer]
           /\ d.answer = c.answer => d = [c EXCEPT !.client = d.client, !.fate = d.fate]
<1> USE DEF Relay!CommandRecords
<1>1. d.fate = c.fate /\ d.answer = c.answer /\ d.client = c.client => d = c
  OBVIOUS
<1>2. d.answer = c.answer /\ d.client = c.client => d = [c EXCEPT !.fate = d.fate]
  OBVIOUS
<1>3. d.fate = c.fate /\ d.client = c.client => d = [c EXCEPT !.answer = d.answer]
  OBVIOUS
<1>4. d.fate = c.fate /\ d.answer = c.answer => d = [c EXCEPT !.client = d.client]
  OBVIOUS
<1>5. d.client = c.client => d = [c EXCEPT !.fate = d.fate, !.answer = d.answer]
  <2> DEFINE e == [c EXCEPT !.fate = d.fate]
  <2>1. /\ e \in Relay!CommandRecords
        /\ e.fate = d.fate /\ e.required = d.required /\ e.client = c.client
    OBVIOUS
  <2> HIDE DEF e
  <2>2. d.client = c.client => d = [e EXCEPT !.answer = d.answer]
    BY <2>1
  <2> QED
    BY <2>2 DEF e
<1>6. d.answer = c.answer => d = [c EXCEPT !.client = d.client, !.fate = d.fate]
  <2> DEFINE e == [c EXCEPT !.client = d.client]
  <2>1. /\ e \in Relay!CommandRecords
        /\ e.client = d.client /\ e.required = d.required /\ e.answer = c.answer
    OBVIOUS
  <2> HIDE DEF e
  <2>2. d.answer = c.answer => d = [e EXCEPT !.fate = d.fate]
    BY <2>1
  <2> QED
    BY <2>2 DEF e
<1> QED
  BY <1>1, <1>2, <1>3, <1>4, <1>5, <1>6

\* A request's record is replaced and the terminal is not.
LEMMA OneCommand ==
    ASSUME IInv, NEW r \in Requests, NEW x \in RequestRecords,
           req' = [req EXCEPT ![r] = x], pty' = pty
    PROVE  /\ Commands[r] = CommandAt(r)
           /\ Commands' = [Commands EXCEPT
                ![r] = Command(x, pty.up /\ Waiting(r), pty.up /\ r \in pty.running)]
<1>1. req \in [Requests -> RequestRecords]
  BY DEF IInv, TypeOK
<1>2. req'[r] = x /\ \A s \in Requests \ {r} : req'[s] = req[s]
  BY <1>1
<1>3. \A s \in Requests : Waiting(s)' = Waiting(s)
  BY DEF Waiting
<1>4. /\ Commands = [s \in Requests |-> CommandAt(s)]
      /\ Commands' = [s \in Requests |-> CommandAt(s)']
  BY DEF Commands, CommandAt
<1>5. CommandAt(r)' = Command(x, pty.up /\ Waiting(r), pty.up /\ r \in pty.running)
  <2>1. Waiting(r)' <=> Waiting(r)
    BY <1>3
  <2> QED
    BY <1>2, <2>1 DEF CommandAt, Command, Fate
<1>6. ASSUME NEW s \in Requests \ {r}
      PROVE  CommandAt(s)' = CommandAt(s)
  <2>1. Waiting(s)' <=> Waiting(s)
    BY <1>3
  <2> QED
    BY <1>2, <2>1 DEF CommandAt, Command, Fate, Unsent, Awaited
<1> QED
  BY <1>4, <1>5, <1>6

\* What is known of the fate of r.
LEMMA FateOf ==
    ASSUME IInv, NEW r \in Requests
    PROVE  /\ req[r].pc = "idle" => CommandAt(r).fate = "idle"
           /\ Unsent(req[r]) /\ req[r].pc # "idle" => CommandAt(r).fate = "open"
           /\ Unsent(req[r]) => /\ req[r].live = 0 /\ req[r].fresh = 0 /\ req[r].answer = "none"
                                /\ ~Waiting(r) /\ r \notin pty.running
           /\ Awaited(req[r]) /\ req[r].fresh = 0 => CommandAt(r).fate \in Relay!Sent
           /\ CommandAt(r).answer = req[r].answer
           /\ CommandAt(r).required = req[r].required
           /\ CommandAt(r).client = "gone" <=> req[r].client = "gone"
           /\ CommandAt(r).fate =
                Fate(req[r], pty.up /\ Waiting(r), pty.up /\ r \in pty.running)
<1>1. req[r] \in RequestRecords /\ CoherentAt(r) /\ req[r].live \in Nat /\ req[r].fresh \in Nat
  BY RequestFacts DEF RequestRecords
<1>2. /\ CommandAt(r).fate =
           Fate(req[r], pty.up /\ Waiting(r), pty.up /\ r \in pty.running)
      /\ CommandAt(r).answer = req[r].answer /\ CommandAt(r).required = req[r].required
      /\ CommandAt(r).client = "gone" <=> req[r].client = "gone"
  BY <1>1, CommandFields DEF CommandAt
<1>3. Unsent(req[r]) =>
        /\ req[r].live = 0 /\ req[r].fresh = 0 /\ req[r].answer = "none"
        /\ ~Waiting(r) /\ r \notin pty.running
  BY <1>1 DEF CoherentAt, Coherent, Unsent
<1>4. Unsent(req[r]) /\ req[r].pc # "idle" => CommandAt(r).fate = "open"
  BY <1>2, <1>3 DEF Fate
<1>5. Awaited(req[r]) => ~Unsent(req[r]) /\ req[r].pc # "idle"
  BY <1>3 DEF Awaited, Unsent
<1>6. Awaited(req[r]) /\ req[r].fresh = 0 => CommandAt(r).fate \in Relay!Sent
  BY <1>2, <1>5 DEF Fate, Relay!Sent
<1>7. req[r].pc = "idle" => CommandAt(r).fate = "idle"
  BY <1>2 DEF Fate
<1> QED
  BY <1>2, <1>3, <1>4, <1>6, <1>7

-----------------------------------------------------------------------------
(* The steps of one request, by what they are to its command.              *)

\* Its place changes and its fate does not.
LEMMA QuietStep ==
    ASSUME IInv, NEW r \in Requests, NEW x \in RequestRecords,
           req' = [req EXCEPT ![r] = x], pty' = pty,
           x.pc = "idle" <=> req[r].pc = "idle",
           x.required = req[r].required, x.client = "gone" <=> req[r].client = "gone",
           x.answer = req[r].answer, x.live = req[r].live, x.fresh = req[r].fresh,
           Unsent(x) <=> Unsent(req[r]),
           Unsent(x) \/ x.live > 0 \/ (Awaited(x) <=> Awaited(req[r]))
    PROVE  Commands' = Commands
<1> DEFINE w == pty.up /\ Waiting(r)
           n == pty.up /\ r \in pty.running
<1>1. Fate(x, w, n) = Fate(req[r], w, n)
  BY DEF Fate
<1> HIDE DEF w, n
<1>2. Command(x, w, n) = Command(req[r], w, n)
  <2> DEFINE c == Command(req[r], w, n)
             d == Command(x, w, n)
  <2>1. /\ c \in Relay!CommandRecords /\ d \in Relay!CommandRecords
        /\ d.required = c.required
        /\ d.fate = c.fate /\ d.answer = c.answer /\ d.client = c.client
    BY <1>1, RequestFacts, CommandFields
  <2> HIDE DEF c, d
  <2>2. d = c
    BY <2>1, CommandChanges
  <2> QED
    BY <2>2 DEF c, d
<1>3. /\ Commands[r] = Command(req[r], w, n)
      /\ Commands' = [Commands EXCEPT ![r] = Command(x, w, n)]
  BY OneCommand DEF w, n, CommandAt
<1>4. Commands' = [Commands EXCEPT ![r] = Commands[r]]
  BY <1>2, <1>3
<1> QED
  BY <1>4 DEF Commands

\* It leaves with nothing to tell, and nobody to tell it.
LEMMA GiveUpStep ==
    ASSUME IInv, NEW r \in Requests, NEW x \in RequestRecords,
           req' = [req EXCEPT ![r] = x], pty' = pty,
           req[r].pc # "idle", x.pc # "idle",
           x.required = req[r].required,
           x.client = "gone", req[r].client = "gone",
           x.answer = "none", req[r].answer = "none",
           x.live = req[r].live, x.fresh = req[r].fresh,
           ~Unsent(x), ~Awaited(x)
    PROVE  Relay!GiveUp(r) \/ Commands' = Commands
<1> DEFINE w == pty.up /\ Waiting(r)
           n == pty.up /\ r \in pty.running
           c == Command(req[r], w, n)
           d == Command(x, w, n)
<1>1. \/ Fate(x, w, n) = Fate(req[r], w, n)
      \/ Fate(x, w, n) = "never" /\ Fate(req[r], w, n) \in {"open", "lost"}
  BY DEF Fate
<1>2. Commands[r] = c /\ Commands' = [Commands EXCEPT ![r] = d]
  BY OneCommand DEF CommandAt
<1>3. c.fate = Fate(req[r], w, n) /\ c.answer = "none" /\ c.client = "gone"
  BY RequestFacts, CommandFields
<1> HIDE DEF w, n
<1>4. /\ c \in Relay!CommandRecords /\ d \in Relay!CommandRecords
      /\ d.required = c.required
      /\ d.fate = Fate(x, w, n) /\ d.answer = c.answer /\ d.client = c.client
  BY RequestFacts, CommandFields
<1> HIDE DEF c, d
<1>5. d = [c EXCEPT !.fate = d.fate] /\ (d.fate = c.fate => d = c)
  BY <1>4, CommandChanges
<1>6. CASE Fate(x, w, n) = Fate(req[r], w, n)
  <2>1. Commands' = [Commands EXCEPT ![r] = Commands[r]]
    BY <1>2, <1>3, <1>4, <1>5, <1>6
  <2> QED
    BY <2>1 DEF Commands
<1>7. CASE Fate(x, w, n) = "never" /\ Fate(req[r], w, n) \in {"open", "lost"}
  <2>1. d = [c EXCEPT !.fate = "never"]
    BY <1>4, <1>5, <1>7
  <2> QED
    BY <1>2, <1>3, <1>7, <2>1 DEF Relay!GiveUp, Relay!Becomes
<1> QED
  BY <1>1, <1>6, <1>7

\* It tells what became of the line it had typed.
LEMMA ReportStep ==
    ASSUME IInv, NEW r \in Requests, NEW x \in RequestRecords,
           NEW a \in {"done", "elevate", "timed_out", "unknown"},
           req' = [req EXCEPT ![r] = x], pty' = pty,
           req[r].pc = "waiting", x.pc \in {"reporting", "releasing"},
           x.required = req[r].required, x.client = req[r].client,
           x.answer = a, x.live = req[r].live, x.fresh = req[r].fresh,
           a \in {"done", "elevate"} => Marked(req[r]),
           a = "elevate" => req[r].elevated
    PROVE  Relay!Report(r)
<1> DEFINE w == pty.up /\ Waiting(r)
           n == pty.up /\ r \in pty.running
           c == Command(req[r], w, n)
           d == Command(x, w, n)
<1>1. /\ req[r] \in RequestRecords /\ CoherentAt(r)
      /\ req[r].live \in Nat /\ req[r].fresh \in Nat
  BY RequestFacts DEF RequestRecords
<1>2. req[r].fresh = 0 /\ req[r].answer = "none" /\ (req[r].elevated => req[r].required)
  BY <1>1 DEF CoherentAt, Coherent
<1>3. a \in {"done", "elevate"} => req[r].live = 1 /\ r \notin pty.running
  BY <1>1 DEF CoherentAt, Coherent
<1>4. Fate(x, w, n) = Fate(req[r], w, n)
  BY <1>2, <1>3 DEF Fate, Unsent, Awaited
<1>5. a \in {"done", "elevate"} => Fate(req[r], w, n) = "ran"
  BY <1>2, <1>3 DEF Fate
<1>6. Commands[r] = c /\ Commands' = [Commands EXCEPT ![r] = d]
  BY OneCommand DEF CommandAt
<1>7. /\ c.fate = Fate(req[r], w, n) /\ c.answer = "none"
      /\ c.required = req[r].required
  BY <1>1, <1>2, CommandFields
<1>8. c.fate \in Relay!Sent
  BY <1>2, FateOf DEF Awaited, CommandAt
<1> HIDE DEF w, n
<1>9. /\ c \in Relay!CommandRecords /\ d \in Relay!CommandRecords
       /\ d.required = c.required
       /\ d.fate = c.fate /\ d.answer = a /\ d.client = c.client
  BY <1>1, <1>4, CommandFields
<1> HIDE DEF c, d
<1>10. d = [c EXCEPT !.answer = a]
  <2>1. d = [c EXCEPT !.answer = d.answer]
    BY <1>9, CommandChanges
  <2> QED
    BY <1>9, <2>1
<1>11. Relay!Becomes(r, [Commands[r] EXCEPT !.answer = a])
  BY <1>6, <1>10 DEF Relay!Becomes
<1>12. /\ a \in {"done", "elevate"} => Commands[r].fate = "ran"
       /\ a = "elevate" => Commands[r].required
  BY <1>2, <1>5, <1>6, <1>7
<1> QED
  BY <1>6, <1>7, <1>8, <1>11, <1>12 DEF Relay!Report

\* It ends on another way than the tab, or on none.
LEMMA EndStep ==
    ASSUME IInv, NEW r \in Requests, NEW x \in RequestRecords, NEW a \in Answers,
           req' = [req EXCEPT ![r] = x], pty' = pty,
           Unsent(req[r]), req[r].pc # "idle", x.pc = "over",
           x.required = req[r].required, x.client = req[r].client,
           x.answer = a, x.live = req[r].live,
           \/ x.fresh = 0 /\ a = "refused" /\ req[r].required
           \/ x.fresh = 0 /\ a \in {"error", "elevate"} /\ ~req[r].required
           \/ x.fresh = 1 /\ a \in {"done", "timed_out", "error"} /\ ~req[r].required
    PROVE  Relay!Refuse(r) \/ Relay!RunElsewhere(r)
<1> DEFINE w == pty.up /\ Waiting(r)
           n == pty.up /\ r \in pty.running
           c == Command(req[r], w, n)
           d == Command(x, w, n)
<1>1. req[r] \in RequestRecords
  BY RequestFacts
<1>2. ~w /\ ~n /\ req[r].live = 0 /\ c.fate = "open"
  BY FateOf DEF CommandAt
<1>3. Fate(x, w, n) = IF x.fresh = 1 THEN "own" ELSE "never"
  BY <1>2 DEF Fate, Unsent, Awaited
<1>4. Commands[r] = c /\ Commands' = [Commands EXCEPT ![r] = d]
  BY OneCommand DEF CommandAt
<1>5. c.required = req[r].required
  BY <1>1, CommandFields
<1> HIDE DEF w, n
<1>6. /\ c \in Relay!CommandRecords /\ d \in Relay!CommandRecords
      /\ d.required = c.required
      /\ d.fate = Fate(x, w, n) /\ d.answer = a /\ d.client = c.client
  BY <1>1, CommandFields
<1> HIDE DEF c, d
<1>7. d = [c EXCEPT !.fate = d.fate, !.answer = d.answer]
  BY <1>6, CommandChanges
<1>8. Relay!Ends(r, Fate(x, w, n), a)
  <2>1. d = [c EXCEPT !.fate = Fate(x, w, n), !.answer = a]
    <3> DEFINE f == Fate(x, w, n)
    <3>1. d.fate = f
      BY <1>6
    <3> HIDE DEF f
    <3>2. d = [c EXCEPT !.fate = f, !.answer = a]
      BY <1>6, <1>7, <3>1, Zenon
    <3> QED
      BY <3>2 DEF f
  <2> QED
    BY <1>4, <2>1, Zenon DEF Relay!Ends, Relay!Becomes
<1> QED
  BY <1>2, <1>3, <1>4, <1>5, <1>8 DEF Relay!Refuse, Relay!RunElsewhere

-----------------------------------------------------------------------------
(* The actions of one request.                                             *)

\* Places before anything was sent.
Before == {"exec_stream", "exec", "locking", "checking", "tapping", "rechecking",
           "sending", "fresh", "fallback", "sudo"}

LEMMA RequestStep ==
    ASSUME NEW r \in Requests,
           \/ Relay!Ask(r) \/ Relay!HangUp(r) \/ Relay!GiveUp(r) \/ Relay!Type(r)
           \/ Relay!Start(r) \/ Relay!Report(r) \/ Relay!Refuse(r)
           \/ Relay!RunElsewhere(r)
    PROVE  Relay!Next
BY DEF Relay!Next

\* A request on its way, before anything was sent, moves on.
LEMMA BeforeStep ==
    ASSUME IInv, NEW r \in Requests, NEW x \in RequestRecords,
           req' = [req EXCEPT ![r] = x], pty' = pty,
           req[r].pc \in Before, x.pc \in Before,
           x.required = req[r].required, x.client = req[r].client,
           x.answer = req[r].answer, x.live = req[r].live, x.fresh = req[r].fresh
    PROVE  Commands' = Commands
<1>1. Unsent(x) /\ Unsent(req[r]) /\ x.pc # "idle" /\ req[r].pc # "idle"
  BY DEF Before, Unsent
<1> QED
  BY <1>1, QuietStep

LEMMA GotoStep ==
    ASSUME IInv, NEW r \in Requests, NEW p \in Before,
           Goto(r, p), pty' = pty, req[r].pc \in Before
    PROVE  Commands' = Commands
<1> DEFINE x == [req[r] EXCEPT !.pc = p]
<1>1. req[r] \in RequestRecords /\ p \in Places
  BY RequestFacts DEF Before
<1>2. /\ x \in RequestRecords /\ x.pc = p
      /\ x.required = req[r].required /\ x.client = req[r].client
      /\ x.answer = req[r].answer /\ x.live = req[r].live /\ x.fresh = req[r].fresh
  BY <1>1, PcUpdate
<1>3. req' = [req EXCEPT ![r] = x]
  BY DEF Goto
<1> HIDE DEF x
<1> QED
  BY <1>2, <1>3, BeforeStep

\* A request without a chance ends with an answer, or for want of a client.
LEMMA AnswerStep ==
    ASSUME IInv, NEW r \in Requests, NEW a \in Answers,
           Answer(r, a), pty' = pty, req[r].pc \in Before \union {"releasing"}, Unsent(req[r]),
           \/ a = "refused" /\ req[r].required
           \/ a \in {"error", "elevate"} /\ ~req[r].required
           \/ a = "none" /\ req[r].client = "gone"
    PROVE  [Relay!Next]_Commands
<1> DEFINE x == Ended(req[r], a)
<1>1. req[r] \in RequestRecords /\ req[r].pc # "idle"
  BY RequestFacts DEF Before
<1>2. /\ x \in RequestRecords /\ x.pc = "over"
      /\ x.required = req[r].required /\ x.client = req[r].client
      /\ x.answer = a /\ x.live = req[r].live /\ x.fresh = req[r].fresh
  BY <1>1, EndedRecord
<1>3. req' = [req EXCEPT ![r] = x]
  BY DEF Answer
<1>4. req[r].fresh = 0 /\ req[r].answer = "none"
  BY FateOf
<1> HIDE DEF x
<1>5. CASE a = "none"
  <2>1. ~Unsent(x) /\ ~Awaited(x) /\ x.pc # "idle"
    BY <1>2, <1>5 DEF Unsent, Awaited
  <2>2. Relay!GiveUp(r) \/ Commands' = Commands
    BY <1>1, <1>2, <1>3, <1>4, <1>5, <2>1, GiveUpStep
  <2> QED
    BY <2>2, RequestStep
<1>6. CASE a # "none"
  <2>1. Relay!Refuse(r) \/ Relay!RunElsewhere(r)
    BY <1>1, <1>2, <1>3, <1>4, <1>6, EndStep
  <2> QED
    BY <2>1, RequestStep
<1> QED
  BY <1>5, <1>6

\* Nothing was sent: the request is refused, or tries another way.
LEMMA NotSentStep ==
    ASSUME IInv, NEW r \in Requests, Unsent(req[r]), req[r].pc \in Before \union {"releasing"},
           req' = [req EXCEPT ![r] = NotSent(@)], pty' = pty
    PROVE  [Relay!Next]_Commands
<1>1. req[r] \in RequestRecords
  BY RequestFacts
<1>2. CASE req[r].required
  <2>1. Answer(r, "refused")
    BY <1>2 DEF Answer, NotSent
  <2> QED
    BY <1>2, <2>1, AnswerStep
<1>3. CASE ~req[r].required
  <2> DEFINE x == NotSent(req[r])
  <2>1. /\ x \in RequestRecords /\ x.pc \in {"exec", "fresh"}
        /\ x.required = req[r].required /\ x.client = req[r].client
        /\ x.answer = req[r].answer /\ x.live = req[r].live /\ x.fresh = req[r].fresh
    BY <1>1, <1>3 DEF NotSent, RequestRecords
  <2>2. req' = [req EXCEPT ![r] = x]
    OBVIOUS
  <2> HIDE DEF x
  <2>3. Unsent(x) /\ x.pc # "idle"
    BY <2>1 DEF Unsent
  <2>4. /\ x.pc = "idle" <=> req[r].pc = "idle"
        /\ x.client = "gone" <=> req[r].client = "gone"
        /\ Unsent(x) <=> Unsent(req[r])
        /\ Unsent(x) \/ x.live > 0 \/ (Awaited(x) <=> Awaited(req[r]))
    BY <2>1, <2>3 DEF Before
  <2>5. Commands' = Commands
    BY <2>1, <2>2, <2>4, QuietStep, Zenon
  <2> QED
    BY <2>5
<1> QED
  BY <1>2, <1>3

\* The guard is dropped with nothing to tell.
LEMMA LeaveStep ==
    ASSUME IInv, NEW r \in Requests, LeaveWith(r, "none"), pty' = pty,
           \/ req[r].pc \in {"rechecking", "sending"}
           \/ req[r].pc \in {"waiting", "relaying"} /\ req[r].client = "gone"
    PROVE  [Relay!Next]_Commands
<1> DEFINE x == [req[r] EXCEPT !.pc = "releasing", !.answer = "none"]
<1>1. /\ req[r] \in RequestRecords /\ CoherentAt(r)
      /\ req[r].answer = "none"
  BY RequestFacts DEF CoherentAt, Coherent
<1>2. /\ x \in RequestRecords /\ x.pc = "releasing"
      /\ x.required = req[r].required /\ x.client = req[r].client
      /\ x.answer = "none" /\ x.live = req[r].live /\ x.fresh = req[r].fresh
  BY <1>1 DEF RequestRecords
<1>3. req' = [req EXCEPT ![r] = x]
  BY DEF LeaveWith
<1> HIDE DEF x
<1>4. CASE req[r].client = "gone"
  <2>1. ~Unsent(x) /\ ~Awaited(x)
    BY <1>2, <1>4 DEF Unsent, Awaited
  <2>2. Relay!GiveUp(r) \/ Commands' = Commands
    BY <1>1, <1>2, <1>3, <1>4, <2>1, GiveUpStep
  <2> QED
    BY <2>2, RequestStep
<1>5. CASE req[r].client # "gone"
  <2>1. Unsent(x) /\ Unsent(req[r])
    BY <1>2, <1>5 DEF Unsent
  <2>2. Commands' = Commands
    BY <1>1, <1>2, <1>3, <1>5, <2>1, QuietStep
  <2> QED
    BY <2>2
<1> QED
  BY <1>4, <1>5

LEMMA ArriveStep ==
    ASSUME IInv, NEW r \in Requests,
           NEW stream \in BOOLEAN, NEW elevated \in BOOLEAN, NEW required \in BOOLEAN,
           Arrive(r, stream, elevated, required)
    PROVE  Relay!Ask(r)
<1> DEFINE p == IF stream THEN "exec_stream" ELSE "exec"
           x == [req[r] EXCEPT !.pc = p, !.stream = stream,
                               !.elevated = elevated, !.required = required]
           w == pty.up /\ Waiting(r)
           n == pty.up /\ r \in pty.running
           c == Command(req[r], w, n)
           d == Command(x, w, n)
<1>1. req[r] \in RequestRecords /\ req[r].pc = "idle"
  BY RequestFacts DEF Arrive, At
<1>2. p \in {"exec_stream", "exec"}
  OBVIOUS
<1>3. req' = [req EXCEPT ![r] = x] /\ pty' = pty
  BY DEF Arrive
<1> HIDE DEF p
<1>4. x \in RequestRecords
  BY <1>1, <1>2 DEF RequestRecords
<1>5. /\ x.pc = p /\ x.client = req[r].client /\ x.answer = req[r].answer
      /\ x.live = req[r].live /\ x.fresh = req[r].fresh
  BY <1>1 DEF RequestRecords
<1>6. x.required = required
  BY <1>1 DEF RequestRecords
<1> HIDE DEF x
<1>7. req[r].live = 0 /\ req[r].fresh = 0 /\ ~w /\ ~n
  BY <1>1, FateOf DEF Unsent
<1>8. Fate(req[r], w, n) = "idle" /\ Fate(x, w, n) = "open"
  BY <1>1, <1>2, <1>5, <1>7 DEF Fate, Unsent
<1>9. Commands[r] = c /\ Commands' = [Commands EXCEPT ![r] = d]
  BY <1>3, <1>4, OneCommand DEF CommandAt
<1> HIDE DEF w, n
<1>10. /\ c \in Relay!CommandRecords /\ d \in Relay!CommandRecords
       /\ c.fate = "idle" /\ d.fate = "open"
       /\ d.answer = c.answer /\ d.client = c.client
  BY <1>1, <1>4, <1>5, <1>8, CommandFields
<1>11. d.required = required
  BY <1>4, <1>6, CommandFields
<1> HIDE DEF c, d
<1>12. d = [c EXCEPT !.fate = "open", !.required = required]
  <2> DEFINE e == [c EXCEPT !.fate = "open"]
  <2>1. e \in Relay!CommandRecords /\ e.fate = "open" /\ e.answer = c.answer /\ e.client = c.client
    BY <1>10 DEF Relay!CommandRecords
  <2> HIDE DEF e
  <2>2. d = [e EXCEPT !.required = required]
    BY <1>10, <1>11, <2>1 DEF Relay!CommandRecords
  <2> QED
    BY <2>2 DEF e
<1>13. Relay!Becomes(r, [Commands[r] EXCEPT !.fate = "open", !.required = required])
  BY <1>9, <1>12, Zenon DEF Relay!Becomes
<1> QED
  BY <1>9, <1>10, <1>13 DEF Relay!Ask

LEMMA ExecStep ==
    ASSUME IInv, NEW r \in Requests, Exec(r)
    PROVE  [Relay!Next]_Commands
<1>1. CASE exec_stream(r)
  <2>1. req[r] \in RequestRecords /\ req[r].pc = "exec_stream" /\ pty' = pty
    BY <1>1, RequestFacts DEF exec_stream, At
  <2>2. CASE Goto(r, "locking")
    BY <2>1, <2>2, GotoStep DEF Before
  <2>3. CASE req' = [req EXCEPT ![r].pc = "exec", ![r].stream = FALSE]
    <3> DEFINE x == [req[r] EXCEPT !.pc = "exec", !.stream = FALSE]
    <3>1. /\ x \in RequestRecords /\ x.pc = "exec"
          /\ x.required = req[r].required /\ x.client = req[r].client
          /\ x.answer = req[r].answer /\ x.live = req[r].live /\ x.fresh = req[r].fresh
      BY <2>1 DEF RequestRecords
    <3>2. req' = [req EXCEPT ![r] = x]
      BY <2>3
    <3> HIDE DEF x
    <3>3. Commands' = Commands
      BY <2>1, <3>1, <3>2, BeforeStep DEF Before
    <3> QED
      BY <3>3
  <2> QED
    BY <1>1, <2>2, <2>3 DEF exec_stream
<1>2. CASE exec(r)
  <2>1. req[r].pc = "exec" /\ pty' = pty /\ req[r].required \in BOOLEAN
    BY <1>2, RequestFacts DEF exec, At, RequestRecords
  <2>2. CASE Goto(r, "locking") \/ Goto(r, "fresh")
    BY <2>1, <2>2, GotoStep DEF Before
  <2>3. CASE req[r].required /\ Answer(r, "refused")
    BY <2>1, <2>3, AnswerStep DEF Before, Unsent
  <2> QED
    BY <1>2, <2>1, <2>2, <2>3 DEF exec
<1> QED
  BY <1>1, <1>2 DEF Exec

LEMMA BeginTapStep ==
    ASSUME IInv, NEW r \in Requests, BeginTap(r)
    PROVE  [Relay!Next]_Commands
<1>1. req[r] \in RequestRecords /\ pty' = pty
  BY RequestFacts
     DEF BeginTap, LockTaken, CheckFailed, CheckPassed, InstallTap, Recheck, ReleaseLock, session
<1>2. CASE LockTaken(r) \/ CheckPassed(r)
  BY <1>1, <1>2, GotoStep DEF LockTaken, CheckPassed, At, Before
<1>3. CASE CheckFailed(r)
  BY <1>1, <1>3, NotSentStep DEF CheckFailed, At, Before, Unsent
<1>4. CASE InstallTap(r)
  <2> DEFINE x == [req[r] EXCEPT !.pc = "rechecking", !.inbox = <<>>]
  <2>1. <<>> \in Seq({"chunk", "marker"})
    OBVIOUS
  <2>2. /\ x \in RequestRecords /\ x.pc = "rechecking"
        /\ x.required = req[r].required /\ x.client = req[r].client
        /\ x.answer = req[r].answer /\ x.live = req[r].live /\ x.fresh = req[r].fresh
    BY <1>1, <2>1 DEF RequestRecords
  <2>3. req' = [req EXCEPT ![r] = x] /\ req[r].pc = "tapping"
    BY <1>4 DEF InstallTap, At
  <2> HIDE DEF x
  <2>4. Commands' = Commands
    BY <1>1, <2>2, <2>3, BeforeStep DEF Before
  <2> QED
    BY <2>4
<1>5. CASE Recheck(r)
  <2>1. req[r].pc = "rechecking"
    BY <1>5 DEF Recheck, At
  <2>2. CASE LeaveWith(r, "none")
    BY <1>1, <2>1, <2>2, LeaveStep
  <2>3. CASE Goto(r, "sending")
    BY <1>1, <2>1, <2>3, GotoStep DEF Before
  <2> QED
    BY <1>5, <2>2, <2>3 DEF Recheck
<1>6. CASE ReleaseLock(r)
  <2>1. req[r].pc = "releasing"
    BY <1>6 DEF ReleaseLock, At
  <2>2. CASE req[r].answer # "none" \/ req[r].client = "gone"
    <3> DEFINE x == Ended(req[r], req[r].answer)
    <3>1. req[r].answer \in Answers
      BY <1>1 DEF RequestRecords
    <3>2. /\ x \in RequestRecords /\ x.pc = "over"
          /\ x.required = req[r].required /\ x.client = req[r].client
          /\ x.answer = req[r].answer /\ x.live = req[r].live /\ x.fresh = req[r].fresh
      BY <1>1, <3>1, EndedRecord
    <3>3. req' = [req EXCEPT ![r] = x]
      BY <1>6, <2>2 DEF ReleaseLock
    <3> HIDE DEF x
    <3>4. /\ ~Unsent(x) /\ ~Unsent(req[r])
          /\ Awaited(x) <=> Awaited(req[r])
      BY <2>1, <2>2, <3>2 DEF Unsent, Awaited
    <3>5. Commands' = Commands
      BY <1>1, <2>1, <3>2, <3>3, <3>4, QuietStep
    <3> QED
      BY <3>5
  <2>3. CASE ~(req[r].answer # "none" \/ req[r].client = "gone")
    <3>1. Unsent(req[r]) /\ req' = [req EXCEPT ![r] = NotSent(@)]
      BY <1>6, <2>1, <2>3 DEF ReleaseLock, Unsent
    <3> QED
      BY <1>1, <2>1, <3>1, NotSentStep
  <2> QED
    BY <2>2, <2>3
<1> QED
  BY <1>2, <1>3, <1>4, <1>5, <1>6 DEF BeginTap

\* A command that was sent: what its request does while it holds the tap.
LEMMA TailMarked ==
    ASSUME NEW x \in RequestRecords, x.inbox # <<>>
    PROVE  /\ Tail(x.inbox) \in Seq({"chunk", "marker"})
           /\ Head(x.inbox) = "marker" => Marked(x)
<1>1. /\ x.inbox \in Seq({"chunk", "marker"})
      /\ 1 \in DOMAIN x.inbox /\ Head(x.inbox) = x.inbox[1]
      /\ Tail(x.inbox) \in Seq({"chunk", "marker"})
  BY DEF RequestRecords
<1> QED
  BY <1>1 DEF Marked

LEMMA TakeChunkStep ==
    ASSUME IInv, NEW r \in Requests, TakeChunk(r)
    PROVE  Commands' = Commands
<1> DEFINE q == Tail(req[r].inbox)
           p == IF req[r].stream THEN "relaying" ELSE "waiting"
           x == [req[r] EXCEPT !.inbox = q, !.pc = p]
<1>1. /\ req[r] \in RequestRecords /\ req[r].pc = "waiting" /\ pty' = pty
      /\ req[r].inbox # <<>>
  BY RequestFacts DEF TakeChunk, At
<1>2. q \in Seq({"chunk", "marker"}) /\ p \in {"relaying", "waiting"}
  BY <1>1, TailMarked
<1>3. req' = [req EXCEPT ![r] = x]
  BY DEF TakeChunk
<1> HIDE DEF q, p
<1>4. /\ x \in RequestRecords /\ x.pc = p
      /\ x.required = req[r].required /\ x.client = req[r].client
      /\ x.answer = req[r].answer /\ x.live = req[r].live /\ x.fresh = req[r].fresh
  BY <1>1, <1>2 DEF RequestRecords
<1> HIDE DEF x
<1>5. Awaited(x) /\ Awaited(req[r]) /\ ~Unsent(x) /\ ~Unsent(req[r]) /\ x.pc # "idle"
  BY <1>1, <1>2, <1>4 DEF Awaited, Unsent
<1> QED
  BY <1>1, <1>3, <1>4, <1>5, QuietStep

LEMMA LeaveWithAnswer ==
    ASSUME IInv, NEW r \in Requests, NEW a \in {"done", "elevate", "timed_out", "unknown"},
           LeaveWith(r, a), pty' = pty, req[r].pc = "waiting",
           a \in {"done", "elevate"} => Marked(req[r]),
           a = "elevate" => req[r].elevated
    PROVE  Relay!Report(r)
<1> DEFINE x == [req[r] EXCEPT !.pc = "releasing", !.answer = a]
<1>1. req[r] \in RequestRecords
  BY RequestFacts
<1>2. /\ x \in RequestRecords /\ x.pc = "releasing"
      /\ x.required = req[r].required /\ x.client = req[r].client
      /\ x.answer = a /\ x.live = req[r].live /\ x.fresh = req[r].fresh
  BY <1>1 DEF RequestRecords
<1>3. req' = [req EXCEPT ![r] = x]
  BY DEF LeaveWith
<1> HIDE DEF x
<1> QED
  BY <1>2, <1>3, ReportStep

LEMMA TakeMarkerStep ==
    ASSUME IInv, NEW r \in Requests, TakeMarker(r)
    PROVE  Relay!Report(r)
<1>1. /\ req[r] \in RequestRecords /\ req[r].pc = "waiting" /\ pty' = pty
      /\ req[r].inbox # <<>> /\ Head(req[r].inbox) = "marker"
  BY RequestFacts DEF TakeMarker, At
<1>2. Marked(req[r]) /\ Tail(req[r].inbox) \in Seq({"chunk", "marker"})
  BY <1>1, TailMarked
<1>3. CASE req[r].stream
  <2> DEFINE q == Tail(req[r].inbox)
             x == [req[r] EXCEPT !.inbox = q, !.pc = "reporting", !.answer = "done"]
  <2>1. req' = [req EXCEPT ![r] = x]
    BY <1>3 DEF TakeMarker
  <2>2. q \in Seq({"chunk", "marker"})
    BY <1>2
  <2> HIDE DEF q
  <2>3. /\ x \in RequestRecords /\ x.pc = "reporting"
        /\ x.required = req[r].required /\ x.client = req[r].client
        /\ x.answer = "done" /\ x.live = req[r].live /\ x.fresh = req[r].fresh
    BY <1>1, <2>2 DEF RequestRecords
  <2> HIDE DEF x
  <2> QED
    BY <1>1, <1>2, <2>1, <2>3, ReportStep
<1>4. CASE ~req[r].stream
  BY <1>1, <1>2, <1>4, LeaveWithAnswer DEF TakeMarker
<1> QED
  BY <1>3, <1>4

LEMMA GiveUpReports ==
    ASSUME IInv, NEW r \in Requests, NEW a \in {"timed_out", "unknown"},
           GiveUp(r, a), req[r].pc = "waiting"
    PROVE  Relay!Report(r)
<1>1. req[r] \in RequestRecords /\ pty' = pty
  BY RequestFacts DEF GiveUp
<1>2. CASE req[r].stream
  <2> DEFINE x == [req[r] EXCEPT !.pc = "reporting", !.answer = a]
  <2>1. req' = [req EXCEPT ![r] = x]
    BY <1>2 DEF GiveUp
  <2>2. /\ x \in RequestRecords /\ x.pc = "reporting"
        /\ x.required = req[r].required /\ x.client = req[r].client
        /\ x.answer = a /\ x.live = req[r].live /\ x.fresh = req[r].fresh
    BY <1>1 DEF RequestRecords
  <2> HIDE DEF x
  <2> QED
    BY <1>1, <2>1, <2>2, ReportStep
<1>3. CASE ~req[r].stream
  BY <1>1, <1>3, LeaveWithAnswer DEF GiveUp
<1> QED
  BY <1>2, <1>3

\* An event of a stream is handed on, the last one of it too.
LEMMA RelayedStep ==
    ASSUME IInv, NEW r \in Requests, Relayed(r) \/ Reported(r)
    PROVE  Commands' = Commands
<1>1. /\ req[r] \in RequestRecords /\ CoherentAt(r)
      /\ req[r].live \in Nat /\ req[r].fresh \in Nat /\ req[r].chan \in 0 .. ChannelCap
  BY RequestFacts DEF RequestRecords
<1>2. ChannelCap \in Nat
  BY ConstantsAssumption
<1>3. CASE Relayed(r)
  <2> DEFINE n == req[r].chan + 1
             x == [req[r] EXCEPT !.pc = "waiting", !.chan = n]
  <2>1. req' = [req EXCEPT ![r] = x] /\ pty' = pty /\ req[r].pc = "relaying"
    BY <1>3 DEF Relayed, At
  <2>2. n \in 0 .. ChannelCap
    BY <1>1, <1>2, <1>3 DEF Relayed
  <2> HIDE DEF n
  <2>3. /\ x \in RequestRecords /\ x.pc = "waiting"
        /\ x.required = req[r].required /\ x.client = req[r].client
        /\ x.answer = req[r].answer /\ x.live = req[r].live /\ x.fresh = req[r].fresh
    BY <1>1, <2>2 DEF RequestRecords
  <2> HIDE DEF x
  <2>4. Awaited(x) /\ Awaited(req[r]) /\ ~Unsent(x) /\ ~Unsent(req[r])
    BY <2>1, <2>3 DEF Awaited, Unsent
  <2> QED
    BY <1>1, <2>1, <2>3, <2>4, QuietStep
<1>4. CASE Reported(r)
  <2> DEFINE n == IF req[r].client = "gone" THEN req[r].chan ELSE req[r].chan + 1
             x == [req[r] EXCEPT !.pc = "releasing", !.chan = n]
  <2>1. req' = [req EXCEPT ![r] = x] /\ pty' = pty /\ req[r].pc = "reporting"
    BY <1>4 DEF Reported, At
  <2>2. n \in 0 .. ChannelCap
    BY <1>1, <1>2, <1>4 DEF Reported
  <2> HIDE DEF n
  <2>3. /\ x \in RequestRecords /\ x.pc = "releasing"
        /\ x.required = req[r].required /\ x.client = req[r].client
        /\ x.answer = req[r].answer /\ x.live = req[r].live /\ x.fresh = req[r].fresh
    BY <1>1, <2>2 DEF RequestRecords
  <2> HIDE DEF x
  <2>4. /\ req[r].answer \in {"done", "timed_out", "unknown"}
        /\ req[r].fresh = 0
        /\ req[r].answer = "done" => req[r].live + req[r].fresh = 1
    BY <1>1, <2>1 DEF CoherentAt, Coherent
  <2>5. ~Unsent(x) /\ ~Unsent(req[r]) /\ Awaited(req[r])
    BY <2>1, <2>3, <2>4 DEF Awaited, Unsent
  <2>6. x.live > 0 \/ Awaited(x)
    BY <1>1, <2>3, <2>4 DEF Awaited
  <2> QED
    BY <1>1, <2>1, <2>3, <2>5, <2>6, QuietStep
<1> QED
  BY <1>3, <1>4

\* The line goes out while the request holds the lock of a usable session: of
\* the other lines in the terminal, none has a client.
LEMMA SendStep ==
    ASSUME IInv, NEW r \in Requests, Send(r)
    PROVE  Relay!Type(r)
<1> DEFINE b == [by |-> r, enter |-> TRUE]
           x == [req[r] EXCEPT !.pc = "waiting"]
<1>1. /\ req[r] \in RequestRecords /\ CoherentAt(r) /\ req[r].pc = "sending"
      /\ pty.up \in BOOLEAN /\ req \in [Requests -> RequestRecords]
  BY RequestFacts, PtyFacts DEF Send, At, IInv, TypeOK
<1>2. b \in Pieces /\ b.by = r
  BY DEF Pieces
<1>3. pty' = [pty EXCEPT !.typed = Append(@, b)] /\ req' = [req EXCEPT ![r] = x]
  BY DEF Send, Goto
<1>4. /\ x \in RequestRecords /\ x.pc = "waiting"
      /\ x.required = req[r].required /\ x.client = req[r].client
      /\ x.answer = req[r].answer /\ x.live = req[r].live /\ x.fresh = req[r].fresh
  BY <1>1 DEF RequestRecords
<1> HIDE DEF b, x
<1>5. /\ pty'.up = pty.up /\ pty'.running = pty.running
      /\ Len(pty.typed) \in Nat
      /\ DOMAIN pty.typed = 1 .. Len(pty.typed)
      /\ DOMAIN pty'.typed = 1 .. (Len(pty.typed) + 1)
      /\ \A i \in DOMAIN pty.typed : pty'.typed[i] = pty.typed[i]
      /\ pty'.typed[Len(pty.typed) + 1] = b
  BY <1>2, <1>3, TypedPiece
<1>6. /\ Waiting(r)'
      /\ \A s \in Requests \ {r} : Waiting(s)' <=> Waiting(s)
  BY <1>2, <1>5 DEF Waiting
<1>7. req'[r] = x /\ \A s \in Requests \ {r} : req'[s] = req[s]
  BY <1>1, <1>3, <1>4
<1>8. ASSUME NEW s \in Requests \ {r}
      PROVE  CommandAt(s)' = CommandAt(s)
  <2>1. (Waiting(s)' <=> Waiting(s)) /\ req'[s] = req[s]
    BY <1>6, <1>7
  <2> QED
    BY <1>5, <2>1 DEF CommandAt, Command, Fate, Unsent, Awaited
<1>9. CommandAt(r).fate = "open" /\ Unsent(req[r])
      /\ req[r].live = 0 /\ req[r].fresh = 0 /\ r \notin pty.running
  <2>1. Unsent(req[r])
    BY <1>1 DEF Unsent
  <2> QED
    BY <1>1, <2>1, FateOf
<1>10. CommandAt(r)' = Command(x, pty'.up /\ Waiting(r)', pty'.up /\ r \in pty'.running)
  BY <1>7 DEF CommandAt
<1>11. Fate(x, pty'.up /\ Waiting(r)', pty'.up /\ r \in pty'.running) \in {"typed", "lost"}
  BY <1>4, <1>5, <1>6, <1>9 DEF Fate, Unsent, Awaited
<1>12. \E f \in {"typed", "lost"} : CommandAt(r)' = [CommandAt(r) EXCEPT !.fate = f]
  <2> DEFINE c == CommandAt(r)
             d == Command(x, pty'.up /\ Waiting(r)', pty'.up /\ r \in pty'.running)
  <2>1. /\ c \in Relay!CommandRecords /\ d \in Relay!CommandRecords
        /\ d.required = c.required /\ d.answer = c.answer /\ d.client = c.client
        /\ d.fate \in {"typed", "lost"}
    <3>1. /\ d \in Relay!CommandRecords /\ d.fate \in {"typed", "lost"}
          /\ d.required = x.required /\ d.answer = x.answer
          /\ d.client = IF x.client = "gone" THEN "gone" ELSE "listens"
      BY <1>4, <1>11, CommandFields
    <3>2. /\ c \in Relay!CommandRecords
          /\ c.required = req[r].required /\ c.answer = req[r].answer
          /\ c.client = IF req[r].client = "gone" THEN "gone" ELSE "listens"
      BY <1>1, CommandFields DEF CommandAt
    <3> HIDE DEF c, d
    <3> QED
      BY <1>4, <3>1, <3>2
  <2> HIDE DEF c, d
  <2>2. d = [c EXCEPT !.fate = d.fate]
    BY <2>1, CommandChanges
  <2>3. \E f \in {"typed", "lost"} : d = [c EXCEPT !.fate = f]
    BY <2>1, <2>2, Zenon
  <2> QED
    BY <1>10, <2>3 DEF c, d
<1>13. /\ Commands = [s \in Requests |-> CommandAt(s)]
       /\ Commands' = [s \in Requests |-> CommandAt(s)']
  BY DEF Commands, CommandAt
<1>14. \E f \in {"typed", "lost"} : Relay!Becomes(r, [Commands[r] EXCEPT !.fate = f])
  <2>1. PICK f \in {"typed", "lost"} : CommandAt(r)' = [CommandAt(r) EXCEPT !.fate = f]
    BY <1>12
  <2> DEFINE d == [CommandAt(r) EXCEPT !.fate = f]
  <2>2. CommandAt(r)' = d
    BY <2>1
  <2> HIDE DEF d
  <2>3. Commands' = [Commands EXCEPT ![r] = d]
    BY <1>8, <1>13, <2>2
  <2>4. Commands[r] = CommandAt(r)
    BY <1>13
  <2> QED
    BY <2>3, <2>4, Zenon DEF Relay!Becomes, d
<1>15. ASSUME NEW s \in Requests \ {r}, Commands[s].fate \in {"typed", "running"}
       PROVE  Commands[s].client = "gone"
  <2>1. /\ req[s] \in RequestRecords /\ CoherentAt(s)
        /\ Commands[s] = CommandAt(s)
    BY <1>13, RequestFacts
  <2>2. pty.up /\ (Waiting(s) \/ s \in pty.running)
    BY <1>15, <2>1, FateOf DEF Fate
  <2>3. lock = r /\ reusable
    BY <1>1 DEF IInv, HolderLocked, CoherentAt, Coherent
  <2>4. req[s].pc \notin Locked
    BY <2>3 DEF IInv, HolderLocked
  <2>5. req[s].client = "gone"
    BY <2>1, <2>2, <2>3, <2>4 DEF CoherentAt, Coherent
  <2> QED
    BY <2>1, <2>5, CommandFields DEF CommandAt
<1>16. Commands[r].fate = "open"
  BY <1>9, <1>13
<1> QED
  BY <1>14, <1>15, <1>16 DEF Relay!Type

LEMMA LiveExecStep ==
    ASSUME IInv, NEW r \in Requests, LiveExec(r) \/ Timer(r)
    PROVE  [Relay!Next]_Commands
<1>1. CASE Send(r)
  BY <1>1, SendStep, RequestStep
<1>2. CASE NothingQueued(r)
  BY <1>2, LeaveStep DEF NothingQueued, At
<1>3. CASE TakeChunk(r)
  BY <1>3, TakeChunkStep
<1>4. CASE TakeMarker(r)
  BY <1>4, TakeMarkerStep, RequestStep
<1>5. CASE TapClosed(r)
  BY <1>5, GiveUpReports, RequestStep DEF TapClosed, At
<1>6. CASE Relayed(r) \/ Reported(r)
  BY <1>6, RelayedStep
<1>7. CASE RelayFailed(r)
  BY <1>7, LeaveStep DEF RelayFailed, At
<1>8. CASE LockTimeout(r)
  BY <1>8, NotSentStep DEF LockTimeout, At, Unsent, Before
<1>9. CASE Deadline(r)
  BY <1>9, GiveUpReports, RequestStep DEF Deadline, At
<1> QED
  BY <1>1, <1>2, <1>3, <1>4, <1>5, <1>6, <1>7, <1>8, <1>9 DEF LiveExec, Timer

LEMMA StartedStep ==
    ASSUME IInv, NEW r \in Requests, NEW a \in {"done", "timed_out", "error"},
           Started(r, a), pty' = pty, req[r].pc \in {"fresh", "fallback", "sudo"}
    PROVE  [Relay!Next]_Commands
<1>1. /\ req[r] \in RequestRecords /\ CoherentAt(r) /\ Unsent(req[r])
      /\ req[r].required \in BOOLEAN
  BY RequestFacts DEF Unsent, RequestRecords
<1>2. req[r].fresh = 0 /\ ~req[r].required
  BY <1>1 DEF CoherentAt, Coherent
<1> DEFINE e == Ended(req[r], a)
           x == [e EXCEPT !.fresh = 1]
<1>3. /\ e \in RequestRecords /\ e.pc = "over"
      /\ e.required = req[r].required /\ e.client = req[r].client
      /\ e.answer = a /\ e.live = req[r].live /\ e.fresh = req[r].fresh
  BY <1>1, EndedRecord
<1>4. req' = [req EXCEPT ![r] = [e EXCEPT !.fresh = e.fresh + 1]]
  BY DEF Started, RunFresh
<1> HIDE DEF e
<1>5. e.fresh + 1 = 1
  BY <1>2, <1>3
<1>6. req' = [req EXCEPT ![r] = x]
  BY <1>4, <1>5
<1>7. /\ x \in RequestRecords /\ x.pc = "over"
      /\ x.required = req[r].required /\ x.client = req[r].client
      /\ x.answer = a /\ x.live = req[r].live /\ x.fresh = 1
  BY <1>3 DEF RequestRecords
<1> HIDE DEF x
<1>8. Relay!Refuse(r) \/ Relay!RunElsewhere(r)
  BY <1>1, <1>2, <1>6, <1>7, EndStep
<1> QED
  BY <1>8, RequestStep

LEMMA FreshExecStep ==
    ASSUME IInv, NEW r \in Requests, FreshExec(r)
    PROVE  [Relay!Next]_Commands
<1>1. pty' = pty /\ req[r].pc \in {"fresh", "fallback", "sudo"} /\ Unsent(req[r])
  BY DEF FreshExec, FreshFails, FreshRuns, ExecRejected, SudoRefused, SudoWithPassword,
         ElevationRequired, At, Unsent
<1>2. ~req[r].required
  BY <1>1, RequestFacts DEF CoherentAt, Coherent
<1>3. CASE Answer(r, "error") \/ Answer(r, "elevate")
  BY <1>1, <1>2, <1>3, AnswerStep DEF Before
<1>4. CASE Started(r, "error") \/ Started(r, "done") \/ Started(r, "timed_out")
  BY <1>1, <1>4, StartedStep
<1>5. CASE Goto(r, "fallback") \/ Goto(r, "sudo")
  BY <1>1, <1>5, GotoStep DEF Before
<1> QED
  BY <1>3, <1>4, <1>5
     DEF FreshExec, FreshFails, FreshRuns, ExecRejected, SudoRefused, SudoWithPassword,
         ElevationRequired

\* An open request that was asked to leave is past its last chance when its
\* client goes.
LEMMA HangUpStep ==
    ASSUME IInv, NEW r \in Requests, HangUp(r)
    PROVE  Relay!HangUp(r)
<1> DEFINE x == [req[r] EXCEPT !.client = "gone"]
           w == pty.up /\ Waiting(r)
           n == pty.up /\ r \in pty.running
           c == Command(req[r], w, n)
           d == Command(x, w, n)
<1>1. /\ req[r] \in RequestRecords /\ req[r].pc \notin {"idle", "over"}
      /\ req' = [req EXCEPT ![r] = x] /\ pty' = pty
  BY RequestFacts DEF HangUp
<1>2. /\ x \in RequestRecords /\ x.pc = req[r].pc /\ x.client = "gone"
      /\ x.required = req[r].required /\ x.answer = req[r].answer
      /\ x.live = req[r].live /\ x.fresh = req[r].fresh
  BY <1>1 DEF RequestRecords
<1> HIDE DEF x
<1>3. \/ Fate(x, w, n) = Fate(req[r], w, n)
      \/ Fate(x, w, n) = "never" /\ Fate(req[r], w, n) = "open"
  <2>1. Awaited(x) <=> Awaited(req[r])
    BY <1>2 DEF Awaited
  <2>2. Unsent(req[r]) /\ ~Unsent(x) => ~Awaited(x)
    BY <1>2 DEF Awaited, Unsent
  <2>3. Unsent(x) => Unsent(req[r])
    BY <1>2 DEF Unsent
  <2> QED
    BY <1>1, <1>2, <2>1, <2>2, <2>3 DEF Fate
<1>4. Fate(req[r], w, n) # "idle"
  BY <1>1 DEF Fate
<1>5. Commands[r] = c /\ Commands' = [Commands EXCEPT ![r] = d]
  BY <1>1, <1>2, OneCommand DEF CommandAt
<1> HIDE DEF w, n
<1>6. /\ c \in Relay!CommandRecords /\ d \in Relay!CommandRecords
      /\ d.required = c.required /\ d.answer = c.answer /\ d.client = "gone"
      /\ c.fate = Fate(req[r], w, n) /\ d.fate = Fate(x, w, n)
  BY <1>1, <1>2, CommandFields
<1> HIDE DEF c, d
<1>7. CASE d.fate = c.fate
  <2>0. d = [c EXCEPT !.client = d.client]
    BY <1>6, <1>7, CommandChanges
  <2>1. d = [c EXCEPT !.client = "gone"]
    BY <1>6, <2>0, Zenon
  <2> QED
    BY <1>4, <1>5, <1>6, <2>1, Zenon DEF Relay!HangUp, Relay!Becomes
<1>8. CASE d.fate = "never" /\ c.fate = "open"
  <2>1. d = [c EXCEPT !.client = d.client, !.fate = d.fate]
    BY <1>6, CommandChanges
  <2>2. d = [c EXCEPT !.client = "gone", !.fate = "never"]
    BY <1>6, <1>8, <2>1, Zenon
  <2> QED
    BY <1>4, <1>5, <1>6, <1>8, <2>2, Zenon DEF Relay!HangUp, Relay!Becomes
<1> QED
  BY <1>3, <1>6, <1>7, <1>8

LEMMA ClientStep ==
    ASSUME IInv, NEW r \in Requests, Client(r)
    PROVE  [Relay!Next]_Commands
<1>1. req[r] \in RequestRecords /\ req[r].chan \in 0 .. ChannelCap /\ ChannelCap \in Nat
  BY RequestFacts, ConstantsAssumption DEF RequestRecords
<1>2. CASE HangUp(r)
  BY <1>2, HangUpStep, RequestStep
<1>3. CASE Stall(r)
  <2> DEFINE x == [req[r] EXCEPT !.client = "stalled"]
  <2>1. req' = [req EXCEPT ![r] = x] /\ pty' = pty /\ req[r].client = "reads"
    BY <1>3 DEF Stall
  <2>2. /\ x \in RequestRecords /\ x.pc = req[r].pc /\ x.client = "stalled"
        /\ x.required = req[r].required /\ x.answer = req[r].answer
        /\ x.live = req[r].live /\ x.fresh = req[r].fresh
    BY <1>1 DEF RequestRecords
  <2> HIDE DEF x
  <2>3. (Unsent(x) <=> Unsent(req[r])) /\ (Awaited(x) <=> Awaited(req[r]))
    BY <2>1, <2>2 DEF Unsent, Awaited
  <2>4. Commands' = Commands
    BY <2>1, <2>2, <2>3, QuietStep
  <2> QED
    BY <2>4
<1>4. CASE ClientReads(r)
  <2> DEFINE n == req[r].chan - 1
             x == [req[r] EXCEPT !.chan = n]
  <2>1. req' = [req EXCEPT ![r] = x] /\ pty' = pty
    BY <1>4 DEF ClientReads
  <2>2. n \in 0 .. ChannelCap
    BY <1>1, <1>4 DEF ClientReads
  <2> HIDE DEF n
  <2>3. /\ x \in RequestRecords /\ x.pc = req[r].pc /\ x.client = req[r].client
        /\ x.required = req[r].required /\ x.answer = req[r].answer
        /\ x.live = req[r].live /\ x.fresh = req[r].fresh
    BY <1>1, <2>2 DEF RequestRecords
  <2> HIDE DEF x
  <2>4. (Unsent(x) <=> Unsent(req[r])) /\ (Awaited(x) <=> Awaited(req[r]))
    BY <2>3 DEF Unsent, Awaited
  <2>5. Commands' = Commands
    BY <2>1, <2>3, <2>4, QuietStep
  <2> QED
    BY <2>5
<1>5. CASE Cancelled(r)
  <2>1. req[r].client = "gone" /\ pty' = pty
    BY <1>5 DEF Cancelled
  <2>2. CASE req[r].pc \in {"locking", "fresh", "fallback", "sudo"} /\ Answer(r, "none")
    BY <2>1, <2>2, AnswerStep DEF Unsent, Before
  <2>3. CASE At(r, "waiting") /\ LeaveWith(r, "none")
    BY <2>1, <2>3, LeaveStep DEF At
  <2> QED
    BY <1>5, <2>2, <2>3 DEF Cancelled
<1> QED
  BY <1>2, <1>3, <1>4, <1>5 DEF Client

-----------------------------------------------------------------------------
(* The terminal.                                                           *)

\* Lines leave the terminal, and commands end. What the requests know of it
\* else is not about fates.
LEMMA StopStep ==
    ASSUME IInv, IInv',
           \A r \in Requests :
             /\ req'[r].pc = req[r].pc /\ req'[r].answer = req[r].answer
             /\ req'[r].required = req[r].required /\ req'[r].client = req[r].client
             /\ req'[r].live = req[r].live /\ req'[r].fresh = req[r].fresh,
           \A r \in Requests : Waiting(r)' => Waiting(r),
           \A r \in Requests : r \in pty'.running => r \in pty.running,
           pty'.up => pty.up
    PROVE  Relay!Stop
<1>1. /\ Commands = [s \in Requests |-> CommandAt(s)]
      /\ Commands' = [s \in Requests |-> CommandAt(s)']
  BY DEF Commands, CommandAt
<1>2. ASSUME NEW r \in Requests
      PROVE  /\ CommandAt(r)' \in Relay!CommandRecords
             /\ Relay!Stops(CommandAt(r), CommandAt(r)')
  <2> DEFINE w == pty.up /\ Waiting(r)
             n == pty.up /\ r \in pty.running
             v == pty'.up /\ Waiting(r)'
             m == pty'.up /\ r \in pty'.running
             c == CommandAt(r)
             x == req'[r]
             d == Command(x, v, m)
  <2>1. /\ req[r] \in RequestRecords /\ CoherentAt(r) /\ x \in RequestRecords
        /\ req[r].live \in Nat /\ req[r].fresh \in Nat
    BY RequestFacts DEF RequestRecords, IInv, TypeOK
  <2>2. CommandAt(r)' = d
    BY DEF CommandAt
  <2>3. /\ x.pc = req[r].pc /\ x.answer = req[r].answer
        /\ x.required = req[r].required /\ x.client = req[r].client
        /\ x.live = req[r].live /\ x.fresh = req[r].fresh
    OBVIOUS
  <2>4. (v => w) /\ (m => n)
    OBVIOUS
  <2>5. /\ c \in Relay!CommandRecords /\ d \in Relay!CommandRecords
        /\ d.required = c.required /\ d.answer = c.answer /\ d.client = c.client
        /\ c.answer = req[r].answer
        /\ c.client = "gone" <=> req[r].client = "gone"
        /\ c.fate = Fate(req[r], w, n) /\ d.fate = Fate(x, v, m)
    BY <2>1, <2>3, CommandFields DEF CommandAt
  <2>6. n => req[r].live > 0
    BY <2>1 DEF CoherentAt, Coherent
  <2>7. ASSUME Waiting(r)
        PROVE  /\ ~Unsent(req[r])
               /\ \/ Awaited(req[r]) \/ req[r].live > 0
                  \/ req[r].answer = "none" /\ req[r].client = "gone"
    <3>1. ~Unsent(req[r])
      BY <2>1, <2>7 DEF CoherentAt, Coherent
    <3>2. req[r].live = 0 /\ req[r].fresh = 0
      BY <2>1, <2>7 DEF CoherentAt, Coherent
    <3>3. req[r].answer \in {"none", "timed_out", "unknown"}
      BY <2>1, <2>7, <3>2 DEF CoherentAt, Coherent, RequestRecords
    <3>4. req[r].pc \in {"waiting", "relaying", "reporting", "releasing", "over"}
      BY <2>1, <3>1 DEF Unsent, RequestRecords
    <3>5. CASE req[r].pc \in {"waiting", "relaying", "reporting"} \/ req[r].answer # "none"
      BY <3>1, <3>3, <3>5 DEF Awaited
    <3>6. CASE req[r].pc = "releasing" /\ req[r].answer = "none"
      BY <3>1, <3>6 DEF Unsent
    <3>7. CASE req[r].pc = "over" /\ req[r].answer = "none"
      BY <2>1, <3>1, <3>7 DEF CoherentAt, Coherent
    <3> QED
      BY <3>4, <3>5, <3>6, <3>7
  <2>8. (Unsent(x) <=> Unsent(req[r])) /\ (Awaited(x) <=> Awaited(req[r]))
    BY <2>3 DEF Unsent, Awaited
  <2> HIDE DEF v, w, m, n, x
  <2>9. \/ Fate(x, v, m) = Fate(req[r], w, n)
        \/ Fate(req[r], w, n) = "running" /\ Fate(x, v, m) = "ran"
        \/ Fate(req[r], w, n) = "typed" /\ Fate(x, v, m) = "lost"
        \/ /\ Fate(req[r], w, n) = "typed" /\ Fate(x, v, m) = "never"
           /\ req[r].answer = "none" /\ req[r].client = "gone"
    <3>1. CASE n
      BY <2>1, <2>3, <2>6, <3>1 DEF Fate
    <3>2. CASE ~n /\ w
      <4>1. Waiting(r)
        BY <3>2 DEF w
      <4> QED
        BY <2>1, <2>3, <2>4, <2>7, <2>8, <3>2, <4>1 DEF Fate
    <3>3. CASE ~n /\ ~w
      BY <2>1, <2>3, <2>4, <2>8, <3>3 DEF Fate
    <3> QED
      BY <3>1, <3>2, <3>3
  <2> HIDE DEF c, d
  <2>10. d = [c EXCEPT !.fate = d.fate] /\ (d.fate = c.fate => d = c)
    BY <2>5, CommandChanges
  <2>11. Relay!Stops(c, d)
    <3>1. CASE d.fate = c.fate
      BY <2>10, <3>1 DEF Relay!Stops
    <3>2. CASE c.fate = "running" /\ d.fate = "ran"
      BY <2>10, <3>2, Zenon DEF Relay!Stops
    <3>3. CASE c.fate = "typed" /\ d.fate = "lost"
      BY <2>10, <3>3, Zenon DEF Relay!Stops
    <3>4. CASE c.fate = "typed" /\ d.fate = "never" /\ c.answer = "none" /\ c.client = "gone"
      BY <2>10, <3>4, Zenon DEF Relay!Stops
    <3> QED
      BY <2>5, <2>9, <3>1, <3>2, <3>3, <3>4
  <2> QED
    BY <2>2, <2>5, <2>11 DEF c
<1>3. \A r \in Requests : Commands[r] = CommandAt(r) /\ Commands'[r] = CommandAt(r)'
  BY <1>1
<1>4. \A r \in Requests : Relay!Stops(Commands[r], Commands'[r])
  BY <1>2, <1>3
<1>5. Commands' \in [Requests -> Relay!CommandRecords]
  BY <1>1, <1>2
<1> QED
  BY <1>4, <1>5 DEF Relay!Stop

LEMMA TabStep ==
    ASSUME IInv, IInv', Tab
    PROVE  [Relay!Next]_Commands
<1>1. PtyRecords # {} /\ pty \in PtyRecords /\ pty.typed \in Seq(Pieces)
  BY PtyFacts
<1>2. CASE ReaderBreaks
  <2>1. ~pty'.up /\ pty'.typed = <<>> /\ pty'.running = {} /\ req' = req
    BY <1>1, <1>2 DEF ReaderBreaks, PtyRecords
  <2>2. \A r \in Requests : ~Waiting(r)'
    BY <2>1 DEF Waiting
  <2>3. Relay!Stop
    BY <2>1, <2>2, StopStep
  <2> QED
    BY <2>3 DEF Relay!Next
<1>3. CASE WriterEnds
  <2>1. PICK n \in 0 .. Len(pty.typed) : pty' = [pty EXCEPT !.typed = SubSeq(@, 1, n)]
    BY <1>3 DEF WriterEnds
  <2> DEFINE q == SubSeq(pty.typed, 1, n)
  <2>2. \A i \in DOMAIN q : i \in DOMAIN pty.typed /\ q[i] = pty.typed[i]
    BY <1>1, <2>1
  <2>3. pty' = [pty EXCEPT !.typed = q]
    BY <2>1
  <2> HIDE DEF q
  <2>4. pty'.up = pty.up /\ pty'.running = pty.running /\ pty'.typed = q /\ req' = req
    BY <1>1, <1>3, <2>3 DEF PtyRecords, WriterEnds
  <2>5. \A r \in Requests : Waiting(r)' => Waiting(r)
    BY <2>2, <2>4 DEF Waiting
  <2>6. Relay!Stop
    BY <2>4, <2>5, StopStep
  <2> QED
    BY <2>6 DEF Relay!Next
<1>4. CASE KeySent /\ pty' # pty
  <2> DEFINE b == [by |-> User, enter |-> user.pending = "enter"]
  <2>1. b \in Pieces /\ b.by = User
    BY DEF Pieces
  <2>2. pty' = [pty EXCEPT !.typed = Append(@, b)] /\ req' = req
    BY <1>4 DEF KeySent
  <2> HIDE DEF b
  <2>3. /\ pty'.up = pty.up /\ pty'.running = pty.running
        /\ Len(pty.typed) \in Nat
        /\ DOMAIN pty.typed = 1 .. Len(pty.typed)
        /\ DOMAIN pty'.typed = 1 .. (Len(pty.typed) + 1)
        /\ \A i \in DOMAIN pty.typed : pty'.typed[i] = pty.typed[i]
        /\ pty'.typed[Len(pty.typed) + 1] = b
    BY <2>1, <2>2, TypedPiece
  <2>4. \A r \in Requests : Waiting(r)' => Waiting(r)
    BY <2>1, <2>3, ConstantsAssumption DEF Waiting
  <2>5. Relay!Stop
    BY <2>2, <2>3, <2>4, StopStep
  <2> QED
    BY <2>5 DEF Relay!Next
<1>5. CASE pty' = pty /\ req' = req
  <2>1. \A r \in Requests : Waiting(r)' <=> Waiting(r)
    BY <1>5 DEF Waiting
  <2>2. Relay!Stop
    BY <1>5, <2>1, StopStep
  <2> QED
    BY <2>2 DEF Relay!Next
<1> QED
  BY <1>2, <1>3, <1>4, <1>5 DEF Tab, ReaderEnds, Unregister, KeyAllowed, KeySent

\* A line the shell runs is one command: that of the request which typed it, or
\* the user's.
LEMMA ShellReadsStep ==
    ASSUME IInv, IInv', ShellReads
    PROVE  [Relay!Next]_Commands
<1> DEFINE piece == Head(pty.typed)
           by == pty.line \union {piece.by}
           q == Tail(pty.typed)
<1>1. /\ pty \in PtyRecords /\ pty.typed \in Seq(Pieces) /\ pty.typed # <<>>
      /\ pty.running = {} /\ pty.up /\ pty.up \in BOOLEAN
      /\ req \in [Requests -> RequestRecords]
  BY PtyFacts DEF ShellReads, IInv, TypeOK
<1>2. /\ \A i \in DOMAIN q : q[i] = pty.typed[i + 1] /\ i + 1 \in DOMAIN pty.typed /\ i + 1 # 1
      /\ 1 \in DOMAIN pty.typed /\ pty.typed[1] = piece /\ piece \in Pieces
  BY <1>1, TailOfTyped
<1>3. piece.by \in Requests \union {User} /\ piece.enter \in BOOLEAN /\ User \notin Requests
  BY <1>1, <1>2, ConstantsAssumption DEF Pieces
<1>4. LinesAreWhole
  BY DEF IInv
<1>5. /\ pty'.up = pty.up /\ pty'.typed = q
      /\ piece.enter => pty'.running = by
      /\ ~piece.enter => pty'.running = pty.running
  <2>1. CASE piece.enter
    <3>1. pty' = [pty EXCEPT !.typed = q, !.line = {}, !.running = by, !.said = 0]
      BY <2>1 DEF ShellReads
    <3> HIDE DEF piece, by, q
    <3> QED
      BY <1>1, <2>1, <3>1 DEF PtyRecords
  <2>2. CASE ~piece.enter
    <3>1. pty' = [pty EXCEPT !.typed = q, !.line = by]
      BY <2>2 DEF ShellReads
    <3> HIDE DEF piece, by, q
    <3> QED
      BY <1>1, <2>2, <3>1 DEF PtyRecords
  <2> QED
    BY <1>3, <2>1, <2>2
<1>6. \A r \in Requests : Waiting(r)' => Waiting(r)
  <2> HIDE DEF q, piece, by
  <2> QED
    BY <1>2, <1>5 DEF Waiting
<1>7. \A r \in Requests : r \in by => r = piece.by
  BY <1>3, <1>4 DEF LinesAreWhole
<1>8. ASSUME ~piece.enter \/ piece.by = User
      PROVE  [Relay!Next]_Commands
  <2>1. req' = req
    <3>1. CASE ~piece.enter
      BY <3>1 DEF ShellReads
    <3>2. CASE piece.enter /\ piece.by = User
      <4>1. \A r \in Requests : r \notin by
        BY <1>3, <1>7, <3>2
      <4>2. req' = [r \in Requests |->
                      IF r \in by THEN [req[r] EXCEPT !.live = @ + 1] ELSE req[r]]
        BY <3>2 DEF ShellReads
      <4> HIDE DEF by, piece
      <4> QED
        BY <1>1, <4>1, <4>2
    <3> QED
      BY <1>3, <1>8, <3>1, <3>2
  <2>2. \A r \in Requests : r \in pty'.running => r \in pty.running
    BY <1>3, <1>5, <1>7, <1>8
  <2> HIDE DEF by, piece, q
  <2>3. Relay!Stop
    BY <1>1, <1>5, <1>6, <2>1, <2>2, StopStep
  <2> QED
    BY <2>3 DEF Relay!Next
<1>9. ASSUME NEW r \in Requests, piece.enter, piece.by = r
      PROVE  Relay!Start(r)
  <2>1. req' = [s \in Requests |->
                  IF s \in by THEN [req[s] EXCEPT !.live = @ + 1] ELSE req[s]]
    BY <1>9 DEF ShellReads
  <2>2. r \in by /\ \A s \in Requests \ {r} : s \notin by
    BY <1>7, <1>9
  <2>3. Waiting(r)
    BY <1>2, <1>9 DEF Waiting
  <2>4. /\ req[r] \in RequestRecords /\ CoherentAt(r)
        /\ req[r].live \in Nat /\ req[r].fresh \in Nat
    BY RequestFacts DEF RequestRecords
  <2>5. req[r].live = 0 /\ req[r].fresh = 0 /\ ~Unsent(req[r]) /\ req[r].pc # "idle"
    BY <2>3, <2>4 DEF CoherentAt, Coherent, Unsent
  <2> DEFINE k == req[r].live + 1
             x == [req[r] EXCEPT !.live = k]
  <2>6. k = 1 /\ k \in Nat
    BY <2>5
  <2>7. req'[r] = x
    BY <2>1, <2>2
  <2> HIDE DEF k
  <2>8. /\ x \in RequestRecords /\ x.pc = req[r].pc /\ x.client = req[r].client
        /\ x.required = req[r].required /\ x.answer = req[r].answer
        /\ x.live = k /\ x.fresh = req[r].fresh
    BY <2>4, <2>6 DEF RequestRecords
  <2> HIDE DEF x
  <2>9. \A s \in Requests \ {r} : req'[s] = req[s]
    BY <2>1, <2>2
  <2>10. pty'.running = by
    BY <1>5, <1>9
  <2> HIDE DEF by
  <2>11. \A s \in Requests \ {r} : Waiting(s)' <=> Waiting(s)
    <3> SUFFICES ASSUME NEW s \in Requests \ {r}, Waiting(s)
                 PROVE  Waiting(s)'
      BY <1>6
    <3>1. PICK i \in DOMAIN pty.typed : pty.typed[i].by = s
      BY DEF Waiting
    <3>2. i # 1
      BY <1>2, <1>9, <3>1
    <3>3. /\ DOMAIN pty.typed = 1 .. Len(pty.typed) /\ Len(pty.typed) \in Nat
          /\ DOMAIN q = 1 .. (Len(pty.typed) - 1)
      BY <1>1
    <3>4. i \in Nat /\ i - 1 \in DOMAIN q
      BY <3>2, <3>3
    <3>5. q[i - 1] = pty.typed[i]
      <4>1. q[i - 1] = pty.typed[(i - 1) + 1]
        BY <1>2, <3>4
      <4>2. (i - 1) + 1 = i
        BY <3>4
      <4> QED
        BY <4>1, <4>2
    <3> HIDE DEF q
    <3> QED
      BY <1>5, <3>1, <3>4, <3>5 DEF Waiting
  <2> HIDE DEF q, piece
  <2>12. ASSUME NEW s \in Requests \ {r}
         PROVE  CommandAt(s)' = CommandAt(s)
    <3>1. (Waiting(s)' <=> Waiting(s)) /\ req'[s] = req[s] /\ s \notin pty'.running
      BY <2>2, <2>9, <2>10, <2>11
    <3> QED
      BY <1>1, <1>5, <3>1 DEF CommandAt, Command, Fate, Unsent, Awaited
  <2> DEFINE c == CommandAt(r)
             d == Command(x, pty'.up /\ Waiting(r)', pty'.up /\ r \in pty'.running)
  <2>13. CommandAt(r)' = d
    BY <2>7 DEF CommandAt
  <2>14. c.fate = "typed" /\ d.fate = "running"
    <3>1. c.fate = "typed"
      BY <1>1, <2>3, <2>4, <2>5, FateOf DEF Fate
    <3>2. Fate(x, pty'.up /\ Waiting(r)', pty'.up /\ r \in pty'.running) = "running"
      BY <1>1, <1>5, <2>2, <2>5, <2>8, <2>10 DEF Fate
    <3> QED
      BY <2>8, <3>1, <3>2, CommandFields
  <2>15. /\ c \in Relay!CommandRecords /\ d \in Relay!CommandRecords
         /\ d.required = c.required /\ d.answer = c.answer /\ d.client = c.client
    BY <2>4, <2>8, CommandFields DEF CommandAt
  <2> HIDE DEF d
  <2>16. d = [c EXCEPT !.fate = "running"]
    <3> HIDE DEF c
    <3>1. d = [c EXCEPT !.fate = d.fate]
      BY <2>15, CommandChanges
    <3> QED
      BY <2>14, <3>1, Zenon
  <2>17. /\ Commands = [s \in Requests |-> CommandAt(s)]
         /\ Commands' = [s \in Requests |-> CommandAt(s)']
    BY DEF Commands, CommandAt
  <2>18. Commands' = [Commands EXCEPT ![r] = d]
    BY <2>12, <2>13, <2>17
  <2>19. Commands[r] = c
    BY <2>17
  <2> QED
    BY <2>14, <2>16, <2>18, <2>19, Zenon DEF Relay!Start, Relay!Becomes
<1> QED
  BY <1>3, <1>8, <1>9, RequestStep

LEMMA ShellStep ==
    ASSUME IInv, IInv', Shell
    PROVE  [Relay!Next]_Commands
<1>1. CASE ShellReads
  BY <1>1, ShellReadsStep
<1>2. ASSUME NEW what \in {"chunk", "marker"}, Deliver(what),
             pty'.up = pty.up, pty'.typed = pty.typed, pty'.running \subseteq pty.running
      PROVE  [Relay!Next]_Commands
  <2>1. /\ req \in [Requests -> RequestRecords] /\ tap \in Requests \union {NoOne}
        /\ NoOne \notin Requests
    BY ConstantsAssumption DEF IInv, TypeOK
  <2>2. ASSUME NEW r \in Requests
        PROVE  /\ req'[r].pc = req[r].pc /\ req'[r].answer = req[r].answer
               /\ req'[r].required = req[r].required /\ req'[r].client = req[r].client
               /\ req'[r].live = req[r].live /\ req'[r].fresh = req[r].fresh
    <3>1. CASE tap = r
      <4> DEFINE q == Append(req[r].inbox, what)
                 x == [req[r] EXCEPT !.inbox = q]
      <4>1. req'[r] = x
        BY <1>2, <2>1, <3>1 DEF Deliver
      <4>2. req[r] \in RequestRecords
        BY <2>1
      <4> HIDE DEF q
      <4>3. /\ x.pc = req[r].pc /\ x.answer = req[r].answer
            /\ x.required = req[r].required /\ x.client = req[r].client
            /\ x.live = req[r].live /\ x.fresh = req[r].fresh
        BY <4>2 DEF RequestRecords
      <4> QED
        BY <4>1, <4>3
    <3>2. CASE tap # r
      BY <1>2, <2>1, <3>2 DEF Deliver
    <3> QED
      BY <3>1, <3>2
  <2>3. \A r \in Requests : Waiting(r)' <=> Waiting(r)
    BY <1>2 DEF Waiting
  <2>4. Relay!Stop
    BY <1>2, <2>2, <2>3, StopStep
  <2> QED
    BY <2>4 DEF Relay!Next
<1>3. CASE ShellWrites
  <2>1. pty' = [pty EXCEPT !.said = pty.said + 1] /\ Deliver("chunk")
    BY <1>3 DEF ShellWrites
  <2>2. pty'.up = pty.up /\ pty'.typed = pty.typed /\ pty'.running = pty.running
    BY <2>1, PtyFacts DEF PtyRecords
  <2> QED
    BY <1>2, <2>1, <2>2
<1>4. CASE ShellFinishes
  <2> DEFINE what == IF tap \in pty.running THEN "marker" ELSE "chunk"
  <2>1. pty' = [pty EXCEPT !.running = {}, !.said = 0] /\ Deliver(what)
    BY <1>4 DEF ShellFinishes
  <2>2. pty'.up = pty.up /\ pty'.typed = pty.typed /\ pty'.running = {}
    BY <2>1, PtyFacts DEF PtyRecords
  <2>3. what \in {"chunk", "marker"}
    OBVIOUS
  <2> HIDE DEF what
  <2> QED
    BY <1>2, <2>1, <2>2, <2>3
<1> QED
  BY <1>1, <1>3, <1>4 DEF Shell

-----------------------------------------------------------------------------
LEMMA InitCommands == Init => Relay!Init
<1> SUFFICES ASSUME Init PROVE Relay!Init
  OBVIOUS
<1>1. ASSUME NEW r \in Requests
      PROVE  Command(req[r], pty.up /\ Waiting(r), pty.up /\ r \in pty.running)
               = [fate |-> "idle", answer |-> "none",
                  required |-> FALSE, client |-> "listens"]
  BY DEF Init, Command, Fate
<1> QED
  BY <1>1 DEF Relay!Init, Commands

LEMMA NextCommands ==
    ASSUME IInv, IInv', [Next]_vars
    PROVE  [Relay!Next]_Commands
<1>1. ASSUME NEW r \in Requests, NEW s \in BOOLEAN, NEW e \in BOOLEAN, NEW q \in BOOLEAN,
             Arrive(r, s, e, q)
      PROVE  [Relay!Next]_Commands
  BY <1>1, ArriveStep, RequestStep
<1>2. ASSUME NEW r \in Requests,
             \/ Exec(r) \/ BeginTap(r) \/ LiveExec(r) \/ Timer(r)
             \/ FreshExec(r) \/ Client(r)
      PROVE  [Relay!Next]_Commands
  BY <1>2, ExecStep, BeginTapStep, LiveExecStep, FreshExecStep, ClientStep
<1>3. CASE Tab
  BY <1>3, TabStep
<1>4. CASE Shell
  BY <1>4, ShellStep
<1>5. CASE UNCHANGED vars
  <2>1. pty' = pty /\ req' = req
    BY <1>5 DEF vars
  <2>2. \A r \in Requests : Waiting(r)' = Waiting(r)
    BY <2>1 DEF Waiting
  <2>3. Relay!Stop
    BY <2>1, <2>2, StopStep
  <2> QED
    BY <2>3 DEF Relay!Next
<1> QED
  BY <1>1, <1>2, <1>3, <1>4, <1>5 DEF Next

\* Whichever way a relay command takes, through tabs and connections that break,
\* deadlines and clients that hang up, what becomes of it and what its caller is
\* told is what RelayCommand promises: it is never started again once it may
\* have been started, it is typed only where no other command with a client is,
\* and its answer is final and true (AppRelayExecutor, LiveExecError).
THEOREM CommandsArePromised == Spec => CommandsAsPromised
<1>1. IInv /\ IInv' /\ [Next]_vars => [Relay!Next]_Commands
  BY NextCommands
<1> QED
  BY <1>1, InitCommands, Invariance, PTL DEF Spec, CommandsAsPromised, Relay!Spec

-----------------------------------------------------------------------------
(* What RelayCommand says of two commands in one terminal.                 *)

InTerminal(r) == Commands[r].fate \in {"typed", "running"}

OneListens ==
    \A r, s \in Requests :
        r # s /\ InTerminal(r) /\ InTerminal(s) =>
            Commands[r].client = "gone" \/ Commands[s].client = "gone"

CommandsTypeOK == Commands \in [Requests -> Relay!CommandRecords]

LEMMA CommandsTyped == IInv => CommandsTypeOK
<1> SUFFICES ASSUME IInv, NEW r \in Requests
             PROVE  Command(req[r], pty.up /\ Waiting(r), pty.up /\ r \in pty.running)
                      \in Relay!CommandRecords
  BY DEF Commands, CommandsTypeOK
<1> QED
  BY RequestFacts, CommandFields

\* No command gets back a client that went, nor into the terminal but by Type.
LEMMA ListensKeeps ==
    ASSUME CommandsTypeOK, CommandsTypeOK', OneListens, [Relay!Next]_Commands
    PROVE  OneListens'
<1> USE DEF CommandsTypeOK
<1>1. CASE Relay!Stop
  <2>1. \A r \in Requests : /\ InTerminal(r)' => InTerminal(r)
                            /\ Commands'[r].client = Commands[r].client
    <3> SUFFICES ASSUME NEW r \in Requests
                 PROVE  /\ Commands'[r].fate \in {"typed", "running"} =>
                             Commands[r].fate \in {"typed", "running"}
                        /\ Commands'[r].client = Commands[r].client
      BY DEF InTerminal
    <3>1. Relay!Stops(Commands[r], Commands'[r])
      BY <1>1 DEF Relay!Stop
    <3>2. Commands[r] \in Relay!CommandRecords
      OBVIOUS
    <3> QED
      BY <3>1, <3>2 DEF Relay!Stops, Relay!CommandRecords
  <2> QED
    BY <2>1 DEF OneListens
<1>2. ASSUME NEW r \in Requests, NEW c \in Relay!CommandRecords,
             Relay!Becomes(r, c),
             Commands[r].client = "gone" => c.client = "gone",
             \/ c.fate \notin {"typed", "running"}
             \/ InTerminal(r)
             \/ \A s \in Requests \ {r} : InTerminal(s) => Commands[s].client = "gone"
      PROVE  OneListens'
  <2>1. Commands'[r] = c /\ \A s \in Requests \ {r} : Commands'[s] = Commands[s]
    BY <1>2 DEF Relay!Becomes
  <2> QED
    BY <1>2, <2>1 DEF OneListens, InTerminal
<1>3. ASSUME NEW r \in Requests,
             \/ Relay!Ask(r) \/ Relay!HangUp(r) \/ Relay!GiveUp(r) \/ Relay!Type(r)
             \/ Relay!Start(r) \/ Relay!Report(r) \/ Relay!Refuse(r)
             \/ Relay!RunElsewhere(r)
      PROVE  OneListens'
  <2> DEFINE c == Commands[r]
  <2>1. c \in Relay!CommandRecords
    OBVIOUS
  <2> HIDE DEF c
  <2> USE DEF Relay!CommandRecords, Relay!Fates, Relay!Sent, Relay!Answers
  <2>2. CASE Relay!Ask(r)
    <3>1. PICK q \in BOOLEAN : Relay!Becomes(r, [c EXCEPT !.fate = "open", !.required = q])
      BY <2>2 DEF Relay!Ask, c
    <3> DEFINE e == [c EXCEPT !.fate = "open"]
               d == [e EXCEPT !.required = q]
    <3>2. e \in Relay!CommandRecords /\ e.fate = "open" /\ e.client = c.client
      BY <2>1
    <3>3. Relay!Becomes(r, d)
      BY <3>1
    <3> HIDE DEF e
    <3>4. d \in Relay!CommandRecords /\ d.fate = "open" /\ d.client = c.client
      BY <3>2
    <3> HIDE DEF d
    <3> QED
      BY <1>2, <3>3, <3>4 DEF c
  <2>3. ASSUME NEW f \in Relay!Fates, Relay!Becomes(r, [c EXCEPT !.fate = f]),
               \/ f \notin {"typed", "running"}
               \/ InTerminal(r)
               \/ \A s \in Requests \ {r} : InTerminal(s) => Commands[s].client = "gone"
        PROVE  OneListens'
    <3> DEFINE d == [c EXCEPT !.fate = f]
    <3>1. d \in Relay!CommandRecords /\ d.fate = f /\ d.client = c.client
      BY <2>1
    <3>2. Relay!Becomes(r, d)
      BY <2>3
    <3> HIDE DEF d
    <3> QED
      BY <1>2, <2>3, <3>1, <3>2 DEF c
  <2>4. ASSUME NEW f \in {"own", "never"}, NEW a \in Relay!Answers, Relay!Ends(r, f, a)
        PROVE  OneListens'
    <3> DEFINE e == [c EXCEPT !.fate = f]
               d == [e EXCEPT !.answer = a]
    <3>1. e \in Relay!CommandRecords /\ e.fate = f /\ e.client = c.client
      BY <2>1
    <3>2. Relay!Becomes(r, d)
      BY <2>4 DEF Relay!Ends, c
    <3> HIDE DEF e
    <3>3. d \in Relay!CommandRecords /\ d.fate = f /\ d.client = c.client
      BY <3>1
    <3> HIDE DEF d
    <3> QED
      BY <1>2, <3>2, <3>3 DEF c
  <2>5. CASE Relay!HangUp(r)
    <3> DEFINE e == [c EXCEPT !.client = "gone"]
               d == [e EXCEPT !.fate = "never"]
    <3>1. e \in Relay!CommandRecords /\ e.fate = c.fate /\ e.client = "gone"
      BY <2>1
    <3>2. Relay!Becomes(r, e) \/ Relay!Becomes(r, d)
      BY <2>5 DEF Relay!HangUp, c
    <3> HIDE DEF e
    <3>3. d \in Relay!CommandRecords /\ d.fate = "never" /\ d.client = "gone"
      BY <3>1
    <3> HIDE DEF d
    <3>4. CASE Relay!Becomes(r, e)
      BY <1>2, <3>1, <3>4 DEF c, InTerminal
    <3>5. CASE Relay!Becomes(r, d)
      BY <1>2, <3>3, <3>5 DEF c
    <3> QED
      BY <3>2, <3>4, <3>5
  <2>6. CASE Relay!GiveUp(r)
    BY <2>3, <2>6 DEF Relay!GiveUp, c
  <2>7. CASE Relay!Type(r)
    <3>1. \A s \in Requests \ {r} : InTerminal(s) => Commands[s].client = "gone"
      BY <2>7 DEF Relay!Type, InTerminal
    <3>2. PICK f \in {"typed", "lost"} : Relay!Becomes(r, [c EXCEPT !.fate = f])
      BY <2>7 DEF Relay!Type, c
    <3> QED
      BY <2>3, <3>1, <3>2
  <2>8. CASE Relay!Start(r)
    <3>1. InTerminal(r) /\ Relay!Becomes(r, [c EXCEPT !.fate = "running"])
      BY <2>8 DEF Relay!Start, InTerminal, c
    <3> QED
      BY <2>3, <3>1
  <2>9. CASE Relay!Report(r)
    <3>1. PICK a \in {"done", "elevate", "timed_out", "unknown"} :
            Relay!Becomes(r, [c EXCEPT !.answer = a])
      BY <2>9 DEF Relay!Report, c
    <3> DEFINE d == [c EXCEPT !.answer = a]
    <3>2. d \in Relay!CommandRecords /\ d.fate = c.fate /\ d.client = c.client
      BY <2>1
    <3>3. Relay!Becomes(r, d)
      BY <3>1
    <3> HIDE DEF d
    <3> QED
      BY <1>2, <3>2, <3>3 DEF c, InTerminal
  <2>10. CASE Relay!Refuse(r) \/ Relay!RunElsewhere(r)
    BY <2>4, <2>10 DEF Relay!Refuse, Relay!RunElsewhere
  <2> QED
    BY <1>3, <2>2, <2>5, <2>6, <2>7, <2>8, <2>9, <2>10
<1>4. CASE UNCHANGED Commands
  BY <1>4 DEF OneListens, InTerminal
<1> QED
  BY <1>1, <1>3, <1>4 DEF Relay!Next

\* A line in the terminal is that of a command which is typed or running.
LEMMA OccupiesIsInTerminal ==
    ASSUME IInv, OneListens
    PROVE  OverlapNeedsHangUp
<1>1. ASSUME NEW r \in Requests, Occupies(r)
      PROVE  InTerminal(r)
  <2>1. /\ req[r] \in RequestRecords /\ CoherentAt(r)
        /\ req[r].live \in Nat /\ req[r].fresh \in Nat
    BY RequestFacts DEF RequestRecords
  <2>2. pty.up /\ (r \in pty.running \/ Waiting(r))
    BY <1>1 DEF Occupies
  <2>3. req[r].fresh = 0 /\ req[r].pc # "idle"
    BY <2>1, <2>2 DEF CoherentAt, Coherent, Unsent
  <2>4. r \in pty.running \/ req[r].live = 0
    BY <2>1, <2>2 DEF CoherentAt, Coherent
  <2>5. CommandAt(r).fate \in {"typed", "running"}
    BY <2>2, <2>3, <2>4, FateOf DEF Fate
  <2> QED
    BY <2>5 DEF InTerminal, Commands, CommandAt
<1>2. ASSUME NEW r \in Requests, Commands[r].client = "gone"
      PROVE  req[r].client = "gone"
  BY <1>2, FateOf DEF Commands, CommandAt
<1> QED
  BY <1>1, <1>2 DEF OverlapNeedsHangUp, OneListens

\* Two relay commands are in one terminal only after the client of one of them
\* hung up, because a command is typed only beside commands without a client:
\* one that timed out, or whose output ended, closes the session to later ones
\* (mark_relay_exec_unusable).
THEOREM OverlapsNeedHangUps == Spec => []OverlapNeedsHangUp
<1>1. Init => OneListens
  <2> SUFFICES ASSUME Init, NEW r \in Requests
               PROVE  Commands[r].fate = "idle"
    BY DEF OneListens, InTerminal
  <2>1. Relay!Init
    BY InitCommands
  <2> QED
    BY <2>1 DEF Relay!Init
<1>2. (IInv /\ IInv' /\ CommandsTypeOK /\ CommandsTypeOK' /\ OneListens /\ [Next]_vars)
        => OneListens'
  BY NextCommands, ListensKeeps
<1>3. IInv /\ OneListens => OverlapNeedsHangUp
  BY OccupiesIsInTerminal
<1> QED
  BY <1>1, <1>2, <1>3, CommandsTyped, Invariance, PTL DEF Spec
==============================================================================
