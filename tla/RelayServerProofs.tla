-------------------------- MODULE RelayServerProofs --------------------------
(***************************************************************************)
(* Proofs about RelayServer, for any requests, addresses, accounts, limits *)
(* and windows.                                                            *)
(*                                                                         *)
(* The limiter's windows do not overlap: each starts when the one before   *)
(* is over. What has to be kept of the past is how many were admitted in   *)
(* the present window, how many in any stretch that ends where it starts   *)
(* and is shorter than a window, and that nothing lies beyond its end.     *)
(***************************************************************************)
EXTENDS RelayServer, FiniteSetTheorems, SequenceTheorems, TLAPS

Times == 0 .. MaxNow

\* How many of the times ts lie in [lo, hi); at or after lo; within a window up to t.
Count(ts, lo, hi) == Cardinality({k \in DOMAIN ts : lo <= ts[k] /\ ts[k] < hi})
Since(ts, lo) == Cardinality({k \in DOMAIN ts : lo <= ts[k]})
Recent(ts, t) == Cardinality({k \in DOMAIN ts : ts[k] <= t /\ t - ts[k] < Window})

\* What is kept of an account: its counter and the times it was admitted.
AccountFits(c, ts, n) ==
    /\ c.start = None => ts = <<>>
    /\ \A k \in DOMAIN ts : ts[k] <= n
    /\ c.start # None =>
         /\ c.start <= n
         /\ \A k \in DOMAIN ts : ts[k] < c.start + Window
         /\ Since(ts, c.start) <= c.count /\ Since(ts, c.start) <= PerAccountRateLimit
         /\ \A t \in Times : t + Window > c.start => Count(ts, t, c.start) <= PerAccountRateLimit
    /\ \A t \in Times : Within(ts, t) <= 2 * PerAccountRateLimit

\* What is kept of an address: its counter and the times of its failed logins.
AddressFits(c, ts, n) ==
    /\ \A k \in DOMAIN ts : ts[k] <= n
    /\ c.start # None => c.start <= n /\ c.count <= Since(ts, c.start)

\* What was sent to the client, written to the log and to the history.
StoryFits(x, stored) ==
    /\ x.pc \in {"new", "checked", "known", "valid"} => x.audit = <<>> /\ x.answer = "none"
    /\ x.pc \in {"running", "streaming"} => x.audit = <<"accepted">> /\ x.answer = "none"
    /\ x.pc = "gone" => x.audit \in {<<>>, <<"accepted">>} /\ x.answer = "none"
    /\ x.pc = "answered" => x.answer # "none"
    /\ x.answer \in {"outcome", "error"} =>
         x.audit \in {<<"accepted", "completed">>, <<"accepted", "failed">>} /\ stored # "none"
    /\ x.answer \notin {"outcome", "error"} =>
         x.audit \in {<<>>, <<"auth_failure">>, <<"rejected">>, <<"accepted">>} /\ stored = "none"
    /\ x.answer = "throttled" => x.at # None

RowRecords == [state : RowStates, by : Accounts \union {None}, told : {"nothing", "not_found"}]

LimiterOK ==
    /\ now \in Times
    /\ auth_failures \in [Ips -> Counters] /\ exec_counts \in [Accounts -> Counters]
    /\ failed \in [Ips -> Seq(Times)] /\ admitted \in [Accounts -> Seq(Times)]
    /\ \A a \in Accounts : AccountFits(exec_counts[a], admitted[a], now)
    /\ \A i \in Ips : AddressFits(auth_failures[i], failed[i], now)

RequestOK(x, y) ==
    /\ x \in RequestRecords /\ y \in RowRecords
    /\ x.pc # "new" => x.ip # None
    /\ x.pc \in {"known", "valid", "running", "streaming"} => x.account # None
    /\ StoryFits(x, y.state)

RequestsOK ==
    /\ req = [r \in Requests |-> req[r]] /\ row = [r \in Requests |-> row[r]]
    /\ \A r \in Requests : RequestOK(req[r], row[r])

IInv == LimiterOK /\ RequestsOK /\ ThrottledForCause

-----------------------------------------------------------------------------
(* Counting.                                                               *)

LEMMA Finite ==
    ASSUME NEW ts \in Seq(Times), NEW S \in SUBSET DOMAIN ts
    PROVE  IsFiniteSet(S) /\ Cardinality(S) \in Nat
<1>1. DOMAIN ts = 1 .. Len(ts) /\ Len(ts) \in Nat
    BY LenProperties
<1>2. IsFiniteSet(DOMAIN ts)
    BY <1>1, FS_Interval
<1>3. IsFiniteSet(S)
    BY <1>2, FS_Subset
<1>4. QED
    BY <1>3, FS_CardinalityType

LEMMA Fewer ==
    ASSUME NEW ts \in Seq(Times), NEW S \in SUBSET DOMAIN ts, NEW T \in SUBSET S
    PROVE  Cardinality(T) <= Cardinality(S)
BY Finite, FS_Subset

LEMMA Numbers ==
    ASSUME NEW ts \in Seq(Times)
    PROVE  /\ \A k \in DOMAIN ts : ts[k] \in Times
           /\ \A lo, hi : Count(ts, lo, hi) \in Nat
           /\ \A lo : Since(ts, lo) \in Nat
<1>1. \A k \in DOMAIN ts : ts[k] \in Times
    BY LenProperties
<1>2. ASSUME NEW lo, NEW hi PROVE Count(ts, lo, hi) \in Nat
    <2> DEFINE S == {k \in DOMAIN ts : lo <= ts[k] /\ ts[k] < hi}
    <2>1. S \in SUBSET DOMAIN ts
        OBVIOUS
    <2>2. QED
        BY <2>1, Finite DEF Count
<1>3. ASSUME NEW lo PROVE Since(ts, lo) \in Nat
    <2> DEFINE S == {k \in DOMAIN ts : lo <= ts[k]}
    <2>1. S \in SUBSET DOMAIN ts
        OBVIOUS
    <2>2. QED
        BY <2>1, Finite DEF Since
<1>4. QED
    BY <1>1, <1>2, <1>3

\* An event at time n is added.
LEMMA Later ==
    ASSUME NEW ts \in Seq(Times), NEW n \in Times
    PROVE  /\ Append(ts, n) \in Seq(Times)
           /\ DOMAIN Append(ts, n) = DOMAIN ts \union {Len(ts) + 1}
           /\ Len(ts) + 1 \notin DOMAIN ts
           /\ \A k \in DOMAIN ts : Append(ts, n)[k] = ts[k]
           /\ Append(ts, n)[Len(ts) + 1] = n
<1>1. /\ DOMAIN ts = 1 .. Len(ts) /\ Len(ts) \in Nat
      /\ Append(ts, n) \in Seq(Times) /\ Len(Append(ts, n)) = Len(ts) + 1
      /\ \A k \in 1 .. Len(ts) : Append(ts, n)[k] = ts[k]
      /\ Append(ts, n)[Len(ts) + 1] = n
    BY LenProperties, AppendProperties
<1>2. DOMAIN Append(ts, n) = 1 .. Len(ts) + 1
    BY <1>1, LenProperties
<1>3. 1 .. Len(ts) + 1 = (1 .. Len(ts)) \union {Len(ts) + 1}
    BY <1>1
<1>4. QED
    BY <1>1, <1>2, <1>3

LEMMA CountLater ==
    ASSUME NEW ts \in Seq(Times), NEW n \in Times, NEW lo \in Int, NEW hi \in Int
    PROVE  Count(Append(ts, n), lo, hi) =
               IF lo <= n /\ n < hi THEN Count(ts, lo, hi) + 1 ELSE Count(ts, lo, hi)
<1> DEFINE S == {k \in DOMAIN ts : lo <= ts[k] /\ ts[k] < hi}
           T == {k \in DOMAIN Append(ts, n) : lo <= Append(ts, n)[k] /\ Append(ts, n)[k] < hi}
           e == Len(ts) + 1
<1>1. T = IF lo <= n /\ n < hi THEN S \union {e} ELSE S
    BY Later
<1>2. e \notin S
    BY Later
<1>3. IsFiniteSet(S)
    BY Finite
<1> HIDE DEF S, T, e
<1>4. Cardinality(S \union {e}) = Cardinality(S) + 1
    BY <1>2, <1>3, FS_AddElement
<1>5. QED
    BY <1>1, <1>4 DEF Count, S, T

LEMMA SinceLater ==
    ASSUME NEW ts \in Seq(Times), NEW n \in Times, NEW lo \in Int
    PROVE  Since(Append(ts, n), lo) = IF lo <= n THEN Since(ts, lo) + 1 ELSE Since(ts, lo)
<1> DEFINE S == {k \in DOMAIN ts : lo <= ts[k]}
           T == {k \in DOMAIN Append(ts, n) : lo <= Append(ts, n)[k]}
           e == Len(ts) + 1
<1>1. T = IF lo <= n THEN S \union {e} ELSE S
    BY Later
<1>2. e \notin S
    BY Later
<1>3. IsFiniteSet(S)
    BY Finite
<1> HIDE DEF S, T, e
<1>4. Cardinality(S \union {e}) = Cardinality(S) + 1
    BY <1>2, <1>3, FS_AddElement
<1>5. QED
    BY <1>1, <1>4 DEF Since, S, T

\* A stretch lies before mid, or at or after it.
LEMMA CountSplits ==
    ASSUME NEW ts \in Seq(Times), NEW lo \in Int, NEW mid \in Int, NEW hi \in Int
    PROVE  Count(ts, lo, hi) <= Count(ts, lo, mid) + Since(ts, mid)
<1> DEFINE A == {k \in DOMAIN ts : lo <= ts[k] /\ ts[k] < hi}
           B == {k \in DOMAIN ts : lo <= ts[k] /\ ts[k] < mid}
           C == {k \in DOMAIN ts : mid <= ts[k]}
<1>1. A \in SUBSET (B \union C) /\ B \union C \in SUBSET DOMAIN ts
    BY Numbers, ConstantsAssumption DEF Times
<1>2. /\ IsFiniteSet(B) /\ IsFiniteSet(C) /\ Cardinality(B) \in Nat /\ Cardinality(C) \in Nat
      /\ B \intersect C \in SUBSET DOMAIN ts
    BY Finite
<1> HIDE DEF A, B, C
<1>3. Cardinality(A) <= Cardinality(B \union C) /\ Cardinality(A) \in Nat
      /\ Cardinality(B \union C) \in Nat
    BY <1>1, Fewer, Finite
<1>4. Cardinality(B \intersect C) \in Nat
    BY <1>2, Finite
<1>5. Cardinality(B \union C) = Cardinality(B) + Cardinality(C) - Cardinality(B \intersect C)
    BY <1>2, FS_Union
<1>6. Cardinality(A) <= Cardinality(B) + Cardinality(C)
    BY <1>2, <1>3, <1>4, <1>5
<1>7. QED
    BY <1>6 DEF Count, Since, A, B, C

\* A stretch that starts at or after lo holds no more than there is since lo.
LEMMA CountWithinSince ==
    ASSUME NEW ts \in Seq(Times), NEW lo \in Int, NEW t \in Int, lo <= t, NEW hi \in Int
    PROVE  Count(ts, t, hi) <= Since(ts, lo)
<1> DEFINE A == {k \in DOMAIN ts : t <= ts[k] /\ ts[k] < hi}
           B == {k \in DOMAIN ts : lo <= ts[k]}
<1>1. A \in SUBSET B /\ B \in SUBSET DOMAIN ts
    BY Numbers, ConstantsAssumption DEF Times
<1> HIDE DEF A, B
<1>2. Cardinality(A) <= Cardinality(B)
    BY <1>1, Fewer
<1>3. QED
    BY <1>2 DEF Count, Since, A, B

\* Nothing at or after a time all events are before.
LEMMA NoneSince ==
    ASSUME NEW ts \in Seq(Times), NEW lo \in Int, \A k \in DOMAIN ts : ts[k] < lo
    PROVE  Since(ts, lo) = 0
<1>1. {k \in DOMAIN ts : lo <= ts[k]} = {}
    BY Numbers, ConstantsAssumption DEF Times
<1>2. QED
    BY <1>1, FS_EmptySet DEF Since
-----------------------------------------------------------------------------
(* The limiter.                                                            *)

\* record, at time n.
Recorded(c, n) ==
    IF c.start # None /\ n - c.start < Window THEN [c EXCEPT !.count = @ + 1]
    ELSE [start |-> n, count |-> 1]

\* An account is recorded at time n, and admitted where the count allows it.
LEMMA AdmissionFits ==
    ASSUME NEW c \in Counters, NEW ts \in Seq(Times), NEW n \in Times, AccountFits(c, ts, n),
           NEW c2, c2 = Recorded(c, n),
           NEW ts2, ts2 = IF c2.count <= PerAccountRateLimit THEN Append(ts, n) ELSE ts
    PROVE  c2 \in [start : Times, count : Nat] /\ ts2 \in Seq(Times) /\ AccountFits(c2, ts2, n)
<1> DEFINE L == PerAccountRateLimit
<1>0. /\ L \in Nat /\ Window \in Nat /\ Window > 0 /\ n \in Nat /\ None \notin Nat
      /\ (\A t \in Times : t \in Nat) /\ c.count \in Nat
      /\ c.start \in Times \union {None} /\ (c.start # None => c.start \in Nat)
    BY ConstantsAssumption DEF Times, Counters
<1>t. /\ \A k \in DOMAIN ts : ts[k] \in Times /\ ts[k] \in Nat /\ ts[k] <= n
      /\ \A lo, hi : Count(ts, lo, hi) \in Nat
      /\ \A lo : Since(ts, lo) \in Nat
    BY <1>0, Numbers DEF AccountFits
<1>w. c.start # None =>
         /\ c.start <= n /\ \A k \in DOMAIN ts : ts[k] < c.start + Window
         /\ Since(ts, c.start) <= c.count /\ Since(ts, c.start) <= L
         /\ \A t \in Times : t + Window > c.start => Count(ts, t, c.start) <= L
    BY DEF AccountFits
<1>v. \A t \in Times : Count(ts, t, t + Window) <= 2 * L
    BY DEF AccountFits, Count, Within
\* Of the new counter: what holds before the event is added.
<1>1. /\ c2.start \in Times /\ c2.start \in Nat /\ c2.count \in Nat
      /\ c2 \in [start : Times, count : Nat]
      /\ c2.start <= n /\ n < c2.start + Window
      /\ Since(ts, c2.start) + 1 <= c2.count /\ Since(ts, c2.start) <= L
      /\ \A t \in Times : t + Window > c2.start => Count(ts, t, c2.start) <= L
    <2>1. CASE c.start # None /\ n - c.start < Window
        <3>1. c2 = [c EXCEPT !.count = @ + 1]
            BY <2>1 DEF Recorded
        <3>2. c2.start = c.start /\ c2.count = c.count + 1 /\ c2 \in [start : Times, count : Nat]
            BY <1>0, <2>1, <3>1 DEF Counters, Times
        <3>3. QED
            BY <1>0, <1>t, <1>w, <2>1, <3>2
    <2>2. CASE ~(c.start # None /\ n - c.start < Window)
        <3>1. c2.start = n /\ c2.count = 1 /\ c2 \in [start : Times, count : Nat]
            BY <1>0, <2>2 DEF Recorded
        <3>2. \A k \in DOMAIN ts : ts[k] < n
            <4>1. CASE c.start = None
                BY <4>1, EmptySeq DEF AccountFits
            <4>2. CASE c.start # None
                <5>1. c.start + Window <= n
                    BY <1>0, <2>2, <4>2
                <5>2. \A k \in DOMAIN ts : ts[k] < c.start + Window /\ ts[k] \in Nat
                    BY <1>0, <1>t, <1>w, <4>2
                <5>3. QED
                    BY <1>0, <4>2, <5>1, <5>2
            <4>3. QED
                BY <4>1, <4>2
        <3>3. Since(ts, n) = 0
            BY <1>0, <3>2, NoneSince
        <3>4. ASSUME NEW t \in Times, t + Window > n PROVE Count(ts, t, n) <= L
            <4>1. CASE c.start = None
                <5>1. DOMAIN ts = {}
                    BY <4>1, EmptySeq DEF AccountFits
                <5>2. {k \in DOMAIN ts : t <= ts[k] /\ ts[k] < n} = {}
                    BY <5>1
                <5>3. Count(ts, t, n) = 0
                    BY <5>2, FS_EmptySet DEF Count
                <5>4. QED
                    BY <1>0, <5>3
            <4>2. CASE c.start # None
                <5>1. c.start <= t /\ c.start \in Int /\ t \in Int /\ n \in Int
                    BY <1>0, <2>2, <3>4, <4>2
                <5>2. Count(ts, t, n) <= Since(ts, c.start)
                    BY <5>1, CountWithinSince
                <5>3. QED
                    BY <1>0, <1>t, <1>w, <4>2, <5>2
            <4>3. QED
                BY <4>1, <4>2
        <3>5. QED
            BY <1>0, <3>1, <3>3, <3>4
    <2>3. QED
        BY <2>1, <2>2
<1>2. CASE c2.count <= L
    <2>1. ts2 = Append(ts, n) /\ ts2 \in Seq(Times) /\ ts2 # <<>>
        BY <1>2, Later, AppendProperties
    <2>2. \A k \in DOMAIN ts2 : ts2[k] <= n
        BY <1>0, <1>t, <2>1, Later
    <2>3. \A k \in DOMAIN ts2 : ts2[k] < c2.start + Window
        <3>1. \A k \in DOMAIN ts2 : ts2[k] \in Nat
            BY <1>0, <2>1, Numbers
        <3>2. n \in Nat /\ c2.start \in Nat /\ Window \in Nat /\ n < c2.start + Window
            BY <1>0, <1>1
        <3>3. QED
            BY <2>2, <3>1, <3>2
    <2>4. Since(ts2, c2.start) = Since(ts, c2.start) + 1
        BY <1>0, <1>1, <2>1, SinceLater
    <2>5. Since(ts2, c2.start) <= c2.count /\ Since(ts2, c2.start) <= L
        BY <1>0, <1>1, <1>2, <1>t, <2>4
    <2>6. ASSUME NEW t \in Times
          PROVE  Count(ts2, t, c2.start) = Count(ts, t, c2.start)
        <3>1. ~(n < c2.start) /\ t \in Int /\ c2.start \in Int
            BY <1>0, <1>1
        <3>2. QED
            BY <2>1, <3>1, CountLater
    <2>7. ASSUME NEW t \in Times PROVE Within(ts2, t) <= 2 * L
        <3>0. /\ t \in Int /\ t + Window \in Int /\ c2.start \in Int
              /\ Within(ts2, t) = Count(ts2, t, t + Window)
            BY <1>0, <1>1 DEF Within, Count
        <3>1. CASE ~(t <= n /\ n < t + Window)
            <4>1. Count(ts2, t, t + Window) = Count(ts, t, t + Window)
                BY <2>1, <3>0, <3>1, CountLater
            <4>2. QED
                BY <1>v, <3>0, <4>1
        <3>2. CASE t <= n /\ n < t + Window
            <4>1. t + Window > c2.start
                BY <1>0, <1>1, <3>0, <3>2
            <4>2. Count(ts2, t, c2.start) <= L
                BY <1>1, <2>6, <4>1
            <4>3. Count(ts2, t, t + Window) <= Count(ts2, t, c2.start) + Since(ts2, c2.start)
                BY <2>1, <3>0, CountSplits
            <4>4. /\ Count(ts2, t, t + Window) \in Nat /\ Count(ts2, t, c2.start) \in Nat
                  /\ Since(ts2, c2.start) \in Nat
                BY <2>1, Numbers
            <4>5. QED
                BY <1>0, <2>5, <3>0, <4>2, <4>3, <4>4
        <3>3. QED
            BY <3>1, <3>2
    <2>8. c2.start # None
        BY <1>0, <1>1
    <2>9. \A t \in Times : t + Window > c2.start => Count(ts2, t, c2.start) <= L
        BY <1>1, <2>6
    <2>10. QED
        BY <1>1, <2>1, <2>2, <2>3, <2>5, <2>7, <2>8, <2>9 DEF AccountFits
<1>3. CASE ~(c2.count <= L)
    <2>1. ts2 = ts
        BY <1>3
    <2>2. \A k \in DOMAIN ts : ts[k] < c2.start + Window
        BY <1>0, <1>1, <1>t
    <2>3. c2.start # None /\ Since(ts, c2.start) <= c2.count
        BY <1>0, <1>1, <1>t
    <2>4. QED
        BY <1>1, <2>1, <2>2, <2>3 DEF AccountFits
<1>4. QED
    BY <1>2, <1>3

\* A failed login is recorded at time n.
LEMMA FailureFits ==
    ASSUME NEW c \in Counters, NEW ts \in Seq(Times), NEW n \in Times, AddressFits(c, ts, n)
    PROVE  /\ Recorded(c, n) \in [start : Times, count : Nat]
           /\ Append(ts, n) \in Seq(Times)
           /\ AddressFits(Recorded(c, n), Append(ts, n), n)
<1> DEFINE c2 == Recorded(c, n)
           ts2 == Append(ts, n)
<1>0. /\ n \in Nat /\ None \notin Nat /\ (\A t \in Times : t \in Nat) /\ c.count \in Nat
      /\ c.start \in Times \union {None} /\ (c.start # None => c.start \in Nat)
      /\ \A lo : Since(ts, lo) \in Nat
    BY ConstantsAssumption, Numbers DEF Times, Counters
<1>1. ts2 \in Seq(Times) /\ \A k \in DOMAIN ts2 : ts2[k] <= n
    BY <1>0, Later DEF AddressFits
<1>2. \A s \in Times : s <= n => Since(ts2, s) = Since(ts, s) + 1
    BY <1>0, SinceLater
<1>3. c2 \in [start : Times, count : Nat] /\ c2.start <= n /\ c2.count <= Since(ts2, c2.start)
    <2>1. CASE c.start # None /\ n - c.start < Window
        <3>1. c2 = [c EXCEPT !.count = @ + 1]
            BY <2>1 DEF Recorded
        <3>2. c2.start = c.start /\ c2.count = c.count + 1 /\ c2 \in [start : Times, count : Nat]
            BY <1>0, <2>1, <3>1 DEF Counters, Times
        <3>3. c.start <= n /\ c.count <= Since(ts, c.start)
            BY <2>1 DEF AddressFits
        <3>4. QED
            BY <1>0, <1>2, <2>1, <3>2, <3>3
    <2>2. CASE ~(c.start # None /\ n - c.start < Window)
        <3>1. c2.start = n /\ c2.count = 1 /\ c2 \in [start : Times, count : Nat]
            BY <1>0, <2>2 DEF Recorded
        <3>2. QED
            BY <1>0, <1>2, <3>1
    <2>3. QED
        BY <2>1, <2>2
<1>4. QED
    BY <1>1, <1>3 DEF AddressFits

\* An address is turned away by a counter that is in its window.
LEMMA ThrottleHasCause ==
    ASSUME NEW c \in Counters, NEW ts \in Seq(Times), NEW n \in Times, AddressFits(c, ts, n),
           c.start # None, n - c.start < Window, c.count > AuthFailureBudget
    PROVE  Recent(ts, n) > AuthFailureBudget
<1> DEFINE A == {k \in DOMAIN ts : c.start <= ts[k]}
           B == {k \in DOMAIN ts : ts[k] <= n /\ n - ts[k] < Window}
<1>0. /\ AuthFailureBudget \in Nat /\ Window \in Nat /\ n \in Nat /\ c.count \in Nat
      /\ c.start \in Nat /\ \A k \in DOMAIN ts : ts[k] \in Nat /\ ts[k] <= n
    BY ConstantsAssumption, Numbers DEF Times, Counters, AddressFits
<1>1. A \in SUBSET B /\ B \in SUBSET DOMAIN ts
    BY <1>0
<1>2. c.count <= Cardinality(A)
    BY DEF AddressFits, Since
<1> HIDE DEF A, B
<1>3. Cardinality(A) <= Cardinality(B) /\ Cardinality(A) \in Nat /\ Cardinality(B) \in Nat
    BY <1>1, Fewer, Finite
<1>4. QED
    BY <1>0, <1>2, <1>3 DEF Recent, B

\* What is added later takes nothing away.
LEMMA RecentLater ==
    ASSUME NEW ts \in Seq(Times), NEW n \in Times, NEW t
    PROVE  /\ Recent(ts, t) \in Nat /\ Recent(Append(ts, n), t) \in Nat
           /\ Recent(ts, t) <= Recent(Append(ts, n), t)
<1> DEFINE A == {k \in DOMAIN ts : ts[k] <= t /\ t - ts[k] < Window}
           us == Append(ts, n)
           B == {k \in DOMAIN us : us[k] <= t /\ t - us[k] < Window}
<1>1. us \in Seq(Times) /\ A \in SUBSET B /\ B \in SUBSET DOMAIN us /\ A \in SUBSET DOMAIN ts
    BY Later
<1> HIDE DEF A, B, us
<1>2. Cardinality(A) <= Cardinality(B) /\ Cardinality(A) \in Nat /\ Cardinality(B) \in Nat
    BY <1>1, Fewer, Finite
<1>3. QED
    BY <1>2 DEF Recent, A, B, us
-----------------------------------------------------------------------------
(* Requests and what is recorded of them.                                  *)

Entries == {"auth_failure", "rejected", "accepted", "completed", "failed"}

LEMMA Logs ==
    /\ \A s \in Seq(Entries) : <<>> \o s = s /\ s \o <<>> = s
    /\ \A x \in Entries : <<"accepted">> \o <<x>> = <<"accepted", x>>
    /\ <<>> \in Seq(Entries)
    /\ \A x \in Entries : <<x>> \in Seq(Entries)
    /\ \A x, y \in Entries : <<x, y>> \in Seq(Entries)
<1>1. \A s \in Seq(Entries) : <<>> \o s = s /\ s \o <<>> = s
    BY ConcatEmptySeq
<1>2. ASSUME NEW x \in Entries PROVE <<"accepted">> \o <<x>> = <<"accepted", x>>
    <2> DEFINE s == <<"accepted">>
               t == <<x>>
               u == <<"accepted", x>>
    <2>1. /\ s \in Seq(Entries) /\ Len(s) = 1 /\ s[1] = "accepted"
          /\ t \in Seq(Entries) /\ Len(t) = 1 /\ t[1] = x
          /\ u \in Seq(Entries) /\ Len(u) = 2 /\ u[1] = "accepted" /\ u[2] = x
        BY DEF Entries
    <2> HIDE DEF s, t, u
    <2>2. /\ s \o t \in Seq(Entries) /\ Len(s \o t) = Len(s) + Len(t)
          /\ \A i \in 1 .. Len(s) + Len(t) :
                (s \o t)[i] = IF i <= Len(s) THEN s[i] ELSE t[i - Len(s)]
        BY <2>1, ConcatProperties
    <2>c. Len(s \o t) = 2 /\ 1 \in 1 .. Len(s) + Len(t) /\ 2 \in 1 .. Len(s) + Len(t)
        BY <2>1, <2>2
    <2>d. (s \o t)[1] = s[1] /\ (s \o t)[2] = t[2 - 1]
        BY <2>1, <2>2, <2>c
    <2>e. \A i \in 1 .. 2 : i = 1 \/ i = 2
        OBVIOUS
    <2>3. \A i \in 1 .. 2 : (s \o t)[i] = u[i]
        BY <2>1, <2>d, <2>e
    <2>4. s \o t = u
        BY <2>1, <2>2, <2>c, <2>3, SeqEqual
    <2>5. QED
        BY <2>4 DEF s, t, u
<1>3. QED
    BY <1>1, <1>2

Kept(x2, x) == x2.ip = x.ip /\ x2.account = x.account /\ x2.at = x.at

\* What the log holds of x once e is added; a request that is answered, and one that goes to p.
Logged(x, e) == x.audit \o e
AnsweredWith(x, a, e) == [x EXCEPT !.pc = "answered", !.answer = a, !.audit = @ \o e]
GoneTo(x, p, e) == [x EXCEPT !.pc = p, !.audit = @ \o e]

\* Request x2 is x, answered with a or gone to p, with e in the log.
IsAnswered(x2, x, a, e) ==
    /\ x2 \in RequestRecords /\ x2.pc = "answered" /\ x2.answer = a
    /\ x2.audit = Logged(x, e) /\ Kept(x2, x)
IsGone(x2, x, p, e) ==
    /\ x2 \in RequestRecords /\ x2.pc = p /\ x2.answer = x.answer
    /\ x2.audit = Logged(x, e) /\ Kept(x2, x)

LEMMA Answered ==
    ASSUME NEW x \in RequestRecords,
           NEW a \in {"unauthorized", "limited", "refused", "unknown_host", "outcome", "error"},
           NEW e \in Seq(Entries)
    PROVE  IsAnswered(AnsweredWith(x, a, e), x, a, e)
<1>1. x.audit \in Seq(Entries)
    BY DEF RequestRecords, Entries
<1>2. x.audit \o e \in Seq(Entries)
    BY <1>1, ConcatProperties
<1>3. QED
    BY <1>2 DEF RequestRecords, Entries, Kept, AnsweredWith, Logged, IsAnswered

LEMMA Gone ==
    ASSUME NEW x \in RequestRecords,
           NEW p \in {"known", "valid", "running", "streaming", "gone"}, NEW e \in Seq(Entries)
    PROVE  IsGone(GoneTo(x, p, e), x, p, e)
<1>1. x.audit \in Seq(Entries)
    BY DEF RequestRecords, Entries
<1>2. x.audit \o e \in Seq(Entries)
    BY <1>1, ConcatProperties
<1>3. QED
    BY <1>2 DEF RequestRecords, Entries, Kept, GoneTo, Logged, IsGone

\* One request and its row change.
LEMMA OneRequest ==
    ASSUME RequestsOK, NEW r \in Requests, NEW x2, NEW y2, RequestOK(x2, y2),
           req' = [req EXCEPT ![r] = x2], row' = [row EXCEPT ![r] = y2]
    PROVE  RequestsOK'
<1>1. /\ req'[r] = x2 /\ row'[r] = y2
      /\ \A q \in Requests \ {r} : req'[q] = req[q] /\ row'[q] = row[q]
      /\ req' = [q \in Requests |-> req'[q]] /\ row' = [q \in Requests |-> row'[q]]
    BY DEF RequestsOK
<1>2. ASSUME NEW q \in Requests PROVE RequestOK(req'[q], row'[q])
    BY <1>1 DEF RequestsOK
<1>3. QED
    BY <1>1, <1>2 DEF RequestsOK

\* ThrottledForCause, in terms of Recent.
LEMMA Causes ==
    ThrottledForCause <=>
        \A r \in Requests : req[r].answer = "throttled" =>
            Recent(failed[req[r].ip], req[r].at) > AuthFailureBudget
BY DEF ThrottledForCause, Recent

LEMMA CausesLater ==
    ThrottledForCause' <=>
        \A r \in Requests : req'[r].answer = "throttled" =>
            Recent(failed'[req'[r].ip], req'[r].at) > AuthFailureBudget
BY DEF ThrottledForCause, Recent

\* A request is answered otherwise than by the throttle, or moves.
LEMMA CauseStays ==
    ASSUME ThrottledForCause, RequestsOK, NEW r \in Requests, NEW x2,
           req' = [req EXCEPT ![r] = x2], x2.answer # "throttled", UNCHANGED failed
    PROVE  ThrottledForCause'
<1>1. req'[r] = x2 /\ \A q \in Requests \ {r} : req'[q] = req[q]
    BY DEF RequestsOK
<1>2. QED
    BY <1>1, Causes, CausesLater
\* A request takes a step other than being turned away by the throttle.
Stepped(r) ==
    /\ RequestsOK'
    /\ \E x2 : req' = [req EXCEPT ![r] = x2] /\ x2.answer # "throttled"

LEMMA OneStep ==
    ASSUME RequestsOK, NEW r \in Requests, NEW x2, NEW y2, RequestOK(x2, y2),
           req' = [req EXCEPT ![r] = x2], row' = [row EXCEPT ![r] = y2],
           x2.answer # "throttled"
    PROVE  Stepped(r)
BY OneRequest DEF Stepped

\* Before the executor: answered without a row, with one of these in the log.
Refusals == {<<>>, <<"auth_failure">>, <<"rejected">>}

LEMMA TurnedAway ==
    ASSUME RequestsOK, NEW r \in Requests, req[r].pc \in {"checked", "known", "valid"},
           NEW a \in {"unauthorized", "limited", "refused", "unknown_host"},
           NEW e \in Refusals,
           Answers(r, a, e), UNCHANGED row
    PROVE  Stepped(r)
<1> DEFINE x2 == AnsweredWith(req[r], a, e)
<1>1. RequestOK(req[r], row[r]) /\ req[r] \in RequestRecords
    BY DEF RequestsOK, RequestOK
<1>2. e \in Seq(Entries)
    BY Logs DEF Entries, Refusals
<1>a. IsAnswered(x2, req[r], a, e)
    BY <1>1, <1>2, Answered
<1>4. req' = [req EXCEPT ![r] = x2] /\ row' = [row EXCEPT ![r] = row[r]]
    BY DEF Answers, AnsweredWith, RequestsOK
<1> HIDE DEF x2
<1>3. /\ x2 \in RequestRecords /\ x2.pc = "answered" /\ x2.answer = a
      /\ x2.audit = Logged(req[r], e) /\ Kept(x2, req[r])
    BY <1>a DEF IsAnswered
<1>5. /\ req[r].audit = <<>> /\ req[r].answer = "none" /\ row[r].state = "none"
      /\ req[r].ip # None
    BY <1>1 DEF RequestOK, StoryFits
<1>6. x2.audit = e
    BY <1>2, <1>3, <1>5, Logs DEF Logged
<1>7. StoryFits(x2, row[r].state)
    BY <1>3, <1>5, <1>6 DEF StoryFits, Refusals
<1>8. RequestOK(x2, row[r])
    BY <1>1, <1>3, <1>5, <1>7 DEF RequestOK, Kept
<1>9. x2.answer # "throttled"
    BY <1>3
<1>10. QED
    BY <1>4, <1>8, <1>9, OneStep

\* A request goes on to p, or its client goes away; e is logged.
Onward(x, p, e) ==
    \/ x.pc = "known" /\ p = "valid" /\ e = <<>>
    \/ x.pc = "valid" /\ p = "running" /\ e = <<"accepted">>
    \/ x.pc = "running" /\ p = "streaming" /\ e = <<>>
    \/ x.pc \in {"valid", "running", "streaming"} /\ p = "gone" /\ e = <<>>

LEMMA GoesOn ==
    ASSUME RequestsOK, NEW r \in Requests, UNCHANGED row, NEW p, NEW e,
           Onward(req[r], p, e), GoesTo(r, p, e)
    PROVE  Stepped(r)
<1>1. RequestOK(req[r], row[r]) /\ req[r] \in RequestRecords
    BY DEF RequestsOK, RequestOK
<1>2. /\ p \in {"known", "valid", "running", "streaming", "gone"} /\ e \in Seq(Entries)
      /\ req[r].pc \in {"known", "valid", "running", "streaming"}
    BY Logs DEF Onward, Entries
<1> DEFINE x2 == GoneTo(req[r], p, e)
<1>a. IsGone(x2, req[r], p, e)
    BY <1>1, <1>2, Gone
<1>4. req' = [req EXCEPT ![r] = x2] /\ row' = [row EXCEPT ![r] = row[r]]
    BY DEF GoesTo, GoneTo, RequestsOK
<1> HIDE DEF x2
<1>3. /\ x2 \in RequestRecords /\ x2.pc = p /\ x2.answer = req[r].answer
      /\ x2.audit = Logged(req[r], e) /\ Kept(x2, req[r])
    BY <1>a DEF IsGone
<1>5. /\ req[r].answer = "none" /\ row[r].state = "none" /\ req[r].ip # None
      /\ req[r].account # None
      /\ req[r].pc \in {"known", "valid"} => req[r].audit = <<>>
      /\ req[r].pc \in {"running", "streaming"} => req[r].audit = <<"accepted">>
    BY <1>1, <1>2 DEF RequestOK, StoryFits
<1>6. /\ req[r].audit = <<>> => x2.audit = e
      /\ e = <<>> => x2.audit = req[r].audit
    <2>1. req[r].audit \in Seq(Entries)
        BY <1>1 DEF RequestRecords, Entries
    <2>2. QED
        BY <1>2, <1>3, <2>1, Logs DEF Logged
<1>7. StoryFits(x2, row[r].state)
    BY <1>3, <1>5, <1>6 DEF StoryFits, Onward
<1>8. RequestOK(x2, row[r])
    BY <1>1, <1>3, <1>5, <1>7 DEF RequestOK, Kept
<1>9. x2.answer # "throttled"
    BY <1>3, <1>5
<1>10. QED
    BY <1>4, <1>8, <1>9, OneStep

\* The executor has answered: the outcome goes to the client, the log and the history.
Outcomes == {<<"completed">>, <<"failed">>}

LEMMA Settles ==
    ASSUME RequestsOK, NEW r \in Requests, req[r].pc \in {"running", "streaming"},
           record_history(r),
           NEW a \in {"outcome", "error"}, NEW e \in Outcomes, Answers(r, a, e)
    PROVE  Stepped(r)
<1>1. RequestOK(req[r], row[r]) /\ req[r] \in RequestRecords /\ row[r] \in RowRecords
    BY DEF RequestsOK, RequestOK
<1> DEFINE x2 == AnsweredWith(req[r], a, e)
           y2 == [row[r] EXCEPT !.state = "writing"]
<1>3. e \in Seq(Entries)
    BY Logs DEF Entries, Outcomes
<1>a. IsAnswered(x2, req[r], a, e)
    BY <1>1, <1>3, Answered
<1>5. y2 \in RowRecords /\ y2.state = "writing"
    BY <1>1 DEF RowRecords, RowStates
<1>6. req' = [req EXCEPT ![r] = x2] /\ row' = [row EXCEPT ![r] = y2]
    <2>1. req' = [req EXCEPT ![r] = x2]
        BY DEF Answers, AnsweredWith
    <2>2. row' = [row EXCEPT ![r] = y2]
        BY DEF record_history
    <2>3. QED
        BY <2>1, <2>2
<1> HIDE DEF x2, y2
<1>4. /\ x2 \in RequestRecords /\ x2.pc = "answered" /\ x2.answer = a
      /\ x2.audit = Logged(req[r], e) /\ Kept(x2, req[r])
    BY <1>a DEF IsAnswered
<1>7. req[r].audit = <<"accepted">> /\ req[r].ip # None
    BY <1>1 DEF RequestOK, StoryFits
<1>8. x2.audit \in {<<"accepted", "completed">>, <<"accepted", "failed">>}
    <2>1. PICK w \in {"completed", "failed"} : e = <<w>>
        BY DEF Outcomes
    <2>2. w \in Entries
        BY DEF Entries
    <2>3. x2.audit = <<"accepted", w>>
        BY <1>4, <1>7, <2>1, <2>2, Logs DEF Logged
    <2>4. QED
        BY <2>3
<1>9. StoryFits(x2, y2.state)
    BY <1>4, <1>5, <1>8 DEF StoryFits
<1>10. RequestOK(x2, y2)
    BY <1>4, <1>5, <1>7, <1>9 DEF RequestOK, Kept
<1>11. x2.answer # "throttled"
    BY <1>4
<1>12. QED
    BY <1>6, <1>10, <1>11, OneStep

LEMMA AccountFound ==
    ASSUME RequestsOK, NEW r \in Requests, NEW a \in Accounts, authenticate(r, a)
    PROVE  Stepped(r)
<1> DEFINE x2 == [req[r] EXCEPT !.pc = "known", !.account = a]
<1>1. RequestOK(req[r], row[r]) /\ req[r] \in RequestRecords /\ req[r].pc = "checked"
    BY DEF RequestsOK, RequestOK, authenticate
<1>2. /\ x2 \in RequestRecords /\ x2.pc = "known" /\ x2.account = a /\ x2.account # None
      /\ x2.ip = req[r].ip /\ x2.answer = req[r].answer /\ x2.audit = req[r].audit
    BY <1>1, ConstantsAssumption DEF RequestRecords
<1>3. req' = [req EXCEPT ![r] = x2] /\ row' = [row EXCEPT ![r] = row[r]]
    BY DEF authenticate, RequestsOK
<1> HIDE DEF x2
<1>4. RequestOK(x2, row[r]) /\ x2.answer # "throttled"
    BY <1>1, <1>2 DEF RequestOK, StoryFits
<1>5. QED
    BY <1>3, <1>4, OneStep

-----------------------------------------------------------------------------
(* Steps that leave the limiter alone.                                     *)

Quiet == UNCHANGED <<now, auth_failures, exec_counts, failed, admitted>>

LEMMA LimiterStays ==
    ASSUME LimiterOK, Quiet
    PROVE  LimiterOK'
BY DEF LimiterOK, Quiet

LEMMA StepKeeps ==
    ASSUME IInv, NEW r \in Requests, Stepped(r), Quiet
    PROVE  IInv'
<1>1. LimiterOK'
    BY LimiterStays DEF IInv
<1>2. UNCHANGED failed
    BY DEF Quiet
<1>3. ThrottledForCause'
    BY <1>2, CauseStays DEF IInv, Stepped
<1>4. QED
    BY <1>1, <1>3 DEF IInv, Stepped

\* The row of a request that has one is written or deleted.
LEMMA RowKeeps ==
    ASSUME IInv, Quiet, UNCHANGED req, NEW r \in Requests, NEW y2 \in RowRecords,
           row' = [row EXCEPT ![r] = y2], row[r].state # "none", y2.state # "none"
    PROVE  IInv'
<1>1. LimiterOK'
    BY LimiterStays DEF IInv
<1>2. RequestOK(req[r], row[r])
    BY DEF IInv, RequestsOK
<1>3. RequestOK(req[r], y2)
    BY <1>2 DEF RequestOK, StoryFits
<1>4. req' = [req EXCEPT ![r] = req[r]]
    BY DEF IInv, RequestsOK
<1>5. RequestsOK'
    BY <1>3, <1>4, OneRequest DEF IInv
<1>6. ThrottledForCause'
    BY Causes, CausesLater DEF IInv, Quiet
<1>7. QED
    BY <1>1, <1>5, <1>6 DEF IInv

LEMMA TickKeeps ==
    ASSUME IInv, Tick
    PROVE  IInv'
<1>1. /\ now' = now + 1 /\ now' \in Times /\ now \in Nat
      /\ UNCHANGED <<auth_failures, exec_counts, failed, admitted, req, row>>
    BY ConstantsAssumption DEF IInv, LimiterOK, Tick, limiter, ghosts, Times
<1>2. ASSUME NEW a \in Accounts
      PROVE  AccountFits(exec_counts'[a], admitted'[a], now')
    <2> DEFINE c == exec_counts[a]
               ts == admitted[a]
    <2>1. c \in Counters /\ ts \in Seq(Times) /\ AccountFits(c, ts, now)
        BY DEF IInv, LimiterOK
    <2> HIDE DEF c, ts
    <2>2. c.start # None => c.start \in Nat
        BY <2>1 DEF Counters, Times
    <2>3. \A k \in DOMAIN ts : ts[k] \in Nat
        BY <2>1, Numbers DEF Times
    <2>4. AccountFits(c, ts, now + 1)
        BY <1>1, <2>1, <2>2, <2>3 DEF AccountFits
    <2>5. QED
        BY <1>1, <2>4 DEF c, ts
<1>3. ASSUME NEW i \in Ips
      PROVE  AddressFits(auth_failures'[i], failed'[i], now')
    <2> DEFINE c == auth_failures[i]
               ts == failed[i]
    <2>1. c \in Counters /\ ts \in Seq(Times) /\ AddressFits(c, ts, now)
        BY DEF IInv, LimiterOK
    <2> HIDE DEF c, ts
    <2>2. c.start # None => c.start \in Nat
        BY <2>1 DEF Counters, Times
    <2>3. \A k \in DOMAIN ts : ts[k] \in Nat
        BY <2>1, Numbers DEF Times
    <2>4. AddressFits(c, ts, now + 1)
        BY <1>1, <2>1, <2>2, <2>3 DEF AddressFits
    <2>5. QED
        BY <1>1, <2>4 DEF c, ts
<1>4. LimiterOK'
    BY <1>1, <1>2, <1>3 DEF IInv, LimiterOK
<1>5. RequestsOK'
    BY <1>1 DEF IInv, RequestsOK
<1>6. ThrottledForCause'
    BY <1>1, Causes, CausesLater DEF IInv
<1>7. QED
    BY <1>4, <1>5, <1>6 DEF IInv

-----------------------------------------------------------------------------
(* Steps that use the limiter.                                             *)

LEMMA ArrivesKeeps ==
    ASSUME IInv, NEW r \in Requests, NEW i \in Ips, NEW s \in BOOLEAN, Arrives(r, i, s)
    PROVE  IInv'
<1>1. /\ LimiterOK /\ RequestsOK /\ ThrottledForCause /\ Quiet
      /\ row' = [row EXCEPT ![r] = row[r]] /\ failed' = failed
    BY DEF IInv, RequestsOK, Arrives, Quiet, limiter, ghosts
<1>2. RequestOK(req[r], row[r]) /\ req[r] \in RequestRecords /\ req[r].pc = "new"
    BY <1>1 DEF RequestsOK, RequestOK, Arrives
<1>3. LimiterOK' /\ now \in Times /\ i # None
    BY <1>1, LimiterStays, ConstantsAssumption DEF LimiterOK
<1>4. row[r].state = "none" /\ req[r].audit = <<>> /\ req[r].answer = "none"
    BY <1>2 DEF RequestOK, StoryFits
<1>5. CASE is_auth_throttled(i)
    <2> DEFINE x2 == [req[r] EXCEPT !.ip = i, !.stream = s, !.pc = "answered",
                                    !.answer = "throttled", !.at = now,
                                    !.audit = <<"auth_failure">>]
    <2>0. <<"auth_failure">> \in Seq(Entries)
        BY Logs DEF Entries
    <2>1. /\ x2 \in RequestRecords /\ x2.pc = "answered" /\ x2.answer = "throttled"
          /\ x2.audit = <<"auth_failure">> /\ x2.at = now /\ x2.ip = i
        BY <1>2, <1>3, <2>0 DEF RequestRecords, Times, Entries
    <2>2. req' = [req EXCEPT ![r] = x2]
        BY <1>5 DEF Arrives
    <2> HIDE DEF x2
    <2>3. now # None
        BY <1>3, ConstantsAssumption DEF Times
    <2>4. StoryFits(x2, row[r].state)
        BY <1>4, <2>1, <2>3 DEF StoryFits
    <2>5. RequestOK(x2, row[r])
        BY <1>2, <1>3, <2>1, <2>4 DEF RequestOK
    <2>6. RequestsOK'
        BY <1>1, <2>2, <2>5, OneRequest
    <2>7. Recent(failed[i], now) > AuthFailureBudget
        <3>1. /\ auth_failures[i] \in Counters /\ failed[i] \in Seq(Times)
              /\ AddressFits(auth_failures[i], failed[i], now)
            BY <1>1 DEF LimiterOK
        <3>2. /\ auth_failures[i].start # None /\ now - auth_failures[i].start < Window
              /\ auth_failures[i].count > AuthFailureBudget
            BY <1>5 DEF is_auth_throttled, InWindow
        <3>3. QED
            BY <1>3, <3>1, <3>2, ThrottleHasCause
    <2>8. req'[r] = x2 /\ \A q \in Requests \ {r} : req'[q] = req[q]
        BY <1>1, <2>2 DEF RequestsOK
    <2>9. ThrottledForCause'
        BY <1>1, <2>1, <2>7, <2>8, Causes, CausesLater
    <2>10. QED
        BY <1>3, <2>6, <2>9 DEF IInv
<1>6. CASE ~is_auth_throttled(i)
    <2> DEFINE x2 == [req[r] EXCEPT !.ip = i, !.stream = s, !.pc = "checked"]
    <2>1. /\ x2 \in RequestRecords /\ x2.pc = "checked" /\ x2.answer = "none"
          /\ x2.audit = <<>> /\ x2.ip = i
        BY <1>2, <1>4 DEF RequestRecords
    <2>2. req' = [req EXCEPT ![r] = x2]
        BY <1>6 DEF Arrives
    <2> HIDE DEF x2
    <2>3. StoryFits(x2, row[r].state)
        BY <1>4, <2>1 DEF StoryFits
    <2>4. RequestOK(x2, row[r])
        BY <1>2, <1>3, <2>1, <2>3 DEF RequestOK
    <2>5. Stepped(r)
        BY <1>1, <2>1, <2>2, <2>4, OneStep
    <2>6. QED
        BY <1>1, <2>5, StepKeeps
<1>7. QED
    BY <1>5, <1>6

LEMMA BadCredentialsKeeps ==
    ASSUME IInv, NEW r \in Requests, BadCredentials(r)
    PROVE  IInv'
<1> DEFINE i == req[r].ip
           c == auth_failures[i]
           ts == failed[i]
<1>1. /\ LimiterOK /\ RequestsOK /\ ThrottledForCause /\ req[r].pc = "checked"
      /\ UNCHANGED <<now, exec_counts, row, admitted>>
      /\ Answers(r, "unauthorized", <<"auth_failure">>)
    BY DEF IInv, BadCredentials
<1>2. RequestOK(req[r], row[r])
    BY <1>1 DEF RequestsOK
<1>3. i \in Ips
    BY <1>1, <1>2 DEF RequestOK, RequestRecords
<1>4. Stepped(r)
    <2>1. <<"auth_failure">> \in Refusals
        BY DEF Refusals
    <2>2. QED
        BY <1>1, <2>1, TurnedAway
<1>5. /\ auth_failures' = [auth_failures EXCEPT ![i] = Recorded(c, now)]
      /\ failed' = [failed EXCEPT ![i] = Append(ts, now)]
    BY DEF BadCredentials, record, InWindow, Recorded
<1>6. /\ auth_failures \in [Ips -> Counters] /\ failed \in [Ips -> Seq(Times)]
      /\ now \in Times
    BY <1>1 DEF LimiterOK
<1>7. c \in Counters /\ ts \in Seq(Times) /\ AddressFits(c, ts, now)
    BY <1>1, <1>3 DEF LimiterOK
<1> HIDE DEF c, ts, i
<1>8. /\ Recorded(c, now) \in [start : Times, count : Nat] /\ Append(ts, now) \in Seq(Times)
      /\ AddressFits(Recorded(c, now), Append(ts, now), now)
    BY <1>6, <1>7, FailureFits
<1>9. Recorded(c, now) \in Counters
    BY <1>8 DEF Counters, Times
<1>10. /\ auth_failures'[i] = Recorded(c, now) /\ failed'[i] = Append(ts, now)
       /\ \A j \in Ips \ {i} : auth_failures'[j] = auth_failures[j] /\ failed'[j] = failed[j]
       /\ auth_failures' \in [Ips -> Counters] /\ failed' \in [Ips -> Seq(Times)]
    BY <1>3, <1>5, <1>6, <1>8, <1>9
<1>11. ASSUME NEW j \in Ips PROVE AddressFits(auth_failures'[j], failed'[j], now')
    <2>1. CASE j = i
        BY <1>1, <1>8, <1>10, <2>1
    <2>2. CASE j # i
        BY <1>1, <1>10, <2>2 DEF LimiterOK
    <2>3. QED
        BY <2>1, <2>2
<1>12. LimiterOK'
    BY <1>1, <1>10, <1>11 DEF LimiterOK
\* Nobody who was turned away loses the cause of it.
<1>13. ThrottledForCause'
    <2>1. PICK x2 : req' = [req EXCEPT ![r] = x2] /\ x2.answer # "throttled"
        BY <1>4 DEF Stepped
    <2>2. req'[r] = x2 /\ \A q \in Requests \ {r} : req'[q] = req[q]
        BY <1>1, <2>1 DEF RequestsOK
    <2>3. ASSUME NEW q \in Requests, req'[q].answer = "throttled"
          PROVE  Recent(failed'[req'[q].ip], req'[q].at) > AuthFailureBudget
        <3>1. q # r /\ req'[q] = req[q] /\ req[q].answer = "throttled"
            BY <2>1, <2>2, <2>3
        <3>2. Recent(failed[req[q].ip], req[q].at) > AuthFailureBudget
            BY <1>1, <3>1, Causes
        <3>3. req[q].ip \in Ips
            <4>1. RequestOK(req[q], row[q])
                BY <1>1 DEF RequestsOK
            <4>2. req[q].pc # "new"
                BY <3>1, <4>1 DEF RequestOK, StoryFits
            <4>3. QED
                BY <4>1, <4>2 DEF RequestOK, RequestRecords
        <3>4. CASE req[q].ip = i
            <4>1. /\ Recent(ts, req[q].at) \in Nat
                  /\ Recent(Append(ts, now), req[q].at) \in Nat
                  /\ Recent(ts, req[q].at) <= Recent(Append(ts, now), req[q].at)
                BY <1>6, <1>7, RecentLater
            <4>2. failed[req[q].ip] = ts
                BY <3>4 DEF ts
            <4>3. AuthFailureBudget \in Nat
                BY ConstantsAssumption
            <4>4. Recent(Append(ts, now), req[q].at) > AuthFailureBudget
                BY <3>2, <4>1, <4>2, <4>3
            <4>5. QED
                BY <1>10, <3>1, <3>4, <4>4
        <3>5. CASE req[q].ip # i
            BY <1>10, <3>1, <3>2, <3>3, <3>5
        <3>6. QED
            BY <3>4, <3>5
    <2>4. QED
        BY <2>3, CausesLater
<1>14. QED
    BY <1>4, <1>12, <1>13 DEF IInv, Stepped

LEMMA AllowExecKeeps ==
    ASSUME IInv, NEW r \in Requests, allow_exec(r)
    PROVE  IInv'
<1> DEFINE a == req[r].account
           c == exec_counts[a]
           ts == admitted[a]
           ts2 == IF Recorded(c, now).count <= PerAccountRateLimit THEN Append(ts, now) ELSE ts
<1>1. /\ LimiterOK /\ RequestsOK /\ ThrottledForCause /\ req[r].pc = "known"
      /\ UNCHANGED <<now, auth_failures, row, failed>>
    BY DEF IInv, allow_exec
<1>2. RequestOK(req[r], row[r])
    BY <1>1 DEF RequestsOK
<1>3. a \in Accounts
    BY <1>1, <1>2 DEF RequestOK, RequestRecords
<1>4. exec_counts \in [Accounts -> Counters] /\ admitted \in [Accounts -> Seq(Times)]
    BY <1>1 DEF LimiterOK
<1>5. /\ exec_counts' = [exec_counts EXCEPT ![a] = Recorded(c, now)]
      /\ admitted' = [admitted EXCEPT ![a] = ts2]
    BY <1>4 DEF allow_exec, record, InWindow, Recorded
<1>6. Stepped(r)
    <2>1. CASE Recorded(c, now).count <= PerAccountRateLimit
        <3>1. GoesTo(r, "valid", <<>>)
            BY <2>1 DEF allow_exec, record, InWindow, Recorded
        <3>2. Onward(req[r], "valid", <<>>)
            BY <1>1 DEF Onward
        <3>3. QED
            BY <1>1, <3>1, <3>2, GoesOn
    <2>2. CASE ~(Recorded(c, now).count <= PerAccountRateLimit)
        <3>1. Answers(r, "limited", <<"rejected">>)
            BY <2>2 DEF allow_exec, record, InWindow, Recorded
        <3>2. <<"rejected">> \in Refusals
            BY DEF Refusals
        <3>3. QED
            BY <1>1, <3>1, <3>2, TurnedAway
    <2>3. QED
        BY <2>1, <2>2
<1>7. c \in Counters /\ ts \in Seq(Times) /\ now \in Times /\ AccountFits(c, ts, now)
    BY <1>1, <1>3 DEF LimiterOK
<1> HIDE DEF a, c, ts
<1>8. /\ Recorded(c, now) \in [start : Times, count : Nat] /\ ts2 \in Seq(Times)
      /\ AccountFits(Recorded(c, now), ts2, now)
    BY <1>7, AdmissionFits
<1> HIDE DEF ts2
<1>9. Recorded(c, now) \in Counters
    BY <1>8 DEF Counters, Times
<1>10. /\ exec_counts'[a] = Recorded(c, now) /\ admitted'[a] = ts2
       /\ \A b \in Accounts \ {a} :
             exec_counts'[b] = exec_counts[b] /\ admitted'[b] = admitted[b]
       /\ exec_counts' \in [Accounts -> Counters] /\ admitted' \in [Accounts -> Seq(Times)]
    BY <1>3, <1>4, <1>5, <1>8, <1>9
<1>11. ASSUME NEW b \in Accounts PROVE AccountFits(exec_counts'[b], admitted'[b], now')
    <2>1. CASE b = a
        BY <1>1, <1>8, <1>10, <2>1
    <2>2. CASE b # a
        BY <1>1, <1>10, <2>2 DEF LimiterOK
    <2>3. QED
        BY <2>1, <2>2
<1>12. LimiterOK'
    BY <1>1, <1>10, <1>11 DEF LimiterOK
<1>13. ThrottledForCause'
    BY <1>1, <1>6, CauseStays DEF Stepped
<1>14. QED
    BY <1>6, <1>12, <1>13 DEF IInv, Stepped

-----------------------------------------------------------------------------
(* Every step.                                                             *)

LEMMA HandlerKeeps ==
    ASSUME IInv, NEW r \in Requests, Handler(r) \/ HangUp(r)
    PROVE  IInv'
<1>0. RequestsOK
    BY DEF IInv
<1>r. <<>> \in Refusals /\ <<"rejected">> \in Refusals
    BY DEF Refusals
<1>o. <<"completed">> \in Outcomes /\ <<"failed">> \in Outcomes
    BY DEF Outcomes
<1>1. CASE NoCredentials(r)
    <2>1. Stepped(r) /\ Quiet
        BY <1>0, <1>1, <1>r, TurnedAway DEF NoCredentials, Quiet, limiter, ghosts
    <2>2. QED
        BY <2>1, StepKeeps
<1>2. CASE BadCredentials(r)
    BY <1>2, BadCredentialsKeeps
<1>3. CASE \E a \in Accounts : authenticate(r, a)
    <2>1. Stepped(r) /\ Quiet
        BY <1>0, <1>3, AccountFound DEF authenticate, Quiet, limiter, ghosts
    <2>2. QED
        BY <2>1, StepKeeps
<1>4. CASE Malformed(r)
    <2>1. Stepped(r) /\ Quiet
        BY <1>0, <1>4, <1>r, TurnedAway DEF Malformed, Quiet, limiter, ghosts
    <2>2. QED
        BY <2>1, StepKeeps
<1>5. CASE allow_exec(r)
    BY <1>5, AllowExecKeeps
<1>6. CASE Validation(r)
    <2>1. PICK e \in Refusals : Answers(r, "refused", e)
        BY <1>6, <1>r DEF Validation
    <2>2. req[r].pc = "valid" /\ Quiet /\ UNCHANGED row
        BY <1>6 DEF Validation, Quiet, limiter, ghosts
    <2>3. Stepped(r)
        BY <1>0, <2>1, <2>2, TurnedAway
    <2>4. QED
        BY <2>2, <2>3, StepKeeps
<1>7. CASE UnknownHost(r)
    <2>1. Stepped(r) /\ Quiet
        BY <1>0, <1>7, <1>r, TurnedAway DEF UnknownHost, Quiet, limiter, ghosts
    <2>2. QED
        BY <2>1, StepKeeps
<1>8. CASE HostNotAllowed(r)
    <2>1. Stepped(r) /\ Quiet
        BY <1>0, <1>8, <1>r, TurnedAway DEF HostNotAllowed, Quiet, limiter, ghosts
    <2>2. QED
        BY <2>1, StepKeeps
<1>9. CASE Accepted(r)
    <2>1. Onward(req[r], "running", <<"accepted">>)
        BY <1>9 DEF Accepted, Onward
    <2>2. Stepped(r) /\ Quiet
        BY <1>0, <1>9, <2>1, GoesOn DEF Accepted, Quiet, limiter, ghosts
    <2>3. QED
        BY <2>2, StepKeeps
<1>10. CASE ExecFails(r)
    <2>1. Stepped(r) /\ Quiet
        BY <1>0, <1>10, <1>o, Settles DEF ExecFails, Quiet, limiter, ghosts
    <2>2. QED
        BY <2>1, StepKeeps
<1>11. CASE ExecReturns(r)
    <2>1. Stepped(r) /\ Quiet
        BY <1>0, <1>11, <1>o, Settles DEF ExecReturns, Quiet, limiter, ghosts
    <2>2. QED
        BY <2>1, StepKeeps
<1>12. CASE StreamStarts(r)
    <2>1. Onward(req[r], "streaming", <<>>)
        BY <1>12 DEF StreamStarts, Onward
    <2>2. Stepped(r) /\ Quiet
        BY <1>0, <1>12, <2>1, GoesOn DEF StreamStarts, Quiet, limiter, ghosts
    <2>3. QED
        BY <2>2, StepKeeps
<1>13. CASE StreamEnds(r)
    <2>1. /\ req[r].pc = "streaming" /\ record_history(r) /\ Quiet
          /\ Answers(r, "outcome", <<"completed">>) \/ Answers(r, "error", <<"failed">>)
        BY <1>13 DEF StreamEnds, Quiet, limiter, ghosts
    <2>2. Stepped(r)
        BY <1>0, <1>o, <2>1, Settles
    <2>3. QED
        BY <2>1, <2>2, StepKeeps
<1>14. CASE HangUp(r)
    <2>1. Onward(req[r], "gone", <<>>)
        BY <1>14 DEF HangUp, Onward
    <2>2. Stepped(r) /\ Quiet
        BY <1>0, <1>14, <2>1, GoesOn DEF HangUp, Quiet, limiter, ghosts
    <2>3. QED
        BY <2>2, StepKeeps
<1>15. QED
    BY <1>1, <1>2, <1>3, <1>4, <1>5, <1>6, <1>7, <1>8, <1>9, <1>10, <1>11, <1>12, <1>13, <1>14
    DEF Handler

LEMMA HistoryKeeps ==
    ASSUME IInv, NEW r \in Requests,
           RowWritten(r) \/ \E a \in Accounts : delete_history(a, r)
    PROVE  IInv'
<1>1. row[r] \in RowRecords
    BY DEF IInv, RequestsOK, RequestOK
<1>2. CASE RowWritten(r)
    <2>1. PICK s \in {"stored", "lost"} : row' = [row EXCEPT ![r].state = s]
        BY <1>2 DEF RowWritten
    <2> DEFINE y2 == [row[r] EXCEPT !.state = s]
    <2>2. y2 \in RowRecords /\ y2.state # "none"
        BY <1>1, <2>1 DEF RowRecords, RowStates
    <2>3. row' = [row EXCEPT ![r] = y2]
        BY <2>1
    <2>4. row[r].state # "none" /\ Quiet /\ UNCHANGED req
        BY <1>2 DEF RowWritten, Quiet, limiter, ghosts
    <2> HIDE DEF y2
    <2>5. QED
        BY <2>2, <2>3, <2>4, RowKeeps
<1>3. CASE \E a \in Accounts : delete_history(a, r)
    <2>1. PICK a \in Accounts : delete_history(a, r)
        BY <1>3
    <2>2. row[r].state = "stored" /\ Quiet /\ UNCHANGED req
        BY <2>1 DEF delete_history, Quiet, limiter, ghosts
    <2>3. CASE Removes(a, r)
        <3> DEFINE y2 == [state |-> "deleted", by |-> a, told |-> row[r].told]
        <3>1. y2 \in RowRecords /\ y2.state # "none"
            BY <1>1 DEF RowRecords, RowStates
        <3>2. row' = [row EXCEPT ![r] = y2]
            BY <2>3 DEF Removes
        <3> HIDE DEF y2
        <3>3. QED
            BY <2>2, <3>1, <3>2, RowKeeps
    <2>4. CASE row' = [row EXCEPT ![r].told = IF req[r].account = a THEN "not_found" ELSE @]
        <3> DEFINE y2 == [row[r] EXCEPT !.told = IF req[r].account = a THEN "not_found" ELSE @]
        <3>1. y2 \in RowRecords /\ y2.state # "none"
            BY <1>1, <2>2 DEF RowRecords, RowStates
        <3>2. row' = [row EXCEPT ![r] = y2]
            BY <2>4
        <3> HIDE DEF y2
        <3>3. QED
            BY <2>2, <3>1, <3>2, RowKeeps
    <2>5. QED
        BY <2>1, <2>3, <2>4 DEF delete_history
<1>4. QED
    BY <1>2, <1>3

LEMMA InitIInv ==
    ASSUME Init
    PROVE  IInv
<1>1. now = 0 /\ 0 \in Times /\ None \notin Times
    BY ConstantsAssumption DEF Init, Times
<1>2. <<>> \in Seq(Times) /\ DOMAIN <<>> = {} /\ [start |-> None, count |-> 0] \in Counters
    BY EmptySeq DEF Counters
<1>3. \A t \in Times : Within(<<>>, t) = 0
    <2>1. ASSUME NEW t \in Times PROVE Within(<<>>, t) = 0
        <3>1. {k \in DOMAIN <<>> : t <= <<>>[k] /\ <<>>[k] < t + Window} = {}
            BY <1>2
        <3>2. QED
            BY <3>1, FS_EmptySet DEF Within
    <2>2. QED
        BY <2>1
<1>4. \A a \in Accounts : AccountFits(exec_counts[a], admitted[a], now)
    <2>1. ASSUME NEW a \in Accounts PROVE AccountFits(exec_counts[a], admitted[a], now)
        <3>1. exec_counts[a].start = None /\ admitted[a] = <<>>
            BY DEF Init
        <3>2. 0 <= 2 * PerAccountRateLimit
            BY ConstantsAssumption
        <3>3. QED
            BY <1>2, <1>3, <3>1, <3>2 DEF AccountFits
    <2>2. QED
        BY <2>1
<1>5. \A i \in Ips : AddressFits(auth_failures[i], failed[i], now)
    BY <1>2 DEF Init, AddressFits
<1>6. LimiterOK
    BY <1>1, <1>2, <1>4, <1>5 DEF Init, LimiterOK
<1>7. RequestsOK
    <2>1. ASSUME NEW r \in Requests PROVE RequestOK(req[r], row[r])
        <3>1. /\ req[r] = [pc |-> "new", stream |-> FALSE, ip |-> None, account |-> None,
                           audit |-> <<>>, answer |-> "none", at |-> None]
              /\ row[r] = [state |-> "none", by |-> None, told |-> "nothing"]
            BY DEF Init
        <3>2. <<>> \in Seq(Entries)
            BY Logs
        <3>3. req[r] \in RequestRecords /\ row[r] \in RowRecords
            BY <3>1, <3>2 DEF RequestRecords, RowRecords, RowStates, Entries
        <3>4. StoryFits(req[r], row[r].state)
            BY <3>1 DEF StoryFits
        <3>5. QED
            BY <3>1, <3>3, <3>4 DEF RequestOK
    <2>2. QED
        BY <2>1 DEF Init, RequestsOK
<1>8. ThrottledForCause
    BY DEF Init, ThrottledForCause
<1>9. QED
    BY <1>6, <1>7, <1>8 DEF IInv

LEMMA NextKeepsIInv ==
    ASSUME IInv, [Next]_vars
    PROVE  IInv'
<1>1. CASE Tick
    BY <1>1, TickKeeps
<1>2. CASE \E r \in Requests :
             \/ \E i \in Ips, s \in BOOLEAN : Arrives(r, i, s)
             \/ Handler(r) \/ HangUp(r) \/ RowWritten(r)
             \/ \E a \in Accounts : delete_history(a, r)
    BY <1>2, ArrivesKeeps, HandlerKeeps, HistoryKeeps
<1>3. CASE UNCHANGED vars
    <2>1. Quiet /\ UNCHANGED <<req, row>>
        BY <1>3 DEF vars, Quiet, limiter, ghosts
    <2>2. LimiterOK' /\ RequestsOK'
        BY <2>1, LimiterStays DEF IInv, RequestsOK
    <2>3. ThrottledForCause'
        BY <2>1, Causes, CausesLater DEF IInv, Quiet
    <2>4. QED
        BY <2>2, <2>3 DEF IInv
<1>4. QED
    BY <1>1, <1>2, <1>3 DEF Next

LEMMA AlwaysIInv == Spec => []IInv
<1>1. Init => IInv
    BY InitIInv
<1>2. IInv /\ [Next]_vars => IInv'
    BY NextKeepsIInv
<1>3. QED
    BY <1>1, <1>2, PTL DEF Spec

-----------------------------------------------------------------------------
(* What follows from it.                                                   *)

LEMMA TypesFollow == IInv => TypeOK
<1> SUFFICES ASSUME IInv PROVE TypeOK
    OBVIOUS
<1>1. /\ now \in 0 .. MaxNow
      /\ auth_failures \in [Ips -> Counters] /\ exec_counts \in [Accounts -> Counters]
      /\ failed \in [Ips -> Seq(0 .. MaxNow)] /\ admitted \in [Accounts -> Seq(0 .. MaxNow)]
    BY DEF IInv, LimiterOK, Times
<1>2. /\ req \in [Requests -> RequestRecords] /\ row \in [Requests -> RowRecords]
      /\ \A r \in Requests : RequestOK(req[r], row[r])
    <2>1. \A r \in Requests : req[r] \in RequestRecords /\ row[r] \in RowRecords
        BY DEF IInv, RequestsOK, RequestOK
    <2>2. req = [r \in Requests |-> req[r]] /\ row = [r \in Requests |-> row[r]]
        BY DEF IInv, RequestsOK
    <2>3. QED
        BY <2>1, <2>2 DEF IInv, RequestsOK
<1>3. \A r \in Requests :
         /\ req[r].pc # "new" => req[r].ip # None
         /\ req[r].pc \in {"known", "valid", "running", "streaming"} => req[r].account # None
    BY <1>2 DEF RequestOK
<1>4. QED
    BY <1>1, <1>2, <1>3 DEF TypeOK, RowRecords

LEMMA LimitsFollow == IInv => LimitsHold
<1> SUFFICES ASSUME IInv PROVE LimitsHold
    OBVIOUS
<1>1. TwiceTheLimit
    BY DEF IInv, LimiterOK, AccountFits, TwiceTheLimit, Times
<1>2. QED
    BY <1>1 DEF IInv, LimitsHold

\* A log of at most one entry after "accepted" has at most one outcome.
LEMMA OneOutcomeOf ==
    ASSUME NEW w \in {<<>>, <<"auth_failure">>, <<"rejected">>, <<"accepted">>,
                      <<"accepted", "completed">>, <<"accepted", "failed">>}
    PROVE  Cardinality({k \in DOMAIN w : w[k] \in {"completed", "failed"}}) <= 1
<1> DEFINE S == {k \in DOMAIN w : w[k] \in {"completed", "failed"}}
<1>1. S = {} \/ S = {2}
    <2>1. CASE w = <<>>
        BY <2>1
    <2>2. CASE w \in {<<"auth_failure">>, <<"rejected">>, <<"accepted">>}
        <3>1. DOMAIN w = {1} /\ w[1] \in {"auth_failure", "rejected", "accepted"}
            BY <2>2
        <3>2. QED
            BY <3>1
    <2>3. CASE w \in {<<"accepted", "completed">>, <<"accepted", "failed">>}
        <3>1. DOMAIN w = {1, 2} /\ w[1] = "accepted" /\ w[2] \in {"completed", "failed"}
            BY <2>3
        <3>2. QED
            BY <3>1
    <2>4. QED
        BY <2>1, <2>2, <2>3
<1> HIDE DEF S
<1>2. CASE S = {}
    <2>1. Cardinality(S) = 0
        BY <1>2, FS_EmptySet
    <2>2. QED
        BY <2>1 DEF S
<1>3. CASE S = {2}
    <2>1. Cardinality(S) = 1
        BY <1>3, FS_Singleton
    <2>2. QED
        BY <2>1 DEF S
<1>4. QED
    BY <1>1, <1>2, <1>3

LEMMA StoryFollows == IInv => RecordsAgree
<1> SUFFICES ASSUME IInv PROVE RecordsAgree
    OBVIOUS
<1>1. \A r \in Requests : StoryFits(req[r], row[r].state)
    BY DEF IInv, RequestsOK, RequestOK
<1>2. AnsweredIsRecorded
    BY <1>1 DEF StoryFits, AnsweredIsRecorded
<1>3. RowsHaveOutcome
    BY <1>1 DEF StoryFits, RowsHaveOutcome
<1>4. OneOutcome
    <2>1. ASSUME NEW r \in Requests
          PROVE  req[r].audit \in {<<>>, <<"auth_failure">>, <<"rejected">>, <<"accepted">>,
                                   <<"accepted", "completed">>, <<"accepted", "failed">>}
        BY <1>1 DEF StoryFits
    <2>2. QED
        BY <2>1, OneOutcomeOf DEF OneOutcome
<1>5. QED
    BY <1>2, <1>3, <1>4 DEF RecordsAgree

\* Every request, row, counter and recorded time keeps its shape, a request that
\* arrived has an address and one past authentication an account, whatever the
\* number of handlers (the state of crates/rusterm-relay's server).
THEOREM TypeCorrect == Spec => []TypeOK
BY AlwaysIInv, TypesFollow, PTL

\* The fixed windows of WindowCounter::record let an account run at most twice
\* its limit in any stretch of a window's length, and an address is turned away
\* only for more failed logins than its budget within the last window: for every
\* limit, budget, window and interleaving.
THEOREM LimitsAreKept == Spec => []LimitsHold
BY AlwaysIInv, LimitsFollow, PTL

\* Whoever the executor answered has a row in the history and its acceptance and
\* one outcome in the audit log; a request refused before, and one whose client
\* hung up, has no row (prepare_exec, log_exec_completion, record_history).
THEOREM RecordsTellOneStory == Spec => []RecordsAgree
BY AlwaysIInv, StoryFollows, PTL
=============================================================================
