--------------------------- MODULE TypedLinesProofs ---------------------------
(***************************************************************************)
(* Proofs about the two components that follow what is typed into a        *)
(* terminal: what becomes of the commands (CommandStatus), its types, the  *)
(* agreement of the commands that wait with the markers to come, and the   *)
(* truth of what is recorded; and the way back to a host (SessionReplay),  *)
(* its types, the recorder that leads where the remote is, and the restore *)
(* that finds what was recorded.  The two share no state; what is proved   *)
(* of one assumes nothing of the other.                                    *)
(*                                                                         *)
(* The induction that they need is over the length of a sequence.  Its     *)
(* principle is derived for sets of numbers from the well-foundedness of   *)
(* the natural numbers, and with it what the recursive functions compute   *)
(* that Only and the fold of a stream are.                                 *)
(***************************************************************************)
EXTENDS CommandStatus, SessionReplay, FiniteSetTheorems, WellFoundedInduction, TLAPS

-----------------------------------------------------------------------------
(* Induction, and functions defined by recursion on 0..m.                  *)

LEMMA LeastElement ==
    ASSUME NEW T, T \subseteq Nat, T # {}
    PROVE  \E m \in T : \A k \in T : m <= k
<1>1. IsWellFoundedOn(OpToRel(<, Nat), Nat)
  BY NatLessThanWellFounded
<1>2. PICK m \in T : \A y \in T : ~(<<y, m>> \in OpToRel(<, Nat))
  BY <1>1, WFMin
<1>3. ASSUME NEW k \in T
      PROVE  m <= k
  <2>1. k \in Nat /\ m \in Nat
    OBVIOUS
  <2>2. ~(k < m)
    BY <1>2, <2>1 DEF OpToRel
  <2> QED
    BY <2>1, <2>2
<1> QED
  BY <1>3

\* The principle of induction, for a set instead of a predicate.
LEMMA Inductive ==
    ASSUME NEW T, 0 \in T, \A n \in Nat : n \in T => n + 1 \in T
    PROVE  \A n \in Nat : n \in T
<1> SUFFICES ASSUME Nat \ T # {}
             PROVE  FALSE
  OBVIOUS
<1>1. PICK m \in Nat \ T : \A k \in Nat \ T : m <= k
  BY LeastElement
<1>2. m # 0 /\ m - 1 \in Nat
  BY <1>1
<1>3. m - 1 \in T
  BY <1>1, <1>2
<1> QED
  BY <1>1, <1>2, <1>3

Recursive(f, b, m, step) ==
    f[0] = b /\ \A n \in 1..m : f[n] = step[n][f[n - 1]]

\* Values that follow from one another are those of a function.
LEMMA Recursion ==
    \A V : \A b \in V, m \in Nat : \A step \in [1..m -> [V -> V]] :
        \E f \in [0..m -> V] : Recursive(f, b, m, step)
<1> SUFFICES ASSUME NEW V, NEW b \in V, NEW m \in Nat, NEW step \in [1..m -> [V -> V]]
             PROVE  \E f \in [0..m -> V] : Recursive(f, b, m, step)
  OBVIOUS
<1> DEFINE Up(f, n) == f[0] = b /\ \A i \in 1..n : f[i] = step[i][f[i - 1]]
           T == {n \in Nat : n <= m => \E f \in [0..n -> V] : Up(f, n)}
<1>1. 0 \in T
  <2> DEFINE f == [i \in 0..0 |-> b]
  <2>1. f \in [0..0 -> V] /\ Up(f, 0)
    OBVIOUS
  <2>2. \E g \in [0..0 -> V] : Up(g, 0)
    BY <2>1
  <2> QED
    BY <2>2
<1>2. ASSUME NEW n \in Nat, n \in T
      PROVE  n + 1 \in T
  <2> SUFFICES ASSUME n + 1 <= m
               PROVE  \E f \in [0..n + 1 -> V] : Up(f, n + 1)
    OBVIOUS
  <2>1. PICK f \in [0..n -> V] : Up(f, n)
    BY <1>2
  <2> DEFINE g == [i \in 0..n + 1 |-> IF i = n + 1 THEN step[n + 1][f[n]] ELSE f[i]]
  <2>2. step[n + 1] \in [V -> V] /\ f[n] \in V
    OBVIOUS
  <2>3. g \in [0..n + 1 -> V]
    BY <2>2
  <2>4. ASSUME NEW i \in 1..n + 1
        PROVE  g[i] = step[i][g[i - 1]]
    <3>1. CASE i = n + 1
      <4>1. i - 1 = n /\ n \in 0..n + 1 /\ n # n + 1 /\ i \in 0..n + 1
        BY <3>1
      <4>2. g[i] = step[n + 1][f[n]] /\ g[n] = f[n]
        BY <3>1, <4>1
      <4> QED
        BY <3>1, <4>1, <4>2
    <3>2. CASE i # n + 1
      <4>1. /\ i \in 1..n /\ i \in 0..n + 1
            /\ i - 1 \in 0..n + 1 /\ i - 1 # n + 1
        BY <3>2
      <4>2. g[i] = f[i] /\ g[i - 1] = f[i - 1]
        BY <3>2, <4>1
      <4> QED
        BY <2>1, <4>1, <4>2
    <3> QED
      BY <3>1, <3>2
  <2>5. g[0] = b
    BY <2>1
  <2> QED
    BY <2>3, <2>4, <2>5
<1> HIDE DEF T
<1>3. m \in T
  BY <1>1, <1>2, Inductive
<1> QED
  BY <1>3 DEF T, Recursive

-----------------------------------------------------------------------------
(* What Only selects.                                                      *)

Chosen(x, S) == IF x \in S THEN <<x>> ELSE <<>>

\* f is the function that Only(s, S) goes by.
Selects(f, s, S) ==
    f = [n \in 0..Len(s) |-> IF n = 0 THEN <<>> ELSE f[n - 1] \o Chosen(s[n], S)]

\* The values that Only goes through.
Through(f, s, S) ==
    /\ f[0] = <<>>
    /\ \A n \in 1..Len(s) : f[n] = f[n - 1] \o Chosen(s[n], S)
    /\ Only(s, S) = f[Len(s)]

LEMMA OnlyValues ==
    \A V, S : \A s \in Seq(V) : \E f \in [0..Len(s) -> Seq(V)] : Through(f, s, S)
<1> SUFFICES ASSUME NEW V, NEW S, NEW s \in Seq(V)
             PROVE  \E f \in [0..Len(s) -> Seq(V)] : Through(f, s, S)
  OBVIOUS
<1> DEFINE m == Len(s)
           W == Seq(V)
           e == <<>>
           step == [n \in 1..m |-> [x \in W |-> x \o Chosen(s[n], S)]]
<1>1. m \in Nat /\ e \in W
  OBVIOUS
<1>2. step \in [1..m -> [W -> W]]
  BY DEF Chosen
<1>3. PICK f \in [0..m -> W] : Recursive(f, e, m, step)
  <2> HIDE DEF m, W, e, step
  <2> QED
    BY <1>1, <1>2, Recursion
<1>4. ASSUME NEW n \in 1..m
      PROVE  f[n] = f[n - 1] \o Chosen(s[n], S)
  <2>1. f[n - 1] \in W
    BY <1>1
  <2> QED
    BY <1>3, <2>1 DEF Recursive
<1> HIDE DEF step
<1>5. Selects(f, s, S)
  <2>1. ASSUME NEW n \in 0..Len(s), n # 0
        PROVE  f[n] = f[n - 1] \o Chosen(s[n], S)
    <3>1. n \in 1..m
      BY <1>1, <2>1
    <3> QED
      BY <1>4, <3>1
  <2> QED
    BY <1>3, <2>1 DEF Selects, Recursive
<1> DEFINE g == CHOOSE h : Selects(h, s, S)
<1>6. Selects(g, s, S)
  BY <1>5
<1>7. Only(s, S) = g[Len(s)]
  BY DEF Only, Selects, Chosen
<1> HIDE DEF g
<1>8. /\ g[0] = <<>>
      /\ \A n \in 1..Len(s) : g[n] = g[n - 1] \o Chosen(s[n], S)
      /\ DOMAIN g = 0..Len(s)
  <2>1. ASSUME NEW n \in 1..Len(s)
        PROVE  g[n] = g[n - 1] \o Chosen(s[n], S)
    <3>1. n \in 0..Len(s) /\ n # 0
      BY <1>1
    <3> QED
      BY <1>6, <3>1 DEF Selects
  <2>2. g[0] = <<>> /\ DOMAIN g = 0..Len(s)
    <3>1. 0 \in 0..Len(s)
      BY <1>1
    <3> QED
      BY <1>6, <3>1 DEF Selects
  <2> QED
    BY <2>1, <2>2
<1> DEFINE T == {n \in Nat : n <= m => g[n] \in W}
<1>9. 0 \in T
  BY <1>1, <1>8
<1>10. ASSUME NEW n \in Nat, n \in T
       PROVE  n + 1 \in T
  <2> SUFFICES ASSUME n + 1 <= m
               PROVE  g[n + 1] \in W
    OBVIOUS
  <2>1. g[n] \in W /\ n + 1 \in 1..Len(s) /\ s[n + 1] \in V /\ (n + 1) - 1 = n
    BY <1>1, <1>10
  <2>2. g[n + 1] = g[n] \o Chosen(s[n + 1], S)
    BY <1>8, <2>1
  <2> QED
    BY <2>1, <2>2 DEF Chosen
<1> HIDE DEF T
<1>11. \A n \in Nat : n \in T
  BY <1>9, <1>10, Inductive
<1>12. \A n \in 0..m : g[n] \in W
  BY <1>11 DEF T
<1>13. g \in [0..m -> W]
  <2>1. g = [n \in 0..Len(s) |-> g[n]]
    BY <1>6 DEF Selects
  <2> QED
    BY <1>12, <2>1
<1> QED
  BY <1>7, <1>8, <1>13 DEF Through

LEMMA OnlyOfNone ==
    ASSUME NEW S
    PROVE  Only(<<>>, S) = <<>>
<1> DEFINE V == {}
<1>1. <<>> \in Seq(V) /\ Len(<<>>) = 0
  OBVIOUS
<1> HIDE DEF V
<1>2. PICK f \in [0..Len(<<>>) -> Seq(V)] : Through(f, <<>>, S)
  BY <1>1, OnlyValues
<1> QED
  BY <1>1, <1>2 DEF Through

LEMMA OnlyAppend ==
    ASSUME NEW V, NEW s \in Seq(V), NEW x \in V, NEW S
    PROVE  Only(Append(s, x), S) = Only(s, S) \o Chosen(x, S)
<1> DEFINE t == Append(s, x)
           m == Len(s)
<1>1. t \in Seq(V) /\ m \in Nat /\ Len(t) = m + 1
  OBVIOUS
<1>2. t[m + 1] = x /\ \A n \in 1..m : t[n] = s[n]
  OBVIOUS
<1> HIDE DEF t
<1>3. PICK f \in [0..m -> Seq(V)] : Through(f, s, S)
  BY OnlyValues
<1>4. PICK g \in [0..m + 1 -> Seq(V)] : Through(g, t, S)
  BY <1>1, OnlyValues
<1> DEFINE T == {n \in Nat : n <= m => f[n] = g[n]}
<1>5. 0 \in T
  BY <1>3, <1>4 DEF Through
<1>6. ASSUME NEW n \in Nat, n \in T
      PROVE  n + 1 \in T
  <2> SUFFICES ASSUME n + 1 <= m
               PROVE  f[n + 1] = g[n + 1]
    OBVIOUS
  <2>1. n + 1 \in 1..m /\ n + 1 \in 1..m + 1 /\ (n + 1) - 1 = n /\ f[n] = g[n]
    BY <1>1, <1>6
  <2>2. f[n + 1] = f[n] \o Chosen(s[n + 1], S)
    BY <1>3, <2>1 DEF Through
  <2>3. g[n + 1] = g[n] \o Chosen(t[n + 1], S)
    BY <1>1, <1>4, <2>1 DEF Through
  <2> QED
    BY <1>2, <2>1, <2>2, <2>3
<1> HIDE DEF T
<1>7. m \in T
  BY <1>1, <1>5, <1>6, Inductive
<1>8. f[m] = g[m]
  BY <1>7, <1>1 DEF T
<1>9. g[m + 1] = g[m] \o Chosen(x, S)
  <2>1. m + 1 \in 1..m + 1 /\ (m + 1) - 1 = m
    BY <1>1
  <2> QED
    BY <1>1, <1>2, <1>4, <2>1 DEF Through
<1> QED
  BY <1>1, <1>3, <1>4, <1>8, <1>9 DEF t, Through

\* Induction over sequences, element by element.
LEMMA SequencesInductive ==
    \A V, P : (<<>> \in P /\ \A s \in Seq(V), x \in V : s \in P => Append(s, x) \in P)
                => \A s \in Seq(V) : s \in P
<1> SUFFICES ASSUME NEW V, NEW P, <<>> \in P,
                    \A s \in Seq(V), x \in V : s \in P => Append(s, x) \in P
             PROVE  \A s \in Seq(V) : s \in P
  OBVIOUS
<1> DEFINE T == {n \in Nat : \A s \in Seq(V) : Len(s) = n => s \in P}
<1>1. 0 \in T
  <2>1. ASSUME NEW s \in Seq(V), Len(s) = 0
        PROVE  s \in P
    <3>1. s = <<>>
      BY <2>1
    <3> QED
      BY <3>1
  <2> QED
    BY <2>1
<1>2. ASSUME NEW n \in Nat, n \in T
      PROVE  n + 1 \in T
  <2>1. ASSUME NEW s \in Seq(V), Len(s) = n + 1
        PROVE  s \in P
    <3> DEFINE r == SubSeq(s, 1, n)
    <3>1. r \in Seq(V) /\ Len(r) = n /\ s[n + 1] \in V
      BY <2>1
    <3>2. s = Append(r, s[n + 1])
      BY <2>1
    <3>3. r \in P
      BY <1>2, <3>1
    <3> HIDE DEF r
    <3> QED
      BY <3>1, <3>2, <3>3
  <2> QED
    BY <2>1
<1> HIDE DEF T
<1>3. \A n \in Nat : n \in T
  BY <1>1, <1>2, Inductive
<1> QED
  BY <1>3 DEF T

LEMMA ChosenTyped ==
    ASSUME NEW V, NEW S, NEW x \in V
    PROVE  Chosen(x, S) \in Seq(V \cap S)
<1> DEFINE W == V \cap S
<1>1. CASE x \in S
  <2>1. x \in W
    BY <1>1
  <2> HIDE DEF W
  <2>2. <<x>> \in Seq(W)
    BY <2>1
  <2> QED
    BY <1>1, <2>2 DEF Chosen, W
<1>2. CASE x \notin S
  BY <1>2 DEF Chosen
<1> QED
  BY <1>1, <1>2

LEMMA OnlyTyped ==
    ASSUME NEW V, NEW S, NEW s \in Seq(V)
    PROVE  Only(s, S) \in Seq(V \cap S)
<1> DEFINE W == V \cap S
           P == {t \in Seq(V) : Only(t, S) \in Seq(W)}
<1>1. <<>> \in P
  <2>1. <<>> \in Seq(V) /\ <<>> \in Seq(W)
    OBVIOUS
  <2> HIDE DEF W
  <2> QED
    BY <2>1, OnlyOfNone
<1>2. ASSUME NEW t \in Seq(V), NEW x \in V, t \in P
      PROVE  Append(t, x) \in P
  <2>1. Only(Append(t, x), S) = Only(t, S) \o Chosen(x, S)
    BY OnlyAppend
  <2>2. Chosen(x, S) \in Seq(W) /\ Only(t, S) \in Seq(W)
    BY <1>2, ChosenTyped
  <2>3. Only(Append(t, x), S) \in Seq(W)
    <3> HIDE DEF W
    <3> QED
      BY <2>1, <2>2
  <2> QED
    BY <2>3
<1> HIDE DEF P
<1>3. s \in P
  BY <1>1, <1>2, SequencesInductive
<1> QED
  BY <1>3 DEF P

LEMMA OnlyConcat ==
    ASSUME NEW V, NEW S, NEW r \in Seq(V), NEW s \in Seq(V)
    PROVE  Only(r \o s, S) = Only(r, S) \o Only(s, S)
<1> DEFINE P == {t \in Seq(V) : Only(r \o t, S) = Only(r, S) \o Only(t, S)}
<1> HIDE DEF P
<1>1. <<>> \in P
  <2>1. r \o <<>> = r /\ <<>> \in Seq(V)
    OBVIOUS
  <2>2. Only(r, S) \in Seq(V \cap S)
    BY OnlyTyped
  <2>3. Only(r, S) \o <<>> = Only(r, S)
    BY <2>2
  <2> QED
    BY <2>1, <2>3, OnlyOfNone DEF P
<1>2. ASSUME NEW t \in Seq(V), NEW x \in V, t \in P
      PROVE  Append(t, x) \in P
  <2>1. r \o Append(t, x) = Append(r \o t, x) /\ r \o t \in Seq(V)
    OBVIOUS
  <2>2. Only(Append(r \o t, x), S) = Only(r \o t, S) \o Chosen(x, S)
    BY <2>1, OnlyAppend
  <2>3. Only(Append(t, x), S) = Only(t, S) \o Chosen(x, S)
    BY OnlyAppend
  <2>4. Only(r \o t, S) = Only(r, S) \o Only(t, S)
    BY <1>2 DEF P
  <2> DEFINE W == V \cap S
             a == Only(r, S)
             b == Only(t, S)
             c == Chosen(x, S)
  <2>5. a \in Seq(W) /\ b \in Seq(W) /\ c \in Seq(W)
    BY OnlyTyped, ChosenTyped
  <2>6. (a \o b) \o c = a \o (b \o c)
    <3> HIDE DEF W, a, b, c
    <3> QED
      BY <2>5
  <2>7. Only(r \o Append(t, x), S) = Only(r, S) \o Only(Append(t, x), S)
    BY <2>1, <2>2, <2>3, <2>4, <2>6
  <2>8. Append(t, x) \in Seq(V)
    OBVIOUS
  <2> QED
    BY <2>7, <2>8 DEF P
<1>3. s \in P
  BY <1>1, <1>2, SequencesInductive
<1> QED
  BY <1>3 DEF P

LEMMA OnlyOfOne ==
    ASSUME NEW x, NEW S
    PROVE  Only(<<x>>, S) = Chosen(x, S)
<1> DEFINE V == {x}
<1>1. <<>> \in Seq(V) /\ x \in V /\ <<x>> = Append(<<>>, x)
  OBVIOUS
<1>2. Only(Append(<<>>, x), S) = Only(<<>>, S) \o Chosen(x, S)
  <2> HIDE DEF V
  <2> QED
    BY <1>1, OnlyAppend
<1>3. <<>> \o Chosen(x, S) = Chosen(x, S)
  BY DEF Chosen
<1> QED
  BY <1>1, <1>2, <1>3, OnlyOfNone

\* What is selected comes from the sequence.
LEMMA OnlyFrom ==
    ASSUME NEW V, NEW S, NEW s \in Seq(V), NEW i \in DOMAIN Only(s, S)
    PROVE  \E k \in DOMAIN s : s[k] = Only(s, S)[i]
<1> DEFINE Comes(t) == \A n \in DOMAIN Only(t, S) : \E k \in DOMAIN t : t[k] = Only(t, S)[n]
           P == {t \in Seq(V) : Comes(t)}
<1> HIDE DEF P
<1>1. <<>> \in P
  <2>1. Comes(<<>>)
    BY OnlyOfNone
  <2> QED
    BY <2>1 DEF P
<1>2. ASSUME NEW t \in Seq(V), NEW x \in V, t \in P
      PROVE  Append(t, x) \in P
  <2> DEFINE o == Only(t, S)
             c == Chosen(x, S)
  <2>1. Only(Append(t, x), S) = o \o c
    BY OnlyAppend
  <2>2. o \in Seq(V) /\ c \in Seq(V)
    <3>1. o \in Seq(V \cap S)
      BY OnlyTyped
    <3> HIDE DEF o
    <3> QED
      BY <3>1 DEF Chosen
  <2>3. Comes(t)
    BY <1>2 DEF P
  <2>4. ASSUME NEW n \in DOMAIN (o \o c)
        PROVE  \E k \in DOMAIN Append(t, x) : Append(t, x)[k] = (o \o c)[n]
    <3>1. CASE n \in DOMAIN o
      <4>1. (o \o c)[n] = o[n]
        <5> HIDE DEF o, c
        <5> QED
          BY <2>2, <3>1
      <4>2. PICK k \in DOMAIN t : t[k] = o[n]
        BY <2>3, <3>1
      <4>3. k \in DOMAIN Append(t, x) /\ Append(t, x)[k] = t[k]
        OBVIOUS
      <4> QED
        BY <4>1, <4>2, <4>3
    <3>2. CASE n \notin DOMAIN o
      <4>1. c = <<x>> /\ (o \o c)[n] = x
        <5>1. c # <<>>
          <6> HIDE DEF o, c
          <6> QED
            BY <2>2, <3>2
        <5>2. c = <<x>>
          BY <5>1 DEF Chosen
        <5>3. (o \o <<x>>)[n] = x
          <6> HIDE DEF o, c
          <6> QED
            BY <2>2, <3>2, <5>2
        <5> QED
          BY <5>2, <5>3
      <4>2. Len(t) + 1 \in DOMAIN Append(t, x) /\ Append(t, x)[Len(t) + 1] = x
        OBVIOUS
      <4> QED
        BY <4>1, <4>2
    <3> QED
      BY <3>1, <3>2
  <2>5. Comes(Append(t, x))
    BY <2>1, <2>4
  <2>6. Append(t, x) \in Seq(V)
    OBVIOUS
  <2> QED
    BY <2>5, <2>6 DEF P
<1>3. s \in P
  BY <1>1, <1>2, SequencesInductive
<1> QED
  BY <1>3 DEF P

\* Nothing is selected where there is nothing to select.
LEMMA OnlyNothing ==
    ASSUME NEW V, NEW S, NEW s \in Seq(V), \A i \in DOMAIN s : s[i] \notin S
    PROVE  Only(s, S) = <<>>
<1> DEFINE o == Only(s, S)
<1>1. o \in Seq(V \cap S)
  BY OnlyTyped
<1>2. ASSUME o # <<>>
      PROVE  FALSE
  <2>1. 1 \in DOMAIN o /\ o[1] \in S
    <3> HIDE DEF o
    <3> QED
      BY <1>1, <1>2
  <2>2. PICK k \in DOMAIN s : s[k] = o[1]
    BY <2>1, OnlyFrom
  <2> QED
    BY <2>1, <2>2
<1> QED
  BY <1>2

\* A coarser selection first changes nothing.
LEMMA OnlyOnly ==
    ASSUME NEW V, NEW S, NEW R, R \subseteq S, NEW s \in Seq(V)
    PROVE  Only(Only(s, S), R) = Only(s, R)
<1> DEFINE P == {t \in Seq(V) : Only(Only(t, S), R) = Only(t, R)}
<1> HIDE DEF P
<1>1. <<>> \in P
  <2>1. <<>> \in Seq(V)
    OBVIOUS
  <2> QED
    BY <2>1, OnlyOfNone DEF P
<1>2. ASSUME NEW t \in Seq(V), NEW x \in V, t \in P
      PROVE  Append(t, x) \in P
  <2>1. /\ Only(Append(t, x), S) = Only(t, S) \o Chosen(x, S)
        /\ Only(Append(t, x), R) = Only(t, R) \o Chosen(x, R)
    BY OnlyAppend
  <2>2. Only(t, S) \in Seq(V \cap S) /\ Chosen(x, S) \in Seq(V \cap S)
    BY OnlyTyped, ChosenTyped
  <2>3. Only(Only(t, S) \o Chosen(x, S), R)
          = Only(Only(t, S), R) \o Only(Chosen(x, S), R)
    BY <2>2, OnlyConcat
  <2>4. Only(Chosen(x, S), R) = Chosen(x, R)
    <3>1. CASE x \in S
      <4>1. Chosen(x, S) = <<x>>
        BY <3>1 DEF Chosen
      <4> QED
        BY <4>1, OnlyOfOne
    <3>2. CASE x \notin S
      <4>1. Chosen(x, S) = <<>> /\ Chosen(x, R) = <<>>
        BY <3>2 DEF Chosen
      <4> QED
        BY <4>1, OnlyOfNone
    <3> QED
      BY <3>1, <3>2
  <2>5. Append(t, x) \in Seq(V)
    OBVIOUS
  <2> QED
    BY <1>2, <2>1, <2>3, <2>4, <2>5 DEF P
<1>3. s \in P
  BY <1>1, <1>2, SequencesInductive
<1> QED
  BY <1>3 DEF P

-----------------------------------------------------------------------------
(* The markers in a piece of output.                                       *)

LEMMA CommandFacts ==
    /\ Nobody \notin Commands /\ Other \notin Commands /\ "prompt" \notin Commands
    /\ MaxPending \in Nat \ {0} /\ MaxBatch \in Nat \ {0}
    /\ MaxBacklog \in Nat \ {0} /\ MaxOthers \in Nat /\ MaxReconnects \in Nat
    /\ Suggested \subseteq Commands
BY CommandStatusAssumption DEF Other

LEMMA ItemFacts ==
    /\ Prompt \in Items \ Marks /\ Text \in Items \ Marks
    /\ \A l \in Lines, r \in Results : Mark(l, r) \in Marks /\ Mark(l, r).by = l
                                        /\ Mark(l, r).result = r
    /\ Marks \subseteq Items /\ CommandMarks \subseteq Marks
    /\ \A m \in Marks : m \in CommandMarks <=> m.by \in Commands
    /\ \A m \in Marks : m.by = Other \/ m.by \in Commands
    /\ \A m \in Marks : m.result \in Results
BY CommandFacts DEF Prompt, Text, Items, Marks, CommandMarks, Mark, Lines, Results, Other

LEMMA AuthorsFacts ==
    /\ \A s \in Seq(CommandMarks) : Authors(s) \in Seq(Commands)
    /\ \A r, s \in Seq(CommandMarks) : Authors(r \o s) = Authors(r) \o Authors(s)
    /\ Authors(<<>>) = <<>>
    /\ \A m \in CommandMarks : Authors(<<m>>) = <<m.by>>
<1>1. ASSUME NEW s \in Seq(CommandMarks)
      PROVE  Authors(s) \in Seq(Commands) /\ Len(Authors(s)) = Len(s)
  <2>1. \A i \in DOMAIN s : s[i].by \in Commands
    <3>1. \A m \in CommandMarks : m.by \in Commands
      BY DEF CommandMarks
    <3> QED
      BY <3>1
  <2> QED
    BY <2>1 DEF Authors
<1>2. ASSUME NEW r \in Seq(CommandMarks), NEW s \in Seq(CommandMarks)
      PROVE  Authors(r \o s) = Authors(r) \o Authors(s)
  <2> DEFINE a == Authors(r)  b == Authors(s)  c == Authors(r \o s)
  <2>1. r \o s \in Seq(CommandMarks)
    OBVIOUS
  <2>2. /\ a \in Seq(Commands) /\ b \in Seq(Commands) /\ c \in Seq(Commands)
        /\ Len(a) = Len(r) /\ Len(b) = Len(s) /\ Len(c) = Len(r) + Len(s)
    <3>1. Len(r \o s) = Len(r) + Len(s)
      OBVIOUS
    <3> QED
      BY <1>1, <2>1, <3>1
  <2>3. ASSUME NEW i \in 1..Len(c)
        PROVE  c[i] = (a \o b)[i]
    <3>1. i \in DOMAIN (r \o s) /\ c[i] = (r \o s)[i].by
      BY <2>2 DEF Authors
    <3>2. CASE i <= Len(r)
      <4>1. i \in DOMAIN r /\ (r \o s)[i] = r[i] /\ a[i] = r[i].by
        BY <3>2, <2>2 DEF Authors
      <4>2. (a \o b)[i] = a[i]
        <5> HIDE DEF a, b, c
        <5> QED
          BY <2>2, <3>2
      <4> QED
        BY <3>1, <4>1, <4>2
    <3>3. CASE ~(i <= Len(r))
      <4>1. /\ i - Len(r) \in DOMAIN s /\ (r \o s)[i] = s[i - Len(r)]
            /\ b[i - Len(r)] = s[i - Len(r)].by
        BY <3>3, <2>2 DEF Authors
      <4>2. (a \o b)[i] = b[i - Len(r)]
        <5> HIDE DEF a, b, c
        <5> QED
          BY <2>2, <3>3
      <4> QED
        BY <3>1, <4>1, <4>2
    <3> QED
      BY <3>2, <3>3
  <2> HIDE DEF a, b, c
  <2>4. c = a \o b
    <3>1. a \o b \in Seq(Commands) /\ Len(a \o b) = Len(c)
      BY <2>2
    <3> DEFINE d == a \o b
    <3>2. d \in Seq(Commands) /\ Len(d) = Len(c) /\ \A i \in 1..Len(c) : c[i] = d[i]
      BY <2>3, <3>1
    <3> HIDE DEF d
    <3>3. c = d
      BY <2>2, <3>2
    <3> QED
      BY <3>3 DEF d
  <2> QED
    BY <2>4 DEF a, b, c
<1>3. Authors(<<>>) = <<>>
  BY DEF Authors
<1>4. ASSUME NEW m \in CommandMarks
      PROVE  Authors(<<m>>) = <<m.by>>
  BY DEF Authors
<1> QED
  BY <1>1, <1>2, <1>3, <1>4

LEMMA DueTyped ==
    ASSUME NEW s \in Seq(Items)
    PROVE  Due(s) \in Seq(Commands) /\ Only(s, CommandMarks) \in Seq(CommandMarks)
<1>1. Items \cap CommandMarks = CommandMarks
  BY ItemFacts
<1>2. Only(s, CommandMarks) \in Seq(CommandMarks)
  BY <1>1, OnlyTyped
<1> QED
  BY <1>2, AuthorsFacts DEF Due

LEMMA DueConcat ==
    ASSUME NEW r \in Seq(Items), NEW s \in Seq(Items)
    PROVE  Due(r \o s) = Due(r) \o Due(s)
<1>1. Only(r \o s, CommandMarks) = Only(r, CommandMarks) \o Only(s, CommandMarks)
  BY OnlyConcat
<1> QED
  BY <1>1, DueTyped, AuthorsFacts DEF Due

LEMMA DueNothing ==
    ASSUME NEW s \in Seq(Items), \A i \in DOMAIN s : s[i] \notin CommandMarks
    PROVE  Due(s) = <<>>
BY OnlyNothing, AuthorsFacts DEF Due

LEMMA DueOne ==
    ASSUME NEW m \in CommandMarks
    PROVE  Due(<<m>>) = <<m.by>>
BY OnlyOfOne, AuthorsFacts DEF Due, Chosen

LEMMA DueSkips ==
    ASSUME NEW x, x \notin CommandMarks
    PROVE  Due(<<x>>) = <<>>
BY OnlyOfOne, AuthorsFacts DEF Due, Chosen

-----------------------------------------------------------------------------
(* The inductive invariant.                                                *)

\* It may still be sent, by its submission or after a dialog.
Unsent(c) ==
    \/ record[c] = "new" \/ dangerous = c
    \/ sandbox.phase = "AwaitingExecution" /\ sandbox.cmd = c

InTheShell(c) == shell.running = c \/ \E i \in DOMAIN shell.typed : shell.typed[i] = c

Waits(c) == \E i \in DOMAIN pending : pending[i] = c

AskedFits ==
    /\ dangerous # Nobody => dangerous \notin Suggested /\ record[dangerous] # "new"
    /\ sandbox.cmd # Nobody => sandbox.cmd \in Suggested /\ record[sandbox.cmd] # "new"

\* A command is sent once and ends once.
CommandFits(c) ==
    /\ Unsent(c) => ~InTheShell(c) /\ ~Waits(c) /\ own[c] = "none"
    /\ InTheShell(c) => own[c] = "none"

TypedOnce ==
    \A i \in DOMAIN shell.typed : shell.typed[i] \in Commands =>
        /\ shell.running # shell.typed[i]
        /\ \A j \in DOMAIN shell.typed : shell.typed[j] = shell.typed[i] => j = i

\* The markers in a piece of output say how their commands ended.
Truthful(s) ==
    \A i \in DOMAIN s : s[i] \in CommandMarks => own[s[i].by] = s[i].result

\* The commands that wait are those whose markers are on their way and then those
\* the shell has; what a shell that is gone had waits for nothing.
Agree ==
    ~slipped =>
        \E rest \in Seq(Commands) :
            pending = Coming \o rest /\ (shell.alive => rest = InShell)

IInv ==
    /\ TypeOK /\ AskedFits /\ TypedOnce
    /\ \A c \in Commands : CommandFits(c)
    /\ Truthful(pending_event) /\ Truthful(chan)
    /\ Agree

LEMMA Typed ==
    ASSUME TypeOK
    PROVE  /\ shell.typed \in Seq(Lines) /\ shell.alive \in BOOLEAN
           /\ shell.running \in Lines \cup {"prompt"} /\ shell.integrated \in BOOLEAN
           /\ chan \in Seq(Items) /\ pending_event \in Seq(Items)
           /\ pending_event \o chan \in Seq(Items)
           /\ pending \in Seq(Commands)
           /\ Coming \in Seq(Commands)
<1>1. /\ shell.typed \in Seq(Lines) /\ shell.alive \in BOOLEAN
      /\ shell.running \in Lines \cup {"prompt"} /\ shell.integrated \in BOOLEAN
  BY DEF TypeOK
<1>2. /\ chan \in Seq(Items) /\ pending_event \in Seq(Items)
      /\ pending \in Seq(Commands)
  BY DEF TypeOK
<1>3. pending_event \o chan \in Seq(Items)
  BY <1>2
<1>4. Coming \in Seq(Commands)
  BY <1>3, DueTyped DEF Coming
<1> QED
  BY <1>1, <1>2, <1>3, <1>4

ShellRecords ==
    [alive : BOOLEAN, typed : Seq(Lines),
     running : Lines \cup {"prompt"}, integrated : BOOLEAN]

\* What the shell has to run is what runs and what is typed.
Held(running, typed) == Chosen(running, Commands) \o Only(typed, Commands)

LEMMA HeldParts ==
    ASSUME NEW s \in ShellRecords
    PROVE  /\ Only(<<s.running>> \o s.typed, Commands) = Held(s.running, s.typed)
           /\ Only(s.typed, Commands) \in Seq(Commands)
           /\ s.running \notin Commands =>
                Held(s.running, s.typed) = Only(s.typed, Commands)
           /\ Held(s.running, s.typed) \in Seq(Commands)
<1> DEFINE V == Lines \cup {"prompt"}
           o == Only(s.typed, Commands)
<1>1. s.typed \in Seq(V) /\ <<s.running>> \in Seq(V)
  <2>1. Lines \subseteq V /\ s.running \in V /\ s.typed \in Seq(Lines)
    BY DEF ShellRecords
  <2> HIDE DEF V
  <2> QED
    BY <2>1
<1>2. V \cap Commands = Commands
  BY DEF Lines
<1> HIDE DEF V
<1>3. Only(<<s.running>> \o s.typed, Commands) = Held(s.running, s.typed)
  <2>1. Only(<<s.running>> \o s.typed, Commands)
          = Only(<<s.running>>, Commands) \o Only(s.typed, Commands)
    BY <1>1, OnlyConcat
  <2> QED
    BY <2>1, OnlyOfOne DEF Held
<1>4. o \in Seq(Commands)
  BY <1>1, <1>2, OnlyTyped
<1>5. <<>> \o o = o /\ \A c \in Commands : <<c>> \o o \in Seq(Commands)
  <2> HIDE DEF o
  <2> QED
    BY <1>4
<1> QED
  BY <1>3, <1>4, <1>5 DEF Held, Chosen

LEMMA InShellIsHeld ==
    ASSUME TypeOK
    PROVE  /\ shell \in ShellRecords
           /\ InShell = Held(shell.running, shell.typed) /\ InShell \in Seq(Commands)
<1>1. shell \in ShellRecords
  BY DEF TypeOK, ShellRecords
<1> QED
  BY <1>1, HeldParts DEF InShell

LEMMA AgreeKeeps ==
    ASSUME Agree, UNCHANGED pending, Coming' = Coming,
           ~slipped' => ~slipped,
           ~slipped' /\ shell'.alive => shell.alive /\ InShell' = InShell
    PROVE  Agree'
BY DEF Agree

LEMMA FitsKeeps ==
    ASSUME NEW c \in Commands, CommandFits(c), own'[c] = own[c],
           Unsent(c)' => Unsent(c), InTheShell(c)' => InTheShell(c),
           Waits(c)' => Waits(c)
    PROVE  CommandFits(c)'
BY DEF CommandFits

\* A step that leaves the shell, the output and the waiting commands alone, and
\* takes no command back.
LEMMA QuietKeeps ==
    ASSUME IInv, TypeOK', AskedFits',
           UNCHANGED <<shell, chan, pending_event, pending, own, slipped>>,
           \A c \in Commands : Unsent(c)' => Unsent(c)
    PROVE  IInv'
<1>1. TypedOnce' /\ Truthful(pending_event)' /\ Truthful(chan)'
  BY DEF IInv, TypedOnce, Truthful
<1>2. Agree'
  BY DEF IInv, Agree, Coming, InShell
<1>3. ASSUME NEW c \in Commands
      PROVE  CommandFits(c)'
  BY DEF IInv, CommandFits, InTheShell, Waits
<1> QED
  BY <1>1, <1>2, <1>3 DEF IInv

-----------------------------------------------------------------------------
(* Steps of the user and of the loop that leave the queue alone.           *)

SandboxRecords ==
    [phase : {"Idle", "AwaitingExecution", "Capturing", "AwaitingResultSharing"},
     cmd : Commands \cup {Nobody}, exit : Results \cup {"none"}]

\* The sandbox has a command unless it is idle.
SandboxOK(s) == s \in SandboxRecords /\ (s.cmd = Nobody <=> s.phase = "Idle")

Screens == [shown : {"latest", "older"}, stash : {"none", "latest", "older"}]

LEMMA HelpersTyped ==
    ASSUME TypeOK
    PROVE  /\ SandboxOK(sandbox) /\ SandboxOK(fail_execution) /\ SandboxOK(NoSandbox)
           /\ \A r \in Results : SandboxOK(finish_execution(r))
           /\ screen \in Screens
           /\ \A s \in Screens : flush_pending_renders(s) \in Screens
           /\ \A s \in Screens, o \in BOOLEAN : apply_throttled_render(s, o) \in Screens
<1>1. SandboxOK(sandbox) /\ screen \in Screens
  BY DEF TypeOK, SandboxOK, SandboxRecords, Screens
<1>2. SandboxOK(fail_execution)
  BY <1>1 DEF fail_execution, SandboxOK, SandboxRecords
<1>3. SandboxOK(NoSandbox)
  BY CommandFacts DEF NoSandbox, SandboxOK, SandboxRecords
<1>4. \A r \in Results : SandboxOK(finish_execution(r))
  BY <1>1 DEF finish_execution, SandboxOK, SandboxRecords
<1>5. \A s \in Screens : flush_pending_renders(s) \in Screens
  BY DEF flush_pending_renders, Screens
<1>6. \A s \in Screens, o \in BOOLEAN : apply_throttled_render(s, o) \in Screens
  BY DEF apply_throttled_render, Screens
<1> QED
  BY <1>1, <1>2, <1>3, <1>4, <1>5, <1>6

LEMMA InitInv == Init => IInv
<1> SUFFICES ASSUME Init
             PROVE  IInv
  OBVIOUS
<1>1. TypeOK
  <2>1. shell \in [alive : BOOLEAN, typed : Seq(Lines),
                   running : Lines \cup {"prompt"}, integrated : BOOLEAN]
    <3>1. PICK i \in BOOLEAN :
            shell = [alive |-> TRUE, typed |-> <<>>, running |-> "prompt", integrated |-> i]
      BY DEF Init
    <3>2. <<>> \in Seq(Lines)
      OBVIOUS
    <3> QED
      BY <3>1, <3>2
  <2>2. /\ pending \in Seq(Commands) /\ IsInjective(pending) /\ Len(pending) <= MaxPending
        /\ chan \in Seq(Items) /\ pending_event \in Seq(Items)
    BY CommandFacts DEF Init, IsInjective
  <2>3. /\ record \in [Commands -> {"new", "asked", "success", "failed", "unknown"}]
        /\ own \in [Commands -> Results \cup {"none"}]
        /\ others \in 0..MaxOthers /\ reconnects \in 0..MaxReconnects
    BY CommandFacts DEF Init
  <2>4. SandboxOK(sandbox) /\ screen \in Screens
    BY CommandFacts DEF Init, SandboxOK, SandboxRecords, NoSandbox, Screens
  <2> QED
    BY <2>1, <2>2, <2>3, <2>4 DEF Init, TypeOK, SandboxOK, SandboxRecords, Screens
<1>2. AskedFits /\ TypedOnce /\ Truthful(pending_event) /\ Truthful(chan)
  BY DEF Init, AskedFits, TypedOnce, Truthful, NoSandbox
<1>3. \A c \in Commands : CommandFits(c)
  BY CommandFacts DEF Init, CommandFits, InTheShell, Waits
<1>4. Agree
  <2>1. pending = <<>> /\ shell.running \notin Commands /\ shell.typed = <<>>
    BY CommandFacts DEF Init
  <2>2. Coming = <<>>
    <3>1. pending_event \o chan = <<>>
      BY DEF Init
    <3> QED
      BY <3>1, OnlyOfNone, AuthorsFacts DEF Coming, Due
  <2>3. InShell = <<>>
    BY <1>1, <2>1, InShellIsHeld, HeldParts, OnlyOfNone
  <2>4. pending = Coming \o <<>> /\ <<>> \in Seq(Commands)
    BY <2>1, <2>2
  <2> QED
    BY <2>3, <2>4 DEF Agree
<1> QED
  BY <1>1, <1>2, <1>3, <1>4 DEF IInv

LEMMA CancelKeeps == IInv /\ Cancel => IInv'
<1> SUFFICES ASSUME IInv, Cancel
             PROVE  IInv'
  OBVIOUS
<1>1. TypeOK'
  BY DEF IInv, TypeOK, Cancel, loopVars, bounds, IsInjective
<1>2. AskedFits'
  BY DEF IInv, AskedFits, Cancel
<1>3. \A c \in Commands : Unsent(c)' => Unsent(c)
  BY CommandFacts DEF Unsent, Cancel
<1> QED
  BY <1>1, <1>2, <1>3, QuietKeeps DEF Cancel, loopVars

LEMMA ProposeKeeps ==
    ASSUME IInv, NEW c \in Commands, propose(c)
    PROVE  IInv'
<1>1. TypeOK'
  BY CommandFacts DEF IInv, TypeOK, propose, loopVars, bounds, IsInjective
<1>2. AskedFits'
  <2>1. dangerous # c /\ record \in [Commands -> {"new", "asked", "success", "failed", "unknown"}]
    BY CommandFacts DEF IInv, AskedFits, propose, TypeOK
  <2> QED
    BY <2>1 DEF IInv, AskedFits, propose
<1>3. \A d \in Commands : Unsent(d)' => Unsent(d)
  <2>1. record \in [Commands -> {"new", "asked", "success", "failed", "unknown"}]
    BY DEF IInv, TypeOK
  <2> QED
    BY <2>1 DEF Unsent, propose
<1> QED
  BY <1>1, <1>2, <1>3, QuietKeeps DEF propose, loopVars

LEMMA RejectKeeps == IInv /\ (reject_execution \/ ResultIsReviewed) => IInv'
<1> SUFFICES ASSUME IInv, reject_execution \/ ResultIsReviewed
             PROVE  IInv'
  OBVIOUS
<1> USE DEF reject_execution, ResultIsReviewed, loopVars
<1>1. TypeOK'
  BY DEF IInv, TypeOK, bounds, NoSandbox, IsInjective
<1>2. AskedFits'
  BY DEF IInv, AskedFits, NoSandbox
<1>3. \A c \in Commands : Unsent(c)' => Unsent(c)
  BY DEF Unsent, NoSandbox
<1> QED
  BY <1>1, <1>2, <1>3, QuietKeeps

LEMMA TimerFiresKeeps == IInv /\ TimerFires => IInv'
<1> SUFFICES ASSUME IInv, TimerFires
             PROVE  IInv'
  OBVIOUS
<1>1. TypeOK'
  BY DEF IInv, TypeOK, TimerFires, flush_pending_renders, bounds, IsInjective
<1>2. AskedFits'
  BY DEF IInv, AskedFits, TimerFires
<1>3. \A c \in Commands : Unsent(c)' => Unsent(c)
  BY DEF Unsent, TimerFires
<1> QED
  BY <1>1, <1>2, <1>3, QuietKeeps DEF TimerFires

LEMMA GoesDownKeeps == IInv /\ (HandleDisconnected \/ disconnect_session) => IInv'
<1> SUFFICES ASSUME IInv, HandleDisconnected \/ disconnect_session
             PROVE  IInv'
  OBVIOUS
<1>1. /\ UNCHANGED <<shell, chan, pending_event, pending, own, slipped>>
      /\ UNCHANGED <<evidence, at_prompt, record, dangerous, others, reconnects>>
      /\ conn' = "down" /\ badge' = "Disconnected" /\ hangup' \in BOOLEAN
      /\ sandbox' = fail_execution /\ screen' = flush_pending_renders(screen)
  BY DEF HandleDisconnected, disconnect_session, GoesDown, bounds, IInv, TypeOK
<1>2. SandboxOK(sandbox)' /\ (screen \in Screens)'
  BY <1>1, HelpersTyped DEF IInv, SandboxOK
<1>3. TypeOK'
  BY <1>1, <1>2 DEF IInv, TypeOK, SandboxOK, SandboxRecords, Screens, IsInjective
<1>4. sandbox'.cmd = sandbox.cmd /\ (sandbox'.phase = sandbox.phase \/ sandbox'.phase = "AwaitingResultSharing")
  BY <1>1 DEF IInv, TypeOK, fail_execution
<1>5. AskedFits'
  BY <1>1, <1>4 DEF IInv, AskedFits
<1>6. \A c \in Commands : Unsent(c)' => Unsent(c)
  BY <1>1, <1>4 DEF Unsent
<1> QED
  BY <1>1, <1>3, <1>5, <1>6, QuietKeeps

-----------------------------------------------------------------------------
(* Steps of the shell.                                                     *)

\* The first of the lines that are typed, and what it leaves.
LEMMA TypedParts ==
    ASSUME TypeOK, shell.typed # <<>>
    PROVE  LET l == Head(shell.typed)  t == Tail(shell.typed) IN
           /\ l \in Lines /\ t \in Seq(Lines)
           /\ shell.typed[1] = l /\ 1 \in DOMAIN shell.typed
           /\ \A i \in DOMAIN t : i + 1 \in DOMAIN shell.typed /\ i + 1 # 1
                                  /\ t[i] = shell.typed[i + 1]
           /\ Only(shell.typed, Commands) = Chosen(l, Commands) \o Only(t, Commands)
<1> DEFINE l == Head(shell.typed)  t == Tail(shell.typed)
<1>1. shell.typed \in Seq(Lines)
  BY Typed
<1>2. l \in Lines /\ t \in Seq(Lines) /\ <<l>> \in Seq(Lines) /\ shell.typed = <<l>> \o t
  BY <1>1
<1>3. /\ shell.typed[1] = l /\ 1 \in DOMAIN shell.typed
      /\ \A i \in DOMAIN t : i + 1 \in DOMAIN shell.typed /\ i + 1 # 1
                             /\ t[i] = shell.typed[i + 1]
  BY <1>1
<1> HIDE DEF l, t
<1>4. Only(<<l>> \o t, Commands) = Only(<<l>>, Commands) \o Only(t, Commands)
  BY <1>2, OnlyConcat
<1>5. Only(shell.typed, Commands) = Chosen(l, Commands) \o Only(t, Commands)
  BY <1>2, <1>4, OnlyOfOne
<1> QED
  BY <1>2, <1>3, <1>5 DEF l, t

LEMMA TruthfulConcat ==
    ASSUME NEW r \in Seq(Items), NEW s \in Seq(Items), Truthful(r), Truthful(s)
    PROVE  Truthful(r \o s)
<1> SUFFICES ASSUME NEW i \in DOMAIN (r \o s), (r \o s)[i] \in CommandMarks
             PROVE  own[(r \o s)[i].by] = (r \o s)[i].result
  BY DEF Truthful
<1>1. CASE i <= Len(r)
  <2>1. i \in DOMAIN r /\ (r \o s)[i] = r[i]
    BY <1>1
  <2> QED
    BY <2>1 DEF Truthful
<1>2. CASE ~(i <= Len(r))
  <2>1. i - Len(r) \in DOMAIN s /\ (r \o s)[i] = s[i - Len(r)]
    BY <1>2
  <2> QED
    BY <2>1 DEF Truthful
<1> QED
  BY <1>1, <1>2

\* Output that is appended to what is on its way.
LEMMA ComingAppends ==
    ASSUME TypeOK, NEW s \in Seq(Items),
           pending_event' = pending_event, chan' = chan \o s
    PROVE  Coming' = Coming \o Due(s) /\ chan' \in Seq(Items)
<1>1. /\ pending_event \in Seq(Items) /\ chan \in Seq(Items)
      /\ pending_event \o chan \in Seq(Items)
  BY Typed
<1>2. pending_event \o (chan \o s) = (pending_event \o chan) \o s
  BY <1>1
<1>3. Due((pending_event \o chan) \o s) = Due(pending_event \o chan) \o Due(s)
  BY <1>1, DueConcat
<1>4. Coming' = Due(pending_event' \o chan')
  BY DEF Coming, Due
<1> QED
  BY <1>1, <1>2, <1>3, <1>4 DEF Coming

LEMMA RunNextKeeps == IInv /\ RunNext => IInv'
<1> SUFFICES ASSUME IInv, RunNext
             PROVE  IInv'
  OBVIOUS
<1> DEFINE l == Head(shell.typed)  t == Tail(shell.typed)
<1>1. TypeOK /\ shell.typed # <<>> /\ shell.running = "prompt" /\ shell \in ShellRecords
  BY DEF IInv, RunNext, TypeOK, ShellRecords
<1>2. /\ l \in Lines /\ t \in Seq(Lines)
      /\ shell.typed[1] = l /\ 1 \in DOMAIN shell.typed
      /\ \A i \in DOMAIN t : i + 1 \in DOMAIN shell.typed /\ i + 1 # 1
                             /\ t[i] = shell.typed[i + 1]
      /\ Only(shell.typed, Commands) = Chosen(l, Commands) \o Only(t, Commands)
  BY <1>1, TypedParts
<1>3. PICK echo \in {<<>>, <<Prompt>>} : chan' = chan \o echo \o <<Text>>
  BY DEF RunNext
<1>4. shell' = [shell EXCEPT !.running = l, !.typed = t]
  BY DEF RunNext
<1>5. UNCHANGED <<conn, hangup, pending_event, pending, evidence, at_prompt, record,
                  own, badge, dangerous, sandbox, screen, slipped, others, reconnects>>
  BY DEF RunNext, bounds
<1> HIDE DEF l, t
<1>6. /\ shell' \in ShellRecords /\ shell'.running = l /\ shell'.typed = t
      /\ shell'.alive = shell.alive /\ shell'.integrated = shell.integrated
  BY <1>1, <1>2, <1>4 DEF ShellRecords
<1> DEFINE s == echo \o <<Text>>
<1>7. s \in Seq(Items) /\ \A i \in DOMAIN s : s[i] \notin CommandMarks
  <2>1. Prompt \in Items /\ Text \in Items /\ Prompt \notin CommandMarks /\ Text \notin CommandMarks
    BY ItemFacts
  <2>2. CASE echo = <<>>
    BY <2>1, <2>2
  <2>3. CASE echo = <<Prompt>>
    BY <2>1, <2>3
  <2> QED
    BY <2>2, <2>3
<1>8. chan' = chan \o s
  <2>1. chan \in Seq(Items) /\ echo \in Seq(Items) /\ <<Text>> \in Seq(Items)
    <3>1. Prompt \in Items /\ Text \in Items
      BY ItemFacts
    <3>2. <<Prompt>> \in Seq(Items) /\ <<Text>> \in Seq(Items)
      BY <3>1
    <3>3. echo \in Seq(Items)
      <4>1. CASE echo = <<>>
        BY <4>1
      <4>2. CASE echo = <<Prompt>>
        BY <3>2, <4>2
      <4> QED
        BY <4>1, <4>2
    <3> QED
      BY <1>1, <3>2, <3>3, Typed
  <2> QED
    BY <1>3, <2>1
<1> HIDE DEF s
<1>9. Coming' = Coming /\ chan' \in Seq(Items)
  <2>1. Coming' = Coming \o Due(s) /\ chan' \in Seq(Items)
    BY <1>1, <1>5, <1>7, <1>8, ComingAppends
  <2>2. Due(s) = <<>> /\ Coming \in Seq(Commands)
    BY <1>1, <1>7, DueNothing, Typed
  <2> QED
    BY <2>1, <2>2
<1>10. TypeOK'
  BY <1>1, <1>5, <1>6, <1>9 DEF TypeOK, ShellRecords, IsInjective
<1>11. AskedFits'
  BY <1>5 DEF IInv, AskedFits
<1>12. TypedOnce'
  <2>1. ASSUME NEW i \in DOMAIN t, t[i] \in Commands
        PROVE  l # t[i] /\ \A j \in DOMAIN t : t[j] = t[i] => j = i
    <3>1. l # t[i]
      BY <1>2, <2>1 DEF IInv, TypedOnce
    <3>2. ASSUME NEW j \in DOMAIN t, t[j] = t[i]
          PROVE  j = i
      <4>1. j + 1 = i + 1
        BY <1>2, <2>1, <3>2 DEF IInv, TypedOnce
      <4>2. i \in Nat /\ j \in Nat
        BY <1>2
      <4> QED
        BY <4>1, <4>2
    <3> QED
      BY <3>1, <3>2
  <2> QED
    BY <1>6, <2>1 DEF TypedOnce
<1>13. ASSUME NEW c \in Commands
       PROVE  CommandFits(c)'
  <2>1. InTheShell(c)' => InTheShell(c)
    BY <1>2, <1>6 DEF InTheShell
  <2>2. (Unsent(c)' => Unsent(c)) /\ (Waits(c)' => Waits(c)) /\ own'[c] = own[c]
    BY <1>5 DEF Unsent, Waits
  <2> QED
    BY <2>1, <2>2, FitsKeeps DEF IInv
<1>14. Truthful(pending_event)' /\ Truthful(chan)'
  <2>1. Truthful(s)
    BY <1>7 DEF Truthful
  <2>2. Truthful(chan \o s)
    BY <1>1, <1>7, <2>1, Typed, TruthfulConcat DEF IInv
  <2> QED
    BY <1>5, <1>8, <2>2 DEF IInv, Truthful
<1>15. Agree'
  <2>1. InShell = Only(shell.typed, Commands)
    BY <1>1, CommandFacts, InShellIsHeld, HeldParts
  <2>2. InShell' = Chosen(l, Commands) \o Only(t, Commands)
    BY <1>6, HeldParts DEF InShell, Held
  <2> QED
    BY <1>2, <1>5, <1>6, <1>9, <2>1, <2>2, AgreeKeeps DEF IInv
<1> QED
  BY <1>10, <1>11, <1>12, <1>13, <1>14, <1>15 DEF IInv

LEMMA ReadByProgramKeeps == IInv /\ ReadByProgram => IInv'
<1> SUFFICES ASSUME IInv, ReadByProgram
             PROVE  IInv'
  OBVIOUS
<1> DEFINE l == Head(shell.typed)  t == Tail(shell.typed)
<1>1. TypeOK /\ shell.typed # <<>> /\ shell \in ShellRecords
  BY DEF IInv, ReadByProgram, TypeOK, ShellRecords
<1>2. /\ l \in Lines /\ t \in Seq(Lines)
      /\ shell.typed[1] = l /\ 1 \in DOMAIN shell.typed
      /\ \A i \in DOMAIN t : i + 1 \in DOMAIN shell.typed /\ i + 1 # 1
                             /\ t[i] = shell.typed[i + 1]
      /\ Only(shell.typed, Commands) = Chosen(l, Commands) \o Only(t, Commands)
  BY <1>1, TypedParts
<1>3. /\ shell' = [shell EXCEPT !.typed = t] /\ slipped' = (slipped \/ l \in Commands)
      /\ UNCHANGED <<conn, chan, hangup, pending_event, pending, evidence, at_prompt, record,
                     own, badge, dangerous, sandbox, screen, others, reconnects>>
  BY DEF ReadByProgram, bounds, loopVars
<1> HIDE DEF l, t
<1>4. /\ shell' \in ShellRecords /\ shell'.running = shell.running /\ shell'.typed = t
      /\ shell'.alive = shell.alive /\ shell'.integrated = shell.integrated
  BY <1>1, <1>2, <1>3 DEF ShellRecords
<1>5. slipped' \in BOOLEAN /\ (~slipped' => ~slipped /\ l \notin Commands)
  BY <1>1, <1>3 DEF TypeOK
<1>6. TypeOK'
  BY <1>1, <1>3, <1>4, <1>5 DEF TypeOK, ShellRecords, IsInjective
<1>7. AskedFits'
  BY <1>3 DEF IInv, AskedFits
<1>8. TypedOnce'
  <2>1. ASSUME NEW i \in DOMAIN t, t[i] \in Commands
        PROVE  shell.running # t[i] /\ \A j \in DOMAIN t : t[j] = t[i] => j = i
    <3>1. shell.running # t[i]
      BY <1>2, <2>1 DEF IInv, TypedOnce
    <3>2. ASSUME NEW j \in DOMAIN t, t[j] = t[i]
          PROVE  j = i
      <4>1. j + 1 = i + 1
        BY <1>2, <2>1, <3>2 DEF IInv, TypedOnce
      <4>2. i \in Nat /\ j \in Nat
        BY <1>2
      <4> QED
        BY <4>1, <4>2
    <3> QED
      BY <3>1, <3>2
  <2> QED
    BY <1>4, <2>1 DEF TypedOnce
<1>9. ASSUME NEW c \in Commands
      PROVE  CommandFits(c)'
  <2>1. InTheShell(c)' => InTheShell(c)
    BY <1>2, <1>4 DEF InTheShell
  <2>2. (Unsent(c)' => Unsent(c)) /\ (Waits(c)' => Waits(c)) /\ own'[c] = own[c]
    BY <1>3 DEF Unsent, Waits
  <2> QED
    BY <2>1, <2>2, FitsKeeps DEF IInv
<1>10. Truthful(pending_event)' /\ Truthful(chan)'
  BY <1>3 DEF IInv, Truthful
<1>11. Agree'
  <2>1. Coming' = Coming
    BY <1>3 DEF Coming
  <2>2. ASSUME l \notin Commands
        PROVE  InShell' = InShell
    <3>1. InShell = Held(shell.running, shell.typed) /\ InShell' = Held(shell.running, t)
      BY <1>1, <1>4, InShellIsHeld, HeldParts DEF InShell
    <3>2. Only(shell.typed, Commands) = Only(t, Commands)
      <4>1. Only(t, Commands) \in Seq(Lines \cap Commands)
        BY <1>2, OnlyTyped
      <4> DEFINE V == Lines \cap Commands
                 o == Only(t, Commands)
      <4> HIDE DEF V, o
      <4>2. <<>> \o o = o
        BY <4>1 DEF V, o
      <4> QED
        BY <1>2, <2>2, <4>2 DEF Chosen, o
    <3> QED
      BY <3>1, <3>2 DEF Held
  <2> QED
    BY <1>3, <1>4, <1>5, <2>1, <2>2, AgreeKeeps DEF IInv
<1> QED
  BY <1>6, <1>7, <1>8, <1>9, <1>10, <1>11 DEF IInv

\* A shell that is gone has nothing to run.
LEMMA ConnectionEndsKeeps == IInv /\ ConnectionEnds => IInv'
<1> SUFFICES ASSUME IInv, ConnectionEnds
             PROVE  IInv'
  OBVIOUS
<1>1. shell \in ShellRecords /\ TypeOK
  BY DEF IInv, TypeOK, ShellRecords
<1>2. /\ shell' = [shell EXCEPT !.alive = FALSE, !.typed = <<>>, !.running = "prompt"]
      /\ hangup' = TRUE
      /\ UNCHANGED <<conn, chan, pending_event, pending, evidence, at_prompt, record, own,
                     badge, dangerous, sandbox, screen, slipped, others, reconnects>>
  BY DEF ConnectionEnds, bounds
<1>3. /\ shell'.typed = <<>> /\ shell'.running = "prompt" /\ ~shell'.alive
      /\ shell' \in ShellRecords
  <2>1. <<>> \in Seq(Lines)
    OBVIOUS
  <2> QED
    BY <1>1, <1>2, <2>1 DEF ShellRecords
<1>4. TypeOK'
  BY <1>1, <1>2, <1>3 DEF TypeOK, ShellRecords, IsInjective
<1>5. AskedFits' /\ Truthful(pending_event)' /\ Truthful(chan)'
  BY <1>2 DEF IInv, AskedFits, Truthful
<1>6. TypedOnce'
  BY <1>3 DEF TypedOnce
<1>7. ASSUME NEW c \in Commands
      PROVE  CommandFits(c)'
  <2>1. ~InTheShell(c)'
    BY <1>3, CommandFacts DEF InTheShell
  <2>2. (Unsent(c)' => Unsent(c)) /\ (Waits(c)' => Waits(c)) /\ own'[c] = own[c]
    BY <1>2 DEF Unsent, Waits
  <2> QED
    BY <2>1, <2>2, FitsKeeps DEF IInv
<1>8. Agree'
  <2>1. Coming' = Coming
    BY <1>2 DEF Coming
  <2> QED
    BY <1>2, <1>3, <2>1, AgreeKeeps DEF IInv
<1> QED
  BY <1>4, <1>5, <1>6, <1>7, <1>8 DEF IInv

\* One more line is typed.
LEMMA TypedAppends ==
    ASSUME NEW s \in ShellRecords, NEW l \in Lines
    PROVE  LET t == Append(s.typed, l) IN
           /\ t \in Seq(Lines) /\ [s EXCEPT !.typed = t] \in ShellRecords
           /\ [s EXCEPT !.typed = t].typed = t
           /\ [s EXCEPT !.typed = t].running = s.running
           /\ [s EXCEPT !.typed = t].alive = s.alive
           /\ \A i \in DOMAIN t : \/ i \in DOMAIN s.typed /\ t[i] = s.typed[i]
                                  \/ i = Len(s.typed) + 1 /\ t[i] = l
           /\ Held(s.running, t) = Held(s.running, s.typed) \o Chosen(l, Commands)
<1> DEFINE t == Append(s.typed, l)
           o == Only(s.typed, Commands)
           c == Chosen(l, Commands)
           h == Chosen(s.running, Commands)
<1>1. s.typed \in Seq(Lines) /\ t \in Seq(Lines)
  BY DEF ShellRecords
<1>2. \A i \in DOMAIN t : \/ i \in DOMAIN s.typed /\ t[i] = s.typed[i]
                          \/ i = Len(s.typed) + 1 /\ t[i] = l
  BY <1>1
<1>3. Only(t, Commands) = o \o c
  BY <1>1, OnlyAppend
<1>4. o \in Seq(Commands) /\ c \in Seq(Commands) /\ h \in Seq(Commands)
  <2>1. o \in Seq(Commands)
    BY HeldParts
  <2>2. \A x : Chosen(x, Commands) \in Seq(Commands)
    BY DEF Chosen
  <2> QED
    BY <2>1, <2>2
<1>5. h \o (o \o c) = (h \o o) \o c
  <2> HIDE DEF h, o, c
  <2> QED
    BY <1>4
<1> HIDE DEF t
<1>6. /\ [s EXCEPT !.typed = t] \in ShellRecords
      /\ [s EXCEPT !.typed = t].typed = t
      /\ [s EXCEPT !.typed = t].running = s.running
      /\ [s EXCEPT !.typed = t].alive = s.alive
  BY <1>1 DEF ShellRecords
<1>7. Held(s.running, t) = Held(s.running, s.typed) \o Chosen(l, Commands)
  BY <1>3, <1>5 DEF Held
<1> QED
  BY <1>1, <1>2, <1>6, <1>7 DEF t

LEMMA UntrackedLineKeeps == IInv /\ UntrackedLine => IInv'
<1> SUFFICES ASSUME IInv, UntrackedLine
             PROVE  IInv'
  OBVIOUS
<1> DEFINE t == Append(shell.typed, Other)
<1>1. shell \in ShellRecords /\ TypeOK /\ Other \in Lines
  BY DEF IInv, TypeOK, ShellRecords, Lines
<1>2. /\ shell' = [shell EXCEPT !.typed = t] /\ others' = others + 1 /\ others < MaxOthers
      /\ UNCHANGED <<conn, chan, hangup, pending_event, pending, evidence, at_prompt, record,
                     own, badge, dangerous, sandbox, screen, slipped, reconnects>>
  BY DEF UntrackedLine, loopVars
<1>3. /\ shell' \in ShellRecords /\ shell'.typed = t /\ shell'.running = shell.running
      /\ shell'.alive = shell.alive
      /\ \A i \in DOMAIN t : \/ i \in DOMAIN shell.typed /\ t[i] = shell.typed[i]
                             \/ i = Len(shell.typed) + 1 /\ t[i] = Other
      /\ Held(shell.running, t) = Held(shell.running, shell.typed) \o Chosen(Other, Commands)
  BY <1>1, <1>2, TypedAppends
<1> HIDE DEF t
<1>4. TypeOK'
  <2>1. others' \in 0..MaxOthers
    BY <1>1, <1>2, CommandFacts DEF TypeOK
  <2> QED
    BY <1>1, <1>2, <1>3, <2>1 DEF TypeOK, ShellRecords, IsInjective
<1>5. AskedFits' /\ Truthful(pending_event)' /\ Truthful(chan)'
  BY <1>2 DEF IInv, AskedFits, Truthful
<1>6. TypedOnce'
  BY <1>3, CommandFacts DEF IInv, TypedOnce
<1>7. ASSUME NEW c \in Commands
      PROVE  CommandFits(c)'
  <2>1. InTheShell(c)' => InTheShell(c)
    BY <1>3, CommandFacts DEF InTheShell
  <2>2. (Unsent(c)' => Unsent(c)) /\ (Waits(c)' => Waits(c)) /\ own'[c] = own[c]
    BY <1>2 DEF Unsent, Waits
  <2> QED
    BY <2>1, <2>2, FitsKeeps DEF IInv
<1>8. Agree'
  <2>1. Coming' = Coming
    BY <1>2 DEF Coming
  <2>2. InShell' = InShell
    <3> DEFINE h == Held(shell.running, shell.typed)
    <3>1. InShell = h /\ h \in Seq(Commands)
      BY <1>1, InShellIsHeld
    <3>2. InShell' = Held(shell.running, t)
      BY <1>3, HeldParts DEF InShell
    <3>3. Held(shell.running, t) = h \o <<>>
      BY <1>3, CommandFacts DEF Chosen
    <3> HIDE DEF h
    <3>4. h \o <<>> = h
      BY <3>1
    <3> QED
      BY <3>1, <3>2, <3>3, <3>4
  <2> QED
    BY <1>2, <1>3, <2>1, <2>2, AgreeKeeps DEF IInv
<1> QED
  BY <1>4, <1>5, <1>6, <1>7, <1>8 DEF IInv

LEMMA FinishKeeps == IInv /\ Finish => IInv'
<1> SUFFICES ASSUME IInv, Finish
             PROVE  IInv'
  OBVIOUS
<1> DEFINE l == shell.running
<1>1. shell \in ShellRecords /\ TypeOK /\ l \in Lines /\ shell.alive
  BY DEF IInv, TypeOK, ShellRecords, Finish
<1>2. PICK r \in Results, setup \in BOOLEAN :
        LET integrated == shell.integrated \/ (setup /\ l = Other)
        IN  /\ shell' = [shell EXCEPT !.running = "prompt", !.integrated = integrated]
            /\ own' = IF l \in Commands THEN [own EXCEPT ![l] = r] ELSE own
            /\ chan' = chan \o (IF integrated THEN <<Mark(l, r), Prompt>>
                                              ELSE <<Prompt>>)
            /\ slipped' = (slipped \/ (l \in Commands /\ ~integrated))
  BY DEF Finish
<1> DEFINE integrated == shell.integrated \/ (setup /\ l = Other)
           s == IF integrated THEN <<Mark(l, r), Prompt>> ELSE <<Prompt>>
<1>3. UNCHANGED <<conn, hangup, pending_event, pending, evidence, at_prompt,
                  record, badge, dangerous, sandbox, screen, others, reconnects>>
  BY DEF Finish, bounds
<1>4. integrated \in BOOLEAN
  BY <1>1 DEF ShellRecords
<1>5. /\ own' = (IF l \in Commands THEN [own EXCEPT ![l] = r] ELSE own)
      /\ chan' = chan \o s
      /\ slipped' = (slipped \/ (l \in Commands /\ ~integrated))
  BY <1>2
<1>6. /\ shell' \in ShellRecords /\ shell'.running = "prompt"
      /\ shell'.typed = shell.typed /\ shell'.alive = shell.alive
  <2>1. shell' = [shell EXCEPT !.running = "prompt", !.integrated = integrated]
    BY <1>2
  <2> HIDE DEF integrated
  <2> QED
    BY <1>1, <1>4, <2>1 DEF ShellRecords
<1> HIDE DEF integrated
<1>7. own' \in [Commands -> Results \cup {"none"}] /\ \A c \in Commands \ {l} : own'[c] = own[c]
  BY <1>5 DEF IInv, TypeOK
<1>8. /\ s \in Seq(Items)
      /\ \A i \in DOMAIN s : s[i] \in CommandMarks =>
            integrated /\ l \in Commands /\ s[i].by = l /\ s[i].result = r
      /\ Due(s) = IF integrated /\ l \in Commands THEN <<l>> ELSE <<>>
  <2>1. /\ Prompt \in Items /\ Prompt \notin CommandMarks
        /\ Mark(l, r) \in Items /\ Mark(l, r).by = l /\ Mark(l, r).result = r
        /\ Mark(l, r) \in CommandMarks <=> l \in Commands
    BY <1>1, ItemFacts
  <2>2. <<Prompt>> \in Seq(Items) /\ <<Mark(l, r)>> \in Seq(Items)
    BY <2>1
  <2>3. Due(<<Prompt>>) = <<>>
    BY <2>1, DueSkips
  <2>4. CASE integrated
    <3>1. s = <<Mark(l, r)>> \o <<Prompt>> /\ s = <<Mark(l, r), Prompt>>
      BY <2>4
    <3>2. Due(s) = Due(<<Mark(l, r)>>) \o <<>>
      BY <2>2, <2>3, <3>1, DueConcat
    <3>3. Due(<<Mark(l, r)>>) = IF l \in Commands THEN <<l>> ELSE <<>>
      <4>1. CASE l \in Commands
        BY <2>1, <4>1, DueOne
      <4>2. CASE l \notin Commands
        BY <2>1, <4>2, DueSkips
      <4> QED
        BY <4>1, <4>2
    <3>4. Due(s) = IF l \in Commands THEN <<l>> ELSE <<>>
      <4>1. <<l>> \o <<>> = <<l>> /\ <<>> \o <<>> = <<>>
        OBVIOUS
      <4> QED
        BY <3>2, <3>3, <4>1
    <3> HIDE DEF s
    <3>5. s \in Seq(Items) /\ DOMAIN s = {1, 2} /\ s[1] = Mark(l, r) /\ s[2] = Prompt
      BY <2>1, <3>1
    <3> QED
      BY <2>1, <2>4, <3>4, <3>5
  <2>5. CASE ~integrated
    BY <2>1, <2>2, <2>3, <2>5
  <2> QED
    BY <2>4, <2>5
<1> HIDE DEF s
<1>9. Coming' = Coming \o Due(s) /\ chan' \in Seq(Items)
  BY <1>1, <1>3, <1>5, <1>8, ComingAppends
<1>10. TypeOK'
  <2>1. slipped' \in BOOLEAN
    BY <1>5
  <2> QED
    BY <1>1, <1>3, <1>6, <1>7, <1>9, <2>1 DEF TypeOK, ShellRecords, IsInjective
<1>11. AskedFits'
  BY <1>3 DEF IInv, AskedFits
<1>12. TypedOnce'
  BY <1>6, CommandFacts DEF IInv, TypedOnce
<1>13. ASSUME NEW c \in Commands
       PROVE  CommandFits(c)'
  <2>1. InTheShell(c)' => InTheShell(c) /\ c # l
    BY <1>6, CommandFacts DEF IInv, TypedOnce, InTheShell
  <2>2. (Unsent(c)' => Unsent(c)) /\ (Waits(c)' => Waits(c))
    BY <1>3 DEF Unsent, Waits
  <2>3. Unsent(c) => c # l
    BY DEF IInv, CommandFits, InTheShell
  <2>4. CASE c = l
    BY <2>1, <2>2, <2>3, <2>4 DEF CommandFits
  <2>5. CASE c # l
    BY <1>7, <2>1, <2>2, <2>5, FitsKeeps DEF IInv
  <2> QED
    BY <2>4, <2>5
<1>14. \A m \in CommandMarks : own[m.by] = m.result => own'[m.by] = own[m.by]
  <2>1. ASSUME NEW m \in CommandMarks, own[m.by] = m.result
        PROVE  m.by # l
    <3>1. m.by \in Commands /\ m.result \in Results /\ "none" \notin Results
      BY DEF CommandMarks, Results
    <3> QED
      BY <2>1, <3>1 DEF IInv, CommandFits, InTheShell
  <2>2. \A m \in CommandMarks : m.by \in Commands
    BY DEF CommandMarks
  <2> QED
    BY <1>7, <2>1, <2>2
<1>15. Truthful(pending_event)' /\ Truthful(chan)'
  <2>1. ASSUME NEW q \in Seq(Items), Truthful(q)
        PROVE  \A i \in DOMAIN q : q[i] \in CommandMarks => own'[q[i].by] = q[i].result
    BY <1>14, <2>1 DEF Truthful
  <2>2. ASSUME NEW i \in DOMAIN chan', chan'[i] \in CommandMarks
        PROVE  own'[chan'[i].by] = chan'[i].result
    <3>1. chan \in Seq(Items)
      BY <1>1, Typed
    <3>2. CASE i <= Len(chan)
      <4>1. i \in DOMAIN chan /\ chan'[i] = chan[i]
        BY <1>5, <1>8, <3>1, <3>2
      <4> QED
        BY <2>1, <2>2, <3>1, <4>1 DEF IInv
    <3>3. CASE ~(i <= Len(chan))
      <4>1. i - Len(chan) \in DOMAIN s /\ chan'[i] = s[i - Len(chan)]
        BY <1>5, <1>8, <3>1, <3>3
      <4>2. l \in Commands /\ chan'[i].by = l /\ chan'[i].result = r
        BY <1>8, <2>2, <4>1
      <4>3. own'[l] = r
        BY <1>1, <1>5, <4>2 DEF TypeOK
      <4> QED
        BY <4>2, <4>3
    <3> QED
      BY <3>2, <3>3
  <2>3. pending_event \in Seq(Items)
    BY <1>1, Typed
  <2> QED
    BY <1>3, <2>1, <2>2, <2>3 DEF IInv, Truthful
<1>16. Agree'
  <2> SUFFICES ASSUME ~slipped'
               PROVE  \E rest \in Seq(Commands) :
                         pending' = Coming' \o rest /\ (shell'.alive => rest = InShell')
    BY DEF Agree
  <2>1. ~slipped /\ (l \in Commands => integrated)
    BY <1>5
  <2>2. pending = Coming \o InShell
    BY <1>1, <2>1 DEF IInv, Agree
  <2> DEFINE o == Only(shell.typed, Commands)
             d == Due(s)
  <2>3. InShell' = o /\ o \in Seq(Commands)
    BY <1>1, <1>6, CommandFacts, HeldParts DEF InShell
  <2>4. InShell = d \o o
    <3>1. InShell = Held(l, shell.typed)
      BY <1>1, InShellIsHeld
    <3> QED
      BY <1>8, <2>1, <3>1 DEF Held, Chosen
  <2>5. d \in Seq(Commands) /\ Coming \in Seq(Commands)
    BY <1>1, <1>8, DueTyped, Typed
  <2>6. Coming \o (d \o o) = (Coming \o d) \o o
    <3> HIDE DEF d, o
    <3> QED
      BY <2>3, <2>5
  <2>7. pending' = Coming' \o o
    BY <1>3, <1>9, <2>2, <2>4, <2>6
  <2> QED
    BY <2>3, <2>7
<1> QED
  BY <1>10, <1>11, <1>12, <1>13, <1>15, <1>16 DEF IInv

-----------------------------------------------------------------------------
(* Submissions.                                                            *)

\* The queue without its oldest command when it is full.
Room == IF Len(pending) >= MaxPending THEN Tail(pending) ELSE pending

LEMMA Queued ==
    ASSUME TypeOK, NEW c \in Commands, ~Waits(c), NEW sent \in BOOLEAN,
           dispatch_approved_command(c, sent)
    PROVE  /\ pending' = IF sent THEN Append(Room, c) ELSE Room
           /\ pending' \in Seq(Commands) /\ IsInjective(pending)'
           /\ Len(pending') <= MaxPending
           /\ \A d \in Commands : Waits(d)' => Waits(d) \/ d = c
           /\ ~slipped' => ~slipped /\ Room = pending
           /\ slipped' \in BOOLEAN
<1>1. pending \in Seq(Commands) /\ Len(pending) <= MaxPending /\ MaxPending \in Nat \ {0}
  BY CommandFacts DEF TypeOK
<1>2. \A i, j \in DOMAIN pending : pending[i] = pending[j] => i = j
  BY DEF TypeOK, IsInjective
<1>3. /\ Room \in Seq(Commands) /\ Len(Room) < MaxPending
      /\ \A i \in DOMAIN Room : \E k \in DOMAIN pending : Room[i] = pending[k]
      /\ \A i, j \in DOMAIN Room : Room[i] = Room[j] => i = j
  <2>1. CASE Len(pending) >= MaxPending
    <3>1. pending # <<>> /\ Room = Tail(pending)
      BY <1>1, <2>1 DEF Room
    <3>2. /\ Room \in Seq(Commands) /\ Len(Room) = Len(pending) - 1
          /\ \A i \in DOMAIN Room : i + 1 \in DOMAIN pending /\ Room[i] = pending[i + 1]
                                    /\ i \in Nat
      BY <1>1, <3>1
    <3>3. ASSUME NEW i \in DOMAIN Room, NEW j \in DOMAIN Room, Room[i] = Room[j]
          PROVE  i = j
      <4>1. i + 1 = j + 1
        BY <1>2, <3>2, <3>3
      <4> QED
        BY <3>2, <4>1
    <3> QED
      BY <1>1, <3>2, <3>3
  <2>2. CASE ~(Len(pending) >= MaxPending)
    BY <1>1, <1>2, <2>2 DEF Room
  <2> QED
    BY <2>1, <2>2
<1> DEFINE q == Append(Room, c)
<1>4. /\ q \in Seq(Commands) /\ Len(q) = Len(Room) + 1 /\ q # <<>>
      /\ q[Len(q)] = c /\ \A i \in DOMAIN Room : q[i] = Room[i] /\ i \in DOMAIN q
      /\ \A i \in DOMAIN q : i \in DOMAIN Room \/ i = Len(q)
  BY <1>3
<1>5. Last(q) = c /\ Front(q) = Room
  <2>1. SubSeq(q, 1, Len(q) - 1) = Room
    BY <1>3
  <2> QED
    BY <1>4, <2>1 DEF Last, Front
<1>6. enqueue_pending_exit(c) = q
  BY DEF enqueue_pending_exit, Room
<1>7. pending' = IF sent THEN q ELSE Room
  BY <1>5, <1>6 DEF dispatch_approved_command, rollback_pending_exit
<1> HIDE DEF q
<1>8. \A i \in DOMAIN Room : Room[i] # c
  BY <1>3 DEF Waits
<1>9. \A i, j \in DOMAIN q : q[i] = q[j] => i = j
  BY <1>3, <1>4, <1>8
<1>10. pending' \in Seq(Commands) /\ Len(pending') <= MaxPending /\ IsInjective(pending)'
  <2>1. CASE sent
    BY <1>1, <1>3, <1>4, <1>7, <1>9, <2>1 DEF IsInjective
  <2>2. CASE ~sent
    BY <1>1, <1>3, <1>7, <2>2 DEF IsInjective
  <2> QED
    BY <2>1, <2>2
<1>11. ASSUME NEW d \in Commands, Waits(d)'
       PROVE  Waits(d) \/ d = c
  <2>1. PICK i \in DOMAIN pending' : pending'[i] = d
    BY <1>11 DEF Waits
  <2>2. CASE sent
    BY <1>3, <1>4, <1>7, <2>1, <2>2 DEF Waits
  <2>3. CASE ~sent
    BY <1>3, <1>7, <2>1, <2>3 DEF Waits
  <2> QED
    BY <2>2, <2>3
<1>12. slipped' \in BOOLEAN /\ (~slipped' => ~slipped /\ Room = pending)
  BY <1>1 DEF dispatch_approved_command, Room
<1> QED
  BY <1>7, <1>10, <1>11, <1>12 DEF q

\* A command that was not sent goes into the shell, or nowhere; it is in no other
\* place, and what is to come of the others stays as it is.
LEMMA DispatchKeeps ==
    ASSUME IInv, NEW c \in Commands, Unsent(c), NEW sent \in BOOLEAN,
           dispatch_approved_command(c, sent),
           UNCHANGED <<chan, pending_event, own>>, ~Unsent(c)',
           \A d \in Commands : Unsent(d)' => Unsent(d)
    PROVE  /\ pending' \in Seq(Commands) /\ IsInjective(pending)' /\ Len(pending') <= MaxPending
           /\ shell' \in ShellRecords /\ slipped' \in BOOLEAN
           /\ badge' \in {"Idle", badge}
           /\ TypedOnce' /\ Agree' /\ \A d \in Commands : CommandFits(d)'
<1>1. /\ TypeOK /\ shell \in ShellRecords /\ c \in Lines
      /\ ~InTheShell(c) /\ ~Waits(c) /\ own[c] = "none"
  BY DEF IInv, TypeOK, ShellRecords, CommandFits, Lines
<1>2. /\ pending' = IF sent THEN Append(Room, c) ELSE Room
      /\ pending' \in Seq(Commands) /\ IsInjective(pending)'
      /\ Len(pending') <= MaxPending
      /\ \A d \in Commands : Waits(d)' => Waits(d) \/ d = c
      /\ ~slipped' => ~slipped /\ Room = pending
      /\ slipped' \in BOOLEAN
  BY <1>1, Queued
<1> DEFINE t == Append(shell.typed, c)
<1>3. /\ [shell EXCEPT !.typed = t] \in ShellRecords
      /\ [shell EXCEPT !.typed = t].typed = t
      /\ [shell EXCEPT !.typed = t].running = shell.running
      /\ [shell EXCEPT !.typed = t].alive = shell.alive
      /\ \A i \in DOMAIN t : \/ i \in DOMAIN shell.typed /\ t[i] = shell.typed[i]
                             \/ i = Len(shell.typed) + 1 /\ t[i] = c
      /\ Held(shell.running, t) = Held(shell.running, shell.typed) \o Chosen(c, Commands)
  BY <1>1, TypedAppends
<1>4. shell' = IF sent /\ shell.alive THEN [shell EXCEPT !.typed = t] ELSE shell
  BY DEF dispatch_approved_command
<1>5. badge' \in {"Idle", badge}
  BY DEF dispatch_approved_command
<1> HIDE DEF t
<1>6. /\ shell' \in ShellRecords /\ shell'.running = shell.running /\ shell'.alive = shell.alive
      /\ shell'.typed = IF sent /\ shell.alive THEN t ELSE shell.typed
  BY <1>1, <1>3, <1>4
<1>7. TypedOnce'
  <2>1. CASE sent /\ shell.alive
    <3>1. ASSUME NEW i \in DOMAIN t, t[i] \in Commands
          PROVE  shell.running # t[i] /\ \A j \in DOMAIN t : t[j] = t[i] => j = i
      BY <1>1, <1>3, <3>1 DEF IInv, TypedOnce, InTheShell
    <3> QED
      BY <1>6, <2>1, <3>1 DEF TypedOnce
  <2>2. CASE ~(sent /\ shell.alive)
    BY <1>6, <2>2 DEF IInv, TypedOnce
  <2> QED
    BY <2>1, <2>2
<1>8. ASSUME NEW d \in Commands
      PROVE  CommandFits(d)'
  <2>1. InTheShell(d)' => InTheShell(d) \/ d = c
    <3>1. CASE sent /\ shell.alive
      BY <1>3, <1>6, <3>1 DEF InTheShell
    <3>2. CASE ~(sent /\ shell.alive)
      BY <1>6, <3>2 DEF InTheShell
    <3> QED
      BY <3>1, <3>2
  <2>2. CASE d = c
    BY <1>1, <2>2 DEF CommandFits
  <2>3. CASE d # c
    BY <1>2, <2>1, <2>3, FitsKeeps DEF IInv
  <2> QED
    BY <2>2, <2>3
<1>9. Agree'
  <2> SUFFICES ASSUME ~slipped'
               PROVE  \E rest \in Seq(Commands) :
                         pending' = Coming' \o rest /\ (shell'.alive => rest = InShell')
    BY DEF Agree
  <2>1. ~slipped /\ Room = pending /\ Coming' = Coming
    BY <1>2 DEF Coming
  <2>2. PICK rest \in Seq(Commands) :
          pending = Coming \o rest /\ (shell.alive => rest = InShell)
    BY <2>1 DEF IInv, Agree
  <2>3. Coming \in Seq(Commands) /\ Append(rest, c) \in Seq(Commands)
    BY <1>1, Typed
  <2>4. /\ InShell = Held(shell.running, shell.typed)
        /\ InShell' = Held(shell.running, shell'.typed)
    BY <1>1, <1>6, InShellIsHeld, HeldParts DEF InShell
  <2>5. CASE sent
    <3>1. Append(Coming \o rest, c) = Coming \o Append(rest, c)
      BY <2>3
    <3>2. pending' = Coming' \o Append(rest, c)
      BY <1>2, <2>1, <2>2, <2>5, <3>1
    <3>3. ASSUME shell.alive
          PROVE  Append(rest, c) = InShell'
      <4>1. InShell' = InShell \o <<c>>
        BY <1>3, <1>6, <2>4, <2>5, <3>3 DEF Chosen
      <4>2. rest \o <<c>> = Append(rest, c)
        OBVIOUS
      <4> QED
        BY <2>2, <3>3, <4>1, <4>2
    <3> QED
      BY <1>6, <2>3, <3>2, <3>3
  <2>6. CASE ~sent
    <3>1. pending' = Coming' \o rest
      BY <1>2, <2>1, <2>2, <2>6
    <3>2. InShell' = InShell
      BY <1>6, <2>4, <2>6
    <3> QED
      BY <1>6, <2>2, <3>1, <3>2
  <2> QED
    BY <2>5, <2>6
<1> QED
  BY <1>2, <1>5, <1>6, <1>7, <1>8, <1>9

LEMMA SubmissionKeeps ==
    ASSUME IInv, NEW c \in Commands, request_command_submission(c)
    PROVE  IInv'
<1>1. /\ c \notin Suggested /\ record[c] = "new" /\ record' = [record EXCEPT ![c] = "asked"]
      /\ UNCHANGED <<conn, chan, hangup, pending_event, at_prompt, screen, evidence, own,
                     sandbox, others, reconnects>>
  BY DEF request_command_submission, loopVars, bounds
<1>2. /\ TypeOK
      /\ record \in [Commands -> {"new", "asked", "success", "failed", "unknown"}]
      /\ dangerous # c /\ sandbox.cmd # c
  <2>1. /\ TypeOK
        /\ record \in [Commands -> {"new", "asked", "success", "failed", "unknown"}]
    BY DEF IInv, TypeOK
  <2>2. AskedFits /\ c # Nobody
    BY CommandFacts DEF IInv
  <2>3. dangerous # c /\ sandbox.cmd # c
    BY <1>1, <2>2 DEF AskedFits
  <2> QED
    BY <2>1, <2>3
<1>3. \A d \in Commands : record'[d] = IF d = c THEN "asked" ELSE record[d]
  BY <1>1, <1>2
<1>4. record' \in [Commands -> {"new", "asked", "success", "failed", "unknown"}]
  BY <1>1, <1>2
<1>5. Truthful(pending_event)' /\ Truthful(chan)'
  BY <1>1 DEF IInv, Truthful
<1>6. sandbox.cmd # Nobody => sandbox.cmd \in Suggested /\ record'[sandbox.cmd] # "new"
  BY <1>3, CommandFacts DEF IInv, AskedFits
<1>7. CASE c \in Dangerous
  <2>1. dangerous' = c /\ UNCHANGED <<pending, shell, badge, slipped>>
    BY <1>7 DEF request_command_submission
  <2>2. TypeOK'
    BY <1>1, <1>2, <1>4, <2>1 DEF TypeOK, IsInjective
  <2>3. AskedFits'
    BY <1>1, <1>3, <1>6, <2>1 DEF AskedFits
  <2>4. \A d \in Commands : Unsent(d)' => Unsent(d)
    BY <1>1, <1>3, <2>1 DEF Unsent
  <2> QED
    BY <1>1, <2>1, <2>2, <2>3, <2>4, QuietKeeps
<1>8. CASE c \notin Dangerous
  <2>1. PICK sent \in SendOk : dispatch_approved_command(c, sent)
    BY <1>8 DEF request_command_submission
  <2>2. sent \in BOOLEAN /\ dangerous' = dangerous
    BY <1>8 DEF request_command_submission, SendOk
  <2>3. \A d \in Commands : Unsent(d)' => Unsent(d)
    BY <1>1, <1>3, <2>2 DEF Unsent
  <2>4. Unsent(c) /\ ~Unsent(c)'
    BY <1>1, <1>2, <1>3, <2>2 DEF Unsent
  <2>5. /\ pending' \in Seq(Commands) /\ IsInjective(pending)' /\ Len(pending') <= MaxPending
        /\ shell' \in ShellRecords /\ slipped' \in BOOLEAN
        /\ badge' \in {"Idle", badge}
        /\ TypedOnce' /\ Agree' /\ \A d \in Commands : CommandFits(d)'
    BY <1>1, <2>1, <2>2, <2>3, <2>4, DispatchKeeps
  <2>6. TypeOK'
    BY <1>1, <1>2, <1>4, <2>2, <2>5 DEF TypeOK, ShellRecords
  <2>7. AskedFits'
    BY <1>1, <1>3, <1>6, <2>2, CommandFacts DEF IInv, AskedFits, TypeOK
  <2> QED
    BY <1>5, <2>5, <2>6, <2>7 DEF IInv
<1> QED
  BY <1>7, <1>8

LEMMA ProceedKeeps == IInv /\ Proceed => IInv'
<1> SUFFICES ASSUME IInv, Proceed
             PROVE  IInv'
  OBVIOUS
<1>1. /\ dangerous # Nobody /\ dangerous' = Nobody
      /\ UNCHANGED <<conn, chan, hangup, pending_event, at_prompt, screen, evidence, own,
                     record, sandbox, others, reconnects>>
  BY DEF Proceed, loopVars, bounds
<1>2. PICK sent \in SendOk : dispatch_approved_command(dangerous, sent)
  BY DEF Proceed
<1>3. TypeOK /\ dangerous \in Commands /\ sent \in BOOLEAN
  BY <1>1 DEF IInv, TypeOK, SendOk
<1>4. record[dangerous] # "new" /\ sandbox.cmd # dangerous
  BY <1>1, CommandFacts, <1>3 DEF IInv, AskedFits
<1>5. \A d \in Commands : Unsent(d)' => Unsent(d)
  BY <1>1, CommandFacts DEF Unsent
<1>6. Unsent(dangerous) /\ \A d \in Commands : d = dangerous => ~Unsent(d)'
  BY <1>1, <1>3, <1>4, CommandFacts DEF Unsent
<1> DEFINE c == dangerous
<1>7. PICK d \in Commands : d = dangerous
  BY <1>3
<1>8. /\ pending' \in Seq(Commands) /\ IsInjective(pending)' /\ Len(pending') <= MaxPending
      /\ shell' \in ShellRecords /\ slipped' \in BOOLEAN
      /\ badge' \in {"Idle", badge}
      /\ TypedOnce' /\ Agree' /\ \A e \in Commands : CommandFits(e)'
  <2>1. Unsent(d) /\ ~Unsent(d)' /\ dispatch_approved_command(d, sent)
    BY <1>2, <1>6, <1>7
  <2> QED
    BY <1>1, <1>3, <1>5, <2>1, DispatchKeeps
<1>9. TypeOK'
  BY <1>1, <1>3, <1>8 DEF TypeOK, ShellRecords
<1>10. AskedFits' /\ Truthful(pending_event)' /\ Truthful(chan)'
  BY <1>1 DEF IInv, AskedFits, Truthful
<1> QED
  BY <1>8, <1>9, <1>10 DEF IInv

LEMMA ApproveKeeps == IInv /\ approve_execution => IInv'
<1> SUFFICES ASSUME IInv, approve_execution
             PROVE  IInv'
  OBVIOUS
<1>1. /\ sandbox.phase = "AwaitingExecution"
      /\ UNCHANGED <<conn, chan, hangup, pending_event, at_prompt, screen, evidence, own,
                     record, dangerous, others, reconnects>>
  BY DEF approve_execution, loopVars, bounds
<1>2. PICK sent \in SendOk :
        /\ sandbox' = [sandbox EXCEPT !.phase =
                          IF sent THEN "Capturing" ELSE "AwaitingResultSharing"]
        /\ dispatch_approved_command(sandbox.cmd, sent)
  BY DEF approve_execution
<1>3. TypeOK /\ sent \in BOOLEAN /\ SandboxOK(sandbox)
  BY HelpersTyped DEF IInv, SendOk
<1>4. /\ SandboxOK(sandbox)' /\ sandbox'.cmd = sandbox.cmd
      /\ sandbox'.phase \in {"Capturing", "AwaitingResultSharing"}
  BY <1>1, <1>2, <1>3 DEF SandboxOK, SandboxRecords
<1>5. PICK d \in Commands : d = sandbox.cmd
  BY <1>1, <1>3 DEF SandboxOK, SandboxRecords
<1>6. record[d] # "new" /\ dangerous # d
  BY <1>5, CommandFacts DEF IInv, AskedFits
<1>7. \A e \in Commands : Unsent(e)' => Unsent(e)
  BY <1>1, <1>4 DEF Unsent
<1>8. Unsent(d) /\ ~Unsent(d)'
  BY <1>1, <1>4, <1>5, <1>6 DEF Unsent
<1>9. /\ pending' \in Seq(Commands) /\ IsInjective(pending)' /\ Len(pending') <= MaxPending
      /\ shell' \in ShellRecords /\ slipped' \in BOOLEAN
      /\ badge' \in {"Idle", badge}
      /\ TypedOnce' /\ Agree' /\ \A e \in Commands : CommandFits(e)'
  BY <1>1, <1>2, <1>3, <1>5, <1>7, <1>8, DispatchKeeps
<1>10. TypeOK'
  BY <1>1, <1>3, <1>4, <1>9 DEF TypeOK, ShellRecords, SandboxOK, SandboxRecords
<1>11. AskedFits' /\ Truthful(pending_event)' /\ Truthful(chan)'
  BY <1>1, <1>4 DEF IInv, AskedFits, Truthful
<1> QED
  BY <1>9, <1>10, <1>11 DEF IInv

-----------------------------------------------------------------------------
(* The end of a connection, and the next one.                              *)

LEMMA EmptyKeeps ==
    ASSUME IInv, TypeOK', AskedFits', pending' = <<>>, chan' = <<>>, pending_event' = <<>>,
           shell'.typed = <<>>, shell'.running = "prompt", own' = own,
           \A c \in Commands : Unsent(c)' => Unsent(c)
    PROVE  IInv'
<1>1. TypedOnce' /\ Truthful(pending_event)' /\ Truthful(chan)'
  BY DEF TypedOnce, Truthful
<1>2. ASSUME NEW c \in Commands
      PROVE  CommandFits(c)'
  <2>1. ~InTheShell(c)' /\ ~Waits(c)'
    BY CommandFacts DEF InTheShell, Waits
  <2> QED
    BY <2>1 DEF IInv, CommandFits
<1>3. Agree'
  <2>1. Coming' = <<>>
    <3>1. <<>> \o <<>> = <<>>
      OBVIOUS
    <3> QED
      BY <3>1, OnlyOfNone, AuthorsFacts DEF Coming, Due
  <2>2. InShell' = <<>>
    <3>1. shell' \in ShellRecords
      BY DEF TypeOK, ShellRecords
    <3>2. InShell' = Only(shell'.typed, Commands)
      BY <3>1, HeldParts, CommandFacts DEF InShell
    <3> QED
      BY <3>2, OnlyOfNone
  <2>3. <<>> = <<>> \o <<>> /\ <<>> \in Seq(Commands)
    OBVIOUS
  <2> QED
    BY <2>1, <2>2, <2>3 DEF Agree
<1> QED
  BY <1>1, <1>2, <1>3 DEF IInv

LEMMA ReconnectKeeps == IInv /\ reconnect_session => IInv'
<1> SUFFICES ASSUME IInv, reconnect_session
             PROVE  IInv'
  OBVIOUS
<1>1. /\ conn' = "up" /\ reconnects < MaxReconnects /\ reconnects' = reconnects + 1
      /\ pending' = <<>> /\ at_prompt' = FALSE /\ badge' = "Success" /\ slipped' = FALSE
      /\ chan' = <<>> /\ pending_event' = <<>>
      /\ UNCHANGED <<hangup, evidence, record, own, dangerous, sandbox, screen, others>>
  BY DEF reconnect_session
<1>2. PICK i \in BOOLEAN :
        shell' = [alive |-> TRUE, typed |-> <<>>, running |-> "prompt", integrated |-> i]
  BY DEF reconnect_session
<1>3. shell' \in ShellRecords /\ shell'.typed = <<>> /\ shell'.running = "prompt"
  <2>1. <<>> \in Seq(Lines)
    OBVIOUS
  <2> QED
    BY <1>2, <2>1 DEF ShellRecords
<1>4. /\ <<>> \in Seq(Commands) /\ <<>> \in Seq(Items) /\ IsInjective(<<>>)
      /\ Len(<<>>) <= MaxPending
  BY CommandFacts DEF IsInjective
<1>5. reconnects' \in 0..MaxReconnects
  BY <1>1, CommandFacts DEF IInv, TypeOK
<1>6. TypeOK'
  BY <1>1, <1>3, <1>4, <1>5 DEF IInv, TypeOK, ShellRecords
<1>7. AskedFits' /\ \A c \in Commands : Unsent(c)' => Unsent(c)
  BY <1>1 DEF IInv, AskedFits, Unsent
<1> QED
  BY <1>1, <1>3, <1>6, <1>7, EmptyKeeps

LEMMA CloseKeeps == IInv /\ close_session => IInv'
<1> SUFFICES ASSUME IInv, close_session
             PROVE  IInv'
  OBVIOUS
<1>1. /\ conn' = "closed" /\ chan' = <<>> /\ hangup' = FALSE /\ pending_event' = <<>>
      /\ pending' = <<>> /\ evidence' = FALSE /\ at_prompt' = FALSE /\ sandbox' = NoSandbox
      /\ UNCHANGED <<record, own, badge, dangerous, screen, slipped, others, reconnects>>
      /\ shell' = [shell EXCEPT !.alive = FALSE, !.typed = <<>>, !.running = "prompt"]
  BY DEF close_session, bounds
<1>2. shell' \in ShellRecords /\ shell'.typed = <<>> /\ shell'.running = "prompt"
  <2>1. <<>> \in Seq(Lines) /\ shell \in ShellRecords
    BY DEF IInv, TypeOK, ShellRecords
  <2> QED
    BY <1>1, <2>1 DEF ShellRecords
<1>3. /\ <<>> \in Seq(Commands) /\ <<>> \in Seq(Items) /\ IsInjective(<<>>)
      /\ Len(<<>>) <= MaxPending
  BY CommandFacts DEF IsInjective
<1>4. SandboxOK(sandbox)'
  BY <1>1, HelpersTyped DEF IInv
<1>5. TypeOK'
  BY <1>1, <1>2, <1>3, <1>4 DEF IInv, TypeOK, ShellRecords, SandboxOK, SandboxRecords
<1>6. AskedFits' /\ \A c \in Commands : Unsent(c)' => Unsent(c)
  BY <1>1, CommandFacts DEF IInv, AskedFits, Unsent, NoSandbox
<1> QED
  BY <1>1, <1>2, <1>5, <1>6, EmptyKeeps

-----------------------------------------------------------------------------
(* A turn of the event loop.                                               *)

LEMMA TruthfulPart ==
    ASSUME NEW s \in Seq(Items), Truthful(s), NEW a \in Nat, NEW b \in Nat,
           a <= b, b <= Len(s)
    PROVE  Truthful(SubSeq(s, a + 1, b))
<1> DEFINE p == SubSeq(s, a + 1, b)
<1>1. \A i \in DOMAIN p : a + i \in DOMAIN s /\ p[i] = s[a + i]
  OBVIOUS
<1> HIDE DEF p
<1>2. Truthful(p)
  BY <1>1 DEF Truthful
<1> QED
  BY <1>2 DEF p

Outputs == Seq(Items)
Queues  == Seq(Commands)

LEMMA OutputsJoin ==
    ASSUME NEW x \in Outputs, NEW y \in Outputs
    PROVE  x \o y \in Outputs
BY DEF Outputs

LEMMA DueJoins ==
    ASSUME NEW x \in Outputs, NEW y \in Outputs
    PROVE  Due(x) \in Queues /\ Due(x \o y) = Due(x) \o Due(y)
<1>1. x \in Seq(Items) /\ y \in Seq(Items)
  BY DEF Outputs
<1>2. Due(x \o y) = Due(x) \o Due(y)
  BY <1>1, DueConcat
<1>3. Due(x) \in Queues
  BY <1>1, DueTyped DEF Queues
<1> QED
  BY <1>2, <1>3

Regroups(x, y, z) == Due(x) \o (Due(y) \o Due(z)) = (Due(x) \o Due(y)) \o Due(z)

LEMMA DueRegroups ==
    ASSUME NEW x \in Outputs, NEW y \in Outputs, NEW z \in Outputs
    PROVE  Regroups(x, y, z)
<1>1. Due(x) \in Seq(Commands) /\ Due(y) \in Seq(Commands) /\ Due(z) \in Seq(Commands)
  BY DueJoins DEF Queues
<1>2. PICK a \in Seq(Commands) : a = Due(x)
  BY <1>1
<1>3. PICK b \in Seq(Commands) : b = Due(y)
  BY <1>1
<1>4. PICK c \in Seq(Commands) : c = Due(z)
  BY <1>1
<1>5. a \o (b \o c) = (a \o b) \o c
  OBVIOUS
<1> QED
  BY <1>2, <1>3, <1>4, <1>5 DEF Regroups

LEMMA DueOfTheRest ==
    ASSUME NEW d \in Outputs, NEW k \in Outputs, Due(d) = <<>>
    PROVE  d \o k \in Outputs /\ Due(d \o k) = Due(k)
<1>1. Due(d \o k) = <<>> \o Due(k)
  <2>1. Due(d \o k) = Due(d) \o Due(k)
    BY DueJoins
  <2> QED
    BY <2>1, Zenon
<1>2. ASSUME NEW x \in Seq(Commands)
      PROVE  <<>> \o x = x
  OBVIOUS
<1>3. Due(k) \in Seq(Commands)
  BY DueJoins DEF Queues
<1>4. d \o k \in Outputs
  BY OutputsJoin
<1> QED
  BY <1>1, <1>2, <1>3, <1>4

\* Output in the pieces that a turn makes of it, and what the turn takes.
Pieces(o, p, a, b, s, r, y) == o = p \o (a \o (b \o (s \o r))) /\ y = (p \o a) \o b

Splits(o, y, k, r) == Due(o) = Due(y) \o Due(k \o r) /\ Due(o) = Due(y \o k) \o Due(r)

\* The markers to come are those of the pieces, of which s has only those in k.
LEMMA DueOfPieces ==
    ASSUME NEW o \in Outputs, NEW p \in Outputs, NEW a \in Outputs, NEW b \in Outputs,
           NEW s \in Outputs, NEW k \in Outputs, NEW r \in Outputs, NEW y \in Outputs,
           Pieces(o, p, a, b, s, r, y), Due(s) = Due(k)
    PROVE  Splits(o, y, k, r)
<1>3. PICK t \in Outputs : t = s \o r /\ Due(t) = Due(k) \o Due(r)
  <2>1. s \o r \in Outputs
    BY OutputsJoin
  <2>2. Due(s \o r) = Due(s) \o Due(r)
    BY DueJoins
  <2> QED
    BY <2>1, <2>2
<1>4. PICK u \in Outputs : u = b \o t /\ Due(u) = Due(b) \o Due(t)
  <2>1. b \o t \in Outputs
    BY OutputsJoin
  <2>2. Due(b \o t) = Due(b) \o Due(t)
    BY DueJoins
  <2> QED
    BY <2>1, <2>2
<1>5. PICK v \in Outputs : v = a \o u /\ Due(v) = Due(a) \o Due(u)
  <2>1. a \o u \in Outputs
    BY OutputsJoin
  <2>2. Due(a \o u) = Due(a) \o Due(u)
    BY DueJoins
  <2> QED
    BY <2>1, <2>2
<1>6. Due(p \o v) = Due(p) \o Due(v)
  BY DueJoins
<1>7. PICK x \in Outputs : x = p \o a /\ Due(x) = Due(p) \o Due(a)
  <2>1. p \o a \in Outputs
    BY OutputsJoin
  <2>2. Due(p \o a) = Due(p) \o Due(a)
    BY DueJoins
  <2> QED
    BY <2>1, <2>2
<1>8. Due(x \o b) = Due(x) \o Due(b)
  BY DueJoins
<1>9. o = p \o v /\ y = x \o b
  BY <1>3, <1>4, <1>5, <1>7 DEF Pieces
<1>10. Due(y \o k) = Due(y) \o Due(k) /\ Due(k \o r) = Due(k) \o Due(r)
  BY DueJoins
\* What Due(p \o v) is made of, bracketed from the left.
<1>11. Due(p) \o (Due(a) \o Due(u)) = Due(x) \o Due(u)
  <2>1. Regroups(p, a, u)
    BY DueRegroups
  <2> QED
    BY <1>7, <2>1, Zenon DEF Regroups
<1>12. Due(x) \o (Due(b) \o Due(t)) = Due(y) \o Due(t)
  <2>1. Regroups(x, b, t)
    BY DueRegroups
  <2> QED
    BY <1>8, <1>9, <2>1, Zenon DEF Regroups
<1>13. Due(y) \o (Due(k) \o Due(r)) = Due(y \o k) \o Due(r)
  <2>1. Regroups(y, k, r)
    BY DueRegroups
  <2> QED
    BY <1>10, <2>1, Zenon DEF Regroups
<1> QED
  BY <1>3, <1>4, <1>5, <1>6, <1>9, <1>10, <1>11, <1>12, <1>13 DEF Splits

\* What one turn takes, what it keeps and what it leaves come from the output that
\* was there; unless it sheds markers it loses none.
LEMMA Drained ==
    ASSUME TypeOK, Truthful(pending_event), Truthful(chan),
           NEW k \in 0..Len(chan), NEW ended \in BOOLEAN, pending_event = <<>> => k > 0
    PROVE  LET d == drain_output_batch(k, ended)
               next == SubSeq(chan, k + 1, Len(chan))
           IN  /\ d.batch \in Seq(Items) /\ d.tail \in Seq(Items) /\ next \in Seq(Items)
               /\ Truthful(d.batch) /\ Truthful(d.tail) /\ Truthful(next)
               /\ (\A i \in DOMAIN d.shed : d.shed[i] \notin Marks) =>
                     Coming = Due(d.batch) \o Due(d.tail \o next)
<1>1. /\ pending_event \in Seq(Items) /\ chan \in Seq(Items)
      /\ k \in Nat /\ k <= Len(chan) /\ Len(chan) \in Nat
  BY Typed
<1> DEFINE start == IF pending_event = <<>> THEN 1 ELSE 0
           a == SubSeq(chan, 1, start)
           seed == pending_event \o a
           room == IF Len(seed) < MaxBatch THEN MaxBatch - Len(seed) ELSE 0
           taken == IF k < start + room THEN k ELSE start + room
           b == SubSeq(chan, start + 1, taken)
           batch == seed \o b
           s == SubSeq(chan, taken + 1, k)
           n == IF Len(s) > MaxBacklog THEN Len(s) - MaxBacklog ELSE 0
           shed == SubSeq(s, 1, n)
           kept == SubSeq(s, n + 1, Len(s))
           next == SubSeq(chan, k + 1, Len(chan))
           d == drain_output_batch(k, ended)
<1>2. /\ d.batch = IF ended THEN batch \o kept ELSE batch
      /\ d.tail = IF ended THEN <<>> ELSE kept
      /\ d.shed = shed
  BY DEF drain_output_batch, shed_backlog_overflow
<1>3. start \in Nat /\ start <= k
  BY <1>1
<1> HIDE DEF start
<1>4. a \in Seq(Items) /\ Len(a) = start /\ Truthful(a)
  <2>1. start <= Len(chan)
    BY <1>1, <1>3
  <2>2. Truthful(SubSeq(chan, 0 + 1, start))
    BY <1>1, <1>3, <2>1, TruthfulPart
  <2> QED
    BY <1>1, <1>3, <2>1, <2>2
<1> HIDE DEF a
<1>5. room \in Nat
  <2>1. Len(seed) \in Nat
    BY <1>1, <1>4
  <2> QED
    BY <2>1, CommandFacts
<1> HIDE DEF room
<1>6. taken \in Nat /\ start <= taken /\ taken <= k
  BY <1>1, <1>3, <1>5
<1> HIDE DEF taken
<1>7. /\ b \in Seq(Items) /\ s \in Seq(Items) /\ next \in Seq(Items)
      /\ chan = a \o (b \o (s \o next))
  <2>1. PICK n1 \in Nat, n2 \in Nat, n3 \in Nat : n1 = start /\ n2 = taken /\ n3 = Len(chan)
    BY <1>1, <1>3, <1>6
  <2>2. n1 <= n2 /\ n2 <= k /\ k <= n3 /\ n3 <= Len(chan)
    BY <1>1, <1>6, <2>1
  <2>3. /\ SubSeq(chan, n1 + 1, n2) \in Seq(Items) /\ SubSeq(chan, n2 + 1, k) \in Seq(Items)
        /\ SubSeq(chan, k + 1, n3) \in Seq(Items)
    BY <1>1, <2>2
  <2>4. SubSeq(chan, 1, n3) = SubSeq(chan, 1, n1) \o SubSeq(chan, n1 + 1, n3)
    BY <1>1, <2>2
  <2>5. SubSeq(chan, n1 + 1, n3) = SubSeq(chan, n1 + 1, n2) \o SubSeq(chan, n2 + 1, n3)
    BY <1>1, <2>2
  <2>6. SubSeq(chan, n2 + 1, n3) = SubSeq(chan, n2 + 1, k) \o SubSeq(chan, k + 1, n3)
    BY <1>1, <2>2
  <2>7. SubSeq(chan, 1, n3) = chan
    BY <1>1, <2>1
  <2> QED
    BY <2>1, <2>3, <2>4, <2>5, <2>6, <2>7, Zenon DEF a
<1>8. Truthful(b) /\ Truthful(s) /\ Truthful(next)
  BY <1>1, <1>3, <1>6, TruthfulPart
<1> HIDE DEF b, s, next
<1>9. n \in Nat /\ n <= Len(s)
  BY <1>7, CommandFacts
<1> HIDE DEF n
<1>10. /\ s = shed \o kept /\ shed \in Seq(Items) /\ kept \in Seq(Items)
       /\ Truthful(kept)
  <2>0. n \in Nat /\ Len(s) \in Nat
    BY <1>7, <1>9
  <2>1. PICK n1 \in Nat, n2 \in Nat : n1 = n /\ n2 = Len(s)
    BY <2>0
  <2>2. n1 <= n2 /\ n2 <= Len(s)
    BY <1>9, <2>1
  <2>3. SubSeq(s, 1, n2) = SubSeq(s, 1, n1) \o SubSeq(s, n1 + 1, n2)
    BY <1>7, <2>2
  <2>4. SubSeq(s, 1, n2) = s
    BY <1>7, <2>1
  <2>5. SubSeq(s, 1, n1) \in Seq(Items) /\ SubSeq(s, n1 + 1, n2) \in Seq(Items)
    BY <1>7, <2>2
  <2>6. Truthful(SubSeq(s, n1 + 1, n2))
    BY <1>7, <1>8, <2>2, TruthfulPart
  <2> QED
    BY <2>1, <2>3, <2>4, <2>5, <2>6, Zenon
<1> HIDE DEF shed, kept
<1>11. /\ seed \in Seq(Items) /\ batch \in Seq(Items) /\ batch \o kept \in Seq(Items)
       /\ <<>> \in Seq(Items) /\ <<>> \o next = next
  BY <1>1, <1>4, <1>7, <1>10
<1>12. Truthful(batch) /\ Truthful(batch \o kept) /\ Truthful(<<>>)
  <2>1. Truthful(seed)
    BY <1>1, <1>4, TruthfulConcat
  <2> HIDE DEF seed
  <2>2. Truthful(batch)
    BY <1>7, <1>8, <1>11, <2>1, TruthfulConcat
  <2> HIDE DEF batch
  <2>3. Truthful(batch \o kept)
    BY <1>10, <1>11, <2>2, TruthfulConcat
  <2>4. Truthful(<<>>)
    BY DEF Truthful
  <2> QED
    BY <2>2, <2>3, <2>4
<1>13. ASSUME \A i \in DOMAIN shed : shed[i] \notin Marks
       PROVE  /\ Coming = Due(batch) \o Due(kept \o next)
              /\ Coming = Due(batch \o kept) \o Due(next)
  <2>1. Due(shed) = <<>>
    BY <1>10, <1>13, ItemFacts, DueNothing
  <2>2. Coming = Due(pending_event \o chan)
    BY DEF Coming
  <2>3. /\ pending_event \o chan \in Outputs
        /\ pending_event \in Outputs /\ a \in Outputs /\ b \in Outputs
        /\ s \in Outputs /\ shed \in Outputs /\ kept \in Outputs /\ next \in Outputs
        /\ batch \in Outputs
    BY <1>1, <1>4, <1>7, <1>10, <1>11 DEF Outputs
  <2>4. Pieces(pending_event \o chan, pending_event, a, b, s, next, batch)
    BY <1>7, Zenon DEF Pieces
  <2>5. Due(s) = Due(kept)
    BY <1>10, <2>1, <2>3, DueOfTheRest
  <2> HIDE DEF batch, next
  <2>6. Splits(pending_event \o chan, batch, kept, next)
    BY <2>3, <2>4, <2>5, DueOfPieces
  <2> QED
    BY <2>2, <2>6, Zenon DEF Splits
<1> HIDE DEF d, batch
<1>14. CASE ended
  BY <1>2, <1>7, <1>8, <1>11, <1>12, <1>13, <1>14 DEF d, next
<1>15. CASE ~ended
  BY <1>2, <1>7, <1>8, <1>10, <1>11, <1>12, <1>13, <1>15 DEF d, next
<1> QED
  BY <1>14, <1>15

\* What a turn does, by the markers it finds and the prompt it ends at.
Turn(line, marks) ==
    /\ chan' \in Seq(Items) /\ pending_event' \in Seq(Items) /\ screen' \in Screens
    /\ Truthful(chan') /\ Truthful(pending_event') /\ Truthful(marks)
    /\ at_prompt' = line
    /\ IF marks = <<>> THEN resolve_pending_command_via_prompt(line)
                       ELSE process_session_exit_code(take_exit_code(marks))
    /\ slipped' \in BOOLEAN
    /\ ~slipped' =>
          /\ ~slipped /\ Len(marks) <= 1
          /\ Coming = Authors(Only(marks, CommandMarks)) \o Coming'
          /\ marks # <<>> /\ Last(marks).by = Other =>
                pending = <<>> /\ sandbox.phase # "Capturing"
          /\ marks = <<>> => ~prompt_return_completion_target(line)
    /\ UNCHANGED <<conn, shell, hangup, own, dangerous, others, reconnects>>

LEMMA TurnOf ==
    ASSUME IInv, HandleOutput
    PROVE  \E line \in BOOLEAN, marks \in Seq(Marks) : Turn(line, marks)
<1>1. PICK k \in 0..Len(chan), ended \in BOOLEAN, open \in BOOLEAN :
        /\ pending_event = <<>> => k > 0
        /\ chan' = SubSeq(chan, k + 1, Len(chan))
        /\ LET d     == drain_output_batch(k, ended)
               marks == Only(d.batch, Marks)
               lines == Only(d.batch, Items \ Marks)
               line  == IF lines = <<>> THEN at_prompt
                        ELSE Last(lines).kind = "prompt"
               flush == pending_event = <<>> /\ open /\ screen.stash # "none"
               now   == IF flush THEN flush_pending_renders(screen) ELSE screen
           IN  /\ pending_event' = d.tail
               /\ at_prompt' = line
               /\ IF marks = <<>>
                  THEN resolve_pending_command_via_prompt(line)
                  ELSE process_session_exit_code(take_exit_code(marks))
               /\ screen' = apply_throttled_render(now, open /\ ~flush)
               /\ slipped' = (slipped \/ Slips(marks, d.shed, line))
  BY DEF HandleOutput
<1> DEFINE d     == drain_output_batch(k, ended)
           marks == Only(d.batch, Marks)
           lines == Only(d.batch, Items \ Marks)
           line  == IF lines = <<>> THEN at_prompt ELSE Last(lines).kind = "prompt"
           flush == pending_event = <<>> /\ open /\ screen.stash # "none"
           now   == IF flush THEN flush_pending_renders(screen) ELSE screen
           next  == SubSeq(chan, k + 1, Len(chan))
<1>2. UNCHANGED <<conn, shell, hangup, own, dangerous, others, reconnects>>
  BY DEF HandleOutput, bounds
<1>3. TypeOK /\ Truthful(pending_event) /\ Truthful(chan) /\ slipped \in BOOLEAN
  BY DEF IInv, TypeOK
<1>4. /\ d.batch \in Seq(Items) /\ d.tail \in Seq(Items) /\ next \in Seq(Items)
      /\ Truthful(d.batch) /\ Truthful(d.tail) /\ Truthful(next)
      /\ (\A i \in DOMAIN d.shed : d.shed[i] \notin Marks) =>
            Coming = Due(d.batch) \o Due(d.tail \o next)
  BY <1>1, <1>3, Drained
<1>5. pending_event' = d.tail /\ chan' = next
  BY <1>1
<1>6. at_prompt' = line
  BY <1>1
<1>7. IF marks = <<>> THEN resolve_pending_command_via_prompt(line)
                      ELSE process_session_exit_code(take_exit_code(marks))
  BY <1>1
<1>8. slipped' = (slipped \/ Slips(marks, d.shed, line))
  BY <1>1
<1>9. screen' \in Screens
  <2>1. screen' = apply_throttled_render(now, open /\ ~flush)
    BY <1>1
  <2>2. now \in Screens /\ (open /\ ~flush) \in BOOLEAN
    BY <1>3, HelpersTyped
  <2> QED
    BY <1>3, <2>1, <2>2, HelpersTyped
<1> HIDE DEF d, next
<1>10. marks \in Seq(Marks)
  <2>1. Items \cap Marks = Marks
    BY ItemFacts
  <2> QED
    BY <1>4, <2>1, OnlyTyped
<1>11. line \in BOOLEAN
  <2>1. at_prompt \in BOOLEAN
    BY <1>3 DEF TypeOK
  <2> QED
    BY <2>1
<1>12. Due(d.batch) = Authors(Only(marks, CommandMarks))
  <2>1. CommandMarks \subseteq Marks
    BY ItemFacts
  <2> QED
    BY <1>4, <2>1, OnlyOnly DEF Due
<1>13. Coming' = Due(d.tail \o next)
  BY <1>5 DEF Coming
<1>14. Truthful(marks)
  <2>1. \A i \in DOMAIN marks : \E j \in DOMAIN d.batch : d.batch[j] = marks[i]
    BY <1>4, OnlyFrom
  <2> QED
    BY <1>4, <2>1 DEF Truthful
<1> HIDE DEF marks, line
<1>15. slipped' \in BOOLEAN
  BY <1>3, <1>8 DEF Slips
<1>16. ~slipped' =>
          /\ ~slipped /\ Len(marks) <= 1
          /\ \A i \in DOMAIN d.shed : d.shed[i] \notin Marks
          /\ marks # <<>> /\ Last(marks).by = Other =>
                pending = <<>> /\ sandbox.phase # "Capturing"
          /\ marks = <<>> => ~prompt_return_completion_target(line)
  <2>1. Len(marks) \in Nat
    BY <1>10
  <2> SUFFICES ASSUME ~slipped'
               PROVE  /\ ~slipped /\ Len(marks) <= 1
                      /\ \A i \in DOMAIN d.shed : d.shed[i] \notin Marks
                      /\ marks # <<>> /\ Last(marks).by = Other =>
                            pending = <<>> /\ sandbox.phase # "Capturing"
                      /\ marks = <<>> => ~prompt_return_completion_target(line)
    BY Zenon
  <2>2. ~slipped /\ ~Slips(marks, d.shed, line)
    BY <1>8, Zenon
  <2>3. ~(Len(marks) > 1)
    BY <2>2, Zenon DEF Slips
  <2>4. \A i \in DOMAIN d.shed : d.shed[i] \notin Marks
    BY <2>2, Zenon DEF Slips
  <2>5. /\ marks # <<>> /\ Last(marks).by = Other =>
              pending = <<>> /\ sandbox.phase # "Capturing"
        /\ marks = <<>> => ~prompt_return_completion_target(line)
    BY <2>2, Zenon DEF Slips
  <2> QED
    BY <2>1, <2>2, <2>3, <2>4, <2>5
<1>17. ~slipped' => Coming = Authors(Only(marks, CommandMarks)) \o Coming'
  BY <1>4, <1>12, <1>13, <1>16
<1>18. Turn(line, marks)
  BY <1>2, <1>4, <1>5, <1>6, <1>7, <1>9, <1>14, <1>15, <1>16, <1>17 DEF Turn
<1> QED
  BY <1>10, <1>11, <1>18

\* The one marker that a turn sees is of the command that has waited longest, and
\* says how it ended, unless markers and commands are out of step.
LEMMA MarkOfHead ==
    ASSUME IInv, NEW line \in BOOLEAN, NEW marks \in Seq(Marks), Turn(line, marks),
           ~slipped', marks # <<>>
    PROVE  LET m == Last(marks) IN
           /\ m \in Marks
           /\ m.by = Other =>
                pending = <<>> /\ sandbox.phase # "Capturing" /\ Coming = Coming'
           /\ m.by # Other => /\ m.by \in Commands /\ own[m.by] = m.result
                              /\ pending # <<>> /\ Head(pending) = m.by
                              /\ Coming = <<m.by>> \o Coming'
<1> DEFINE m == marks[1]
<1>1. /\ ~slipped /\ Len(marks) <= 1
      /\ Coming = Authors(Only(marks, CommandMarks)) \o Coming'
      /\ Last(marks).by = Other => pending = <<>> /\ sandbox.phase # "Capturing"
      /\ Truthful(marks)
  BY DEF Turn
<1>2. marks = <<m>> /\ m \in Marks /\ Last(marks) = m /\ 1 \in DOMAIN marks
  <2>1. Len(marks) = 1
    <3>1. PICK n \in Nat : n = Len(marks)
      OBVIOUS
    <3>2. n # 0
      BY <3>1
    <3>3. n <= 1
      BY <1>1, <3>1, Zenon
    <3>4. n = 1
      BY <3>2, <3>3
    <3> QED
      BY <3>1, <3>4, Zenon
  <2> QED
    BY <2>1 DEF Last
<1>3. Only(marks, CommandMarks) = Chosen(m, CommandMarks)
  <2> HIDE DEF m
  <2> QED
    BY <1>2, OnlyOfOne
<1>4. Coming' \in Seq(Commands)
  <2>1. chan' \in Seq(Items) /\ pending_event' \in Seq(Items)
    BY DEF Turn
  <2>2. pending_event' \o chan' \in Seq(Items)
    BY <2>1
  <2>3. Due(pending_event' \o chan') \in Seq(Commands)
    BY <2>2, DueTyped
  <2> QED
    BY <2>3 DEF Coming, Due
<1>5. /\ m \in CommandMarks <=> m.by \in Commands
      /\ m.by = Other \/ m.by \in Commands
  BY <1>2, ItemFacts
<1>6. Authors(<<>>) = <<>> /\ (m \in CommandMarks => Authors(<<m>>) = <<m.by>>)
  BY AuthorsFacts
<1>7. m \in CommandMarks => own[m.by] = m.result
  BY <1>1, <1>2 DEF Truthful
<1> HIDE DEF m
<1>8. ASSUME m.by = Other
      PROVE  Coming = Coming'
  <2>1. m \notin CommandMarks
    BY <1>5, <1>8, CommandFacts
  <2>2. Authors(Only(marks, CommandMarks)) = <<>>
    BY <1>3, <1>6, <2>1 DEF Chosen
  <2>3. PICK x \in Seq(Commands) : x = Coming'
    BY <1>4
  <2>4. <<>> \o x = x
    OBVIOUS
  <2> QED
    BY <1>1, <2>2, <2>3, <2>4
<1>9. ASSUME m.by # Other
      PROVE  /\ m.by \in Commands /\ own[m.by] = m.result
             /\ pending # <<>> /\ Head(pending) = m.by /\ Coming = <<m.by>> \o Coming'
  <2>1. m.by \in Commands /\ m \in CommandMarks
    BY <1>5, <1>9
  <2>2. Authors(Only(marks, CommandMarks)) = <<m.by>>
    BY <1>3, <1>6, <2>1 DEF Chosen
  <2>3. Coming = <<m.by>> \o Coming'
    BY <1>1, <2>2
  <2>4. PICK rest \in Seq(Commands) : pending = Coming \o rest
    BY <1>1 DEF IInv, Agree
  <2>5. PICK x \in Seq(Commands) : x = Coming'
    BY <1>4
  <2>6. PICK c \in Commands : c = m.by
    BY <2>1
  <2>7. pending = (<<c>> \o x) \o rest
    BY <2>3, <2>4, <2>5, <2>6
  <2>8. (<<c>> \o x) \o rest # <<>> /\ Head((<<c>> \o x) \o rest) = c
    OBVIOUS
  <2> QED
    BY <1>7, <2>1, <2>3, <2>6, <2>7, <2>8
<1> QED
  BY <1>1, <1>2, <1>8, <1>9

\* What a turn does to the queue and to what is known of its commands.
LEMMA TurnEffects ==
    ASSUME IInv, NEW line \in BOOLEAN, NEW marks \in Seq(Marks), Turn(line, marks)
    PROVE  /\ \/ UNCHANGED <<pending, record, badge>>
              \/ /\ pending # <<>> /\ pending' = Tail(pending)
                 /\ badge' \in {"Success", "Failed"}
                 /\ \E x \in {"success", "failed", "unknown"} :
                        record' = [record EXCEPT ![Head(pending)] = x]
           /\ evidence' \in BOOLEAN
           /\ sandbox' = sandbox \/ \E r \in Results : sandbox' = finish_execution(r)
<1>1. CASE marks = <<>>
  <2>1. resolve_pending_command_via_prompt(line)
    BY <1>1 DEF Turn
  <2>2. evidence' \in BOOLEAN /\ sandbox' = sandbox
    BY <2>1 DEF resolve_pending_command_via_prompt, IInv, TypeOK
  <2>3. CASE prompt_return_completion_target(line)
    BY <2>1, <2>2, <2>3 DEF resolve_pending_command_via_prompt, prompt_return_completion_target
  <2>4. CASE ~prompt_return_completion_target(line)
    BY <2>1, <2>2, <2>4 DEF resolve_pending_command_via_prompt
  <2> QED
    BY <2>3, <2>4
<1>2. CASE marks # <<>>
  <2> DEFINE r == take_exit_code(marks)
  <2>1. process_session_exit_code(r)
    BY <1>2 DEF Turn
  <2>2. r \in Results
    <3>1. Last(marks) \in Marks
      BY <1>2 DEF Last
    <3> QED
      BY <3>1, ItemFacts DEF take_exit_code
  <2> HIDE DEF r
  <2>3. evidence' \in BOOLEAN /\ sandbox' = finish_execution(r)
    BY <2>1 DEF process_session_exit_code
  <2>4. CASE pending = <<>>
    BY <2>1, <2>2, <2>3, <2>4 DEF process_session_exit_code
  <2>5. CASE pending # <<>>
    <3> DEFINE s == decide_command_status(Head(pending), r)
    <3>1. s \in {"success", "failed"}
      BY DEF decide_command_status
    <3>2. /\ pending' = Tail(pending)
          /\ record' = [record EXCEPT ![Head(pending)] = s]
          /\ badge' = IF s = "success" THEN "Success" ELSE "Failed"
      BY <2>1, <2>5 DEF process_session_exit_code
    <3> HIDE DEF s
    <3> QED
      BY <2>2, <2>3, <2>5, <3>1, <3>2
  <2> QED
    BY <2>4, <2>5
<1> QED
  BY <1>1, <1>2

LEMMA TailFacts ==
    ASSUME TypeOK, pending # <<>>
    PROVE  /\ Head(pending) \in Commands /\ Tail(pending) \in Seq(Commands)
           /\ IsInjective(Tail(pending)) /\ Len(Tail(pending)) <= MaxPending
           /\ \A i \in DOMAIN Tail(pending) :
                  i + 1 \in DOMAIN pending /\ Tail(pending)[i] = pending[i + 1]
<1>1. pending \in Seq(Commands) /\ Len(pending) <= MaxPending /\ MaxPending \in Nat \ {0}
  BY CommandFacts DEF TypeOK
<1>2. \A i, j \in DOMAIN pending : pending[i] = pending[j] => i = j
  BY DEF TypeOK, IsInjective
<1> DEFINE t == Tail(pending)
<1>3. /\ t \in Seq(Commands) /\ Len(t) <= MaxPending /\ Head(pending) \in Commands
      /\ \A i \in DOMAIN t : i \in Nat /\ i + 1 \in DOMAIN pending /\ t[i] = pending[i + 1]
  BY <1>1
<1> HIDE DEF t
<1>4. ASSUME NEW i \in DOMAIN t, NEW j \in DOMAIN t, t[i] = t[j]
      PROVE  i = j
  <2>1. i + 1 = j + 1
    BY <1>2, <1>3, <1>4
  <2> QED
    BY <1>3, <2>1
<1>5. IsInjective(t)
  BY <1>4 DEF IsInjective
<1> QED
  BY <1>3, <1>5 DEF t

LEMMA HandleOutputKeeps == IInv /\ HandleOutput => IInv'
<1> SUFFICES ASSUME IInv, HandleOutput
             PROVE  IInv'
  OBVIOUS
<1>1. PICK line \in BOOLEAN, marks \in Seq(Marks) : Turn(line, marks)
  BY TurnOf
<1>2. /\ UNCHANGED <<conn, shell, hangup, own, dangerous, others, reconnects>>
      /\ chan' \in Seq(Items) /\ pending_event' \in Seq(Items) /\ screen' \in Screens
      /\ at_prompt' \in BOOLEAN /\ slipped' \in BOOLEAN
  BY <1>1 DEF Turn
<1>3. TypeOK /\ record \in [Commands -> {"new", "asked", "success", "failed", "unknown"}]
  BY DEF IInv, TypeOK
<1>4. /\ evidence' \in BOOLEAN
      /\ sandbox' = sandbox \/ \E r \in Results : sandbox' = finish_execution(r)
  BY <1>1, TurnEffects
<1>5. SandboxOK(sandbox)' /\ sandbox'.cmd = sandbox.cmd
      /\ (sandbox'.phase = "AwaitingExecution" => sandbox.phase = "AwaitingExecution")
  <2>1. SandboxOK(sandbox) /\ \A r \in Results : SandboxOK(finish_execution(r))
    BY <1>3, HelpersTyped
  <2>2. SandboxOK(sandbox')
    BY <1>4, <2>1
  <2>3. \A r \in Results : /\ finish_execution(r).cmd = sandbox.cmd
                           /\ finish_execution(r).phase \in {sandbox.phase, "AwaitingResultSharing"}
    BY <2>1 DEF finish_execution, SandboxOK, SandboxRecords
  <2> QED
    BY <1>4, <2>2, <2>3 DEF SandboxOK
<1>6. /\ pending' \in Seq(Commands) /\ IsInjective(pending)' /\ Len(pending') <= MaxPending
      /\ badge' \in {"Idle", "Success", "Failed", "Disconnected"}
      /\ record' \in [Commands -> {"new", "asked", "success", "failed", "unknown"}]
      /\ \A c \in Commands : record'[c] = "new" <=> record[c] = "new"
      /\ \A c \in Commands : Waits(c)' => Waits(c)
  <2>1. CASE UNCHANGED <<pending, record, badge>>
    BY <1>3, <2>1 DEF TypeOK, IsInjective, Waits
  <2>2. CASE /\ pending # <<>> /\ pending' = Tail(pending)
             /\ badge' \in {"Success", "Failed"}
             /\ \E x \in {"success", "failed", "unknown"} :
                    record' = [record EXCEPT ![Head(pending)] = x]
    <3>1. PICK x \in {"success", "failed", "unknown"} :
            record' = [record EXCEPT ![Head(pending)] = x]
      BY <2>2
    <3>2. /\ Head(pending) \in Commands /\ pending' \in Seq(Commands)
          /\ IsInjective(pending)' /\ Len(pending') <= MaxPending
          /\ \A i \in DOMAIN pending' : i + 1 \in DOMAIN pending /\ pending'[i] = pending[i + 1]
      BY <1>3, <2>2, TailFacts DEF IsInjective
    <3>3. record[Head(pending)] # "new"
      <4>1. Waits(Head(pending))
        BY <1>3, <2>2 DEF Waits, TypeOK
      <4> QED
        BY <3>2, <4>1 DEF IInv, CommandFits, Unsent
    <3>4. \A c \in Commands : Waits(c)' => Waits(c)
      BY <3>2 DEF Waits
    <3> QED
      BY <1>3, <2>2, <3>1, <3>2, <3>3, <3>4
  <2> QED
    BY <1>1, <2>1, <2>2, TurnEffects
<1>7. TypeOK'
  BY <1>2, <1>3, <1>4, <1>5, <1>6 DEF TypeOK, SandboxOK, SandboxRecords, Screens
<1>8. AskedFits'
  <2>1. dangerous # Nobody => dangerous \in Commands
    BY <1>3 DEF TypeOK
  <2> QED
    BY <1>2, <1>5, <1>6, <2>1, CommandFacts DEF IInv, AskedFits
<1>9. TypedOnce'
  BY <1>2 DEF IInv, TypedOnce
<1>10. ASSUME NEW c \in Commands
       PROVE  CommandFits(c)'
  <2>1. Unsent(c)' => Unsent(c)
    BY <1>2, <1>5, <1>6 DEF Unsent
  <2>2. InTheShell(c)' => InTheShell(c)
    BY <1>2 DEF InTheShell
  <2> QED
    BY <1>2, <1>6, <2>1, <2>2, FitsKeeps DEF IInv
<1>11. Truthful(pending_event)' /\ Truthful(chan)'
  BY <1>1, <1>2 DEF Turn, Truthful
<1>12. Agree'
  <2> SUFFICES ASSUME ~slipped'
               PROVE  \E rest \in Seq(Commands) :
                         pending' = Coming' \o rest /\ (shell'.alive => rest = InShell')
    BY DEF Agree
  <2>1. ~slipped /\ Coming = Authors(Only(marks, CommandMarks)) \o Coming'
    BY <1>1 DEF Turn
  <2>2. PICK rest \in Seq(Commands) :
          pending = Coming \o rest /\ (shell.alive => rest = InShell)
    BY <2>1 DEF IInv, Agree
  <2>3. InShell' = InShell
    BY <1>2 DEF InShell
  <2>4. PICK x \in Seq(Commands) : x = Coming'
    <3>1. pending_event' \o chan' \in Seq(Items)
      BY <1>2
    <3>2. Due(pending_event' \o chan') \in Seq(Commands)
      BY <3>1, DueTyped
    <3> QED
      BY <3>2 DEF Coming, Due
  <2>5. pending' = Coming' \o rest
    <3>1. CASE marks = <<>>
      <4>1. resolve_pending_command_via_prompt(line) /\ ~prompt_return_completion_target(line)
        BY <1>1, <3>1 DEF Turn
      <4>2. pending' = pending
        BY <4>1 DEF resolve_pending_command_via_prompt
      <4>3. Coming = <<>> \o x
        BY <2>1, <2>4, <3>1, OnlyOfNone, AuthorsFacts
      <4>4. <<>> \o x = x
        OBVIOUS
      <4> QED
        BY <2>2, <2>4, <4>2, <4>3, <4>4
    <3>2. CASE marks # <<>>
      <4> DEFINE m == Last(marks)
      <4>1. /\ m.by = Other => pending = <<>> /\ Coming = Coming'
            /\ m.by # Other => /\ m.by \in Commands /\ pending # <<>>
                               /\ Coming = <<m.by>> \o Coming'
        BY <1>1, <3>2, MarkOfHead
      <4>2. process_session_exit_code(take_exit_code(marks))
        BY <1>1, <3>2 DEF Turn
      <4> HIDE DEF m
      <4>3. CASE m.by = Other
        BY <2>2, <4>1, <4>2, <4>3 DEF process_session_exit_code
      <4>4. CASE m.by # Other
        <5>1. pending' = Tail(pending)
          BY <4>1, <4>2, <4>4 DEF process_session_exit_code
        <5>2. PICK c \in Commands : c = m.by
          BY <4>1, <4>4
        <5>3. pending = (<<c>> \o x) \o rest
          BY <2>2, <2>4, <4>1, <4>4, <5>2
        <5>4. Tail((<<c>> \o x) \o rest) = x \o rest
          OBVIOUS
        <5> QED
          BY <2>4, <5>1, <5>3, <5>4
      <4> QED
        BY <4>3, <4>4
    <3> QED
      BY <3>1, <3>2
  <2> QED
    BY <1>2, <2>2, <2>3, <2>5
<1> QED
  BY <1>7, <1>8, <1>9, <1>10, <1>11, <1>12 DEF IInv

-----------------------------------------------------------------------------
(* The theorems.                                                           *)

LEMMA StutterKeeps == IInv /\ UNCHANGED vars => IInv'
<1> SUFFICES ASSUME IInv, UNCHANGED vars
             PROVE  IInv'
  OBVIOUS
<1> USE DEF vars
<1>1. TypeOK' /\ AskedFits' /\ \A c \in Commands : Unsent(c)' => Unsent(c)
  BY DEF IInv, TypeOK, AskedFits, IsInjective, Unsent
<1> QED
  BY <1>1, QuietKeeps

LEMMA NextKeeps == IInv /\ [Next]_vars => IInv'
<1> SUFFICES ASSUME IInv, [Next]_vars
             PROVE  IInv'
  OBVIOUS
<1>1. CASE Loop
  BY <1>1, HandleOutputKeeps, TimerFiresKeeps, GoesDownKeeps DEF Loop
<1>2. CASE Shell
  BY <1>2, RunNextKeeps, ReadByProgramKeeps, FinishKeeps, ConnectionEndsKeeps DEF Shell
<1>3. CASE User
  <2>1. CASE \E c \in Commands : request_command_submission(c) \/ propose(c)
    BY <2>1, SubmissionKeeps, ProposeKeeps
  <2>2. CASE Proceed \/ Cancel \/ approve_execution
    BY <2>2, ProceedKeeps, CancelKeeps, ApproveKeeps
  <2>3. CASE reject_execution \/ ResultIsReviewed
    BY <2>3, RejectKeeps
  <2>4. CASE disconnect_session \/ reconnect_session \/ close_session
    BY <2>4, GoesDownKeeps, ReconnectKeeps, CloseKeeps
  <2> QED
    BY <1>3, <2>1, <2>2, <2>3, <2>4 DEF User
<1>4. CASE UntrackedLine
  BY <1>4, UntrackedLineKeeps
<1>5. CASE UNCHANGED vars
  BY <1>5, StutterKeeps
<1> QED
  BY <1>1, <1>2, <1>3, <1>4, <1>5 DEF Next

\* The inductive invariant holds, at any size of the queue and of the backlog.
THEOREM InvariantHolds == Spec => []IInv
BY InitInv, NextKeeps, PTL DEF Spec

\* The variables keep their types; no command waits twice, and the queue of waiting
\* commands keeps its limit (enqueue_pending_exit).
THEOREM TypeCorrect == Spec => []TypeOK
<1>1. IInv => TypeOK
  BY DEF IInv
<1> QED
  BY <1>1, InvariantHolds, PTL

\* As long as nothing has put the two out of step, the markers still to come on a
\* connection belong to the commands in pending_exit_check, in their order.
THEOREM WaitingIsComing == Spec => []InStep
<1>1. IInv => InStep
  BY DEF IInv, Agree, InStep
<1> QED
  BY <1>1, InvariantHolds, PTL

\* The statement of ResultsAreOwn about one step.
StepIsOwn ==
    ~slipped' =>
        /\ \A c \in Commands :
               record'[c] # record[c] /\ record'[c] \in {"success", "failed"} =>
                   /\ own[c] # "none"
                   /\ c \notin Compound => (record'[c] = "success") = (own[c] = "ok")
        /\ sandbox'.exit # sandbox.exit /\ sandbox'.exit # "none"
           /\ pending # <<>> /\ Head(pending) = sandbox.cmd =>
               sandbox'.exit = own[sandbox.cmd]

\* A step that records no result.
LEMMA NothingRecorded ==
    ASSUME \A c \in Commands : record'[c] = record[c] \/ record'[c] \notin {"success", "failed"},
           sandbox'.exit = sandbox.exit \/ sandbox'.exit = "none"
    PROVE  StepIsOwn
BY DEF StepIsOwn

LEMMA TurnIsOwn == IInv /\ HandleOutput => StepIsOwn
<1> SUFFICES ASSUME IInv, HandleOutput, ~slipped'
             PROVE  /\ \A c \in Commands :
                           record'[c] # record[c] /\ record'[c] \in {"success", "failed"} =>
                               /\ own[c] # "none"
                               /\ c \notin Compound =>
                                     (record'[c] = "success") = (own[c] = "ok")
                    /\ sandbox'.exit # sandbox.exit /\ sandbox'.exit # "none"
                       /\ pending # <<>> /\ Head(pending) = sandbox.cmd =>
                           sandbox'.exit = own[sandbox.cmd]
  BY DEF StepIsOwn
<1>1. PICK line \in BOOLEAN, marks \in Seq(Marks) : Turn(line, marks)
  BY TurnOf
<1>2. TypeOK /\ record \in [Commands -> {"new", "asked", "success", "failed", "unknown"}]
  BY DEF IInv, TypeOK
<1>3. CASE marks = <<>>
  <2>1. resolve_pending_command_via_prompt(line) /\ ~prompt_return_completion_target(line)
    BY <1>1, <1>3 DEF Turn
  <2>2. record' = record /\ sandbox' = sandbox
    BY <2>1 DEF resolve_pending_command_via_prompt
  <2> QED
    BY <2>2
<1>4. CASE marks # <<>>
  <2> DEFINE m == Last(marks)
  <2>1. /\ m \in Marks
        /\ m.by = Other => pending = <<>> /\ sandbox.phase # "Capturing"
        /\ m.by # Other => /\ m.by \in Commands /\ own[m.by] = m.result
                           /\ pending # <<>> /\ Head(pending) = m.by
    BY <1>1, <1>4, MarkOfHead
  <2>2. process_session_exit_code(m.result)
    BY <1>1, <1>4 DEF Turn, take_exit_code
  <2>3. m.result \in Results /\ m.result # "none"
    BY <2>1, ItemFacts DEF Results
  <2> HIDE DEF m
  <2>4. ASSUME NEW c \in Commands, record'[c] # record[c]
        PROVE  own[c] # "none" /\ (c \notin Compound => (record'[c] = "success") = (own[c] = "ok"))
    <3>1. pending # <<>> /\ record' = [record EXCEPT ![Head(pending)] =
                                          decide_command_status(Head(pending), m.result)]
      BY <2>2, <2>4 DEF process_session_exit_code
    <3>2. c = Head(pending) /\ record'[c] = decide_command_status(c, m.result)
      BY <1>2, <2>4, <3>1
    <3>3. c = m.by /\ own[c] = m.result
      BY <2>1, <3>1, <3>2
    <3> QED
      BY <2>3, <3>2, <3>3 DEF decide_command_status
  <2>5. ASSUME sandbox'.exit # sandbox.exit, pending # <<>>, Head(pending) = sandbox.cmd
        PROVE  sandbox'.exit = own[sandbox.cmd]
    <3>1. sandbox' = finish_execution(m.result) /\ SandboxOK(sandbox)
      BY <1>2, <2>2, HelpersTyped DEF process_session_exit_code
    <3>2. sandbox'.exit = m.result
      BY <2>5, <3>1 DEF finish_execution, SandboxOK, SandboxRecords
    <3> QED
      BY <2>1, <2>5, <3>2
  <2> QED
    BY <2>4, <2>5
<1> QED
  BY <1>3, <1>4

LEMMA NextIsOwn == IInv /\ [Next]_vars => StepIsOwn
<1> SUFFICES ASSUME IInv, [Next]_vars
             PROVE  StepIsOwn
  OBVIOUS
<1>1. /\ TypeOK /\ SandboxOK(sandbox)
      /\ record \in [Commands -> {"new", "asked", "success", "failed", "unknown"}]
  BY HelpersTyped DEF IInv, TypeOK
<1>2. CASE HandleOutput
  BY <1>2, TurnIsOwn
<1>3. CASE UNCHANGED <<record, sandbox>>
  BY <1>3, NothingRecorded
<1>4. CASE \E c \in Commands : request_command_submission(c)
  <2>1. PICK c \in Commands : record' = [record EXCEPT ![c] = "asked"] /\ sandbox' = sandbox
    BY <1>4 DEF request_command_submission
  <2> QED
    BY <1>1, <2>1, NothingRecorded
<1>5. CASE \E c \in Commands : propose(c)
  <2>0. PICK c \in Commands : propose(c)
    BY <1>5
  <2>1. /\ record' = [record EXCEPT ![c] = "asked"]
        /\ sandbox' = [phase |-> "AwaitingExecution", cmd |-> c, exit |-> "none"]
    BY <2>0 DEF propose
  <2> QED
    BY <1>1, <2>1, NothingRecorded
<1>6. CASE \/ approve_execution \/ reject_execution \/ ResultIsReviewed
           \/ HandleDisconnected \/ disconnect_session \/ close_session
  <2>1. record' = record
    BY <1>6 DEF approve_execution, reject_execution, ResultIsReviewed, HandleDisconnected,
       disconnect_session, close_session
  <2>2. sandbox'.exit = sandbox.exit \/ sandbox'.exit = "none"
    BY <1>1, <1>6 DEF approve_execution, reject_execution, ResultIsReviewed, HandleDisconnected,
       disconnect_session, close_session, GoesDown, fail_execution, NoSandbox, SandboxOK,
       SandboxRecords
  <2> QED
    BY <2>1, <2>2, NothingRecorded
<1>7. \/ HandleOutput \/ UNCHANGED <<record, sandbox>>
      \/ \E c \in Commands : request_command_submission(c)
      \/ \E c \in Commands : propose(c)
      \/ approve_execution \/ reject_execution \/ ResultIsReviewed
      \/ HandleDisconnected \/ disconnect_session \/ close_session
  BY DEF Next, Loop, Shell, User, vars, TimerFires, RunNext, ReadByProgram, Finish,
     ConnectionEnds, UntrackedLine, Proceed, Cancel, reconnect_session
<1> QED
  BY <1>2, <1>3, <1>4, <1>5, <1>6, <1>7

\* As long as nothing has put markers and waiting commands out of step, a command is
\* recorded with the status it ended with (process_session_exit_code), and a command
\* run for the AI panel with its own exit code.
THEOREM ResultsAreTheirOwn == Spec => ResultsAreOwn
<1>1. IInv /\ [Next]_vars => [StepIsOwn]_vars
  BY NextIsOwn
<1>2. ResultsAreOwn <=> [][StepIsOwn]_vars
  BY DEF ResultsAreOwn, StepIsOwn
<1> QED
  BY <1>1, <1>2, InvariantHolds, PTL DEF Spec

-----------------------------------------------------------------------------
(* The way back to a host: the inductive invariant.                        *)

Ops == Seq(Inputs)
Ways ==
    {w \in Seq(Hosts \cup Contexts) :
        w # <<>> => w[1] \in Hosts /\ \A i \in 2..Len(w) : w[i] \in Contexts}
Rows ==
    [at : Nat \ {0}, event : {"op", "context"}, op : Inputs]
      \cup [at : Nat \ {0}, event : {"pop", "reset"}, op : {NoOp}]
Tasks == [id : Ids, clears : SUBSET Ids, rows : Seq(Rows)]
TabRecords ==
    [stage : {"none", "connecting", "connected", "down"}, path : Ways,
     asking : {{}} \cup {{c} : c \in Contexts}, ops : Ops, frozen : BOOLEAN,
     replays : SUBSET (Ops \ {<<>>}), at : Nat, slipped : BOOLEAN]

\* Events have numbers that end.
Bounded(events) == \E n \in Nat : \A e \in events : e.at <= n

ReplayTyped ==
    /\ tabs \in [Ids -> TabRecords]
    /\ rows \in [Ids -> SUBSET Rows]
    /\ writes \subseteq Tasks
    /\ snapshot \subseteq [id : 1..minted, ops : Ops]
    /\ app \in {"dead", "asking", "running"}
    /\ minted \in 0..MaxTabs /\ inputs \in 0..MaxInputs
    /\ starts \in 0..MaxStarts /\ faults \in 0..MaxFaults
    /\ torn \subseteq Ids /\ sure \subseteq Ids /\ held \in [Ids -> Ops]
    /\ \A t \in Ids : Bounded(rows[t])
    /\ \A w \in writes : Bounded(Range(w.rows))

\* Where the remote of a tab is once the password it asks for is accepted.
IsHeading(tab, way) ==
    \/ tab.asking = {} /\ way = tab.path
    \/ \E c \in tab.asking : way = Append(tab.path, c)

\* What is known of a tab. The lines still to be typed by its replay lead from
\* where the remote is to where the recorder leads from the menu.
TabFits(tab) ==
    /\ tab.stage # "connected" => tab.path = <<>> /\ tab.asking = {}
    /\ tab.path = <<>> => tab.asking = {}
    /\ tab.stage = "none" => tab.replays = {}
    /\ ~tab.slipped =>
         /\ IsNavigation(tab.ops)
         /\ tab.stage # "down" =>
              \/ tab.replays = {} /\ (tab.path = <<>> \/ IsHeading(tab, Lands(tab.ops)))
              \/ \E r \in tab.replays :
                   /\ tab.replays = {r}
                   /\ \A way \in Ways : IsHeading(tab, way) => From(way, r) = Lands(tab.ops)

\* The events of a tab, written or still to be.
Stream(t) == rows[t] \cup UNION {Range(w.rows) : w \in {v \in writes : v.id = t}}

\* events are numbered 1..n, and f has what the first of them fold to.
TellsThrough(f, events, n, ops) ==
    /\ f[0] = <<>> /\ f[n] = ops
    /\ \A i \in 1..n : \E e \in events : e.at = i /\ f[i] = fold_event(f[i - 1], e)

Tells(events, n, ops) ==
    /\ \E f \in [0..n -> Ops] : TellsThrough(f, events, n, ops)
    /\ \A e \in events : e.at \in 1..n
    /\ \A e, d \in events : e.at = d.at => e = d

\* A tab that is open, and of which no row was refused, has told all.
StreamsFit ==
    \A t \in Ids :
      /\ Open(t) /\ t \notin torn => Tells(Stream(t), tabs[t].at, tabs[t].ops)
      /\ t \in sure => \E n \in Nat : Tells(rows[t], n, held[t])
      /\ t > minted => ~Open(t) /\ rows[t] = {}

\* Nothing is written to an id that is not given out, and no stream is cleared
\* of a tab that is open.
WritesFit ==
    \A w \in writes :
      /\ w.id <= minted
      /\ \A c \in w.clears : c <= minted /\ ~Open(c)

\* A dead application has no tabs and no tasks; what it held is forgotten once
\* its user has answered.
DeadFits ==
    /\ app # "running" => writes = {} /\ \A t \in Ids : ~Open(t)
    /\ app = "running" => sure = {}
    /\ app = "dead" => starts < MaxStarts

ReplayInv ==
    /\ ReplayTyped
    /\ \A t \in Ids : TabFits(tabs[t])
    /\ StreamsFit /\ WritesFit /\ DeadFits

-----------------------------------------------------------------------------
(* Where lines lead.                                                       *)


LEMMA WayGrows ==
    ASSUME NEW path \in Ways, path # <<>>, NEW c \in Contexts
    PROVE  Append(path, c) \in Ways
<1> DEFINE w == Append(path, c)
<1>1. /\ w \in Seq(Hosts \cup Contexts) /\ w[1] = path[1] /\ Len(w) = Len(path) + 1
      /\ \A i \in 1..Len(path) : w[i] = path[i]
      /\ w[Len(w)] = c /\ Len(path) \in Nat
  BY DEF Ways
<1>2. ASSUME NEW i \in 2..Len(w)
      PROVE  w[i] \in Contexts
  <2>1. CASE i = Len(w)
    BY <1>1, <2>1
  <2>2. CASE i # Len(w)
    <3>1. i \in 2..Len(path) /\ i \in 1..Len(path)
      BY <1>1, <2>2
    <3> QED
      BY <1>1, <3>1 DEF Ways
  <2> QED
    BY <2>1, <2>2
<1>3. w[1] \in Hosts
  BY <1>1 DEF Ways
<1> HIDE DEF w
<1> QED
  BY <1>1, <1>2, <1>3 DEF Ways, w

LEMMA WayShrinks ==
    ASSUME NEW path \in Ways, NEW n \in Nat, n <= Len(path)
    PROVE  SubSeq(path, 1, n) \in Ways
<1> DEFINE w == SubSeq(path, 1, n)
<1>1. /\ w \in Seq(Hosts \cup Contexts) /\ Len(w) = n /\ Len(path) \in Nat
      /\ \A i \in 1..n : w[i] = path[i]
  BY DEF Ways
<1>2. ASSUME w # <<>>
      PROVE  w[1] \in Hosts /\ \A i \in 2..n : w[i] \in Contexts
  <2>1. n > 0 /\ path # <<>>
    BY <1>1, <1>2
  <2> QED
    BY <1>1, <2>1 DEF Ways
<1> HIDE DEF w
<1> QED
  BY <1>1, <1>2 DEF Ways, w

LEMMA WalkType ==
    ASSUME NEW path \in Ways, NEW op \in Inputs
    PROVE  Walk(path, op) \in Ways
<1>1. <<>> \in Ways /\ \A h \in Hosts : <<h>> \in Ways
  BY DEF Ways
<1> QED
  BY <1>1, WayGrows DEF Walk

\* f is the function that From(path, ops) goes by, with its values.
Leads(f, path, ops) ==
    f = [n \in 0..Len(ops) |-> IF n = 0 THEN path ELSE Walk(f[n - 1], ops[n])]

LeadsThrough(f, path, ops) ==
    /\ f[0] = path
    /\ \A n \in 1..Len(ops) : f[n] = Walk(f[n - 1], ops[n])
    /\ From(path, ops) = f[Len(ops)]

LEMMA FromValues ==
    \A path \in Ways, ops \in Ops : \E f \in [0..Len(ops) -> Ways] : LeadsThrough(f, path, ops)
<1> SUFFICES ASSUME NEW path \in Ways, NEW ops \in Ops
             PROVE  \E f \in [0..Len(ops) -> Ways] : LeadsThrough(f, path, ops)
  OBVIOUS
<1> DEFINE m == Len(ops)
           step == [n \in 1..m |-> [w \in Ways |-> Walk(w, ops[n])]]
<1>1. m \in Nat /\ \A n \in 1..m : ops[n] \in Inputs
  BY DEF Ops
<1>2. step \in [1..m -> [Ways -> Ways]]
  BY <1>1, WalkType
<1>3. PICK f \in [0..m -> Ways] : Recursive(f, path, m, step)
  <2> HIDE DEF m, step
  <2> QED
    BY <1>1, <1>2, Recursion
<1>4. ASSUME NEW n \in 1..m
      PROVE  f[n] = Walk(f[n - 1], ops[n])
  <2>1. f[n - 1] \in Ways
    BY <1>1
  <2> QED
    BY <1>3, <2>1 DEF Recursive
<1> HIDE DEF step
<1>5. Leads(f, path, ops)
  <2>1. ASSUME NEW n \in 0..Len(ops), n # 0
        PROVE  f[n] = Walk(f[n - 1], ops[n])
    <3>1. n \in 1..m
      BY <1>1, <2>1
    <3> QED
      BY <1>4, <3>1
  <2> QED
    BY <1>3, <2>1 DEF Leads, Recursive
<1> DEFINE g == CHOOSE h : Leads(h, path, ops)
<1>6. Leads(g, path, ops)
  BY <1>5
<1>7. From(path, ops) = g[Len(ops)]
  BY DEF From, Leads
<1> HIDE DEF g
<1>8. g[0] = path /\ \A n \in 1..Len(ops) : g[n] = Walk(g[n - 1], ops[n])
  <2>1. ASSUME NEW n \in 1..Len(ops)
        PROVE  g[n] = Walk(g[n - 1], ops[n])
    <3>1. n \in 0..Len(ops) /\ n # 0
      BY <1>1
    <3> QED
      BY <1>6, <3>1 DEF Leads
  <2>2. g[0] = path
    BY <1>1, <1>6 DEF Leads
  <2> QED
    BY <2>1, <2>2
<1>9. g \in [0..Len(ops) -> Ways]
  <2> DEFINE T == {n \in Nat : n <= m => g[n] \in Ways}
  <2>1. 0 \in T
    BY <1>8
  <2>2. ASSUME NEW n \in Nat, n \in T
        PROVE  n + 1 \in T
    <3> SUFFICES ASSUME n + 1 <= m
                 PROVE  g[n + 1] \in Ways
      OBVIOUS
    <3>1. n + 1 \in 1..m /\ (n + 1) - 1 = n /\ g[n] \in Ways
      BY <1>1, <2>2
    <3>2. g[n + 1] = Walk(g[n], ops[n + 1]) /\ ops[n + 1] \in Inputs
      BY <1>1, <1>8, <3>1
    <3> QED
      BY <3>1, <3>2, WalkType
  <2> HIDE DEF T
  <2>3. \A n \in Nat : n \in T
    BY <2>1, <2>2, Inductive
  <2>4. \A n \in 0..m : g[n] \in Ways
    BY <1>1, <2>3 DEF T
  <2>5. DOMAIN g = 0..Len(ops) /\ g = [n \in 0..Len(ops) |-> g[n]]
    BY <1>6 DEF Leads
  <2> QED
    BY <2>4, <2>5
<1> QED
  BY <1>7, <1>8, <1>9 DEF LeadsThrough

LEMMA FromType ==
    ASSUME NEW path \in Ways, NEW ops \in Ops
    PROVE  From(path, ops) \in Ways
<1>1. PICK f \in [0..Len(ops) -> Ways] : LeadsThrough(f, path, ops)
  BY FromValues
<1>2. Len(ops) \in 0..Len(ops)
  BY DEF Ops
<1> QED
  BY <1>1, <1>2 DEF LeadsThrough

LEMMA FromNone ==
    ASSUME NEW path \in Ways
    PROVE  From(path, <<>>) = path
<1>1. <<>> \in Ops /\ Len(<<>>) = 0
  BY DEF Ops
<1>2. PICK f \in [0..0 -> Ways] : LeadsThrough(f, path, <<>>)
  BY <1>1, FromValues
<1> QED
  BY <1>1, <1>2 DEF LeadsThrough

LEMMA FromAppend ==
    ASSUME NEW path \in Ways, NEW ops \in Ops, NEW op \in Inputs
    PROVE  From(path, Append(ops, op)) = Walk(From(path, ops), op)
<1> DEFINE t == Append(ops, op)
           m == Len(ops)
<1>1. /\ t \in Ops /\ m \in Nat /\ Len(t) = m + 1
      /\ t[m + 1] = op /\ \A n \in 1..m : t[n] = ops[n]
  BY DEF Ops
<1> HIDE DEF t
<1>2. PICK f \in [0..m -> Ways] : LeadsThrough(f, path, ops)
  BY FromValues
<1>3. PICK g \in [0..Len(t) -> Ways] : LeadsThrough(g, path, t)
  BY <1>1, FromValues
<1> DEFINE T == {n \in Nat : n <= m => f[n] = g[n]}
<1>4. 0 \in T
  BY <1>2, <1>3 DEF LeadsThrough
<1>5. ASSUME NEW n \in Nat, n \in T
      PROVE  n + 1 \in T
  <2> SUFFICES ASSUME n + 1 <= m
               PROVE  f[n + 1] = g[n + 1]
    OBVIOUS
  <2>1. n + 1 \in 1..m /\ n + 1 \in 1..Len(t) /\ (n + 1) - 1 = n /\ f[n] = g[n]
    BY <1>1, <1>5
  <2>2. f[n + 1] = Walk(f[n], ops[n + 1]) /\ g[n + 1] = Walk(g[n], t[n + 1])
    BY <1>2, <1>3, <2>1 DEF LeadsThrough
  <2> QED
    BY <1>1, <2>1, <2>2
<1> HIDE DEF T
<1>6. \A n \in Nat : n \in T
  BY <1>4, <1>5, Inductive
<1>7. f[m] = g[m]
  BY <1>1, <1>6 DEF T
<1>8. g[m + 1] = Walk(g[m], op)
  <2>1. m + 1 \in 1..Len(t) /\ (m + 1) - 1 = m
    BY <1>1
  <2> QED
    BY <1>1, <1>3, <2>1 DEF LeadsThrough
<1> QED
  BY <1>1, <1>2, <1>3, <1>7, <1>8 DEF LeadsThrough, t

\* The first line, then the others.
LEMMA FromHead ==
    ASSUME NEW path \in Ways, NEW ops \in Ops, ops # <<>>
    PROVE  From(path, ops) = From(Walk(path, Head(ops)), Tail(ops))
<1> DEFINE t == Tail(ops)
           m == Len(t)
           p == Walk(path, Head(ops))
<1>1. /\ t \in Ops /\ m \in Nat /\ Len(ops) = m + 1 /\ ops[1] = Head(ops)
      /\ \A n \in 1..m : t[n] = ops[n + 1] /\ n + 1 \in 1..Len(ops)
      /\ Head(ops) \in Inputs
  BY DEF Ops
<1>2. p \in Ways
  BY <1>1, WalkType
<1> HIDE DEF t, p
<1>3. PICK f \in [0..m -> Ways] : LeadsThrough(f, p, t)
  BY <1>1, <1>2, FromValues
<1>4. PICK g \in [0..Len(ops) -> Ways] : LeadsThrough(g, path, ops)
  BY FromValues
<1> DEFINE T == {n \in Nat : n <= m => f[n] = g[n + 1]}
<1>5. 0 \in T
  <2>1. 1 \in 1..Len(ops) /\ 1 - 1 = 0
    BY <1>1
  <2>2. g[1] = Walk(g[0], ops[1]) /\ g[0] = path /\ f[0] = p
    BY <1>3, <1>4, <2>1 DEF LeadsThrough
  <2> QED
    BY <1>1, <2>2 DEF p
<1>6. ASSUME NEW n \in Nat, n \in T
      PROVE  n + 1 \in T
  <2> SUFFICES ASSUME n + 1 <= m
               PROVE  f[n + 1] = g[(n + 1) + 1]
    OBVIOUS
  <2>1. /\ n + 1 \in 1..m /\ (n + 1) + 1 \in 1..Len(ops)
        /\ (n + 1) - 1 = n /\ ((n + 1) + 1) - 1 = n + 1 /\ f[n] = g[n + 1]
    BY <1>1, <1>6
  <2>2. f[n + 1] = Walk(f[n], t[n + 1]) /\ g[(n + 1) + 1] = Walk(g[n + 1], ops[(n + 1) + 1])
    BY <1>3, <1>4, <2>1 DEF LeadsThrough
  <2> QED
    BY <1>1, <2>1, <2>2
<1> HIDE DEF T
<1>7. \A n \in Nat : n \in T
  BY <1>5, <1>6, Inductive
<1>8. f[m] = g[m + 1]
  BY <1>1, <1>7 DEF T
<1> QED
  BY <1>1, <1>3, <1>4, <1>8 DEF LeadsThrough, t, p

LEMMA LandsOf ==
    /\ Lands(<<>>) = <<>>
    /\ \A ops \in Ops : Lands(ops) \in Ways
    /\ \A ops \in Ops, op \in Inputs : Lands(Append(ops, op)) = Walk(Lands(ops), op)
<1>1. <<>> \in Ways
  BY DEF Ways
<1> QED
  BY <1>1, FromNone, FromType, FromAppend DEF Lands

-----------------------------------------------------------------------------
(* Navigations.                                                            *)

After(s, n) == SubSeq(s, n + 1, Len(s))

LEMMA SuffixOf ==
    ASSUME NEW s \in Ops, NEW n \in Nat, n <= Len(s)
    PROVE  /\ Len(s) \in Nat /\ After(s, n) \in Ops /\ Len(After(s, n)) = Len(s) - n
           /\ n < Len(s) => After(s, n)[Len(s) - n] = s[Len(s)]
           /\ n = Len(s) => After(s, n) = <<>>
<1> DEFINE m == Len(s)
<1>1. m \in Nat /\ s \in Seq(Inputs)
  BY DEF Ops
<1>2. After(s, n) \in Seq(Inputs) /\ Len(After(s, n)) = m - n
  BY <1>1 DEF After
<1>3. n = m => After(s, n) = <<>>
  BY <1>1, <1>2
<1>4. ASSUME n < m
      PROVE  After(s, n)[m - n] = s[m]
  <2>1. m - n \in 1..m - n /\ (n + 1) + (m - n) - 1 = m
    BY <1>1, <1>4
  <2> QED
    BY <1>1, <1>4, <2>1 DEF After
<1> QED
  BY <1>1, <1>2, <1>3, <1>4 DEF Ops

LEMMA Appended ==
    ASSUME NEW s \in Ops, NEW x \in Inputs
    PROVE  /\ Append(s, x) \in Ops /\ Len(Append(s, x)) = Len(s) + 1 /\ Len(s) \in Nat
           /\ Append(s, x) # <<>> /\ Append(s, x)[Len(s) + 1] = x
           /\ \A i \in 1..Len(s) : Append(s, x)[i] = s[i]
BY DEF Ops

LEMMA AppendedFront ==
    ASSUME NEW s \in Ops, NEW x \in Inputs
    PROVE  Front(Append(s, x)) = s /\ Last(Append(s, x)) = x
<1> DEFINE t == Append(s, x)
           m == Len(s)
<1>1. /\ t \in Seq(Inputs) /\ Len(t) = m + 1 /\ m \in Nat /\ t[m + 1] = x
      /\ \A i \in 1..m : t[i] = s[i]
  BY Appended DEF Ops
<1> HIDE DEF t
<1>2. SubSeq(t, 1, m) \in Seq(Inputs) /\ Len(SubSeq(t, 1, m)) = m
      /\ \A i \in 1..m : SubSeq(t, 1, m)[i] = s[i]
  BY <1>1
<1>3. SubSeq(t, 1, m) = s
  BY <1>2 DEF Ops
<1> QED
  BY <1>1, <1>3 DEF Front, Last, t

LEMMA SuffixAppended ==
    ASSUME NEW s \in Ops, NEW x \in Inputs, NEW n \in Nat, n <= Len(s)
    PROVE  After(Append(s, x), n) = Append(After(s, n), x)
<1> DEFINE t == Append(s, x)
           m == Len(s)
           a == After(t, n)
           b == Append(After(s, n), x)
<1>1. /\ t \in Seq(Inputs) /\ Len(t) = m + 1 /\ m \in Nat /\ t[m + 1] = x
      /\ \A i \in 1..m : t[i] = s[i]
  BY Appended DEF Ops
<1> HIDE DEF t
<1>2. /\ a \in Seq(Inputs) /\ Len(a) = (m + 1) - n
      /\ \A i \in 1..(m + 1) - n : a[i] = t[n + i]
  BY <1>1 DEF After
<1>3. /\ After(s, n) \in Seq(Inputs) /\ Len(After(s, n)) = m - n
      /\ \A i \in 1..m - n : After(s, n)[i] = s[n + i]
  BY <1>1 DEF After, Ops
<1>4. /\ b \in Seq(Inputs) /\ Len(b) = (m - n) + 1 /\ b[(m - n) + 1] = x
      /\ \A i \in 1..m - n : b[i] = s[n + i]
  BY <1>3
<1> HIDE DEF a, b
<1>5. ASSUME NEW i \in 1..Len(a)
      PROVE  a[i] = b[i]
  <2>1. CASE i = (m - n) + 1
    <3>1. n + i = m + 1 /\ i \in 1..(m + 1) - n
      BY <1>1, <2>1
    <3> QED
      BY <1>1, <1>2, <1>4, <2>1, <3>1
  <2>2. CASE i # (m - n) + 1
    <3>1. i \in Nat /\ i >= 1 /\ i <= (m + 1) - n
      BY <1>1, <1>2
    <3>2. i \in 1..m - n /\ i \in 1..(m + 1) - n /\ n + i \in 1..m
      BY <1>1, <2>2, <3>1
    <3> QED
      BY <1>1, <1>2, <1>4, <3>2
  <2> QED
    BY <2>1, <2>2
<1>6. Len(a) = Len(b)
  BY <1>1, <1>2, <1>4
<1>7. a = b
  BY <1>2, <1>4, <1>5, <1>6
<1> QED
  BY <1>7 DEF a, b, t

Longer(t, s, x) == t = Append(s, x)

LEMMA SuffixLonger ==
    ASSUME NEW s \in Ops, NEW x \in Inputs, NEW t, Longer(t, s, x), NEW n \in Nat, n <= Len(s)
    PROVE  Longer(After(t, n), After(s, n), x)
BY SuffixAppended DEF Longer

LEMMA Fronted ==
    ASSUME NEW s \in Ops, s # <<>>
    PROVE  Front(s) \in Ops /\ Last(s) \in Inputs /\ Append(Front(s), Last(s)) = s
BY DEF Front, Last, Ops

LEMMA WaysAreOps == Ways \subseteq Ops
BY DEF Ways, Ops, Inputs

\* The kinds of lines are told apart.
LEMMA RecordedLines ==
    /\ \A c \in Contexts : c \notin Hosts /\ c # Fruitless /\ c # Exit /\ c # Plain
    /\ \A h \in Hosts : h \notin Contexts /\ h # Fruitless
    /\ Fruitless \notin Hosts /\ Fruitless \notin Contexts
    /\ Exit \notin Contexts /\ Plain \notin Contexts
<1>1. Hosts \cap Contexts = {} /\ {Fruitless, Exit, Plain} \cap (Hosts \cup Contexts) = {}
  BY ReplayAssumption
<1> QED
  BY <1>1

\* The first n of ops are of no use, the others are the way.
SplitAt(ops, n) ==
    /\ n \in 0..Len(ops)
    /\ \A i \in 1..n : ops[i] = Fruitless
    /\ After(ops, n) = Lands(ops)

LEMMA NavigationSplit ==
    ASSUME NEW ops
    PROVE  IsNavigation(ops) <=> \E n : SplitAt(ops, n)
BY DEF IsNavigation, SplitAt, After

LEMMA SomewhereSplit ==
    ASSUME NEW ops \in Ops, NEW n, SplitAt(ops, n)
    PROVE  /\ n \in Nat /\ Len(ops) \in Nat /\ n <= Len(ops)
           /\ Lands(ops) = <<>> <=> n = Len(ops)
<1>1. n \in Nat /\ Len(ops) \in Nat /\ n <= Len(ops)
  BY DEF SplitAt, Ops
<1>2. Len(After(ops, n)) = Len(ops) - n
  BY <1>1, SuffixOf
<1>3. Lands(ops) \in Ways /\ Len(Lands(ops)) = Len(ops) - n
  BY <1>2, LandsOf DEF SplitAt
<1>4. Lands(ops) = <<>> <=> Len(Lands(ops)) = 0
  BY <1>3 DEF Ways
<1> QED
  BY <1>1, <1>3, <1>4

LEMMA NavigationOfNone == IsNavigation(<<>>)
<1>1. SplitAt(<<>>, 0)
  <2>1. <<>> \in Ops /\ Len(<<>>) = 0 /\ 0 \in Nat /\ 0 <= 0
    BY DEF Ops
  <2>2. After(<<>>, 0) = <<>>
    BY <2>1, SuffixOf
  <2> QED
    BY <2>1, <2>2, LandsOf DEF SplitAt
<1> QED
  BY <1>1, NavigationSplit

LEMMA NavigationAtMenu ==
    ASSUME NEW ops \in Ops, IsNavigation(ops), Lands(ops) = <<>>,
           NEW op \in Hosts \cup {Fruitless}
    PROVE  IsNavigation(Append(ops, op))
<1> DEFINE t == Append(ops, op)
           m == Len(ops)
<1>1. PICK n : SplitAt(ops, n)
  BY NavigationSplit
<1>2. /\ m \in Nat /\ t \in Ops /\ Len(t) = m + 1 /\ t[m + 1] = op
      /\ \A i \in 1..m : t[i] = ops[i]
  BY Appended DEF Inputs
<1>3. \A i \in 1..m : t[i] = Fruitless
  BY <1>1, <1>2, SomewhereSplit DEF SplitAt
<1>4. Lands(t) = Walk(<<>>, op)
  BY LandsOf DEF Inputs
<1> HIDE DEF t
<1>5. CASE op \in Hosts
  <2>1. After(t, m) = <<op>>
    <3>1. After(ops, m) = <<>> /\ op \in Inputs
      BY <1>2, SuffixOf DEF Inputs
    <3>2. Longer(t, ops, op)
      BY DEF Longer, t
    <3>3. Longer(After(t, m), After(ops, m), op)
      BY <1>2, <3>1, <3>2, SuffixLonger
    <3> QED
      BY <3>1, <3>3 DEF Longer
  <2>2. SplitAt(t, m)
    BY <1>2, <1>3, <1>4, <1>5, <2>1 DEF SplitAt, Walk
  <2> QED
    BY <2>2, NavigationSplit DEF t
<1>6. CASE op \notin Hosts
  <2>1. After(t, m + 1) = <<>>
    BY <1>2, SuffixOf
  <2>2. \A i \in 1..m + 1 : t[i] = Fruitless
    BY <1>2, <1>3, <1>6
  <2>3. SplitAt(t, m + 1)
    BY <1>2, <1>4, <1>6, <2>1, <2>2 DEF SplitAt, Walk
  <2> QED
    BY <2>3, NavigationSplit DEF t
<1> QED
  BY <1>5, <1>6

LEMMA NavigationBegins ==
    ASSUME NEW op \in Hosts \cup {Fruitless}
    PROVE  /\ IsNavigation(<<op>>) /\ Lands(<<op>>) = Walk(<<>>, op)
           /\ <<op>> \in Ops
<1>1. <<>> \in Ops /\ Append(<<>>, op) = <<op>> /\ op \in Inputs
  BY DEF Ops, Inputs
<1>2. IsNavigation(Append(<<>>, op))
  BY <1>1, NavigationOfNone, LandsOf, NavigationAtMenu
<1>3. Lands(Append(<<>>, op)) = Walk(<<>>, op)
  BY <1>1, LandsOf
<1> QED
  BY <1>1, <1>2, <1>3 DEF Ops

LEMMA NavigationGoesOn ==
    ASSUME NEW ops \in Ops, IsNavigation(ops), Lands(ops) # <<>>, NEW c \in Contexts
    PROVE  /\ IsNavigation(Append(ops, c))
           /\ Lands(Append(ops, c)) = Append(Lands(ops), c)
<1> DEFINE t == Append(ops, c)
           m == Len(ops)
<1>1. PICK n : SplitAt(ops, n)
  BY NavigationSplit
<1>2. /\ m \in Nat /\ t \in Ops /\ Len(t) = m + 1 /\ t[m + 1] = c
      /\ \A i \in 1..m : t[i] = ops[i]
  BY Appended DEF Inputs
<1>3. n \in Nat /\ n <= m
  BY <1>1, SomewhereSplit
<1>4. Lands(t) = Append(Lands(ops), c)
  BY LandsOf DEF Inputs, Walk
<1>5. After(t, n) = Append(After(ops, n), c)
  <2>1. c \in Inputs
    BY DEF Inputs
  <2> QED
    BY <1>2, <1>3, <2>1, SuffixAppended
<1> HIDE DEF t
<1>6. SplitAt(t, n)
  <2>1. n \in 0..Len(t) /\ \A i \in 1..n : t[i] = Fruitless
    BY <1>1, <1>2, <1>3 DEF SplitAt
  <2> QED
    BY <1>1, <1>4, <1>5, <2>1 DEF SplitAt
<1> QED
  BY <1>4, <1>6, NavigationSplit DEF t

\* A context that is left: the last line goes.
LEMMA NavigationPops ==
    ASSUME NEW ops \in Ops, IsNavigation(ops), ops # <<>>, Last(ops) \in Contexts
    PROVE  /\ Front(ops) \in Ops /\ IsNavigation(Front(ops))
           /\ Lands(ops) # <<>> /\ Lands(Front(ops)) = Front(Lands(ops))
<1> DEFINE o == Front(ops)
           m == Len(ops)
           c == Last(ops)
<1>1. PICK n : SplitAt(ops, n)
  BY NavigationSplit
<1>2. m \in Nat /\ m > 0 /\ c = ops[m] /\ c \in Inputs /\ c \in Contexts
  BY DEF Ops, Last
<1>3. o \in Ops /\ Append(o, c) = ops
  BY Fronted
<1> HIDE DEF o, c
<1>4. /\ Len(o) \in Nat /\ Len(o) = m - 1 /\ \A i \in 1..m - 1 : o[i] = ops[i]
  <2>1. /\ Len(Append(o, c)) = Len(o) + 1 /\ Len(o) \in Nat
        /\ \A i \in 1..Len(o) : Append(o, c)[i] = o[i]
    BY <1>2, <1>3, Appended
  <2> QED
    BY <1>2, <1>3, <2>1
<1>5. n \in Nat /\ n < m
  <2>1. n \in Nat /\ n <= m
    BY <1>1, SomewhereSplit
  <2>2. ops[m] # Fruitless
    BY <1>2, RecordedLines
  <2> QED
    BY <1>1, <1>2, <2>1, <2>2 DEF SplitAt
<1>6. Lands(ops) # <<>>
  BY <1>1, <1>2, <1>5, SomewhereSplit
<1>7. Lands(ops) = Walk(Lands(o), c) /\ Lands(o) \in Ways
  BY <1>2, <1>3, LandsOf
<1>8. Lands(o) # <<>> /\ Lands(ops) = Append(Lands(o), c)
  <2>1. c \notin Hosts /\ c \in Contexts
    BY <1>2, RecordedLines
  <2> QED
    BY <1>6, <1>7, <2>1 DEF Walk
<1>9. After(ops, n) = Append(After(o, n), c)
  <2>1. Longer(ops, o, c) /\ n <= Len(o)
    BY <1>2, <1>3, <1>4, <1>5 DEF Longer
  <2>2. Longer(After(ops, n), After(o, n), c)
    BY <1>2, <1>3, <1>5, <2>1, SuffixLonger
  <2> QED
    BY <2>2 DEF Longer
<1>10. Front(Lands(ops)) = Lands(o) /\ Front(After(ops, n)) = After(o, n)
  <2>1. Lands(o) \in Ops /\ After(o, n) \in Ops
    <3>1. After(o, n) \in Ops
      BY <1>3, <1>5, <1>4, SuffixOf
    <3> QED
      BY <1>7, <3>1, WaysAreOps
  <2> QED
    BY <1>2, <1>8, <1>9, <2>1, AppendedFront
<1>11. SplitAt(o, n)
  <2>1. n \in 0..Len(o) /\ \A i \in 1..n : o[i] = Fruitless
    BY <1>1, <1>2, <1>5, <1>4 DEF SplitAt
  <2>2. After(ops, n) = Lands(ops)
    BY <1>1 DEF SplitAt
  <2>3. After(o, n) = Lands(o)
    BY <1>10, <2>2
  <2> QED
    BY <2>1, <2>3 DEF SplitAt
<1> QED
  BY <1>3, <1>6, <1>10, <1>11, NavigationSplit DEF o

\* A recorder that does not end with a context has led to a host, no further.
LEMMA NavigationEnds ==
    ASSUME NEW ops \in Ops, IsNavigation(ops), Lands(ops) # <<>>,
           ~(ops # <<>> /\ Last(ops) \in Contexts)
    PROVE  Front(Lands(ops)) = <<>>
<1> DEFINE m == Len(ops)
           w == Lands(ops)
<1>1. PICK n : SplitAt(ops, n)
  BY NavigationSplit
<1>2. /\ n \in Nat /\ m \in Nat /\ n < m
      /\ w \in Ways
  BY <1>1, SomewhereSplit, LandsOf
<1>3. Len(After(ops, n)) = m - n /\ After(ops, n)[m - n] = ops[m]
  BY <1>2, SuffixOf
<1>4. w = After(ops, n)
  BY <1>1 DEF SplitAt
<1>5. Len(w) = m - n /\ w[Len(w)] = Last(ops) /\ ops # <<>>
  <2>1. ops # <<>>
    BY <1>2
  <2>2. Len(w) = m - n /\ w[Len(w)] = ops[m]
    BY <1>3, <1>4
  <2> QED
    BY <2>1, <2>2 DEF Last
<1> HIDE DEF w
<1>6. Len(w) = 1
  BY <1>2, <1>5 DEF Ways
<1> QED
  BY <1>2, <1>6 DEF Front, Ways, w

-----------------------------------------------------------------------------
(* What each step makes of a tab.                                          *)

Fit(tab) == tab \in TabRecords /\ TabFits(tab)

\* What is known of a tab whose recorder is right.
Leading(tab) ==
    \/ tab.replays = {} /\ (tab.path = <<>> \/ IsHeading(tab, Lands(tab.ops)))
    \/ \E r \in tab.replays :
         /\ tab.replays = {r}
         /\ \A way \in Ways : IsHeading(tab, way) => From(way, r) = Lands(tab.ops)

LEMMA Fitting ==
    ASSUME NEW tab
    PROVE  Fit(tab) <=>
             /\ tab \in TabRecords
             /\ tab.stage # "connected" => tab.path = <<>> /\ tab.asking = {}
             /\ tab.path = <<>> => tab.asking = {}
             /\ tab.stage = "none" => tab.replays = {}
             /\ ~tab.slipped => IsNavigation(tab.ops) /\ (tab.stage # "down" => Leading(tab))
BY DEF Fit, TabFits, Leading

LEMMA AtRest ==
    ASSUME NEW tab, tab.asking = {}, tab.replays = {}, tab.path # <<>>
    PROVE  Leading(tab) <=> Lands(tab.ops) = tab.path
BY DEF Leading, IsHeading

LEMMA AtRestLeads ==
    ASSUME NEW tab, tab.asking = {}, tab.replays = {},
           tab.path = <<>> \/ Lands(tab.ops) = tab.path
    PROVE  Leading(tab)
BY DEF Leading, IsHeading

LEMMA TabFields ==
    ASSUME NEW tab \in TabRecords
    PROVE  /\ tab.stage \in {"none", "connecting", "connected", "down"}
           /\ tab.path \in Ways /\ tab.asking \in {{}} \cup {{c} : c \in Contexts}
           /\ tab.ops \in Ops /\ tab.frozen \in BOOLEAN /\ tab.replays \subseteq Ops \ {<<>>}
           /\ tab.at \in Nat /\ tab.slipped \in BOOLEAN
BY DEF TabRecords

Moved(v, r, path, at, off) ==
    v = [r EXCEPT !.path = path, !.at = at, !.slipped = off]

LEMMA MovedFields ==
    ASSUME NEW r \in TabRecords, NEW path \in Ways, NEW at \in Nat, NEW off \in BOOLEAN,
           NEW v, Moved(v, r, path, at, off)
    PROVE  /\ v \in TabRecords
           /\ v.stage = r.stage /\ v.path = path /\ v.asking = r.asking /\ v.ops = r.ops
           /\ v.frozen = r.frozen /\ v.replays = r.replays /\ v.at = at /\ v.slipped = off
BY DEF Moved, TabRecords

Redrawn(v, r, path, asking, at, off) ==
    v = [r EXCEPT !.path = path, !.asking = asking, !.at = at, !.slipped = off]

LEMMA RedrawnFields ==
    ASSUME NEW r \in TabRecords, NEW path \in Ways, NEW at \in Nat, NEW off \in BOOLEAN,
           NEW asking \in {{}} \cup {{c} : c \in Contexts},
           NEW v, Redrawn(v, r, path, asking, at, off)
    PROVE  /\ v \in TabRecords
           /\ v.stage = r.stage /\ v.path = path /\ v.asking = asking /\ v.ops = r.ops
           /\ v.frozen = r.frozen /\ v.replays = r.replays /\ v.at = at /\ v.slipped = off
BY DEF Redrawn, TabRecords

Menus(v, tab, op) ==
    v = [record_replay_op(tab, op) EXCEPT
          !.path = Walk(<<>>, op), !.at = @ + Len(MenuEvents(tab, op)),
          !.slipped = \/ tab.replays # {}
                      \/ ~tab.frozen /\ (@ \/ Full(tab) \/ Lands(tab.ops) # <<>>)]

LEMMA MenuFits ==
    ASSUME NEW tab, Fit(tab), tab.stage = "connected", tab.path = <<>>, tab.asking = {},
           NEW op \in Hosts \cup {Fruitless}, NEW v, Menus(v, tab, op)
    PROVE  Fit(v) /\ v.stage = tab.stage
<1> DEFINE n == Len(MenuEvents(tab, op))
           w == Walk(<<>>, op)
           r == record_replay_op(tab, op)
<1>1. tab \in TabRecords
  BY Fitting
<1>2. n \in Nat
  BY DEF MenuEvents
<1>3. op \in Inputs /\ <<>> \in Ways
  BY DEF Inputs, Ways
<1>4. w \in Ways
  BY <1>3, WalkType
<1>5. <<op>> \in Ops /\ Append(tab.ops, op) \in Ops
  BY <1>1, <1>3, TabFields, Appended, NavigationBegins
<1>6. /\ r \in TabRecords /\ r.stage = tab.stage /\ r.asking = tab.asking
      /\ r.replays = tab.replays /\ r.slipped = tab.slipped
      /\ tab.frozen => r.ops = <<op>>
      /\ ~tab.frozen /\ ~Full(tab) => r.ops = Append(tab.ops, op)
  BY <1>1, <1>5 DEF record_replay_op, TabRecords
<1> HIDE DEF n, w, r
<1> DEFINE b == \/ tab.replays # {}
                \/ ~tab.frozen /\ (r.slipped \/ Full(tab) \/ Lands(tab.ops) # <<>>)
<1>7. Moved(v, r, w, r.at + n, b)
  BY DEF Menus, Moved, r, w, n
<1>8. /\ v \in TabRecords /\ v.stage = tab.stage /\ v.path = w /\ v.asking = {} /\ v.ops = r.ops
      /\ v.replays = tab.replays
      /\ ~v.slipped => /\ tab.replays = {}
                       /\ tab.frozen \/ (~tab.slipped /\ ~Full(tab) /\ Lands(tab.ops) = <<>>)
  <2>1. r.at + n \in Nat /\ b \in BOOLEAN
    BY <1>2, <1>6, TabFields
  <2>2. v.slipped = b
    <3> HIDE DEF b
    <3> QED
      BY <1>4, <1>6, <1>7, <2>1, MovedFields
  <2>3. ~v.slipped => /\ tab.replays = {}
                      /\ tab.frozen \/ (~tab.slipped /\ ~Full(tab) /\ Lands(tab.ops) = <<>>)
    BY <1>6, <2>2
  <2> HIDE DEF b
  <2> QED
    BY <1>4, <1>6, <1>7, <2>1, <2>3, MovedFields
<1>9. ASSUME ~v.slipped
      PROVE  IsNavigation(v.ops) /\ Lands(v.ops) = w
  <2>1. CASE tab.frozen
    BY <1>6, <1>8, <2>1, NavigationBegins DEF w
  <2>2. CASE ~tab.frozen
    <3>1. v.ops = Append(tab.ops, op) /\ Lands(tab.ops) = <<>> /\ tab.ops \in Ops
      BY <1>1, <1>6, <1>8, <1>9, <2>2, TabFields
    <3>2. IsNavigation(tab.ops)
      BY <1>8, <1>9, <2>2, Fitting
    <3>3. IsNavigation(Append(tab.ops, op))
      BY <3>1, <3>2, NavigationAtMenu
    <3>4. Lands(Append(tab.ops, op)) = w
      BY <1>3, <3>1, LandsOf DEF w
    <3> QED
      BY <3>1, <3>3, <3>4
  <2> QED
    BY <2>1, <2>2
<1>10. ~v.slipped => Leading(v)
  BY <1>8, <1>9, AtRestLeads
<1> QED
  BY <1>8, <1>9, <1>10, Fitting

Shells(v, tab, line) ==
    v = [(IF line \in Contexts THEN record_context_command(tab, line)
          ELSE IF line = Exit THEN pop_context_command(tab) ELSE tab) EXCEPT
          !.path = IF line = Exit THEN Front(@) ELSE @,
          !.asking = {line} \cap Contexts, !.at = @ + Len(ShellEvents(tab, line)),
          !.slipped = @ \/ tab.replays # {} \/ (line \in Contexts /\ Full(tab))]

LEMMA WayFront ==
    ASSUME NEW path \in Ways, path # <<>>
    PROVE  Front(path) \in Ways
<1>1. Len(path) \in Nat /\ Len(path) - 1 \in Nat /\ Len(path) - 1 <= Len(path)
  BY DEF Ways
<1>2. SubSeq(path, 1, Len(path) - 1) \in Ways
  BY <1>1, WayShrinks
<1> QED
  BY <1>2 DEF Front

\* Evidence of a shell changes nothing of this.
LEMMA FrozenFits ==
    ASSUME NEW tab, Fit(tab), NEW v, v = [tab EXCEPT !.frozen = TRUE]
    PROVE  Fit(v) /\ v.stage = tab.stage /\ v.ops = tab.ops /\ v.at = tab.at
<1>1. tab \in TabRecords
  BY Fitting
<1>2. /\ v \in TabRecords /\ v.stage = tab.stage /\ v.path = tab.path
      /\ v.asking = tab.asking /\ v.ops = tab.ops /\ v.replays = tab.replays
      /\ v.slipped = tab.slipped /\ v.at = tab.at
  BY <1>1 DEF TabRecords
<1>3. Leading(v) <=> Leading(tab)
  BY <1>2 DEF Leading, IsHeading
<1> QED
  BY <1>2, <1>3, Fitting

LEMMA ShellFits ==
    ASSUME NEW tab, Fit(tab), tab.stage = "connected", tab.path # <<>>, tab.asking = {},
           tab.frozen, NEW line \in Contexts \cup {Exit, Plain}, NEW v, Shells(v, tab, line)
    PROVE  Fit(v) /\ v.stage = tab.stage
<1> DEFINE n == Len(ShellEvents(tab, line))
           a == {line} \cap Contexts
<1>1. tab \in TabRecords
  BY Fitting
<1>2. /\ tab.path \in Ways /\ tab.ops \in Ops /\ tab.at \in Nat /\ tab.slipped \in BOOLEAN
      /\ tab.frozen = TRUE
  BY <1>1, TabFields
<1>3. n \in Nat
  BY DEF ShellEvents
<1>4. ASSUME ~tab.slipped, tab.replays = {}
      PROVE  IsNavigation(tab.ops) /\ Lands(tab.ops) = tab.path
  BY <1>4, Fitting, AtRest
<1>5. a \in {{}} \cup {{c} : c \in Contexts}
  <2>1. CASE line \in Contexts
    <3>1. a = {line}
      BY <2>1
    <3> QED
      BY <2>1, <3>1
  <2>2. CASE line \notin Contexts
    <3>1. a = {}
      BY <2>2
    <3> QED
      BY <3>1
  <2> QED
    BY <2>1, <2>2
<1> HIDE DEF n, a
<1>6. CASE line \in Contexts
  <2> DEFINE r == record_context_command(tab, line)
             b == r.slipped \/ tab.replays # {} \/ Full(tab)
  <2>1. line \in Inputs /\ line # Exit /\ a = {line}
    BY <1>6, RecordedLines DEF Inputs, a
  <2>2. Append(tab.ops, line) \in Ops
    BY <1>2, <2>1, Appended
  <2>3. /\ r \in TabRecords /\ r.stage = tab.stage /\ r.path = tab.path /\ r.at = tab.at
        /\ r.replays = tab.replays /\ r.slipped = tab.slipped
        /\ ~Full(tab) => r.ops = Append(tab.ops, line)
    BY <1>1, <1>2, <2>2 DEF record_context_command, TabRecords
  <2> HIDE DEF r
  <2>4. Redrawn(v, r, r.path, a, r.at + n, b)
    BY <1>6, <2>1 DEF Shells, Redrawn, r, n, a
  <2>5. b \in BOOLEAN /\ r.at + n \in Nat /\ r.path \in Ways /\ r \in TabRecords
    BY <1>2, <1>3, <2>3
  <2>6. ~b => ~tab.slipped /\ tab.replays = {} /\ ~Full(tab)
    BY <2>3
  <2> HIDE DEF b
  <2>7. /\ v \in TabRecords /\ v.stage = r.stage /\ v.path = r.path /\ v.asking = a
        /\ v.ops = r.ops /\ v.replays = r.replays /\ v.slipped = b
    <3> DEFINE p == r.path
               at == r.at + n
    <3>1. p \in Ways /\ at \in Nat /\ r \in TabRecords /\ Redrawn(v, r, p, a, at, b)
      BY <2>4, <2>5
    <3> HIDE DEF p, at
    <3>2. /\ v \in TabRecords /\ v.stage = r.stage /\ v.path = p /\ v.asking = a
          /\ v.ops = r.ops /\ v.replays = r.replays /\ v.slipped = b
      BY <1>5, <2>5, <3>1, RedrawnFields
    <3> QED
      BY <3>2 DEF p
  <2>8. ASSUME ~v.slipped
        PROVE  IsNavigation(v.ops) /\ Leading(v)
    <3>1. v.ops = Append(tab.ops, line) /\ v.replays = {}
      BY <2>3, <2>6, <2>7, <2>8
    <3>2. IsNavigation(tab.ops) /\ Lands(tab.ops) = tab.path
      BY <1>4, <2>6, <2>7, <2>8
    <3>3. IsNavigation(v.ops) /\ Lands(v.ops) = Append(v.path, line)
      BY <1>2, <1>6, <2>3, <2>7, <3>1, <3>2, NavigationGoesOn
    <3>4. IsHeading(v, Lands(v.ops))
      BY <2>1, <2>7, <3>3 DEF IsHeading
    <3> QED
      BY <3>1, <3>3, <3>4 DEF Leading
  <2> QED
    BY <2>3, <2>7, <2>8, Fitting
<1>7. CASE line = Exit
  <2> DEFINE r == pop_context_command(tab)
             b == r.slipped \/ tab.replays # {}
  <2>1. line \notin Contexts /\ a = {}
    BY <1>7, RecordedLines DEF a
  <2>2. Pops(tab) => Front(tab.ops) \in Ops
    BY <1>2, Fronted DEF Pops
  <2>3. /\ r \in TabRecords /\ r.stage = tab.stage /\ r.path = tab.path /\ r.at = tab.at
        /\ r.replays = tab.replays /\ r.slipped = tab.slipped
        /\ r.ops = IF Pops(tab) THEN Front(tab.ops) ELSE tab.ops
    BY <1>1, <2>2 DEF pop_context_command, TabRecords
  <2> HIDE DEF r
  <2>4. Redrawn(v, r, Front(r.path), a, r.at + n, b)
    BY <1>7, <2>1 DEF Shells, Redrawn, r, n, a
  <2>5. b \in BOOLEAN /\ r.at + n \in Nat /\ Front(r.path) \in Ways /\ r \in TabRecords
    BY <1>2, <1>3, <2>3, WayFront
  <2>6. ~b => ~tab.slipped /\ tab.replays = {}
    BY <2>3
  <2> HIDE DEF b
  <2>7. /\ v \in TabRecords /\ v.stage = r.stage /\ v.path = Front(r.path) /\ v.asking = a
        /\ v.ops = r.ops /\ v.replays = r.replays /\ v.slipped = b
    <3> DEFINE p == Front(r.path)
               at == r.at + n
    <3>1. p \in Ways /\ at \in Nat /\ r \in TabRecords /\ Redrawn(v, r, p, a, at, b)
      BY <2>4, <2>5
    <3> HIDE DEF p, at
    <3>2. /\ v \in TabRecords /\ v.stage = r.stage /\ v.path = p /\ v.asking = a
          /\ v.ops = r.ops /\ v.replays = r.replays /\ v.slipped = b
      BY <1>5, <2>5, <3>1, RedrawnFields
    <3> QED
      BY <3>2 DEF p
  <2>8. ASSUME ~v.slipped
        PROVE  IsNavigation(v.ops) /\ (v.path = <<>> \/ Lands(v.ops) = v.path)
    <3>1. IsNavigation(tab.ops) /\ Lands(tab.ops) = tab.path
      BY <1>4, <2>6, <2>7, <2>8
    <3>2. CASE Pops(tab)
      BY <1>2, <2>3, <2>7, <3>1, <3>2, NavigationPops DEF Pops
    <3>3. CASE ~Pops(tab)
      BY <1>2, <2>3, <2>7, <3>1, <3>3, NavigationEnds DEF Pops
    <3> QED
      BY <3>2, <3>3
  <2>9. ~v.slipped => Leading(v)
    BY <2>1, <2>3, <2>6, <2>7, <2>8, AtRestLeads
  <2> QED
    BY <2>1, <2>3, <2>7, <2>8, <2>9, Fitting
<1>8. CASE line \notin Contexts /\ line # Exit
  <2> DEFINE b == tab.slipped \/ tab.replays # {}
  <2>1. a = {}
    BY <1>8 DEF a
  <2>2. Redrawn(v, tab, tab.path, a, tab.at + n, b)
    BY <1>8, <2>1 DEF Shells, Redrawn, n, a
  <2>3. b \in BOOLEAN /\ tab.at + n \in Nat
    BY <1>2, <1>3
  <2>4. ~b => ~tab.slipped /\ tab.replays = {}
    OBVIOUS
  <2> HIDE DEF b
  <2>5. /\ v \in TabRecords /\ v.stage = tab.stage /\ v.path = tab.path /\ v.asking = a
        /\ v.ops = tab.ops /\ v.replays = tab.replays /\ v.slipped = b
    BY <1>1, <1>2, <1>5, <2>2, <2>3, RedrawnFields
  <2>6. ~v.slipped => IsNavigation(v.ops) /\ Leading(v)
    BY <1>4, <2>1, <2>4, <2>5, AtRestLeads
  <2> QED
    BY <2>1, <2>5, <2>6, Fitting
<1> QED
  BY <1>6, <1>7, <1>8

\* What the steps make of the tab.
Answers(v, tab, context, accepted) ==
    v = [tab EXCEPT !.path = IF accepted THEN Append(@, context) ELSE @,
                    !.asking = {}, !.slipped = @ \/ ~accepted]

ShellEnded(v, tab, left) ==
    v = [tab EXCEPT !.path = SubSeq(@, 1, left), !.asking = {},
                    !.slipped = @ \/ left > 0 \/ tab.replays # {}]

Reconnects(v, tab) ==
    v = [tab EXCEPT !.stage = "connecting",
                    !.slipped = tab.replays # {} \/ ~IsNavigation(tab.ops),
                    !.replays = IF tab.ops = <<>> THEN @ ELSE @ \cup {tab.ops}]

Replays(v, tab, replay) ==
    v = [tab EXCEPT
          !.path = IF Head(replay) \in Contexts THEN @ ELSE Walk(@, Head(replay)),
          !.asking = IF tab.path = <<>> THEN {} ELSE {Head(replay)} \cap Contexts,
          !.replays = (@ \ {replay}) \cup ({Tail(replay)} \ {<<>>})]

GivesUp(v, tab, replay) == v = [tab EXCEPT !.replays = @ \ {replay}, !.slipped = TRUE]

LEMMA AnswerFits ==
    ASSUME NEW tab, Fit(tab), tab.stage = "connected", NEW context \in tab.asking,
           NEW accepted \in BOOLEAN, NEW v, Answers(v, tab, context, accepted)
    PROVE  Fit(v) /\ v.stage = tab.stage /\ v.ops = tab.ops /\ v.at = tab.at
<1> DEFINE p == IF accepted THEN Append(tab.path, context) ELSE tab.path
           b == tab.slipped \/ ~accepted
<1>1. tab \in TabRecords
  BY Fitting
<1>2. /\ tab.path \in Ways /\ tab.path # <<>> /\ context \in Contexts
      /\ tab.asking = {context} /\ tab.slipped \in BOOLEAN
  BY <1>1, Fitting, TabFields
<1>3. p \in Ways /\ p # <<>> /\ b \in BOOLEAN
  <2>1. Append(tab.path, context) \in Ways
    BY <1>2, WayGrows
  <2>2. Append(tab.path, context) # <<>>
    BY <1>2 DEF Ways
  <2> QED
    BY <1>2, <2>1, <2>2
<1>4. ~b => ~tab.slipped /\ p = Append(tab.path, context)
  OBVIOUS
<1> HIDE DEF p, b
<1>5. v = [tab EXCEPT !.path = p, !.asking = {}, !.slipped = b]
  BY DEF p, b, Answers
<1>6. /\ v \in TabRecords /\ v.stage = tab.stage /\ v.path = p /\ v.asking = {}
      /\ v.ops = tab.ops /\ v.replays = tab.replays /\ v.at = tab.at /\ v.slipped = b
  BY <1>1, <1>3, <1>5 DEF TabRecords
<1>7. ASSUME ~v.slipped
      PROVE  IsNavigation(v.ops) /\ Leading(v)
  <2>1. IsNavigation(tab.ops) /\ Leading(tab) /\ p = Append(tab.path, context)
    BY <1>4, <1>6, <1>7, Fitting
  <2>2. ASSUME NEW way, IsHeading(v, way)
        PROVE  IsHeading(tab, way)
    BY <1>2, <1>6, <2>1, <2>2 DEF IsHeading
  <2>3. ASSUME NEW way, IsHeading(tab, way)
        PROVE  IsHeading(v, way)
    BY <1>2, <1>6, <2>1, <2>3 DEF IsHeading
  <2>4. Leading(v)
    BY <1>2, <1>6, <2>1, <2>2, <2>3 DEF Leading
  <2> QED
    BY <1>6, <2>1, <2>4
<1> QED
  BY <1>3, <1>6, <1>7, Fitting

LEMMA ShellEndFits ==
    ASSUME NEW tab, Fit(tab), tab.stage = "connected", tab.path # <<>>,
           NEW left \in Nat, left < Len(tab.path), NEW v,
           ShellEnded(v, tab, left)
    PROVE  Fit(v) /\ v.stage = tab.stage /\ v.ops = tab.ops /\ v.at = tab.at
<1> DEFINE p == SubSeq(tab.path, 1, left)
           b == tab.slipped \/ left > 0 \/ tab.replays # {}
<1>1. tab \in TabRecords
  BY Fitting
<1>2. tab.path \in Ways /\ tab.slipped \in BOOLEAN /\ Len(tab.path) \in Nat
  BY <1>1, TabFields DEF Ways
<1>3. p \in Ways /\ b \in BOOLEAN
  BY <1>2, WayShrinks
<1>4. ~b => ~tab.slipped /\ tab.replays = {} /\ left = 0
  OBVIOUS
<1>5. left = 0 => p = <<>>
  BY <1>2 DEF Ways
<1> HIDE DEF p, b
<1>6. v = [tab EXCEPT !.path = p, !.asking = {}, !.slipped = b]
  BY DEF p, b, ShellEnded
<1>7. /\ v \in TabRecords /\ v.stage = tab.stage /\ v.path = p /\ v.asking = {}
      /\ v.ops = tab.ops /\ v.replays = tab.replays /\ v.at = tab.at /\ v.slipped = b
  BY <1>1, <1>3, <1>6 DEF TabRecords
<1>8. ~v.slipped => IsNavigation(v.ops) /\ Leading(v)
  BY <1>4, <1>5, <1>7, Fitting, AtRestLeads
<1> QED
  BY <1>7, <1>8, Fitting

LEMMA ConnectFits ==
    ASSUME NEW tab, Fit(tab), tab.stage = "connecting", NEW stage \in {"connected", "down"},
           NEW v, v = [tab EXCEPT !.stage = stage]
    PROVE  Fit(v) /\ v.stage = stage /\ v.ops = tab.ops /\ v.at = tab.at
<1>1. tab \in TabRecords /\ tab.path = <<>> /\ tab.asking = {}
  BY Fitting
<1>2. /\ v \in TabRecords /\ v.stage = stage /\ v.path = tab.path /\ v.asking = tab.asking
      /\ v.ops = tab.ops /\ v.replays = tab.replays /\ v.at = tab.at
      /\ v.slipped = tab.slipped
  BY <1>1 DEF TabRecords
<1>3. Leading(tab) => Leading(v)
  BY <1>2 DEF Leading, IsHeading
<1> QED
  BY <1>1, <1>2, <1>3, Fitting

LEMMA DisconnectFits ==
    ASSUME NEW tab, Fit(tab), NEW v,
           v = [tab EXCEPT !.stage = "down", !.path = <<>>, !.asking = {}]
    PROVE  Fit(v) /\ v.stage = "down" /\ v.ops = tab.ops /\ v.at = tab.at
<1>1. tab \in TabRecords /\ <<>> \in Ways
  BY Fitting DEF Ways
<1>2. /\ v \in TabRecords /\ v.stage = "down" /\ v.path = <<>> /\ v.asking = {}
      /\ v.ops = tab.ops /\ v.at = tab.at /\ v.slipped = tab.slipped
  BY <1>1 DEF TabRecords
<1> QED
  BY <1>2, Fitting

\* The recorder is typed again from the menu.
LEMMA FromTheMenu ==
    ASSUME NEW tab \in TabRecords, tab.path = <<>>, tab.asking = {},
           tab.ops = <<>> => tab.replays = {}, tab.ops # <<>> => tab.replays = {tab.ops}
    PROVE  Leading(tab)
<1>1. CASE tab.ops = <<>>
  BY <1>1, AtRestLeads
<1>2. CASE tab.ops # <<>>
  <2>1. ASSUME NEW way \in Ways, IsHeading(tab, way)
        PROVE  From(way, tab.ops) = Lands(tab.ops)
    BY <2>1 DEF IsHeading, Lands
  <2> QED
    BY <1>2, <2>1 DEF Leading
<1> QED
  BY <1>1, <1>2

LEMMA ReconnectFits ==
    ASSUME NEW tab, Fit(tab), tab.stage = "down", NEW v, Reconnects(v, tab)
    PROVE  Fit(v) /\ v.stage = "connecting" /\ v.ops = tab.ops /\ v.at = tab.at
<1> DEFINE b == tab.replays # {} \/ ~IsNavigation(tab.ops)
           r == IF tab.ops = <<>> THEN tab.replays ELSE tab.replays \cup {tab.ops}
<1>1. tab \in TabRecords /\ tab.path = <<>> /\ tab.asking = {}
  BY Fitting
<1>2. b \in BOOLEAN
  OBVIOUS
<1>3. r \subseteq Ops \ {<<>>}
  BY <1>1, TabFields
<1>4. ~b => /\ IsNavigation(tab.ops)
            /\ tab.ops = <<>> => r = {}
            /\ tab.ops # <<>> => r = {tab.ops}
  OBVIOUS
<1> HIDE DEF b, r
<1>5. v = [tab EXCEPT !.stage = "connecting", !.slipped = b, !.replays = r]
  BY DEF b, r, Reconnects
<1>6. /\ v \in TabRecords /\ v.stage = "connecting" /\ v.path = tab.path
      /\ v.asking = tab.asking /\ v.ops = tab.ops /\ v.replays = r /\ v.at = tab.at
      /\ v.slipped = b
  BY <1>1, <1>2, <1>3, <1>5 DEF TabRecords
<1>7. ~v.slipped => IsNavigation(v.ops) /\ Leading(v)
  BY <1>1, <1>4, <1>6, FromTheMenu
<1> QED
  BY <1>1, <1>6, <1>7, Fitting

\* Whatever it is, a line of a replay makes the remote head for Walk(path, line).
LEMMA ReplayFits ==
    ASSUME NEW tab, Fit(tab), tab.stage = "connected", tab.asking = {},
           NEW replay \in tab.replays, NEW v, Replays(v, tab, replay)
    PROVE  Fit(v) /\ v.stage = tab.stage /\ v.ops = tab.ops /\ v.at = tab.at
<1> DEFINE op == Head(replay)
           rest == Tail(replay)
           w == Walk(tab.path, op)
           p == IF op \in Contexts THEN tab.path ELSE w
           a == IF tab.path = <<>> THEN {} ELSE {op} \cap Contexts
           r == (tab.replays \ {replay}) \cup ({rest} \ {<<>>})
<1>1. tab \in TabRecords
  BY Fitting
<1>2. /\ tab.path \in Ways /\ replay \in Ops /\ replay # <<>>
      /\ tab.replays \subseteq Ops \ {<<>>}
  BY <1>1, TabFields
<1>3. op \in Inputs /\ rest \in Ops
  BY <1>2 DEF Ops
<1>4. From(tab.path, replay) = From(w, rest)
  BY <1>2, FromHead
<1> HIDE DEF op, rest
<1>5. w \in Ways
  BY <1>2, <1>3, WalkType
<1>6. a \in {{}} \cup {{c} : c \in Contexts} /\ p \in Ways /\ r \subseteq Ops \ {<<>>}
  <2>1. CASE op \in Contexts /\ tab.path # <<>>
    <3>1. a = {op}
      BY <2>1
    <3> QED
      BY <1>2, <1>3, <1>5, <2>1, <3>1
  <2>2. CASE ~(op \in Contexts /\ tab.path # <<>>)
    <3>1. a = {}
      BY <2>2
    <3> QED
      BY <1>2, <1>3, <1>5, <3>1
  <2> QED
    BY <2>1, <2>2
<1>7. /\ op \in Contexts /\ tab.path # <<>> => p = tab.path /\ a = {op} /\ w = Append(p, op)
      /\ ~(op \in Contexts /\ tab.path # <<>>) => p = w /\ a = {}
  <2>1. op \in Contexts => op \notin Hosts
    BY RecordedLines
  <2> QED
    BY <2>1 DEF Walk
<1>8. tab.replays = {replay} => (rest = <<>> => r = {}) /\ (rest # <<>> => r = {rest})
  OBVIOUS
<1>9. Replays(v, tab, replay) => v = [tab EXCEPT !.path = p, !.asking = a, !.replays = r]
  BY DEF Replays, op, rest
<1> HIDE DEF w, p, a, r
<1>10. v = [tab EXCEPT !.path = p, !.asking = a, !.replays = r]
  BY <1>9
<1>11. /\ v \in TabRecords /\ v.stage = tab.stage /\ v.path = p
       /\ v.asking = a /\ v.ops = tab.ops /\ v.replays = r /\ v.at = tab.at
       /\ v.slipped = tab.slipped
  BY <1>1, <1>6, <1>10 DEF TabRecords
<1>12. \A way : IsHeading(v, way) <=> way = w
  <2>1. CASE op \in Contexts /\ tab.path # <<>>
    BY <1>7, <1>11, <2>1 DEF IsHeading
  <2>2. CASE ~(op \in Contexts /\ tab.path # <<>>)
    BY <1>7, <1>11, <2>2 DEF IsHeading
  <2> QED
    BY <2>1, <2>2
<1>13. v.path = <<>> => v.asking = {}
  BY <1>7, <1>11
<1>14. ASSUME ~v.slipped
       PROVE  IsNavigation(v.ops) /\ Leading(v)
  <2>1. IsNavigation(tab.ops) /\ Leading(tab)
    BY <1>11, <1>14, Fitting
  <2>2. tab.replays = {replay} /\ From(w, rest) = Lands(tab.ops)
    <3>1. IsHeading(tab, tab.path)
      BY DEF IsHeading
    <3>2. PICK s \in tab.replays :
            /\ tab.replays = {s}
            /\ \A way \in Ways : IsHeading(tab, way) => From(way, s) = Lands(tab.ops)
      BY <2>1 DEF Leading
    <3>3. s = replay
      BY <3>2
    <3> QED
      BY <1>2, <1>4, <3>1, <3>2, <3>3
  <2>3. CASE rest = <<>>
    <3>1. v.replays = {} /\ Lands(v.ops) = w
      BY <1>5, <1>8, <1>11, <2>2, <2>3, FromNone
    <3> QED
      BY <1>11, <1>12, <2>1, <3>1 DEF Leading
  <2>4. CASE rest # <<>>
    <3>1. v.replays = {rest}
      BY <1>8, <1>11, <2>2, <2>4
    <3> QED
      BY <1>11, <1>12, <2>1, <2>2, <3>1 DEF Leading
  <2> QED
    BY <2>3, <2>4
<1> QED
  BY <1>11, <1>13, <1>14, Fitting

LEMMA GivenUpFits ==
    ASSUME NEW tab, Fit(tab), NEW replay, NEW v,
           GivesUp(v, tab, replay)
    PROVE  Fit(v) /\ v.stage = tab.stage /\ v.ops = tab.ops /\ v.at = tab.at
<1>1. tab \in TabRecords
  BY Fitting
<1>2. /\ v \in TabRecords /\ v.stage = tab.stage /\ v.path = tab.path
      /\ v.asking = tab.asking /\ v.ops = tab.ops /\ v.at = tab.at /\ v.slipped
      /\ v.replays \subseteq tab.replays
  BY <1>1 DEF TabRecords, GivesUp
<1> QED
  BY <1>2, Fitting

LEMMA BegunFits ==
    ASSUME NEW stage \in {"none", "connecting"}, NEW ops \in Ops, NEW v, v = Tab(stage, ops),
           stage = "none" => ops = <<>>
    PROVE  Fit(v) /\ v.stage = stage /\ v.ops = ops /\ v.at = Len(ops)
<1> DEFINE r == IF ops = <<>> THEN {} ELSE {ops}
           b == ~IsNavigation(ops)
<1>1. Len(ops) \in Nat /\ <<>> \in Ways /\ r \subseteq Ops \ {<<>>} /\ b \in BOOLEAN
  BY DEF Ops, Ways
<1>2. (ops = <<>> => r = {}) /\ (ops # <<>> => r = {ops}) /\ (~b => IsNavigation(ops))
  OBVIOUS
<1>3. v = [stage |-> stage, path |-> <<>>, asking |-> {}, ops |-> ops,
           frozen |-> FALSE, replays |-> r, at |-> Len(ops), slipped |-> b]
  BY DEF Tab
<1> HIDE DEF r, b
<1>4. /\ v \in TabRecords /\ v.stage = stage /\ v.path = <<>> /\ v.asking = {}
      /\ v.ops = ops /\ v.replays = r /\ v.at = Len(ops) /\ v.slipped = b
  BY <1>1, <1>3 DEF TabRecords
<1>5. ~v.slipped => IsNavigation(v.ops) /\ Leading(v)
  BY <1>2, <1>4, FromTheMenu
<1> QED
  BY <1>2, <1>4, <1>5, Fitting

-----------------------------------------------------------------------------
(* Streams, and what they fold to.                                         *)

Numbers(events) == {e.at : e \in events}

LastOf(events) == Max({0} \cup Numbers(events))

Nth(events, n) == CHOOSE e \in events : e.at = n

Greatest(S, n) == n \in S /\ \A k \in S : n >= k

LEMMA MaxIs ==
    ASSUME NEW S, S \subseteq Nat, NEW n \in Nat, Greatest(S, n)
    PROVE  Max(S) = n
<1> DEFINE m == CHOOSE x \in S : \A y \in S : x >= y
<1>1. n \in S /\ \A k \in S : n >= k
  BY DEF Greatest
<1>2. m \in S /\ \A k \in S : m >= k
  BY <1>1
<1>3. m \in Nat /\ m >= n /\ n >= m
  BY <1>1, <1>2
<1>4. Max(S) = m
  BY DEF Max
<1> HIDE DEF m
<1> QED
  BY <1>3, <1>4

LEMMA RowFields ==
    ASSUME NEW e \in Rows
    PROVE  /\ e.at \in Nat \ {0}
           /\ \/ e.event \in {"op", "context"} /\ e.op \in Inputs
              \/ e.event \in {"pop", "reset"}
BY DEF Rows

LEMMA LastNumber ==
    ASSUME NEW events, events \subseteq Rows, Bounded(events)
    PROVE  LastOf(events) \in Nat /\ \A e \in events : e.at <= LastOf(events)
<1> DEFINE T == {n \in Nat : \A e \in events : e.at <= n}
           S == {0} \cup Numbers(events)
<1>1. \A e \in events : e.at \in Nat /\ e.at # 0
  BY RowFields
<1>2. T \subseteq Nat /\ T # {}
  BY DEF Bounded
<1> HIDE DEF T
<1>3. PICK m \in T : \A k \in T : m <= k
  BY <1>2, LeastElement
<1>4. m \in Nat /\ \A e \in events : e.at <= m
  BY <1>3 DEF T
<1>5. m \in S
  <2> SUFFICES ASSUME m \notin S
               PROVE  FALSE
    OBVIOUS
  <2>1. m - 1 \in Nat
    BY <1>4
  <2>2. \A e \in events : e.at <= m - 1
    BY <1>1, <1>4 DEF Numbers
  <2>3. m - 1 \in T
    BY <2>1, <2>2 DEF T
  <2> QED
    BY <1>3, <1>4, <2>1, <2>3
<1>6. S \subseteq Nat /\ Greatest(S, m)
  BY <1>1, <1>4, <1>5 DEF Greatest, Numbers
<1> HIDE DEF S
<1>7. Max(S) = m
  BY <1>4, <1>6, MaxIs
<1> QED
  BY <1>4, <1>7 DEF LastOf, S

LEMMA NthIs ==
    ASSUME NEW events, NEW n \in Numbers(events)
    PROVE  Nth(events, n) \in events /\ Nth(events, n).at = n
BY DEF Nth, Numbers

\* A pop of nothing leaves nothing.
LEMMA FoldType ==
    ASSUME NEW ops \in Ops, NEW e \in Rows
    PROVE  fold_event(ops, e) \in Ops
<1>1. Front(ops) \in Ops
  <2>1. CASE ops = <<>>
    <3>1. SubSeq(<<>>, 1, 0 - 1) = <<>> /\ Len(<<>>) = 0
      OBVIOUS
    <3> QED
      BY <2>1, <3>1 DEF Front
  <2>2. CASE ops # <<>>
    BY <2>2, Fronted
  <2> QED
    BY <2>1, <2>2
<1>2. CASE e.event \in {"op", "context"}
  <2>1. Append(ops, e.op) \in Ops
    BY <1>2, RowFields, Appended
  <2> QED
    BY <1>2, <2>1 DEF fold_event
<1>3. CASE e.event = "pop"
  BY <1>1, <1>3 DEF fold_event
<1>4. CASE e.event = "reset"
  BY <1>4 DEF fold_event, Ops
<1> QED
  BY <1>2, <1>3, <1>4, RowFields

FoldStep(events, g, n) ==
    IF n \in Numbers(events) THEN fold_event(g[n - 1], Nth(events, n)) ELSE g[n - 1]

Unfolds(g, events) ==
    g = [n \in 0..LastOf(events) |-> IF n = 0 THEN <<>> ELSE FoldStep(events, g, n)]

LEMMA ReplayedUnfolds ==
    ASSUME NEW events, NEW g, Unfolds(g, events)
    PROVE  \E h : Unfolds(h, events) /\ Replayed(events) = h[LastOf(events)]
<1> DEFINE h == CHOOSE f : Unfolds(f, events)
<1>1. Unfolds(h, events)
  OBVIOUS
<1>2. Replayed(events) = h[LastOf(events)]
  BY DEF Replayed, Unfolds, FoldStep, LastOf, Numbers, Nth
<1> QED
  BY <1>1, <1>2

UnfoldsTo(g, events) ==
    /\ g[0] = <<>>
    /\ \A n \in 1..LastOf(events) : g[n] = FoldStep(events, g, n)
    /\ Replayed(events) = g[LastOf(events)]

LEMMA ReplayedValues ==
    ASSUME NEW events, events \subseteq Rows, Bounded(events)
    PROVE  \E g : UnfoldsTo(g, events) /\ \A n \in 0..LastOf(events) : g[n] \in Ops
<1> DEFINE m == LastOf(events)
           step == [n \in 1..m |-> [o \in Ops |->
                      IF n \in Numbers(events) THEN fold_event(o, Nth(events, n)) ELSE o]]
<1>1. m \in Nat /\ <<>> \in Ops
  BY LastNumber DEF Ops
<1>2. \A n \in Numbers(events) : Nth(events, n) \in Rows
  BY NthIs
<1>3. step \in [1..m -> [Ops -> Ops]]
  BY <1>2, FoldType
<1>4. PICK f \in [0..m -> Ops] : Recursive(f, <<>>, m, step)
  <2> HIDE DEF m, step
  <2> QED
    BY <1>1, <1>3, Recursion
<1>5. ASSUME NEW n \in 1..m
      PROVE  f[n] = FoldStep(events, f, n)
  <2>1. f[n - 1] \in Ops
    BY <1>1
  <2> QED
    BY <1>4, <2>1 DEF Recursive, FoldStep
<1> HIDE DEF step
<1>6. Unfolds(f, events)
  <2>1. ASSUME NEW n \in 0..m, n # 0
        PROVE  f[n] = FoldStep(events, f, n)
    <3>1. n \in 1..m
      BY <1>1, <2>1
    <3> QED
      BY <1>5, <3>1
  <2> QED
    BY <1>4, <2>1 DEF Unfolds, Recursive
<1>7. PICK h : Unfolds(h, events) /\ Replayed(events) = h[m]
  BY <1>6, ReplayedUnfolds
<1>8. h[0] = <<>>
  BY <1>1, <1>7 DEF Unfolds
<1>9. ASSUME NEW n \in 1..m
      PROVE  h[n] = FoldStep(events, h, n)
  <2>1. n \in 0..m /\ n # 0
    BY <1>1
  <2> QED
    BY <1>7, <2>1 DEF Unfolds
<1> DEFINE T == {n \in Nat : n <= m => h[n] \in Ops}
<1>10. 0 \in T
  BY <1>1, <1>8
<1>11. ASSUME NEW n \in Nat, n \in T
       PROVE  n + 1 \in T
  <2> SUFFICES ASSUME n + 1 <= m
               PROVE  h[n + 1] \in Ops
    OBVIOUS
  <2>1. n + 1 \in 1..m /\ (n + 1) - 1 = n /\ h[n] \in Ops
    BY <1>1, <1>11
  <2>2. h[n + 1] = IF n + 1 \in Numbers(events)
                   THEN fold_event(h[n], Nth(events, n + 1)) ELSE h[n]
    BY <1>9, <2>1 DEF FoldStep
  <2> QED
    BY <1>2, <2>1, <2>2, FoldType
<1> HIDE DEF T
<1>12. \A n \in Nat : n \in T
  BY <1>10, <1>11, Inductive
<1> QED
  BY <1>7, <1>8, <1>9, <1>12 DEF T, UnfoldsTo

LEMMA ReplayedType ==
    ASSUME NEW events, events \subseteq Rows, Bounded(events)
    PROVE  Replayed(events) \in Ops
<1>1. PICK g : UnfoldsTo(g, events) /\ \A n \in 0..LastOf(events) : g[n] \in Ops
  BY ReplayedValues
<1>2. LastOf(events) \in 0..LastOf(events)
  BY LastNumber
<1> QED
  BY <1>1, <1>2 DEF UnfoldsTo

\* A stream that tells of ops folds to them.
LEMMA ReplayedTells ==
    ASSUME NEW events, events \subseteq Rows, NEW n \in Nat, NEW ops, Tells(events, n, ops)
    PROVE  Replayed(events) = ops
<1>1. PICK f \in [0..n -> Ops] : TellsThrough(f, events, n, ops)
  BY DEF Tells
<1>2. \A e \in events : e.at \in 1..n
  BY DEF Tells
<1>3. \A i \in 1..n : \E e \in events : e.at = i /\ f[i] = fold_event(f[i - 1], e)
  BY <1>1 DEF TellsThrough
<1>4. Bounded(events)
  BY <1>2 DEF Bounded
<1>5. Numbers(events) = 1..n
  BY <1>2, <1>3 DEF Numbers
<1>6. LastOf(events) = n
  <2>1. {0} \cup 1..n \subseteq Nat /\ Greatest({0} \cup 1..n, n)
    BY DEF Greatest
  <2>2. Max({0} \cup 1..n) = n
    BY <2>1, MaxIs
  <2> QED
    BY <1>5, <2>2 DEF LastOf
<1>7. PICK g : UnfoldsTo(g, events)
  BY <1>4, ReplayedValues
<1>8. ASSUME NEW i \in 1..n
      PROVE  f[i] = fold_event(f[i - 1], Nth(events, i)) /\ g[i] = fold_event(g[i - 1], Nth(events, i))
  <2>1. PICK e \in events : e.at = i /\ f[i] = fold_event(f[i - 1], e)
    BY <1>3
  <2>2. Nth(events, i) \in events /\ Nth(events, i).at = i
    BY <1>5, NthIs
  <2>3. Nth(events, i) = e
    BY <2>1, <2>2 DEF Tells
  <2>4. g[i] = FoldStep(events, g, i)
    BY <1>6, <1>7 DEF UnfoldsTo
  <2> QED
    BY <1>5, <2>1, <2>3, <2>4 DEF FoldStep
<1> DEFINE T == {i \in Nat : i <= n => f[i] = g[i]}
<1>9. 0 \in T
  BY <1>1, <1>7 DEF TellsThrough, UnfoldsTo
<1>10. ASSUME NEW i \in Nat, i \in T
       PROVE  i + 1 \in T
  <2> SUFFICES ASSUME i + 1 <= n
               PROVE  f[i + 1] = g[i + 1]
    OBVIOUS
  <2>1. i + 1 \in 1..n /\ (i + 1) - 1 = i /\ f[i] = g[i]
    BY <1>10
  <2> QED
    BY <1>8, <2>1
<1> HIDE DEF T
<1>11. n \in T
  BY <1>9, <1>10, Inductive
<1> QED
  BY <1>1, <1>6, <1>7, <1>11 DEF T, TellsThrough, UnfoldsTo

LEMMA TellsNothing == Tells({}, 0, <<>>)
<1> DEFINE f == [i \in 0..0 |-> <<>>]
<1>1. f \in [0..0 -> Ops]
  BY DEF Ops
<1>2. TellsThrough(f, {}, 0, <<>>)
  BY DEF TellsThrough
<1> HIDE DEF f
<1> QED
  BY <1>1, <1>2 DEF Tells

\* The next event of a stream.
LEMMA TellsMore ==
    ASSUME NEW events, NEW n \in Nat, NEW ops, Tells(events, n, ops),
           NEW e \in Rows, e.at = n + 1
    PROVE  Tells(events \cup {e}, n + 1, fold_event(ops, e))
<1> DEFINE next == fold_event(ops, e)
<1>1. PICK f \in [0..n -> Ops] : TellsThrough(f, events, n, ops)
  BY DEF Tells
<1>2. f[0] = <<>> /\ f[n] = ops
  BY <1>1 DEF TellsThrough
<1>3. ops \in Ops
  BY <1>2
<1>4. next \in Ops
  BY <1>3, FoldType
<1> DEFINE g == [i \in 0..n + 1 |-> IF i = n + 1 THEN next ELSE f[i]]
<1>5. g \in [0..n + 1 -> Ops]
  <2> HIDE DEF next
  <2> QED
    BY <1>4
<1>6. g[0] = <<>> /\ g[n + 1] = next /\ \A i \in 0..n : g[i] = f[i]
  <2> HIDE DEF next
  <2> QED
    BY <1>2
<1> HIDE DEF g
<1>7. ASSUME NEW i \in 1..n + 1
      PROVE  \E d \in events \cup {e} : d.at = i /\ g[i] = fold_event(g[i - 1], d)
  <2>1. CASE i = n + 1
    <3>1. g[i - 1] = ops /\ g[i] = next
      BY <1>2, <1>6, <2>1
    <3> QED
      BY <2>1, <3>1
  <2>2. CASE i # n + 1
    <3>1. i \in 1..n /\ i \in 0..n /\ i - 1 \in 0..n
      BY <2>2
    <3>2. PICK d \in events : d.at = i /\ f[i] = fold_event(f[i - 1], d)
      BY <1>1, <3>1 DEF TellsThrough
    <3> QED
      BY <1>6, <3>1, <3>2
  <2> QED
    BY <2>1, <2>2
<1>8. TellsThrough(g, events \cup {e}, n + 1, next)
  BY <1>6, <1>7 DEF TellsThrough
<1> HIDE DEF next
<1>9. \A d \in events : d.at \in 1..n
  BY DEF Tells
<1>10. \A d \in events \cup {e} : d.at \in 1..n + 1
  BY <1>9
<1>11. \A d, c \in events \cup {e} : d.at = c.at => d = c
  <2>1. \A d, c \in events : d.at = c.at => d = c
    BY DEF Tells
  <2>2. \A d \in events : d.at # e.at
    BY <1>9
  <2> QED
    BY <2>1, <2>2
<1> QED
  BY <1>5, <1>8, <1>10, <1>11 DEF Tells, next

\* The rows a migration writes.
OpRow(ops, i) == [at |-> i, event |-> "op", op |-> ops[i]]

OpRows(ops) == {OpRow(ops, i) : i \in 1..Len(ops)}

LEMMA OpRowType ==
    ASSUME NEW ops \in Ops, NEW i \in 1..Len(ops)
    PROVE  /\ OpRow(ops, i) \in Rows /\ OpRow(ops, i).at = i
           /\ \A o : fold_event(o, OpRow(ops, i)) = Append(o, ops[i])
<1>1. ops[i] \in Inputs /\ i \in Nat \ {0}
  BY DEF Ops
<1> QED
  BY <1>1 DEF OpRow, Rows, fold_event

LEMMA TellsOps ==
    ASSUME NEW ops \in Ops
    PROVE  Tells(OpRows(ops), Len(ops), ops)
<1> DEFINE m == Len(ops)
           T == {n \in Nat : n <= m =>
                   Tells({OpRow(ops, i) : i \in 1..n}, n, SubSeq(ops, 1, n))}
<1>1. m \in Nat
  BY DEF Ops
<1>2. 0 \in T
  <2>1. {OpRow(ops, i) : i \in 1..0} = {} /\ SubSeq(ops, 1, 0) = <<>>
    BY DEF Ops
  <2> QED
    BY <2>1, TellsNothing
<1>3. ASSUME NEW n \in Nat, n \in T
      PROVE  n + 1 \in T
  <2> SUFFICES ASSUME n + 1 <= m
               PROVE  Tells({OpRow(ops, i) : i \in 1..n + 1}, n + 1, SubSeq(ops, 1, n + 1))
    OBVIOUS
  <2> DEFINE e == OpRow(ops, n + 1)
             E == {OpRow(ops, i) : i \in 1..n}
             o == SubSeq(ops, 1, n)
  <2>1. n + 1 \in 1..m /\ n <= m
    BY <1>1
  <2>2. Tells(E, n, o)
    BY <1>3, <2>1
  <2>3. e \in Rows /\ e.at = n + 1 /\ fold_event(o, e) = Append(o, ops[n + 1])
    BY <2>1, OpRowType
  <2>4. {OpRow(ops, i) : i \in 1..n + 1} = E \cup {e}
    <3>1. 1..n + 1 = 1..n \cup {n + 1}
      OBVIOUS
    <3> QED
      BY <3>1
  <2>5. SubSeq(ops, 1, n + 1) = Append(o, ops[n + 1])
    BY <2>1 DEF Ops
  <2> HIDE DEF e, E, o
  <2>6. Tells(E \cup {e}, n + 1, fold_event(o, e))
    BY <2>2, <2>3, TellsMore
  <2> QED
    BY <2>3, <2>4, <2>5, <2>6
<1> HIDE DEF T
<1>4. m \in T
  BY <1>1, <1>2, <1>3, Inductive
<1>5. SubSeq(ops, 1, m) = ops
  BY <1>1 DEF Ops
<1>6. Tells({OpRow(ops, i) : i \in 1..m}, m, SubSeq(ops, 1, m))
  BY <1>1, <1>4 DEF T
<1> QED
  BY <1>5, <1>6 DEF OpRows

-----------------------------------------------------------------------------
(* What a line leaves in the stream.                                       *)

EventRow(at, e, i) == [at |-> at + i, event |-> e.event, op |-> e.op]

EventRows(at, events) == {EventRow(at, events[i], i) : i \in DOMAIN events}

EventTask(t, at, e, i) == [id |-> t, clears |-> {}, rows |-> <<EventRow(at, e, i)>>]

EventTasks(t, at, events) == {EventTask(t, at, events[i], i) : i \in DOMAIN events}

LEMMA Persists ==
    ASSUME NEW t, NEW events, persist_replay_event(t, events)
    PROVE  writes' = writes \cup EventTasks(t, tabs[t].at, events)
BY DEF persist_replay_event, EventTasks, EventTask, EventRow

LEMMA NoEvents ==
    ASSUME NEW at
    PROVE  Len(<<>>) = 0 /\ EventRows(at, <<>>) = {}
BY DEF EventRows

LEMMA OneEvent ==
    ASSUME NEW at, NEW e
    PROVE  Len(<<e>>) = 1 /\ EventRows(at, <<e>>) = {EventRow(at, e, 1)}
<1>1. DOMAIN <<e>> = {1} /\ <<e>>[1] = e /\ Len(<<e>>) = 1
  OBVIOUS
<1> DEFINE s == <<e>>
<1>2. DOMAIN s = {1} /\ s[1] = e
  BY <1>1
<1> HIDE DEF s
<1>3. EventRows(at, s) = {EventRow(at, e, 1)}
  BY <1>2 DEF EventRows
<1> QED
  BY <1>1, <1>3 DEF s

LEMMA TwoEvents ==
    ASSUME NEW at, NEW e, NEW d
    PROVE  Len(<<e, d>>) = 2 /\ EventRows(at, <<e, d>>) = {EventRow(at, e, 1), EventRow(at, d, 2)}
<1>1. DOMAIN <<e, d>> = {1, 2} /\ <<e, d>>[1] = e /\ <<e, d>>[2] = d /\ Len(<<e, d>>) = 2
  OBVIOUS
<1> DEFINE s == <<e, d>>
<1>2. DOMAIN s = {1, 2} /\ s[1] = e /\ s[2] = d
  BY <1>1
<1> HIDE DEF s
<1>3. EventRows(at, s) = {EventRow(at, e, 1), EventRow(at, d, 2)}
  BY <1>2 DEF EventRows
<1> QED
  BY <1>1, <1>3 DEF s

LEMMA EventRowAt ==
    ASSUME NEW at, NEW e, NEW i
    PROVE  EventRow(at, e, i).at = at + i
BY DEF EventRow

LEMMA OpEvent ==
    ASSUME NEW at \in Nat, NEW i \in Nat \ {0}, NEW op \in Inputs, NEW ops
    PROVE  /\ EventRow(at, Event("op", op), i) \in Rows
           /\ Longer(fold_event(ops, EventRow(at, Event("op", op), i)), ops, op)
<1>1. at + i \in Nat \ {0}
  OBVIOUS
<1> QED
  BY <1>1 DEF Longer, EventRow, Event, Rows, fold_event

LEMMA ContextEvent ==
    ASSUME NEW at \in Nat, NEW i \in Nat \ {0}, NEW op \in Inputs, NEW ops
    PROVE  /\ EventRow(at, Event("context", op), i) \in Rows
           /\ Longer(fold_event(ops, EventRow(at, Event("context", op), i)), ops, op)
<1>1. at + i \in Nat \ {0}
  OBVIOUS
<1> QED
  BY <1>1 DEF Longer, EventRow, Event, Rows, fold_event

LEMMA OtherEvent ==
    ASSUME NEW at \in Nat, NEW i \in {1, 2}, NEW kind \in {"pop", "reset"}, NEW ops
    PROVE  /\ EventRow(at, Event(kind, NoOp), i) \in Rows
           /\ fold_event(ops, EventRow(at, Event(kind, NoOp), i))
                = IF kind = "pop" THEN Front(ops) ELSE <<>>
<1>1. at + i \in Nat \ {0}
  OBVIOUS
<1> QED
  BY <1>1 DEF EventRow, Event, Rows, fold_event

\* Both the recorder and the stream have taken the events.
TellsOn(tab, v, events) ==
    \A E : Tells(E, tab.at, tab.ops) => Tells(E \cup EventRows(tab.at, events), v.at, v.ops)

LEMMA TellsNoEvents ==
    ASSUME NEW tab, NEW v, v.at = tab.at, v.ops = tab.ops
    PROVE  TellsOn(tab, v, <<>>)
<1>1. SUFFICES ASSUME NEW E, Tells(E, tab.at, tab.ops)
               PROVE  Tells(E \cup EventRows(tab.at, <<>>), v.at, v.ops)
  BY DEF TellsOn
<1>2. E \cup EventRows(tab.at, <<>>) = E
  BY NoEvents
<1> QED
  BY <1>1, <1>2

LEMMA TellsOneEvent ==
    ASSUME NEW tab, tab.at \in Nat, NEW v, v.at = tab.at + 1, NEW e,
           EventRow(tab.at, e, 1) \in Rows,
           v.ops = fold_event(tab.ops, EventRow(tab.at, e, 1))
    PROVE  TellsOn(tab, v, <<e>>)
<1> DEFINE r == EventRow(tab.at, e, 1)
<1>1. r.at = tab.at + 1
  BY EventRowAt
<1>2. EventRows(tab.at, <<e>>) = {r}
  BY OneEvent
<1> HIDE DEF r
<1>3. SUFFICES ASSUME NEW E, Tells(E, tab.at, tab.ops)
               PROVE  Tells(E \cup {r}, v.at, v.ops)
  BY <1>2 DEF TellsOn
<1>4. Tells(E \cup {r}, tab.at + 1, fold_event(tab.ops, r))
  BY <1>1, <1>3, TellsMore DEF r
<1> QED
  BY <1>4 DEF r

LEMMA MenuTells ==
    ASSUME NEW tab \in TabRecords, NEW op \in Hosts \cup {Fruitless}, NEW v, Menus(v, tab, op)
    PROVE  TellsOn(tab, v, MenuEvents(tab, op))
<1> DEFINE r == record_replay_op(tab, op)
           n == Len(MenuEvents(tab, op))
<1>1. tab.at \in Nat /\ tab.ops \in Ops /\ op \in Inputs
  BY TabFields DEF Inputs
<1>2. r.at = tab.at /\ DOMAIN r = DOMAIN tab
      /\ r.ops = IF tab.frozen THEN <<op>> ELSE IF Full(tab) THEN tab.ops ELSE Append(tab.ops, op)
  BY DEF record_replay_op, TabRecords
<1>3. v.ops = r.ops /\ v.at = r.at + n
  <2> HIDE DEF r, n
  <2> QED
    BY <1>2 DEF Menus, r, n, TabRecords
<1> HIDE DEF r, n
<1>4. CASE tab.frozen
  <2> DEFINE a == EventRow(tab.at, Event("reset", NoOp), 1)
             b == EventRow(tab.at, Event("op", op), 2)
  <2>1. MenuEvents(tab, op) = <<Event("reset", NoOp), Event("op", op)>>
    BY <1>4 DEF MenuEvents
  <2>2. EventRows(tab.at, MenuEvents(tab, op)) = {a, b} /\ n = 2
    BY <2>1, TwoEvents DEF n
  <2>3. a \in Rows /\ a.at = tab.at + 1 /\ fold_event(tab.ops, a) = <<>>
    BY <1>1, EventRowAt, OtherEvent
  <2>4. b \in Rows /\ b.at = tab.at + 2 /\ Longer(fold_event(<<>>, b), <<>>, op)
    BY <1>1, EventRowAt, OpEvent
  <2> HIDE DEF a, b
  <2>5. fold_event(<<>>, b) = <<op>>
    BY <2>4 DEF Longer
  <2>6. v.at = tab.at + 2 /\ v.ops = <<op>>
    BY <1>2, <1>3, <1>4, <2>2
  <2>7. ASSUME NEW E, Tells(E, tab.at, tab.ops)
        PROVE  Tells(E \cup {a, b}, v.at, v.ops)
    <3>1. Tells(E \cup {a}, tab.at + 1, <<>>)
      BY <1>1, <2>3, <2>7, TellsMore
    <3>2. tab.at + 1 \in Nat /\ (tab.at + 1) + 1 = tab.at + 2
      BY <1>1
    <3>3. Tells((E \cup {a}) \cup {b}, tab.at + 2, <<op>>)
      BY <2>4, <2>5, <3>1, <3>2, TellsMore
    <3>4. (E \cup {a}) \cup {b} = E \cup {a, b}
      OBVIOUS
    <3> QED
      BY <2>6, <3>3, <3>4
  <2> QED
    BY <2>2, <2>7 DEF TellsOn
<1>5. CASE ~tab.frozen /\ Full(tab)
  <2>1. MenuEvents(tab, op) = <<>> /\ n = 0
    BY <1>5 DEF MenuEvents, n
  <2>2. v.at = tab.at /\ v.ops = tab.ops
    BY <1>1, <1>2, <1>3, <1>5, <2>1
  <2> QED
    BY <2>1, <2>2, TellsNoEvents
<1>6. CASE ~tab.frozen /\ ~Full(tab)
  <2>1. MenuEvents(tab, op) = <<Event("op", op)>> /\ n = 1
    BY <1>6 DEF MenuEvents, n
  <2>2. v.at = tab.at + 1 /\ v.ops = Append(tab.ops, op)
    BY <1>2, <1>3, <1>6, <2>1
  <2>3. /\ EventRow(tab.at, Event("op", op), 1) \in Rows
        /\ Longer(fold_event(tab.ops, EventRow(tab.at, Event("op", op), 1)), tab.ops, op)
    BY <1>1, OpEvent
  <2>4. v.ops = fold_event(tab.ops, EventRow(tab.at, Event("op", op), 1))
    BY <2>2, <2>3 DEF Longer
  <2> QED
    BY <1>1, <2>1, <2>2, <2>3, <2>4, TellsOneEvent
<1> QED
  BY <1>4, <1>5, <1>6

LEMMA ShellTells ==
    ASSUME NEW tab \in TabRecords, NEW line \in Contexts \cup {Exit, Plain}, NEW v,
           Shells(v, tab, line)
    PROVE  TellsOn(tab, v, ShellEvents(tab, line))
<1> DEFINE r == IF line \in Contexts THEN record_context_command(tab, line)
                ELSE IF line = Exit THEN pop_context_command(tab) ELSE tab
           n == Len(ShellEvents(tab, line))
<1>1. tab.at \in Nat /\ tab.ops \in Ops
  BY TabFields
<1>2. r.at = tab.at /\ DOMAIN r = DOMAIN tab
      /\ r.ops = IF line \in Contexts THEN IF Full(tab) THEN tab.ops ELSE Append(tab.ops, line)
                 ELSE IF line = Exit /\ Pops(tab) THEN Front(tab.ops) ELSE tab.ops
  BY DEF record_context_command, pop_context_command, TabRecords
<1>3. v.ops = r.ops /\ v.at = r.at + n
  <2> HIDE DEF r, n
  <2> QED
    BY <1>2 DEF Shells, r, n, TabRecords
<1> HIDE DEF r, n
<1>4. CASE line \in Contexts /\ ~Full(tab)
  <2>1. ShellEvents(tab, line) = <<Event("context", line)>> /\ n = 1
    BY <1>4 DEF ShellEvents, n
  <2>2. v.at = tab.at + 1 /\ v.ops = Append(tab.ops, line) /\ line \in Inputs
    BY <1>2, <1>3, <1>4, <2>1 DEF Inputs
  <2>3. /\ EventRow(tab.at, Event("context", line), 1) \in Rows
        /\ Longer(fold_event(tab.ops, EventRow(tab.at, Event("context", line), 1)), tab.ops, line)
    BY <1>1, <2>2, ContextEvent
  <2>4. v.ops = fold_event(tab.ops, EventRow(tab.at, Event("context", line), 1))
    BY <2>2, <2>3 DEF Longer
  <2> QED
    BY <1>1, <2>1, <2>2, <2>3, <2>4, TellsOneEvent
<1>5. CASE line \notin Contexts /\ line = Exit /\ Pops(tab)
  <2>1. ShellEvents(tab, line) = <<Event("pop", NoOp)>> /\ n = 1
    BY <1>5 DEF ShellEvents, n
  <2>2. v.at = tab.at + 1 /\ v.ops = Front(tab.ops)
    BY <1>2, <1>3, <1>5, <2>1
  <2>3. /\ EventRow(tab.at, Event("pop", NoOp), 1) \in Rows
        /\ fold_event(tab.ops, EventRow(tab.at, Event("pop", NoOp), 1)) = Front(tab.ops)
    BY <1>1, OtherEvent
  <2> QED
    BY <1>1, <2>1, <2>2, <2>3, TellsOneEvent
<1>6. CASE /\ ~(line \in Contexts /\ ~Full(tab))
           /\ ~(line \notin Contexts /\ line = Exit /\ Pops(tab))
  <2>1. ShellEvents(tab, line) = <<>> /\ n = 0
    BY <1>6 DEF ShellEvents, n
  <2>2. v.at = tab.at /\ v.ops = tab.ops
    BY <1>1, <1>2, <1>3, <1>6, <2>1
  <2> QED
    BY <2>1, <2>2, TellsNoEvents
<1> QED
  BY <1>4, <1>5, <1>6

-----------------------------------------------------------------------------
(* One open tab changes, and tells of it.                                  *)

Told(W, u) == UNION {Range(w.rows) : w \in {x \in W : x.id = u}}

LEMMA StreamIs ==
    \A u : Stream(u) = rows[u] \cup Told(writes, u)
BY DEF Stream, Told

LEMMA ToldUnion ==
    ASSUME NEW V, NEW W, NEW u
    PROVE  Told(V \cup W, u) = Told(V, u) \cup Told(W, u)
BY DEF Told

LEMMA ToldNothing ==
    ASSUME NEW W, NEW u, \A w \in W : w.id # u
    PROVE  Told(W, u) = {}
BY DEF Told

LEMMA ToldOne ==
    ASSUME NEW w
    PROVE  Told({w}, w.id) = Range(w.rows) /\ \A u : u # w.id => Told({w}, u) = {}
BY DEF Told

LEMMA RangeOfOne ==
    ASSUME NEW x
    PROVE  Range(<<x>>) = {x}
<1>1. DOMAIN <<x>> = {1} /\ <<x>>[1] = x
  OBVIOUS
<1> DEFINE s == <<x>>
<1>2. DOMAIN s = {1} /\ s[1] = x
  BY <1>1
<1> HIDE DEF s
<1>3. Range(s) = {x}
  BY <1>2 DEF Range
<1> QED
  BY <1>3 DEF s

LEMMA EventTaskIs ==
    ASSUME NEW t \in Ids, NEW at \in Nat, NEW e, NEW i, EventRow(at, e, i) \in Rows
    PROVE  /\ EventTask(t, at, e, i) \in Tasks
           /\ EventTask(t, at, e, i).id = t /\ EventTask(t, at, e, i).clears = {}
           /\ Range(EventTask(t, at, e, i).rows) = {EventRow(at, e, i)}
           /\ Bounded(Range(EventTask(t, at, e, i).rows))
<1> DEFINE r == EventRow(at, e, i)
<1>1. r \in Rows
  OBVIOUS
<1> HIDE DEF r
<1>2. <<r>> \in Seq(Rows) /\ Range(<<r>>) = {r} /\ r.at \in Nat
  BY <1>1, RangeOfOne, RowFields
<1>3. /\ [id |-> t, clears |-> {}, rows |-> <<r>>] \in Tasks
      /\ [id |-> t, clears |-> {}, rows |-> <<r>>].id = t
      /\ [id |-> t, clears |-> {}, rows |-> <<r>>].clears = {}
      /\ [id |-> t, clears |-> {}, rows |-> <<r>>].rows = <<r>>
  BY <1>2 DEF Tasks
<1>4. EventTask(t, at, e, i) = [id |-> t, clears |-> {}, rows |-> <<r>>]
  BY DEF EventTask, r
<1>5. Bounded({r})
  BY <1>2 DEF Bounded
<1> QED
  BY <1>2, <1>3, <1>4, <1>5 DEF r

\* Tasks of t that clear nothing.
Telling(W, t) ==
    /\ W \subseteq Tasks
    /\ \A w \in W : w.id = t /\ w.clears = {} /\ Bounded(Range(w.rows))

LEMMA EventTasksTell ==
    ASSUME NEW t \in Ids, NEW at \in Nat, NEW events,
           \A i \in DOMAIN events : EventRow(at, events[i], i) \in Rows
    PROVE  /\ Telling(EventTasks(t, at, events), t)
           /\ Told(EventTasks(t, at, events), t) = EventRows(at, events)
<1> DEFINE W == EventTasks(t, at, events)
<1>1. \A w \in W : \E i \in DOMAIN events : w = EventTask(t, at, events[i], i)
  BY DEF EventTasks
<1>2. \A i \in DOMAIN events : EventTask(t, at, events[i], i) \in W
  BY DEF EventTasks
<1> HIDE DEF W
<1>3. Telling(W, t)
  BY <1>1, EventTaskIs DEF Telling
<1>4. ASSUME NEW r \in Told(W, t)
      PROVE  r \in EventRows(at, events)
  <2>1. PICK w \in W : r \in Range(w.rows)
    BY <1>4 DEF Told
  <2>2. PICK i \in DOMAIN events : w = EventTask(t, at, events[i], i)
    BY <1>1
  <2>3. Range(EventTask(t, at, events[i], i).rows) = {EventRow(at, events[i], i)}
    BY EventTaskIs
  <2> QED
    BY <2>1, <2>2, <2>3 DEF EventRows
<1>5. ASSUME NEW r \in EventRows(at, events)
      PROVE  r \in Told(W, t)
  <2>1. PICK i \in DOMAIN events : r = EventRow(at, events[i], i)
    BY <1>5 DEF EventRows
  <2> DEFINE w == EventTask(t, at, events[i], i)
  <2>2. w \in W /\ w.id = t /\ r \in Range(w.rows)
    <3>1. w \in W
      BY <1>2
    <3>2. w.id = t /\ Range(w.rows) = {EventRow(at, events[i], i)}
      BY EventTaskIs
    <3> QED
      BY <2>1, <3>1, <3>2
  <2> HIDE DEF w
  <2> QED
    BY <2>2 DEF Told
<1>6. Told(W, t) = EventRows(at, events)
  BY <1>4, <1>5
<1> QED
  BY <1>3, <1>6 DEF W

Changing(t, v, W) ==
    /\ t \in Ids /\ app = "running" /\ Open(t)
    /\ Fit(v) /\ v.stage # "none"
    /\ tabs' = [tabs EXCEPT ![t] = v]
    /\ writes' = writes \cup W /\ Telling(W, t)
    /\ UNCHANGED Disk
    /\ inputs' \in 0..MaxInputs /\ faults' \in 0..MaxFaults

LEMMA TabChanges ==
    ASSUME ReplayInv, NEW t, NEW v, NEW W, Changing(t, v, W),
           t \notin torn => Tells(Stream(t) \cup Told(W, t), v.at, v.ops)
    PROVE  ReplayInv'
<1>1. ReplayTyped /\ StreamsFit /\ WritesFit /\ DeadFits /\ \A u \in Ids : TabFits(tabs[u])
  BY DEF ReplayInv
<1>2. /\ t \in Ids /\ app = "running" /\ Open(t) /\ Fit(v) /\ v.stage # "none"
      /\ writes' = writes \cup W /\ Telling(W, t)
      /\ rows' = rows /\ snapshot' = snapshot /\ app' = app /\ minted' = minted
      /\ starts' = starts /\ torn' = torn /\ held' = held /\ sure' = sure
      /\ inputs' \in 0..MaxInputs /\ faults' \in 0..MaxFaults
  BY DEF Changing, Disk
<1>3. /\ tabs \in [Ids -> TabRecords] /\ tabs' = [tabs EXCEPT ![t] = v]
  BY <1>1 DEF Changing, ReplayTyped
<1>4. /\ v \in TabRecords /\ TabFits(v)
  BY <1>2 DEF Fit
<1>5. /\ tabs' \in [Ids -> TabRecords] /\ tabs'[t] = v
      /\ \A u \in Ids : u # t => tabs'[u] = tabs[u]
  BY <1>2, <1>3, <1>4
<1>6. ReplayTyped'
  BY <1>1, <1>2, <1>5 DEF ReplayTyped, Telling
<1>7. (\A u \in Ids : TabFits(tabs[u]))'
  BY <1>1, <1>4, <1>5
<1>8. t <= minted /\ sure = {}
  <2>1. t \in Nat /\ minted \in Nat
    BY <1>1, <1>2 DEF Ids, ReplayTyped
  <2> QED
    BY <1>1, <1>2, <2>1 DEF StreamsFit, DeadFits
<1>9. Open(t)' /\ \A u \in Ids : u # t => (Open(u)' <=> Open(u))
  BY <1>2, <1>5 DEF Open
<1>10. StreamsFit'
  <2>1. ASSUME NEW u \in Ids, Open(u)', u \notin torn
        PROVE  Tells(Stream(u), tabs[u].at, tabs[u].ops)'
    <3>1. Stream(u)' = Stream(u) \cup Told(W, u)
      <4>1. Stream(u)' = rows[u] \cup Told(writes \cup W, u)
        BY <1>2 DEF Stream, Told
      <4> QED
        BY <4>1, StreamIs, ToldUnion
    <3>2. CASE u = t
      BY <1>5, <2>1, <3>1, <3>2
    <3>3. CASE u # t
      <4>1. Told(W, u) = {}
        BY <1>2, <3>3, ToldNothing DEF Telling
      <4>2. Stream(u)' = Stream(u) /\ tabs'[u] = tabs[u]
        BY <1>5, <3>1, <3>3, <4>1
      <4>3. Tells(Stream(u), tabs[u].at, tabs[u].ops)
        BY <1>1, <1>9, <2>1, <3>3 DEF StreamsFit
      <4> QED
        BY <4>2, <4>3
    <3> QED
      BY <3>2, <3>3
  <2>2. ASSUME NEW u \in Ids, u > minted
        PROVE  ~Open(u)' /\ rows[u] = {}
    <3>1. u # t
      BY <1>1, <1>2, <1>8, <2>2 DEF Ids, ReplayTyped
    <3> QED
      BY <1>1, <1>9, <2>2, <3>1 DEF StreamsFit
  <2> QED
    BY <1>2, <1>8, <2>1, <2>2 DEF StreamsFit
<1>11. WritesFit'
  <2>1. ASSUME NEW w \in writes
        PROVE  w.id <= minted /\ \A c \in w.clears : c <= minted /\ ~Open(c)'
    <3>1. w.clears \subseteq Ids
      BY <1>1 DEF ReplayTyped, Tasks
    <3> QED
      BY <1>1, <1>2, <1>9, <3>1 DEF WritesFit
  <2>2. ASSUME NEW w \in W
        PROVE  w.id <= minted /\ w.clears = {}
    BY <1>2, <1>8 DEF Telling
  <2> QED
    BY <1>2, <2>1, <2>2 DEF WritesFit
<1>12. DeadFits'
  BY <1>2, <1>8 DEF DeadFits
<1> QED
  BY <1>6, <1>7, <1>10, <1>11, <1>12 DEF ReplayInv

\* Nothing to tell.
LEMMA TabMoves ==
    ASSUME ReplayInv, NEW t, NEW v, Changing(t, v, {}), v.at = tabs[t].at, v.ops = tabs[t].ops
    PROVE  ReplayInv'
<1>1. t \in Ids /\ Open(t)
  BY DEF Changing
<1>2. t \notin torn => Tells(Stream(t), tabs[t].at, tabs[t].ops)
  BY <1>1 DEF ReplayInv, StreamsFit
<1>3. Stream(t) \cup Told({}, t) = Stream(t)
  BY DEF Told
<1> QED
  BY <1>2, <1>3, TabChanges

-----------------------------------------------------------------------------
(* The steps of one tab.                                                   *)

RowsAt(at, events) == \A i \in DOMAIN events : EventRow(at, events[i], i) \in Rows

LEMMA RowsOfNone ==
    ASSUME NEW at
    PROVE  RowsAt(at, <<>>)
BY DEF RowsAt

LEMMA RowsOfOne ==
    ASSUME NEW at, NEW e, EventRow(at, e, 1) \in Rows
    PROVE  RowsAt(at, <<e>>)
<1> DEFINE s == <<e>>
<1>1. DOMAIN s = {1} /\ s[1] = e
  OBVIOUS
<1> HIDE DEF s
<1>2. RowsAt(at, s)
  BY <1>1 DEF RowsAt
<1> QED
  BY <1>2 DEF s

LEMMA RowsOfTwo ==
    ASSUME NEW at, NEW e, NEW d, EventRow(at, e, 1) \in Rows, EventRow(at, d, 2) \in Rows
    PROVE  RowsAt(at, <<e, d>>)
<1> DEFINE s == <<e, d>>
<1>1. DOMAIN s = {1, 2} /\ s[1] = e /\ s[2] = d
  OBVIOUS
<1> HIDE DEF s
<1>2. RowsAt(at, s)
  BY <1>1 DEF RowsAt
<1> QED
  BY <1>2 DEF s

LEMMA MenuRows ==
    ASSUME NEW tab \in TabRecords, NEW op \in Hosts \cup {Fruitless}
    PROVE  RowsAt(tab.at, MenuEvents(tab, op))
<1>1. tab.at \in Nat /\ op \in Inputs
  BY TabFields DEF Inputs
<1>2. EventRow(tab.at, Event("reset", NoOp), 1) \in Rows
  BY <1>1, OtherEvent
<1> DEFINE at == tab.at
<1> HIDE DEF at
<1>3. EventRow(at, Event("op", op), 1) \in Rows /\ EventRow(at, Event("op", op), 2) \in Rows
  <2>1. at \in Nat
    BY <1>1 DEF at
  <2>2. 1 \in Nat \ {0} /\ 2 \in Nat \ {0}
    OBVIOUS
  <2> QED
    BY <1>1, <2>1, <2>2, OpEvent
<1>4. EventRow(tab.at, Event("op", op), 1) \in Rows /\ EventRow(tab.at, Event("op", op), 2) \in Rows
  BY <1>3 DEF at
<1>5. RowsAt(tab.at, <<Event("reset", NoOp), Event("op", op)>>)
  BY <1>2, <1>4, RowsOfTwo
<1>6. RowsAt(tab.at, <<Event("op", op)>>)
  BY <1>4, RowsOfOne
<1> QED
  BY <1>5, <1>6, RowsOfNone DEF MenuEvents

LEMMA ShellRows ==
    ASSUME NEW tab \in TabRecords, NEW line
    PROVE  RowsAt(tab.at, ShellEvents(tab, line))
<1>1. tab.at \in Nat
  BY TabFields
<1>2. RowsAt(tab.at, <<Event("pop", NoOp)>>)
  BY <1>1, OtherEvent, RowsOfOne
<1>3. ASSUME line \in Contexts
      PROVE  RowsAt(tab.at, <<Event("context", line)>>)
  <2>1. line \in Inputs
    BY <1>3 DEF Inputs
  <2>2. EventRow(tab.at, Event("context", line), 1) \in Rows
    BY <1>1, <2>1, ContextEvent
  <2> QED
    BY <2>2, RowsOfOne
<1> QED
  BY <1>2, <1>3, RowsOfNone DEF ShellEvents

LEMMA TabFit ==
    ASSUME ReplayInv, NEW t \in Ids
    PROVE  /\ Fit(tabs[t]) /\ tabs[t] \in TabRecords /\ tabs[t].at \in Nat
           /\ inputs \in 0..MaxInputs /\ faults \in 0..MaxFaults /\ MaxInputs \in Nat /\ MaxFaults \in Nat
<1>1. tabs[t] \in TabRecords /\ TabFits(tabs[t])
  BY DEF ReplayInv, ReplayTyped
<1>2. inputs \in 0..MaxInputs /\ faults \in 0..MaxFaults
  BY DEF ReplayInv, ReplayTyped
<1>3. MaxInputs \in Nat /\ MaxFaults \in Nat
  BY ReplayAssumption
<1> QED
  BY <1>1, <1>2, <1>3, TabFields DEF Fit

LEMMA NothingTelling ==
    \A t : Telling({}, t)
BY DEF Telling

\* Events that the tab and its stream both take.
LEMMA TabTells ==
    ASSUME ReplayInv, NEW t \in Ids, app = "running", Open(t),
           NEW v, Fit(v), v.stage # "none", tabs' = [tabs EXCEPT ![t] = v],
           NEW events, persist_replay_event(t, events), RowsAt(tabs[t].at, events),
           TellsOn(tabs[t], v, events), UNCHANGED Disk,
           inputs' \in 0..MaxInputs, faults' \in 0..MaxFaults
    PROVE  ReplayInv'
<1> DEFINE W == EventTasks(t, tabs[t].at, events)
<1>1. writes' = writes \cup W
  BY Persists
<1>2. Telling(W, t) /\ Told(W, t) = EventRows(tabs[t].at, events)
  BY TabFit, EventTasksTell DEF RowsAt
<1> HIDE DEF W
<1>3. Changing(t, v, W)
  BY <1>1, <1>2 DEF Changing
<1>4. ASSUME t \notin torn
      PROVE  Tells(Stream(t) \cup Told(W, t), v.at, v.ops)
  <2>1. Tells(Stream(t), tabs[t].at, tabs[t].ops)
    BY <1>4 DEF ReplayInv, StreamsFit
  <2> QED
    BY <1>2, <2>1 DEF TellsOn
<1> QED
  BY <1>3, <1>4, TabChanges

LEMMA SubmitAtMenuKeeps ==
    ASSUME ReplayInv, NEW t \in Ids, NEW op \in Hosts \cup {Fruitless}, SubmitAtMenu(t, op)
    PROVE  ReplayInv'
<1>1. /\ app = "running" /\ tabs[t].stage = "connected" /\ tabs[t].path = <<>>
      /\ tabs[t].asking = {} /\ inputs < MaxInputs /\ inputs' = inputs + 1
      /\ faults' = faults /\ UNCHANGED Disk
      /\ persist_replay_event(t, MenuEvents(tabs[t], op))
  BY DEF SubmitAtMenu, Running
<1>2. PICK v : Menus(v, tabs[t], op) /\ tabs' = [tabs EXCEPT ![t] = v]
  BY DEF SubmitAtMenu, Menus
<1>3. Fit(v) /\ v.stage = "connected"
  BY <1>1, <1>2, TabFit, MenuFits
<1>4. TellsOn(tabs[t], v, MenuEvents(tabs[t], op)) /\ RowsAt(tabs[t].at, MenuEvents(tabs[t], op))
  BY <1>2, TabFit, MenuTells, MenuRows
<1>5. inputs' \in 0..MaxInputs /\ faults' \in 0..MaxFaults
  BY <1>1, TabFit
<1>6. Open(t)
  BY <1>1 DEF Open
<1> QED
  BY <1>1, <1>2, <1>3, <1>4, <1>5, <1>6, TabTells

LEMMA SubmitAtShellKeeps ==
    ASSUME ReplayInv, NEW t \in Ids, NEW line \in Contexts \cup {Exit, Plain},
           SubmitAtShell(t, line)
    PROVE  ReplayInv'
<1> DEFINE tab == [tabs[t] EXCEPT !.frozen = TRUE]
<1>1. /\ app = "running" /\ tabs[t].stage = "connected" /\ tabs[t].path # <<>>
      /\ tabs[t].asking = {} /\ inputs < MaxInputs /\ inputs' = inputs + 1
      /\ faults' = faults /\ UNCHANGED Disk
      /\ persist_replay_event(t, ShellEvents(tab, line))
  BY DEF SubmitAtShell, Running
<1>2. PICK v : Shells(v, tab, line) /\ tabs' = [tabs EXCEPT ![t] = v]
  <2>1. tabs' = [tabs EXCEPT ![t] =
                   [(IF line \in Contexts THEN record_context_command(tab, line)
                     ELSE IF line = Exit THEN pop_context_command(tab) ELSE tab) EXCEPT
                       !.path = IF line = Exit THEN Front(@) ELSE @,
                       !.asking = {line} \cap Contexts,
                       !.at = @ + Len(ShellEvents(tab, line)),
                       !.slipped = @ \/ tab.replays # {} \/ (line \in Contexts /\ Full(tab))]]
    BY DEF SubmitAtShell
  <2> HIDE DEF tab
  <2> QED
    BY <2>1 DEF Shells
<1>3. /\ tab \in TabRecords /\ tab.stage = tabs[t].stage /\ tab.path = tabs[t].path
      /\ tab.asking = tabs[t].asking /\ tab.frozen /\ tab.ops = tabs[t].ops
      /\ tab.at = tabs[t].at
  BY TabFit DEF TabRecords
<1>4. Fit(tab)
  BY TabFit, FrozenFits
<1> HIDE DEF tab
<1>5. Fit(v) /\ v.stage = "connected"
  BY <1>1, <1>2, <1>3, <1>4, ShellFits
<1>6. TellsOn(tab, v, ShellEvents(tab, line)) /\ RowsAt(tab.at, ShellEvents(tab, line))
  BY <1>2, <1>3, ShellTells, ShellRows
<1>7. TellsOn(tabs[t], v, ShellEvents(tab, line)) /\ RowsAt(tabs[t].at, ShellEvents(tab, line))
  BY <1>3, <1>6 DEF TellsOn
<1>8. inputs' \in 0..MaxInputs /\ faults' \in 0..MaxFaults
  BY <1>1, TabFit
<1>9. Open(t)
  BY <1>1 DEF Open
<1> QED
  BY <1>1, <1>2, <1>5, <1>7, <1>8, <1>9, TabTells

\* A tab that tells nothing: its recorder is as it was.
Moving(t, v) ==
    /\ app = "running" /\ tabs' = [tabs EXCEPT ![t] = v]
    /\ writes' = writes /\ inputs' = inputs /\ UNCHANGED Disk
    /\ faults' = faults \/ Fault

Steady(t, v) ==
    Fit(v) /\ v.stage # "none" /\ v.ops = tabs[t].ops /\ v.at = tabs[t].at

LEMMA TabKeeps ==
    ASSUME ReplayInv, NEW t \in Ids, Open(t), NEW v, Moving(t, v), Steady(t, v)
    PROVE  ReplayInv'
<1>1. inputs' \in 0..MaxInputs
  BY TabFit DEF Moving
<1>2. faults' \in 0..MaxFaults
  BY TabFit DEF Moving, Fault
<1>3. writes' = writes \cup {}
  BY DEF Moving
<1>4. Changing(t, v, {})
  BY <1>1, <1>2, <1>3, NothingTelling DEF Changing, Moving, Steady
<1> QED
  BY <1>4, TabMoves DEF Steady

LEMMA AnswerKeeps ==
    ASSUME ReplayInv, NEW t \in Ids, NEW accepted \in BOOLEAN, Answer(t, accepted)
    PROVE  ReplayInv'
<1>1. PICK context \in tabs[t].asking :
        tabs' = [tabs EXCEPT ![t] =
          [tabs[t] EXCEPT !.path = IF accepted THEN Append(@, context) ELSE @,
                          !.asking = {}, !.slipped = @ \/ ~accepted]]
  BY DEF Answer
<1> DEFINE v == [tabs[t] EXCEPT !.path = IF accepted THEN Append(@, context) ELSE @,
                                !.asking = {}, !.slipped = @ \/ ~accepted]
<1>2. tabs' = [tabs EXCEPT ![t] = v] /\ Answers(v, tabs[t], context, accepted)
  BY <1>1 DEF Answers
<1> HIDE DEF v
<1>3. Moving(t, v) /\ tabs[t].stage = "connected"
  BY <1>2 DEF Answer, Running, Moving
<1>4. Fit(v) /\ v.stage = tabs[t].stage /\ v.ops = tabs[t].ops /\ v.at = tabs[t].at
  BY <1>2, <1>3, TabFit, AnswerFits
<1>5. Open(t) /\ Steady(t, v)
  BY <1>3, <1>4 DEF Open, Steady
<1> QED
  BY <1>3, <1>5, TabKeeps

LEMMA EvidenceKeeps ==
    ASSUME ReplayInv, NEW t \in Ids, note_shell_integration_evidence(t)
    PROVE  ReplayInv'
<1>1. PICK v : v = [tabs[t] EXCEPT !.frozen = TRUE] /\ tabs' = [tabs EXCEPT ![t] = v]
  BY DEF note_shell_integration_evidence
<1>2. Moving(t, v) /\ tabs[t].stage = "connected"
  BY <1>1 DEF note_shell_integration_evidence, Running, Moving
<1>3. Fit(v) /\ v.stage = tabs[t].stage /\ v.ops = tabs[t].ops /\ v.at = tabs[t].at
  BY <1>1, TabFit, FrozenFits
<1>4. Open(t) /\ Steady(t, v)
  BY <1>2, <1>3 DEF Open, Steady
<1> QED
  BY <1>2, <1>4, TabKeeps

LEMMA ShellEndsKeeps ==
    ASSUME ReplayInv, NEW t \in Ids, NEW left \in Nat, ShellEnds(t, left)
    PROVE  ReplayInv'
<1> DEFINE v == [tabs[t] EXCEPT !.path = SubSeq(@, 1, left), !.asking = {},
                                  !.slipped = @ \/ left > 0 \/ tabs[t].replays # {}]
<1>1. tabs' = [tabs EXCEPT ![t] = v] /\ ShellEnded(v, tabs[t], left)
  BY DEF ShellEnds, ShellEnded
<1> HIDE DEF v
<1>2. /\ Moving(t, v) /\ tabs[t].stage = "connected"
      /\ tabs[t].path # <<>> /\ left < Len(tabs[t].path)
  BY <1>1 DEF ShellEnds, Running, Moving
<1>3. Fit(v) /\ v.stage = tabs[t].stage /\ v.ops = tabs[t].ops /\ v.at = tabs[t].at
  BY <1>1, <1>2, TabFit, ShellEndFits
<1>4. Open(t) /\ Steady(t, v)
  BY <1>2, <1>3 DEF Open, Steady
<1> QED
  BY <1>2, <1>4, TabKeeps

LEMMA ConnectEndsKeeps ==
    ASSUME ReplayInv, NEW t \in Ids, NEW stage \in {"connected", "down"}, ConnectEnds(t, stage)
    PROVE  ReplayInv'
<1>1. PICK v : v = [tabs[t] EXCEPT !.stage = stage] /\ tabs' = [tabs EXCEPT ![t] = v]
  BY DEF ConnectEnds
<1>2. Moving(t, v) /\ tabs[t].stage = "connecting"
  BY <1>1 DEF ConnectEnds, Moving
<1>3. Fit(v) /\ v.stage = stage /\ v.ops = tabs[t].ops /\ v.at = tabs[t].at
  BY <1>1, <1>2, TabFit, ConnectFits
<1>4. Open(t) /\ Steady(t, v)
  BY <1>2, <1>3 DEF Open, Steady
<1> QED
  BY <1>2, <1>4, TabKeeps

LEMMA DisconnectedKeeps ==
    ASSUME ReplayInv, NEW t \in Ids, Disconnected(t)
    PROVE  ReplayInv'
<1>1. PICK v :
        /\ v = [tabs[t] EXCEPT !.stage = "down", !.path = <<>>, !.asking = {}]
        /\ tabs' = [tabs EXCEPT ![t] = v]
  BY DEF Disconnected
<1>2. Moving(t, v) /\ tabs[t].stage = "connected"
  BY <1>1 DEF Disconnected, Running, Moving
<1>3. Fit(v) /\ v.stage = "down" /\ v.ops = tabs[t].ops /\ v.at = tabs[t].at
  BY <1>1, TabFit, DisconnectFits
<1>4. Open(t) /\ Steady(t, v)
  BY <1>2, <1>3 DEF Open, Steady
<1> QED
  BY <1>2, <1>4, TabKeeps

LEMMA ReconnectTabKeeps ==
    ASSUME ReplayInv, NEW t \in Ids, Reconnect(t)
    PROVE  ReplayInv'
<1> DEFINE v == [tabs[t] EXCEPT !.stage = "connecting",
                  !.slipped = tabs[t].replays # {} \/ ~IsNavigation(tabs[t].ops),
                  !.replays = IF tabs[t].ops = <<>> THEN @ ELSE @ \cup {tabs[t].ops}]
<1>1. tabs' = [tabs EXCEPT ![t] = v] /\ Reconnects(v, tabs[t])
  BY DEF Reconnect, Reconnects
<1> HIDE DEF v
<1>2. Moving(t, v) /\ tabs[t].stage = "down"
  BY <1>1 DEF Reconnect, Moving
<1>3. Fit(v) /\ v.stage = "connecting" /\ v.ops = tabs[t].ops /\ v.at = tabs[t].at
  BY <1>1, <1>2, TabFit, ReconnectFits
<1>4. Open(t) /\ Steady(t, v)
  BY <1>2, <1>3 DEF Open, Steady
<1> QED
  BY <1>2, <1>4, TabKeeps

LEMMA ReplayOpKeeps ==
    ASSUME ReplayInv, NEW t \in Ids, NEW replay \in tabs[t].replays, ReplayOp(t, replay)
    PROVE  ReplayInv'
<1> DEFINE v == [tabs[t] EXCEPT
          !.path = IF Head(replay) \in Contexts THEN @ ELSE Walk(@, Head(replay)),
          !.asking = IF tabs[t].path = <<>> THEN {} ELSE {Head(replay)} \cap Contexts,
          !.replays = (@ \ {replay}) \cup ({Tail(replay)} \ {<<>>})]
<1>1. tabs' = [tabs EXCEPT ![t] = v] /\ Replays(v, tabs[t], replay)
  BY DEF ReplayOp, Replays
<1> HIDE DEF v
<1>2. Moving(t, v) /\ tabs[t].stage = "connected" /\ tabs[t].asking = {}
  BY <1>1 DEF ReplayOp, Running, Moving
<1>3. Fit(v) /\ v.stage = tabs[t].stage /\ v.ops = tabs[t].ops /\ v.at = tabs[t].at
  BY <1>1, <1>2, TabFit, ReplayFits
<1>4. Open(t) /\ Steady(t, v)
  BY <1>2, <1>3 DEF Open, Steady
<1> QED
  BY <1>2, <1>4, TabKeeps

\* A tab that is not open replays nothing.
LEMMA ReplayGivesUpKeeps ==
    ASSUME ReplayInv, NEW t \in Ids, NEW replay \in tabs[t].replays, ReplayGivesUp(t, replay)
    PROVE  ReplayInv'
<1> DEFINE v == [tabs[t] EXCEPT !.replays = @ \ {replay}, !.slipped = TRUE]
<1>1. tabs' = [tabs EXCEPT ![t] = v] /\ GivesUp(v, tabs[t], replay)
  BY DEF ReplayGivesUp, GivesUp
<1> HIDE DEF v
<1>2. Moving(t, v)
  BY <1>1 DEF ReplayGivesUp, Moving
<1>3. Fit(v) /\ v.stage = tabs[t].stage /\ v.ops = tabs[t].ops /\ v.at = tabs[t].at
  BY <1>1, TabFit, GivenUpFits
<1>4. Open(t)
  BY TabFit, Fitting DEF Open
<1>5. Steady(t, v)
  BY <1>3, <1>4 DEF Open, Steady
<1> QED
  BY <1>2, <1>4, <1>5, TabKeeps

-----------------------------------------------------------------------------
(* Tabs that are opened, copied or restored.                               *)

LEMMA MigrateIs ==
    ASSUME NEW old \in Ids, NEW new \in Ids, NEW ops \in Ops
    PROVE  /\ migrate_replay_stream(old, new, ops) \in Tasks
           /\ migrate_replay_stream(old, new, ops).id = new
           /\ migrate_replay_stream(old, new, ops).clears = {old} \ {new}
           /\ Range(migrate_replay_stream(old, new, ops).rows) = OpRows(ops)
           /\ Bounded(Range(migrate_replay_stream(old, new, ops).rows))
<1> DEFINE s == [i \in DOMAIN ops |-> OpRow(ops, i)]
           m == Len(ops)
<1>1. m \in Nat /\ DOMAIN ops = 1..m
  BY DEF Ops
<1>2. s \in Seq(Rows) /\ Range(s) = OpRows(ops)
  <2>1. s \in [1..m -> Rows]
    BY <1>1, OpRowType
  <2>2. s \in Seq(Rows)
    BY <1>1, <2>1
  <2>3. DOMAIN s = 1..m /\ \A i \in 1..m : s[i] = OpRow(ops, i)
    BY <1>1
  <2> HIDE DEF s
  <2> QED
    BY <2>2, <2>3 DEF Range, OpRows
<1>3. Bounded(OpRows(ops))
  <2>1. \A i \in 1..m : OpRow(ops, i).at <= m
    BY <1>1, OpRowType
  <2>2. \A e \in OpRows(ops) : e.at <= m
    BY <2>1 DEF OpRows
  <2> QED
    BY <1>1, <2>2 DEF Bounded
<1>4. migrate_replay_stream(old, new, ops) = [id |-> new, clears |-> {old} \ {new}, rows |-> s]
  BY DEF migrate_replay_stream, OpRow
<1> HIDE DEF s
<1> QED
  BY <1>2, <1>3, <1>4 DEF Tasks

\* Tasks that write the streams of F, which are not given out yet.
Migrating(W, F, O) ==
    /\ W \subseteq Tasks
    /\ \A w \in W : /\ w.id \in F /\ Bounded(Range(w.rows))
                    /\ \A c \in w.clears : c <= minted /\ ~Open(c)
    /\ \A u \in F : Told(W, u) = OpRows(O[u])

Opening(F, O, W) ==
    /\ F \subseteq Ids /\ \A u \in F : u > minted /\ u <= minted'
    /\ minted' \in minted..MaxTabs
    /\ O \in [F -> Ops]
    /\ tabs' = [u \in Ids |-> IF u \in F THEN Tab("connecting", O[u]) ELSE tabs[u]]
    /\ writes' = writes \cup W /\ Migrating(W, F, O)
    /\ rows' = rows /\ snapshot' = snapshot /\ inputs' = inputs /\ starts' = starts
    /\ faults' = faults /\ torn' = torn
    /\ app' = "running" /\ sure' = {} /\ held' \in [Ids -> Ops]

LEMMA TabsOpen ==
    ASSUME ReplayInv, NEW F, NEW O, NEW W, Opening(F, O, W)
    PROVE  ReplayInv'
<1>1. ReplayTyped /\ StreamsFit /\ WritesFit /\ DeadFits /\ \A u \in Ids : TabFits(tabs[u])
  BY DEF ReplayInv
<1>2. /\ F \subseteq Ids /\ \A u \in F : u > minted /\ u <= minted'
      /\ minted' \in minted..MaxTabs /\ O \in [F -> Ops]
      /\ writes' = writes \cup W /\ Migrating(W, F, O)
      /\ rows' = rows /\ snapshot' = snapshot /\ inputs' = inputs /\ starts' = starts
      /\ faults' = faults /\ torn' = torn
      /\ app' = "running" /\ sure' = {} /\ held' \in [Ids -> Ops]
  BY DEF Opening
<1>3. /\ DOMAIN tabs' = Ids /\ tabs' = [u \in Ids |-> tabs'[u]]
      /\ \A u \in F : tabs'[u] = Tab("connecting", O[u])
      /\ \A u \in Ids : u \notin F => tabs'[u] = tabs[u]
  BY <1>2 DEF Opening
<1>4. \A u \in F : /\ Fit(tabs'[u]) /\ tabs'[u].stage = "connecting"
                   /\ tabs'[u].ops = O[u] /\ tabs'[u].at = Len(O[u])
  BY <1>2, <1>3, BegunFits
<1>5. minted \in Nat /\ minted' \in 0..MaxTabs /\ minted' >= minted
  <2>1. MaxTabs \in Nat
    BY ReplayAssumption
  <2> QED
    BY <1>1, <1>2, <2>1 DEF ReplayTyped
<1>6. ReplayTyped'
  <2>1. tabs' \in [Ids -> TabRecords]
    <3>1. \A u \in Ids : tabs'[u] \in TabRecords
      BY <1>1, <1>3, <1>4 DEF Fit, ReplayTyped
    <3> QED
      BY <1>3, <3>1
  <2>2. snapshot' \subseteq [id : 1..minted', ops : Ops]
    <3>1. \A e \in snapshot : e \in [id : 1..minted, ops : Ops]
      BY <1>1 DEF ReplayTyped
    <3>2. 1..minted \subseteq 1..minted'
      BY <1>5
    <3> QED
      BY <1>2, <3>1, <3>2
  <2>3. writes' \subseteq Tasks /\ \A w \in writes' : Bounded(Range(w.rows))
    BY <1>1, <1>2 DEF ReplayTyped, Migrating
  <2> QED
    BY <1>1, <1>2, <1>5, <2>1, <2>2, <2>3 DEF ReplayTyped
<1>7. (\A u \in Ids : TabFits(tabs[u]))'
  BY <1>1, <1>3, <1>4 DEF Fit
<1>8. \A u \in Ids : u \notin F => (Open(u)' <=> Open(u))
  BY <1>3 DEF Open
<1>9. \A u \in F : rows[u] = {} /\ Told(writes, u) = {}
  <2>1. \A u \in F : u \in Ids /\ u \in Nat /\ u > minted
    BY <1>2 DEF Ids
  <2>2. \A w \in writes : w.id \in Nat /\ w.id <= minted
    BY <1>1 DEF ReplayTyped, Tasks, Ids, WritesFit
  <2>3. \A u \in F, w \in writes : w.id # u
    BY <1>5, <2>1, <2>2
  <2> QED
    BY <1>1, <2>1, <2>3, ToldNothing DEF StreamsFit
<1>10. StreamsFit'
  <2>1. ASSUME NEW u \in Ids, Open(u)', u \notin torn
        PROVE  Tells(Stream(u), tabs[u].at, tabs[u].ops)'
    <3>1. Stream(u)' = rows[u] \cup (Told(writes, u) \cup Told(W, u))
      <4>1. Stream(u)' = rows[u] \cup Told(writes \cup W, u)
        BY <1>2 DEF Stream, Told
      <4> QED
        BY <4>1, ToldUnion
    <3>2. CASE u \in F
      <4>1. Stream(u)' = OpRows(O[u])
        BY <1>2, <1>9, <3>1, <3>2 DEF Migrating
      <4>2. Tells(OpRows(O[u]), Len(O[u]), O[u])
        BY <1>2, <3>2, TellsOps
      <4> QED
        BY <1>4, <3>2, <4>1, <4>2
    <3>3. CASE u \notin F
      <4>1. Told(W, u) = {}
        BY <1>2, <3>3, ToldNothing DEF Migrating
      <4>2. Stream(u)' = Stream(u) /\ tabs'[u] = tabs[u]
        BY <1>3, <3>1, <3>3, <4>1, StreamIs
      <4>3. Tells(Stream(u), tabs[u].at, tabs[u].ops)
        BY <1>1, <1>8, <2>1, <3>3 DEF StreamsFit
      <4> QED
        BY <4>2, <4>3
    <3> QED
      BY <3>2, <3>3
  <2>2. ASSUME NEW u \in Ids, u > minted'
        PROVE  ~Open(u)' /\ rows[u] = {}
    <3>1. u \notin F /\ u > minted
      BY <1>2, <1>5, <2>2 DEF Ids
    <3> QED
      BY <1>1, <1>8, <3>1 DEF StreamsFit
  <2> QED
    BY <1>2, <2>1, <2>2 DEF StreamsFit
<1>11. WritesFit'
  <2>1. \A c \in Ids : c <= minted /\ ~Open(c) => c <= minted' /\ ~Open(c)'
    <3> SUFFICES ASSUME NEW c \in Ids, c <= minted, ~Open(c)
                 PROVE  c <= minted' /\ ~Open(c)'
      OBVIOUS
    <3>1. c \notin F /\ c <= minted'
      BY <1>2, <1>5 DEF Ids
    <3> QED
      BY <1>8, <3>1
  <2>2. ASSUME NEW w \in writes
        PROVE  w.id <= minted' /\ \A c \in w.clears : c <= minted' /\ ~Open(c)'
    <3>1. w.clears \subseteq Ids /\ w.id \in Nat
      BY <1>1 DEF ReplayTyped, Tasks, Ids
    <3>2. w.id <= minted
      BY <1>1 DEF WritesFit
    <3>3. w.id <= minted'
      BY <1>5, <3>1, <3>2
    <3> QED
      BY <1>1, <2>1, <3>1, <3>3 DEF WritesFit
  <2>3. ASSUME NEW w \in W
        PROVE  w.id <= minted' /\ \A c \in w.clears : c <= minted' /\ ~Open(c)'
    <3>1. w.clears \subseteq Ids
      BY <1>2 DEF Migrating, Tasks
    <3> QED
      BY <1>2, <2>1, <3>1 DEF Migrating
  <2> QED
    BY <1>2, <2>2, <2>3 DEF WritesFit
<1>12. DeadFits'
  BY <1>2 DEF DeadFits
<1> QED
  BY <1>6, <1>7, <1>10, <1>11, <1>12 DEF ReplayInv

LEMMA OpRowsOfNone == OpRows(<<>>) = {} /\ <<>> \in Ops
BY DEF OpRows, Ops

LEMMA OpenTabKeeps ==
    ASSUME ReplayInv, OpenTab
    PROVE  ReplayInv'
<1> DEFINE F == {1}
           O == [u \in F |-> <<>>]
<1>1. /\ app = "running" /\ minted = 0 /\ minted' = 1
      /\ tabs' = [tabs EXCEPT ![1] = Tab("connecting", <<>>)]
      /\ UNCHANGED <<rows, writes, snapshot, app, inputs, starts, faults, torn, held, sure>>
  BY DEF OpenTab
<1>2. MaxTabs \in Nat /\ MaxTabs # 0 /\ 1 \in Ids
  BY ReplayAssumption DEF Ids
<1>3. tabs \in [Ids -> TabRecords] /\ sure = {} /\ held \in [Ids -> Ops]
  BY <1>1 DEF ReplayInv, ReplayTyped, DeadFits
<1>4. tabs' = [u \in Ids |-> IF u \in F THEN Tab("connecting", O[u]) ELSE tabs[u]]
  BY <1>1, <1>2, <1>3
<1>5. Migrating({}, F, O)
  BY OpRowsOfNone DEF Migrating, Told
<1>6. O \in [F -> Ops] /\ F \subseteq Ids /\ \A u \in F : u = 1
  BY <1>2, OpRowsOfNone
<1> HIDE DEF F, O
<1>7. minted' \in minted..MaxTabs /\ \A u \in F : u > minted /\ u <= minted'
  BY <1>1, <1>2, <1>6
<1>8. writes' = writes \cup {}
  BY <1>1
<1>9. Opening(F, O, {})
  BY <1>1, <1>3, <1>4, <1>5, <1>6, <1>7, <1>8 DEF Opening
<1> QED
  BY <1>9, TabsOpen

LEMMA CopyKeeps ==
    ASSUME ReplayInv, NEW t \in Ids, on_copy_session(t)
    PROVE  ReplayInv'
<1> DEFINE ops == tabs[t].ops
           n == minted + 1
           F == {n}
           O == [u \in F |-> ops]
           m == migrate_replay_stream(n, n, ops)
           W == IF ops = <<>> THEN {} ELSE {m}
<1>1. /\ app = "running" /\ minted < MaxTabs /\ minted' = n
      /\ tabs' = [tabs EXCEPT ![n] = Tab("connecting", ops)]
      /\ writes' = writes \cup W
      /\ UNCHANGED <<rows, snapshot, app, inputs, starts, faults, torn, held, sure>>
  BY DEF on_copy_session
<1>2. MaxTabs \in Nat /\ minted \in Nat
  BY ReplayAssumption DEF ReplayInv, ReplayTyped
<1>3. n \in Ids /\ n > minted /\ n \in minted..MaxTabs
  BY <1>1, <1>2 DEF Ids
<1>4. tabs \in [Ids -> TabRecords] /\ sure = {} /\ held \in [Ids -> Ops]
  BY <1>1 DEF ReplayInv, ReplayTyped, DeadFits
<1>5. ops \in Ops
  BY TabFit, TabFields
<1>6. tabs' = [u \in Ids |-> IF u \in F THEN Tab("connecting", O[u]) ELSE tabs[u]]
  <2> HIDE DEF ops, n
  <2> QED
    BY <1>1, <1>3, <1>4
<1>7. /\ m \in Tasks /\ m.id = n /\ m.clears = {}
      /\ Range(m.rows) = OpRows(ops) /\ Bounded(Range(m.rows))
  <2> HIDE DEF n, ops
  <2>1. m.clears = {n} \ {n}
    BY <1>3, <1>5, MigrateIs
  <2> QED
    BY <1>3, <1>5, <2>1, MigrateIs
<1> HIDE DEF m, n, ops
<1>8. Migrating(W, F, O)
  <2>1. CASE ops = <<>>
    BY <2>1, OpRowsOfNone DEF Migrating, Told
  <2>2. CASE ops # <<>>
    <3>1. Told({m}, n) = OpRows(ops)
      BY <1>7, ToldOne
    <3> QED
      BY <1>7, <2>2, <3>1 DEF Migrating
  <2> QED
    BY <2>1, <2>2
<1>9. O \in [F -> Ops] /\ F \subseteq Ids /\ \A u \in F : u = n
  BY <1>3, <1>5
<1> HIDE DEF F, O, W
<1>10. Opening(F, O, W)
  <2>1. \A u \in F : u > minted /\ u <= minted'
    BY <1>1, <1>3, <1>9
  <2> QED
    BY <1>1, <1>3, <1>4, <1>6, <1>8, <1>9, <2>1 DEF Opening
<1> QED
  BY <1>10, TabsOpen

LEMMA RestoredIs ==
    ASSUME ReplayInv
    PROVE  /\ Len(Restored) \in Nat /\ DOMAIN Restored = 1..Len(Restored)
           /\ \A i \in DOMAIN Restored : Restored[i] \in {entry.id : entry \in snapshot}
<1> DEFINE S == {entry.id : entry \in snapshot}
           k == Cardinality(S)
<1>1. minted \in Nat /\ \A entry \in snapshot : entry.id \in 1..minted
  BY ReplayAssumption DEF ReplayInv, ReplayTyped
<1>2. S \subseteq Nat /\ \A s \in S : s <= minted
  BY <1>1
<1> HIDE DEF S
<1>3. IsFiniteSet(S)
  BY <1>1, <1>2, FS_BoundedSetOfNaturals
<1>4. k \in Nat /\ ExistsBijection(1..k, S)
  BY <1>3, FS_CardinalityType
<1>5. \E f \in [1..k -> S] : IsInjective(f)
  BY <1>4 DEF ExistsBijection, Bijection, Injection
<1>6. SetToSeq(S) \in [1..k -> S]
  BY <1>5 DEF SetToSeq
<1> DEFINE r == SetToSeq(S)
<1>7. r \in [1..k -> S]
  BY <1>6
<1>8. Restored = r
  BY DEF Restored, S
<1> HIDE DEF r, k
<1>9. DOMAIN r = 1..k /\ r \in Seq(S)
  BY <1>4, <1>7
<1>10. Len(r) = k
  BY <1>4, <1>9
<1> QED
  BY <1>4, <1>7, <1>8, <1>9, <1>10 DEF S

LEMMA RestoredOpsType ==
    ASSUME ReplayInv, NEW id \in {entry.id : entry \in snapshot}
    PROVE  id \in Ids /\ id <= minted /\ RestoredOps(id) \in Ops
<1>1. minted \in 0..MaxTabs /\ \A entry \in snapshot : entry.id \in 1..minted /\ entry.ops \in Ops
  BY DEF ReplayInv, ReplayTyped
<1>2. MaxTabs \in Nat
  BY ReplayAssumption
<1>3. id \in Ids /\ id <= minted
  BY <1>1, <1>2 DEF Ids
<1>4. Saved(id) \in Ops
  <2> DEFINE entry == CHOOSE e \in snapshot : e.id = id
  <2>1. entry \in snapshot
    OBVIOUS
  <2> HIDE DEF entry
  <2>2. entry.ops \in Ops
    BY <1>1, <2>1
  <2> QED
    BY <2>2 DEF Saved, entry
<1>5. rows[id] \subseteq Rows /\ Bounded(rows[id])
  BY <1>3 DEF ReplayInv, ReplayTyped
<1>6. latest_replay_ops(id) \in Ops
  BY <1>5, ReplayedType DEF latest_replay_ops
<1> QED
  BY <1>3, <1>4, <1>6 DEF RestoredOps

LEMMA HeldNothing == [t \in Ids |-> <<>>] \in [Ids -> Ops]
BY DEF Ops

LEMMA RestoreKeeps ==
    ASSUME ReplayInv, restore_sessions
    PROVE  ReplayInv'
<1> DEFINE F == {minted + i : i \in DOMAIN Restored}
           Old(u) == Restored[u - minted]
           O == [u \in F |-> RestoredOps(Old(u))]
           W == {migrate_replay_stream(Old(u), u, RestoredOps(Old(u))) :
                   u \in {x \in F : RestoredOps(Old(x)) # <<>>}}
<1>1. /\ app = "asking" /\ F \subseteq Ids /\ Answered
      /\ minted' = minted + Len(Restored)
      /\ tabs' = [t \in Ids |-> IF t \in F THEN Tab("connecting", RestoredOps(Old(t))) ELSE tabs[t]]
      /\ writes' = writes \cup W
      /\ UNCHANGED <<rows, snapshot, inputs, starts, faults, torn>>
  BY DEF restore_sessions
<1>2. minted \in Nat /\ MaxTabs \in Nat
  BY ReplayAssumption DEF ReplayInv, ReplayTyped
<1> DEFINE k == Len(Restored)
<1>3. k \in Nat /\ DOMAIN Restored = 1..k
  BY RestoredIs
<1>4. ASSUME NEW u \in F
      PROVE  /\ u > minted /\ u <= minted'
             /\ Old(u) \in Ids /\ Old(u) <= minted /\ RestoredOps(Old(u)) \in Ops
             /\ ~Open(Old(u)) /\ u \in Ids
  <2>1. PICK i \in DOMAIN Restored : u = minted + i
    OBVIOUS
  <2>2. i \in 1..k /\ u - minted = i
    BY <1>2, <1>3, <2>1
  <2>3. Old(u) \in {entry.id : entry \in snapshot}
    BY <2>1, <2>2, RestoredIs
  <2> DEFINE o == Old(u)
  <2>4. o \in {entry.id : entry \in snapshot}
    BY <2>3
  <2> HIDE DEF o
  <2>5. o \in Ids /\ o <= minted /\ RestoredOps(o) \in Ops
    BY <2>4, RestoredOpsType
  <2>6. ~Open(o)
    BY <1>1, <2>5 DEF ReplayInv, DeadFits
  <2>7. u > minted /\ u <= minted' /\ u \in Ids
    BY <1>1, <1>2, <1>3, <2>1, <2>2
  <2> QED
    BY <2>5, <2>6, <2>7 DEF o
<1>5. minted' \in minted..MaxTabs
  <2>1. CASE k = 0
    <3>1. minted \in 0..MaxTabs
      BY DEF ReplayInv, ReplayTyped
    <3> QED
      BY <1>1, <1>2, <2>1, <3>1
  <2>2. CASE k # 0
    <3>1. k \in DOMAIN Restored
      BY <1>3, <2>2
    <3>2. minted + k \in Ids
      BY <1>1, <3>1
    <3> QED
      BY <1>1, <1>2, <1>3, <3>2 DEF Ids
  <2> QED
    BY <2>1, <2>2
<1> HIDE DEF k
<1>6. O \in [F -> Ops] /\ \A u \in F : O[u] = RestoredOps(Old(u))
  BY <1>4
<1>7. tabs' = [u \in Ids |-> IF u \in F THEN Tab("connecting", O[u]) ELSE tabs[u]]
  BY <1>1, <1>6
<1> DEFINE M(u) == migrate_replay_stream(Old(u), u, O[u])
<1>8. /\ \A w \in W : \E u \in F : O[u] # <<>> /\ w = M(u)
      /\ \A u \in F : O[u] # <<>> => M(u) \in W
  BY <1>6
<1>9. ASSUME NEW u \in F
      PROVE  /\ M(u) \in Tasks /\ M(u).id = u /\ M(u).clears = {Old(u)} \ {u}
             /\ Range(M(u).rows) = OpRows(O[u]) /\ Bounded(Range(M(u).rows))
  <2> DEFINE o == Old(u)
             x == O[u]
  <2>1. o \in Ids /\ u \in Ids /\ x \in Ops
    BY <1>4, <1>6
  <2> HIDE DEF o, x
  <2>2. /\ migrate_replay_stream(o, u, x) \in Tasks
        /\ migrate_replay_stream(o, u, x).id = u
        /\ migrate_replay_stream(o, u, x).clears = {o} \ {u}
        /\ Range(migrate_replay_stream(o, u, x).rows) = OpRows(x)
        /\ Bounded(Range(migrate_replay_stream(o, u, x).rows))
    BY <2>1, MigrateIs
  <2> QED
    BY <2>2 DEF o, x
<1>10. \A u \in F : Old(u) <= minted /\ ~Open(Old(u))
  BY <1>4
<1> HIDE DEF M, W, O
<1>11. Migrating(W, F, O)
  <2>1. W \subseteq Tasks
    BY <1>8, <1>9
  <2>2. ASSUME NEW w \in W
        PROVE  /\ w.id \in F /\ Bounded(Range(w.rows))
               /\ \A c \in w.clears : c <= minted /\ ~Open(c)
    <3>1. PICK u \in F : w = M(u)
      BY <1>8
    <3>2. \A c \in w.clears : c = Old(u)
      BY <1>9, <3>1
    <3> QED
      BY <1>9, <1>10, <3>1, <3>2
  <2>3. ASSUME NEW u \in F
        PROVE  Told(W, u) = OpRows(O[u])
    <3>1. \A w \in W : w.id = u => w = M(u) /\ O[u] # <<>>
      BY <1>8, <1>9
    <3>2. CASE O[u] = <<>>
      <4>1. Told(W, u) = {}
        BY <3>1, <3>2, ToldNothing
      <4> QED
        BY <3>2, <4>1, OpRowsOfNone
    <3>3. CASE O[u] # <<>>
      <4>1. {w \in W : w.id = u} = {M(u)}
        BY <1>8, <1>9, <3>1, <3>3
      <4>2. Told(W, u) = Range(M(u).rows)
        BY <4>1 DEF Told
      <4> QED
        BY <1>9, <4>2
    <3> QED
      BY <3>2, <3>3
  <2> QED
    BY <2>1, <2>2, <2>3 DEF Migrating
<1>12. app' = "running" /\ sure' = {} /\ held' \in [Ids -> Ops]
  BY <1>1, HeldNothing DEF Answered
<1>13. \A u \in F : u > minted /\ u <= minted'
  BY <1>4
<1>14. Opening(F, O, W)
  <2> HIDE DEF F
  <2> QED
    BY <1>1, <1>5, <1>6, <1>7, <1>11, <1>12, <1>13 DEF Opening
<1> QED
  BY <1>14, TabsOpen

-----------------------------------------------------------------------------
(* The database, the snapshot, and the application that dies.              *)

LEMMA NoTabIs ==
    /\ Fit(NoTab) /\ NoTab \in TabRecords /\ TabFits(NoTab) /\ NoTab.stage = "none"
<1>1. <<>> \in Ops
  BY DEF Ops
<1>2. Fit(NoTab) /\ NoTab.stage = "none"
  BY <1>1, BegunFits DEF NoTab
<1> QED
  BY <1>2 DEF Fit

LEMMA BoundedUnion ==
    ASSUME NEW A, NEW B, A \subseteq Rows, B \subseteq Rows, Bounded(A), Bounded(B)
    PROVE  Bounded(A \cup B)
<1>1. PICK m \in Nat : \A e \in A : e.at <= m
  BY DEF Bounded
<1>2. PICK n \in Nat : \A e \in B : e.at <= n
  BY DEF Bounded
<1>3. \A e \in A \cup B : e.at \in Nat
  BY RowFields
<1>4. m + n \in Nat /\ \A e \in A \cup B : e.at <= m + n
  BY <1>1, <1>2, <1>3
<1> QED
  BY <1>4 DEF Bounded

LEMMA WrittenIs ==
    ASSUME ReplayInv, NEW w \in writes, NEW n \in 0..Len(w.rows)
    PROVE  /\ w.id \in Ids /\ w.id <= minted /\ Len(w.rows) \in Nat
           /\ Written(w, n) \in [Ids -> SUBSET Rows]
           /\ \A u \in Ids : u # w.id => Written(w, n)[u] = rows[u]
           /\ \A u \in Ids : Bounded(Written(w, n)[u])
           /\ Written(w, Len(w.rows))[w.id] = rows[w.id] \cup Range(w.rows)
           /\ w.clears \subseteq Ids /\ \A c \in w.clears : c <= minted /\ ~Open(c)
<1>1. /\ rows \in [Ids -> SUBSET Rows] /\ w \in Tasks /\ Bounded(Range(w.rows))
      /\ \A u \in Ids : Bounded(rows[u])
  BY DEF ReplayInv, ReplayTyped
<1>2. w.id <= minted /\ \A c \in w.clears : c <= minted /\ ~Open(c)
  BY DEF ReplayInv, WritesFit
<1>3. w.id \in Ids /\ w.clears \subseteq Ids /\ w.rows \in Seq(Rows)
  BY <1>1 DEF Tasks
<1> DEFINE m == Len(w.rows)
           p == Range(SubSeq(w.rows, 1, n))
<1>4. m \in Nat /\ n \in Nat /\ n <= m /\ SubSeq(w.rows, 1, m) = w.rows
  BY <1>3
<1>5. Range(w.rows) \subseteq Rows
  BY <1>3 DEF Range
<1>6. p \subseteq Range(w.rows)
  <2>1. /\ DOMAIN SubSeq(w.rows, 1, n) = 1..n /\ DOMAIN w.rows = 1..m
        /\ \A i \in 1..n : SubSeq(w.rows, 1, n)[i] = w.rows[i]
    BY <1>3, <1>4
  <2>2. \A i \in 1..n : i \in 1..m
    BY <1>4
  <2> QED
    BY <2>1, <2>2 DEF Range
<1>7. p \subseteq Rows /\ Bounded(p)
  BY <1>1, <1>5, <1>6 DEF Bounded
<1>8. Written(w, n) = [rows EXCEPT ![w.id] = @ \cup p]
  BY DEF Written
<1> HIDE DEF p, m
<1>9. /\ Written(w, n) \in [Ids -> SUBSET Rows]
      /\ \A u \in Ids : u # w.id => Written(w, n)[u] = rows[u]
      /\ Written(w, n)[w.id] = rows[w.id] \cup p
  BY <1>1, <1>3, <1>7, <1>8
<1>10. Bounded(rows[w.id] \cup p)
  <2>1. rows[w.id] \subseteq Rows /\ Bounded(rows[w.id])
    BY <1>1, <1>3
  <2> QED
    BY <1>7, <2>1, BoundedUnion
<1>11. \A u \in Ids : Bounded(Written(w, n)[u])
  BY <1>1, <1>9, <1>10
<1>12. Written(w, Len(w.rows))[w.id] = rows[w.id] \cup Range(w.rows)
  <2>1. Written(w, m) = [rows EXCEPT ![w.id] = @ \cup Range(w.rows)]
    BY <1>4 DEF Written, m
  <2> QED
    BY <1>1, <1>3, <2>1 DEF m
<1> QED
  BY <1>2, <1>3, <1>4, <1>9, <1>11, <1>12 DEF m

LEMMA CloseTabKeeps ==
    ASSUME ReplayInv, NEW t \in Ids, CloseTab(t)
    PROVE  ReplayInv'
<1>1. ReplayTyped /\ StreamsFit /\ WritesFit /\ DeadFits /\ \A u \in Ids : TabFits(tabs[u])
  BY DEF ReplayInv
<1>2. /\ app = "running" /\ Open(t)
      /\ tabs' = [tabs EXCEPT ![t] = NoTab] /\ rows' = [rows EXCEPT ![t] = {}]
      /\ writes' = writes /\ snapshot' = snapshot /\ app' = app /\ minted' = minted
      /\ inputs' = inputs /\ starts' = starts /\ faults' = faults /\ torn' = torn
      /\ held' = held /\ sure' = sure
  BY DEF CloseTab
<1>3. /\ tabs' \in [Ids -> TabRecords] /\ tabs'[t] = NoTab
      /\ \A u \in Ids : u # t => tabs'[u] = tabs[u]
  BY <1>1, <1>2, NoTabIs DEF ReplayTyped
<1>4. /\ rows' \in [Ids -> SUBSET Rows] /\ rows'[t] = {}
      /\ \A u \in Ids : u # t => rows'[u] = rows[u]
  BY <1>1, <1>2 DEF ReplayTyped
<1>5. Bounded({})
  <2>1. 0 \in Nat
    OBVIOUS
  <2> QED
    BY <2>1 DEF Bounded
<1>6. ReplayTyped'
  <2>1. \A u \in Ids : Bounded(rows'[u])
    BY <1>1, <1>4, <1>5 DEF ReplayTyped
  <2> QED
    BY <1>1, <1>2, <1>3, <1>4, <2>1 DEF ReplayTyped
<1>7. (\A u \in Ids : TabFits(tabs[u]))'
  BY <1>1, <1>3, NoTabIs
<1>8. ~Open(t)' /\ \A u \in Ids : u # t => (Open(u)' <=> Open(u))
  BY <1>3, NoTabIs DEF Open
<1>9. StreamsFit'
  <2>1. ASSUME NEW u \in Ids, Open(u)', u \notin torn
        PROVE  Tells(Stream(u), tabs[u].at, tabs[u].ops)'
    <3>1. u # t
      BY <1>8, <2>1
    <3>2. Stream(u)' = Stream(u) /\ tabs'[u] = tabs[u]
      BY <1>2, <1>3, <1>4, <3>1 DEF Stream
    <3>3. Tells(Stream(u), tabs[u].at, tabs[u].ops)
      BY <1>1, <1>8, <2>1, <3>1 DEF StreamsFit
    <3> QED
      BY <3>2, <3>3
  <2>2. sure = {}
    BY <1>1, <1>2 DEF DeadFits
  <2>3. \A u \in Ids : u > minted => ~Open(u)' /\ rows'[u] = {}
    BY <1>1, <1>4, <1>8 DEF StreamsFit
  <2> QED
    BY <1>2, <2>1, <2>2, <2>3 DEF StreamsFit
<1>10. WritesFit'
  <2>1. \A w \in writes : w.clears \subseteq Ids
    BY <1>1 DEF ReplayTyped, Tasks
  <2>2. \A c \in Ids : ~Open(c) => ~Open(c)'
    BY <1>8
  <2> QED
    BY <1>1, <1>2, <2>1, <2>2 DEF WritesFit
<1>11. DeadFits'
  BY <1>1, <1>2 DEF DeadFits
<1> QED
  BY <1>6, <1>7, <1>9, <1>10, <1>11 DEF ReplayInv

\* What a task does or does not do to the streams, and that it is gone.
Landing(w, T) ==
    /\ w \in writes /\ T \subseteq Ids
    /\ rows' \in [Ids -> SUBSET Rows] /\ \A u \in Ids : Bounded(rows'[u])
    /\ \A u \in Ids : u > minted => rows'[u] = {}
    /\ \A u \in Ids : Open(u) /\ u \notin T =>
         rows'[u] = rows[u] \/ (u = w.id /\ rows'[u] = rows[u] \cup Range(w.rows))
    /\ w.id \notin T => (Open(w.id) => rows'[w.id] = rows[w.id] \cup Range(w.rows))
    /\ torn' = torn \cup T
    /\ writes' = writes \ {w}
    /\ UNCHANGED <<tabs, snapshot, app, minted, inputs, starts, held, sure>>
    /\ faults' \in 0..MaxFaults

LEMMA TaskLands ==
    ASSUME ReplayInv, app # "dead", NEW w, NEW T, Landing(w, T)
    PROVE  ReplayInv'
<1>1. ReplayTyped /\ StreamsFit /\ WritesFit /\ DeadFits /\ \A u \in Ids : TabFits(tabs[u])
  BY DEF ReplayInv
<1>2. /\ w \in writes /\ T \subseteq Ids
      /\ rows' \in [Ids -> SUBSET Rows] /\ \A u \in Ids : Bounded(rows'[u])
      /\ \A u \in Ids : u > minted => rows'[u] = {}
      /\ \A u \in Ids : Open(u) /\ u \notin T =>
           rows'[u] = rows[u] \/ (u = w.id /\ rows'[u] = rows[u] \cup Range(w.rows))
      /\ w.id \notin T => (Open(w.id) => rows'[w.id] = rows[w.id] \cup Range(w.rows))
      /\ torn' = torn \cup T /\ writes' = writes \ {w}
      /\ tabs' = tabs /\ snapshot' = snapshot /\ app' = app /\ minted' = minted
      /\ inputs' = inputs /\ starts' = starts /\ held' = held /\ sure' = sure
      /\ faults' \in 0..MaxFaults
  BY DEF Landing
<1>3. sure = {} /\ app = "running"
  BY <1>1, <1>2 DEF DeadFits
<1>4. ReplayTyped'
  BY <1>1, <1>2 DEF ReplayTyped
<1>5. (\A u \in Ids : TabFits(tabs[u]))'
  BY <1>1, <1>2
<1>6. \A u \in Ids : Open(u)' <=> Open(u)
  BY <1>2 DEF Open
<1>7. StreamsFit'
  <2>1. ASSUME NEW u \in Ids, Open(u)', u \notin torn'
        PROVE  Tells(Stream(u), tabs[u].at, tabs[u].ops)'
    <3>1. Open(u) /\ u \notin torn /\ u \notin T
      BY <1>2, <1>6, <2>1
    <3>2. Told(writes, u) = Told(writes \ {w}, u) \cup Told({w}, u)
      <4>1. writes = (writes \ {w}) \cup {w}
        BY <1>2
      <4> QED
        BY <4>1, ToldUnion
    <3>3. Stream(u)' = rows'[u] \cup Told(writes \ {w}, u)
      BY <1>2 DEF Stream, Told
    <3>4. CASE u = w.id
      <4>1. rows'[u] = rows[u] \cup Range(w.rows) /\ Told({w}, u) = Range(w.rows)
        BY <1>2, <3>1, <3>4, ToldOne
      <4>2. Stream(u)' = Stream(u)
        BY <3>2, <3>3, <4>1, StreamIs
      <4> QED
        BY <1>1, <1>2, <3>1, <4>2 DEF StreamsFit
    <3>5. CASE u # w.id
      <4>1. rows'[u] = rows[u] /\ Told({w}, u) = {}
        BY <1>2, <3>1, <3>5, ToldOne
      <4>2. Stream(u)' = Stream(u)
        BY <3>2, <3>3, <4>1, StreamIs
      <4> QED
        BY <1>1, <1>2, <3>1, <4>2 DEF StreamsFit
    <3> QED
      BY <3>4, <3>5
  <2>2. \A u \in Ids : u > minted => ~Open(u)' /\ rows'[u] = {}
    BY <1>1, <1>2, <1>6 DEF StreamsFit
  <2> QED
    BY <1>2, <1>3, <2>1, <2>2 DEF StreamsFit
<1>8. WritesFit'
  <2>1. \A v \in writes : v.clears \subseteq Ids
    BY <1>1 DEF ReplayTyped, Tasks
  <2> QED
    BY <1>1, <1>2, <1>6, <2>1 DEF WritesFit
<1>9. DeadFits'
  BY <1>2, <1>3 DEF DeadFits
<1> QED
  BY <1>4, <1>5, <1>7, <1>8, <1>9 DEF ReplayInv

LEMMA MintedRows ==
    ASSUME ReplayInv, NEW w \in writes, NEW u \in Ids, u > minted
    PROVE  u # w.id /\ rows[u] = {}
<1>1. minted \in Nat /\ w.id \in Nat /\ w.id <= minted /\ u \in Nat
  BY DEF ReplayInv, ReplayTyped, WritesFit, Tasks, Ids
<1> QED
  BY <1>1 DEF ReplayInv, StreamsFit

LEMMA WriteLandsKeeps ==
    ASSUME ReplayInv, NEW w \in writes, WriteLands(w)
    PROVE  ReplayInv'
<1> DEFINE n == Len(w.rows)
           R == Written(w, n)
<1>1. /\ app # "dead" /\ rows' = [t \in Ids |-> IF t \in w.clears THEN {} ELSE R[t]]
      /\ writes' = writes \ {w}
      /\ UNCHANGED <<tabs, snapshot, app, minted, inputs, starts, faults, torn, held, sure>>
  BY DEF WriteLands
<1>2. n \in 0..n
  <2>1. w.rows \in Seq(Rows)
    BY DEF ReplayInv, ReplayTyped, Tasks
  <2> QED
    BY <2>1
<1>3. /\ w.id \in Ids /\ w.id <= minted
      /\ R \in [Ids -> SUBSET Rows]
      /\ \A u \in Ids : u # w.id => R[u] = rows[u]
      /\ \A u \in Ids : Bounded(R[u])
      /\ R[w.id] = rows[w.id] \cup Range(w.rows)
      /\ w.clears \subseteq Ids /\ \A c \in w.clears : ~Open(c)
  BY <1>2, WrittenIs
<1> HIDE DEF R, n
<1>4. rows' \in [Ids -> SUBSET Rows]
  BY <1>1, <1>3
<1>5. \A u \in Ids : Bounded(rows'[u])
  <2>1. Bounded({})
    <3>1. 0 \in Nat
      OBVIOUS
    <3> QED
      BY <3>1 DEF Bounded
  <2> QED
    BY <1>1, <1>3, <2>1
<1>6. \A u \in Ids : u > minted => rows'[u] = {}
  BY <1>1, <1>3, MintedRows
<1>7. \A u \in Ids : Open(u) => rows'[u] = R[u]
  BY <1>1, <1>3
<1>8. faults' \in 0..MaxFaults
  BY <1>1 DEF ReplayInv, ReplayTyped
<1>9. /\ \A u \in Ids : Open(u) =>
           rows'[u] = rows[u] \/ (u = w.id /\ rows'[u] = rows[u] \cup Range(w.rows))
      /\ Open(w.id) => rows'[w.id] = rows[w.id] \cup Range(w.rows)
  BY <1>3, <1>7
<1>10. Landing(w, {})
  BY <1>1, <1>4, <1>5, <1>6, <1>8, <1>9 DEF Landing
<1> QED
  BY <1>1, <1>10, TaskLands

LEMMA WriteFailsKeeps ==
    ASSUME ReplayInv, NEW w \in writes, NEW n \in Nat, WriteFails(w, n)
    PROVE  ReplayInv'
<1> DEFINE R == Written(w, n)
<1>1. /\ app # "dead" /\ n < Len(w.rows) /\ Fault /\ rows' = R
      /\ torn' = torn \cup {w.id} /\ writes' = writes \ {w}
      /\ UNCHANGED <<tabs, snapshot, app, minted, inputs, starts, held, sure>>
  BY DEF WriteFails
<1>2. n \in 0..Len(w.rows)
  <2>1. w.rows \in Seq(Rows)
    BY DEF ReplayInv, ReplayTyped, Tasks
  <2> QED
    BY <1>1, <2>1
<1>3. /\ w.id \in Ids
      /\ R \in [Ids -> SUBSET Rows]
      /\ \A u \in Ids : u # w.id => R[u] = rows[u]
      /\ \A u \in Ids : Bounded(R[u])
  BY <1>2, WrittenIs
<1> HIDE DEF R
<1>4. \A u \in Ids : u > minted => rows'[u] = {}
  BY <1>1, <1>3, MintedRows
<1>5. faults' \in 0..MaxFaults
  <2>1. faults \in 0..MaxFaults /\ MaxFaults \in Nat
    BY ReplayAssumption DEF ReplayInv, ReplayTyped
  <2> QED
    BY <1>1, <2>1 DEF Fault
<1>6. Landing(w, {w.id})
  BY <1>1, <1>3, <1>4, <1>5 DEF Landing
<1> QED
  BY <1>1, <1>6, TaskLands

LEMMA SaveKeeps ==
    ASSUME ReplayInv, Save
    PROVE  ReplayInv'
<1>1. /\ tabs' = tabs /\ rows' = rows /\ writes' = writes /\ app' = app /\ minted' = minted
      /\ inputs' = inputs /\ starts' = starts /\ faults' = faults /\ torn' = torn
      /\ held' = held /\ sure' = sure
  BY DEF Save
<1>2. snapshot' \subseteq [id : 1..minted, ops : Ops]
  <2>1. ASSUME NEW t \in Ids, tabs[t].stage = "connected"
        PROVE  t \in 1..minted /\ tabs[t].ops \in Ops
    <3>1. ~(t > minted)
      BY <2>1 DEF ReplayInv, StreamsFit, Open
    <3>2. minted \in Nat /\ t \in Nat /\ t >= 1
      BY ReplayAssumption DEF ReplayInv, ReplayTyped, Ids
    <3> QED
      BY <3>1, <3>2, TabFit, TabFields
  <2>2. snapshot' = {[id |-> t, ops |-> tabs[t].ops] : t \in {u \in Ids : tabs[u].stage = "connected"}}
    BY DEF Save
  <2> QED
    BY <2>1, <2>2
<1>3. ReplayTyped'
  BY <1>1, <1>2 DEF ReplayInv, ReplayTyped
<1>4. StreamsFit' /\ WritesFit' /\ DeadFits' /\ (\A u \in Ids : TabFits(tabs[u]))'
  <2>1. \A u : Open(u)' = Open(u) /\ Stream(u)' = Stream(u)
    BY <1>1 DEF Open, Stream
  <2> QED
    BY <1>1, <2>1 DEF ReplayInv, StreamsFit, WritesFit, DeadFits
<1> QED
  BY <1>3, <1>4 DEF ReplayInv

LEMMA CrashKeeps ==
    ASSUME ReplayInv, Crash
    PROVE  ReplayInv'
<1>1. ReplayTyped /\ StreamsFit /\ WritesFit /\ DeadFits /\ \A u \in Ids : TabFits(tabs[u])
  BY DEF ReplayInv
<1>2. /\ app' = "dead" /\ writes' = {} /\ starts < MaxStarts
      /\ tabs' = [t \in Ids |-> NoTab]
      /\ held' = [t \in Ids |-> tabs[t].ops]
      /\ sure' = {t \in Ids \ torn : Open(t) /\ \A w \in writes : w.id # t}
      /\ snapshot' = snapshot /\ minted' = minted /\ inputs' = inputs /\ starts' = starts
      /\ faults' = faults /\ torn' = torn
  BY DEF Crash
<1>3. /\ rows' \in [Ids -> SUBSET Rows] /\ \A u \in Ids : Bounded(rows'[u])
      /\ \A u \in Ids : (\A w \in writes : w.id # u) => rows'[u] = rows[u]
      /\ \A u \in Ids : u > minted => rows'[u] = {}
  <2>1. CASE rows' = rows
    BY <1>1, <2>1 DEF ReplayTyped, StreamsFit
  <2>2. CASE \E w \in writes : \E n \in DOMAIN w.rows : rows' = Written(w, n)
    <3> PICK w \in writes : \E n \in DOMAIN w.rows : rows' = Written(w, n)
      BY <2>2
    <3>1. PICK n \in DOMAIN w.rows : rows' = Written(w, n)
      OBVIOUS
    <3>2. n \in 0..Len(w.rows)
      <4>1. w.rows \in Seq(Rows)
        BY <1>1 DEF ReplayTyped, Tasks
      <4> QED
        BY <4>1
    <3>3. /\ Written(w, n) \in [Ids -> SUBSET Rows]
          /\ \A u \in Ids : u # w.id => Written(w, n)[u] = rows[u]
          /\ \A u \in Ids : Bounded(Written(w, n)[u])
      BY <3>2, WrittenIs
    <3> QED
      BY <3>1, <3>3, MintedRows
  <2> QED
    BY <2>1, <2>2 DEF Crash
<1>4. tabs' \in [Ids -> TabRecords] /\ \A u \in Ids : tabs'[u] = NoTab
  BY <1>2, NoTabIs
<1>5. held' \in [Ids -> Ops] /\ \A u \in Ids : held'[u] = tabs[u].ops
  <2>1. \A u \in Ids : tabs[u].ops \in Ops
    BY TabFit, TabFields
  <2> QED
    BY <1>2, <2>1
<1>6. ReplayTyped'
  BY <1>1, <1>2, <1>3, <1>4, <1>5 DEF ReplayTyped
<1>7. (\A u \in Ids : TabFits(tabs[u]))'
  BY <1>4, NoTabIs
<1>8. \A u \in Ids : ~Open(u)'
  BY <1>4, NoTabIs DEF Open
<1>9. ASSUME NEW t \in sure'
      PROVE  \E n \in Nat : Tells(rows'[t], n, held'[t])
  <2>1. t \in Ids /\ t \notin torn /\ Open(t) /\ \A w \in writes : w.id # t
    BY <1>2, <1>9
  <2>2. Told(writes, t) = {}
    BY <2>1, ToldNothing
  <2>3. Stream(t) = rows'[t]
    BY <1>3, <2>1, <2>2, StreamIs
  <2>4. Tells(Stream(t), tabs[t].at, tabs[t].ops)
    BY <1>1, <2>1 DEF StreamsFit
  <2>5. tabs[t].at \in Nat
    BY <2>1, TabFit
  <2> QED
    BY <1>5, <2>1, <2>3, <2>4, <2>5
<1>10. StreamsFit'
  BY <1>2, <1>3, <1>8, <1>9 DEF StreamsFit
<1>11. WritesFit' /\ DeadFits'
  BY <1>2, <1>8 DEF WritesFit, DeadFits
<1> QED
  BY <1>6, <1>7, <1>10, <1>11 DEF ReplayInv

\* The user has answered, or need not be asked.
Asked ==
    /\ tabs' = tabs /\ rows' = rows /\ writes' = writes /\ snapshot' = snapshot
    /\ minted' = minted /\ inputs' = inputs /\ faults' = faults /\ torn' = torn
    /\ starts' \in 0..MaxStarts /\ app # "running"
    /\ \/ app' = "asking" /\ held' = held /\ sure' = sure
       \/ Answered

LEMMA AskedKeeps ==
    ASSUME ReplayInv, Asked
    PROVE  ReplayInv'
<1>1. ReplayTyped /\ StreamsFit /\ WritesFit /\ DeadFits /\ \A u \in Ids : TabFits(tabs[u])
  BY DEF ReplayInv
<1>2. /\ tabs' = tabs /\ rows' = rows /\ writes' = writes /\ snapshot' = snapshot
      /\ minted' = minted /\ inputs' = inputs /\ faults' = faults /\ torn' = torn
      /\ starts' \in 0..MaxStarts /\ app # "running"
      /\ \/ app' = "asking" /\ held' = held /\ sure' = sure
         \/ app' = "running" /\ held' \in [Ids -> Ops] /\ sure' = {}
  BY HeldNothing DEF Asked, Answered
<1>3. ReplayTyped'
  BY <1>1, <1>2 DEF ReplayTyped
<1>4. \A u : (Open(u)' <=> Open(u)) /\ Stream(u)' = Stream(u)
  BY <1>2 DEF Open, Stream
<1>5. StreamsFit' /\ WritesFit'
  BY <1>1, <1>2, <1>4 DEF StreamsFit, WritesFit
<1>6. DeadFits'
  BY <1>1, <1>2, <1>4 DEF DeadFits
<1>7. (\A u \in Ids : TabFits(tabs[u]))'
  BY <1>1, <1>2
<1> QED
  BY <1>3, <1>5, <1>6, <1>7 DEF ReplayInv

LEMMA StartKeeps ==
    ASSUME ReplayInv, Start
    PROVE  ReplayInv'
<1>1. starts' \in 0..MaxStarts
  <2>1. app = "dead" /\ starts' = starts + 1
    BY DEF Start
  <2>2. starts \in 0..MaxStarts /\ starts < MaxStarts /\ MaxStarts \in Nat
    BY <2>1, ReplayAssumption DEF ReplayInv, ReplayTyped, DeadFits
  <2> QED
    BY <2>1, <2>2
<1>2. Asked
  BY <1>1 DEF Asked, Start, Answered
<1> QED
  BY <1>2, AskedKeeps

LEMMA SkipKeeps ==
    ASSUME ReplayInv, SkipRestore
    PROVE  ReplayInv'
<1>1. Asked
  BY DEF Asked, SkipRestore, Answered, ReplayInv, ReplayTyped
<1> QED
  BY <1>1, AskedKeeps

LEMMA ReplayStarts ==
    ASSUME ReplayInit
    PROVE  ReplayInv
<1>1. /\ tabs = [t \in Ids |-> NoTab] /\ rows = [t \in Ids |-> {}]
      /\ writes = {} /\ snapshot = {} /\ app = "running" /\ minted = 0
      /\ inputs = 0 /\ starts = 0 /\ faults = 0 /\ torn = {} /\ sure = {}
      /\ held = [t \in Ids |-> <<>>]
  BY DEF ReplayInit
<1>2. MaxTabs \in Nat /\ MaxInputs \in Nat /\ MaxStarts \in Nat /\ MaxFaults \in Nat
  BY ReplayAssumption
<1>3. Bounded({})
  <2>1. 0 \in Nat
    OBVIOUS
  <2> QED
    BY <2>1 DEF Bounded
<1>4. ReplayTyped
  BY <1>1, <1>2, <1>3, NoTabIs, HeldNothing DEF ReplayTyped
<1>5. \A u \in Ids : TabFits(tabs[u]) /\ ~Open(u)
  BY <1>1, NoTabIs DEF Open
<1>6. StreamsFit /\ WritesFit /\ DeadFits
  BY <1>1, <1>5 DEF StreamsFit, WritesFit, DeadFits
<1> QED
  BY <1>4, <1>5, <1>6 DEF ReplayInv

LEMMA TabSteps ==
    ASSUME ReplayInv, NEW t \in Ids,
           \/ \E op \in Hosts \cup {Fruitless} : SubmitAtMenu(t, op)
           \/ \E line \in Contexts \cup {Exit, Plain} : SubmitAtShell(t, line)
           \/ \E accepted \in BOOLEAN : Answer(t, accepted)
           \/ note_shell_integration_evidence(t)
           \/ \E left \in 0..REPLAY_MAX_OPS : ShellEnds(t, left)
           \/ \E stage \in {"connected", "down"} : ConnectEnds(t, stage)
           \/ Disconnected(t) \/ Reconnect(t)
           \/ \E replay \in tabs[t].replays : ReplayOp(t, replay) \/ ReplayGivesUp(t, replay)
           \/ on_copy_session(t) \/ CloseTab(t)
    PROVE  ReplayInv'
<1>1. CASE \E op \in Hosts \cup {Fruitless} : SubmitAtMenu(t, op)
  BY <1>1, SubmitAtMenuKeeps
<1>2. CASE \E line \in Contexts \cup {Exit, Plain} : SubmitAtShell(t, line)
  BY <1>2, SubmitAtShellKeeps
<1>3. CASE \E accepted \in BOOLEAN : Answer(t, accepted)
  BY <1>3, AnswerKeeps
<1>4. CASE note_shell_integration_evidence(t)
  BY <1>4, EvidenceKeeps
<1>5. CASE \E left \in 0..REPLAY_MAX_OPS : ShellEnds(t, left)
  <2>1. PICK left \in 0..REPLAY_MAX_OPS : ShellEnds(t, left)
    BY <1>5
  <2>2. left \in Nat
    OBVIOUS
  <2> QED
    BY <2>1, <2>2, ShellEndsKeeps
<1>6. CASE \E stage \in {"connected", "down"} : ConnectEnds(t, stage)
  BY <1>6, ConnectEndsKeeps
<1>7. CASE Disconnected(t)
  BY <1>7, DisconnectedKeeps
<1>8. CASE Reconnect(t)
  BY <1>8, ReconnectTabKeeps
<1>9. CASE \E replay \in tabs[t].replays : ReplayOp(t, replay) \/ ReplayGivesUp(t, replay)
  BY <1>9, ReplayOpKeeps, ReplayGivesUpKeeps
<1>10. CASE on_copy_session(t)
  BY <1>10, CopyKeeps
<1>11. CASE CloseTab(t)
  BY <1>11, CloseTabKeeps
<1> QED
  BY <1>1, <1>2, <1>3, <1>4, <1>5, <1>6, <1>7, <1>8, <1>9, <1>10, <1>11

LEMMA ReplayStutters ==
    ASSUME ReplayInv, UNCHANGED replayVars
    PROVE  ReplayInv'
<1>1. /\ tabs' = tabs /\ rows' = rows /\ writes' = writes /\ snapshot' = snapshot
      /\ app' = app /\ minted' = minted /\ inputs' = inputs /\ starts' = starts
      /\ faults' = faults /\ torn' = torn /\ held' = held /\ sure' = sure
  BY DEF replayVars
<1>2. \A u : Open(u)' = Open(u) /\ Stream(u)' = Stream(u)
  BY <1>1 DEF Open, Stream
<1>3. ReplayTyped'
  BY <1>1 DEF ReplayInv, ReplayTyped
<1> QED
  BY <1>1, <1>2, <1>3 DEF ReplayInv, StreamsFit, WritesFit, DeadFits

LEMMA ReplaySteps ==
    ASSUME ReplayInv, [ReplayNext]_replayVars
    PROVE  ReplayInv'
<1>1. CASE \E w \in writes : WriteLands(w) \/ \E n \in 0..REPLAY_MAX_OPS : WriteFails(w, n)
  <2>1. PICK w \in writes : WriteLands(w) \/ \E n \in 0..REPLAY_MAX_OPS : WriteFails(w, n)
    BY <1>1
  <2>2. \A n \in 0..REPLAY_MAX_OPS : n \in Nat
    OBVIOUS
  <2> QED
    BY <2>1, <2>2, WriteLandsKeeps, WriteFailsKeeps
<1> QED
  BY <1>1, TabSteps, OpenTabKeeps, SaveKeeps, CrashKeeps, StartKeeps, RestoreKeeps, SkipKeeps,
     ReplayStutters DEF ReplayNext

\* What a recorder holds, what its remote is at, what its replay has still to
\* type and what its stream tells fit together, in every state (state.rs and
\* app.rs of rusterm-ui, lib.rs of rusterm-analytics).
THEOREM ReplayInvariance == ReplaySpec => []ReplayInv
<1>1. ReplayInit => ReplayInv
  BY ReplayStarts
<1>2. ReplayInv /\ [ReplayNext]_replayVars => ReplayInv'
  BY ReplaySteps
<1> QED
  BY <1>1, <1>2, PTL DEF ReplaySpec

LEMMA ReplayInvTypes ==
    ASSUME ReplayInv
    PROVE  ReplayTypeOK
<1>1. ReplayTyped /\ StreamsFit
  BY DEF ReplayInv
<1>2. /\ app \in {"dead", "asking", "running"} /\ minted \in 0..MaxTabs
      /\ inputs \in 0..MaxInputs /\ starts \in 0..MaxStarts /\ faults \in 0..MaxFaults
  BY <1>1 DEF ReplayTyped
<1>3. ASSUME NEW t \in Ids
      PROVE  /\ tabs[t].stage \in {"none", "connecting", "connected", "down"}
             /\ tabs[t].ops \in Seq(Inputs)
             /\ tabs[t].path = <<>> \/ tabs[t].path[1] \in Hosts
             /\ t > minted => ~Open(t) /\ rows[t] = {}
             /\ \A r \in rows[t] : r.event = "op" => r.op \in Inputs
  <2>1. /\ tabs[t].stage \in {"none", "connecting", "connected", "down"}
        /\ tabs[t].ops \in Seq(Inputs) /\ tabs[t].path \in Ways
    BY TabFit, TabFields DEF Ops
  <2>2. rows[t] \subseteq Rows
    BY <1>1 DEF ReplayTyped
  <2>3. \A r \in rows[t] : r.event = "op" => r.op \in Inputs
    BY <2>2, RowFields
  <2> QED
    BY <1>1, <2>1, <2>3 DEF Ways, StreamsFit
<1>4. \A w \in writes : w.id \in Ids /\ w.clears \subseteq Ids
  BY <1>1 DEF ReplayTyped, Tasks
<1>5. {entry.id : entry \in snapshot} \subseteq 1..minted
  BY <1>1 DEF ReplayTyped
<1> QED
  BY <1>2, <1>3, <1>4, <1>5 DEF ReplayTypeOK

\* ReplayTypeOK, for every window, and however many hosts, contexts, tabs,
\* lines, starts and faults.
THEOREM ReplayTypeCorrect == ReplaySpec => []ReplayTypeOK
<1>1. ReplayInv => ReplayTypeOK
  BY ReplayInvTypes
<1> QED
  BY <1>1, ReplayInvariance, PTL

LEMMA RecorderLeads ==
    ASSUME ReplayInv
    PROVE  RecorderIsNavigation
<1> SUFFICES ASSUME NEW t \in Ids, Running(t), tabs[t].path # <<>>, tabs[t].replays = {},
                    tabs[t].asking = {}, ~tabs[t].slipped
             PROVE  Lands(tabs[t].ops) = tabs[t].path
  BY DEF RecorderIsNavigation
<1>1. Fit(tabs[t]) /\ tabs[t].stage = "connected"
  BY TabFit DEF Running
<1>2. Leading(tabs[t])
  BY <1>1, Fitting
<1> QED
  BY <1>2, AtRest

\* RecorderIsNavigation: what would be typed again leads where the user is
\* (state.rs: record_replay_op, record_context_command, pop_context_command).
THEOREM RecorderLeadsBack == ReplaySpec => []RecorderIsNavigation
<1>1. ReplayInv => RecorderIsNavigation
  BY RecorderLeads
<1> QED
  BY <1>1, ReplayInvariance, PTL

LEMMA RestoreStep ==
    ASSUME ReplayInv, [ReplayNext]_replayVars, app = "asking", minted' > minted
    PROVE  restore_sessions
<1>1. minted \in Nat
  BY ReplayAssumption DEF ReplayInv, ReplayTyped
<1>2. CASE UNCHANGED replayVars
  BY <1>1, <1>2 DEF replayVars
<1>3. CASE ReplayNext
  BY <1>1, <1>3 DEF ReplayNext, SubmitAtMenu, SubmitAtShell, Answer,
     note_shell_integration_evidence, ShellEnds, ConnectEnds, Disconnected, Reconnect, ReplayOp,
     ReplayGivesUp, on_copy_session, CloseTab, OpenTab, WriteLands, WriteFails, Save, Crash,
     Start, SkipRestore, Running, Disk
<1> QED
  BY <1>2, <1>3

\* RestoredIsRecorded: a restored tab is given what its recorder held when the
\* application died, if all its events were on disk (app.rs: restore_sessions;
\* rusterm-analytics: latest_replay_ops).
THEOREM RestoredAsRecorded == ReplaySpec => RestoredIsRecorded
<1> DEFINE Is == \A i \in DOMAIN Restored :
                    (/\ app = "asking" /\ minted' > minted
                     /\ Restored[i] \in sure /\ held[Restored[i]] # <<>>)
                    => tabs'[minted + i].ops = held[Restored[i]]
<1>1. ASSUME ReplayInv, [ReplayNext]_replayVars
      PROVE  Is
  <2> SUFFICES ASSUME NEW i \in DOMAIN Restored, app = "asking", minted' > minted,
                      Restored[i] \in sure, held[Restored[i]] # <<>>
               PROVE  tabs'[minted + i].ops = held[Restored[i]]
    OBVIOUS
  <2> DEFINE id == Restored[i]
  <2>1. restore_sessions
    BY <1>1, RestoreStep
  <2>2. id \in {entry.id : entry \in snapshot} /\ i \in Nat /\ minted \in Nat
    BY <1>1, RestoredIs, ReplayAssumption DEF ReplayInv, ReplayTyped
  <2>3. id \in sure /\ held[id] # <<>>
    OBVIOUS
  <2>4. /\ minted + i \in Ids
        /\ tabs'[minted + i] = Tab("connecting", RestoredOps(Restored[(minted + i) - minted]))
    BY <2>1 DEF restore_sessions
  <2>5. (minted + i) - minted = i
    BY <2>2
  <2>6. tabs'[minted + i] = Tab("connecting", RestoredOps(id))
    BY <2>4, <2>5
  <2> HIDE DEF id
  <2>7. id \in Ids
    BY <1>1, <2>2, RestoredOpsType
  <2>8. rows[id] \subseteq Rows
    BY <1>1, <2>7 DEF ReplayInv, ReplayTyped
  <2>9. PICK n \in Nat : Tells(rows[id], n, held[id])
    BY <1>1, <2>3, <2>7 DEF ReplayInv, StreamsFit
  <2>10. latest_replay_ops(id) = held[id]
    BY <2>8, <2>9, ReplayedTells DEF latest_replay_ops
  <2>11. RestoredOps(id) = held[id]
    BY <2>3, <2>10 DEF RestoredOps
  <2>12. tabs'[minted + i].ops = held[id]
    BY <2>6, <2>11 DEF Tab
  <2> QED
    BY <2>12 DEF id
<1>2. ReplayInv /\ [ReplayNext]_replayVars => [Is]_replayVars
  BY <1>1
<1> QED
  BY <1>2, ReplayInvariance, PTL DEF ReplaySpec, RestoredIsRecorded

=============================================================================
