----------------------- MODULE CredentialPromptProofs -----------------------
(***************************************************************************)
(* Proofs about CredentialPrompt, for any terminals, prompts, entries and  *)
(* patterns.                                                               *)
(*                                                                         *)
(* Two stories are kept apart. A terminal's: an attempt is the submission  *)
(* it stands for, and a submission that the remote has not followed with   *)
(* a prompt is the attempt, on the line where it was made. A prompt's: its *)
(* preference and its last events were earned by the user's choices.       *)
(***************************************************************************)
EXTENDS CredentialPrompt, FiniteSetTheorems, TLAPS

Tab == [conn : {"open", "closing", "down"}, line : Line, popup : Popup \cup {None},
        feedback : Feedback \cup {None}, cooldown : Cooldown \cup {None},
        fresh : Line \cup {None}, attempt : Attempt \cup {None}]

Submission == [key : Key \cup {None}, lapsed : BOOLEAN, known : BOOLEAN,
               since : {"nothing", "again", "other", "later", "judged"}]

Selected == [key : Key \cup {None}, times : 0..2, among : Key \cup {None}]

\* Submitted there, and the remote has not asked anything since.
Unanswered(e, p) == e[p].key # None /\ e[p].since = "nothing" /\ e[p].known

\* The attempt is the submission it stands for.
AttemptFits(t, e) ==
    t.attempt # None =>
      /\ t.popup = None
      /\ t.feedback = [kind |-> "submitted", expect |-> ExpectOf[t.attempt.key]]
      /\ t.cooldown # None /\ t.cooldown.expect = ExpectOf[t.attempt.key]
      /\ e[t.attempt.prompt].key = t.attempt.key
      /\ e[t.attempt.prompt].since # "judged"
      /\ ~t.cooldown.recent => e[t.attempt.prompt].lapsed
      /\ t.fresh = t.attempt.prompt => e[t.attempt.prompt].since \in {"again", "later"}

\* What the remote has not answered is the attempt, and no other prompt is on the line.
LastIsAttempt(t, e) ==
    \A p \in Prompt : Unanswered(e, p) =>
        t.attempt = [prompt |-> p, key |-> e[p].key] /\ t.line \in {p, Other}

\* What t remembers of the screen, and the submissions e of a library lib.
TerminalFits(lib, t, e) ==
    /\ t \in Tab /\ e \in [Prompt -> Submission]
    /\ t.fresh \in {None, t.line}
    /\ t.cooldown = None => t.fresh = None
    /\ t.conn = "down" => \A p \in Prompt : e[p].key = None
    /\ \A p \in Prompt : e[p].key # None /\ e[p].known => Recognises(lib, p, ExpectOf[e[p].key])
    /\ AttemptFits(t, e)
    /\ LastIsAttempt(t, e)

\* What would be submitted was chosen: the preference, the newest selection, and the
\* same selection twice.
ChoiceFits(pref, events, c) ==
    /\ pref # None => c.among = pref
    /\ Len(events) > 0 /\ events[Len(events)].kind # "rejected" =>
         \/ c.among = events[Len(events)].key
         \/ c.key = events[Len(events)].key /\ c.times > 0
    /\ Len(events) > 1 /\ events[Len(events)].kind # "rejected"
       /\ events[Len(events) - 1].kind # "rejected"
       /\ events[Len(events) - 1].key = events[Len(events)].key =>
         \/ c.among = events[Len(events)].key
         \/ c.key = events[Len(events)].key /\ c.times = 2

EventsOK(h) == h \in Seq(Event) /\ Len(h) <= HabitCap

Counts ==
    /\ library \subseteq Key
    /\ asks \in 0..MaxAsks /\ edits \in 0..MaxEdits /\ restarts \in 0..MaxRestarts
    /\ decided.kind \in {"none", "submitted", "rejected"}

Memory ==
    /\ prefs \in [Prompt -> Key \cup {None}]
    /\ \A p \in Prompt \ Safe : prefs[p] = None
    /\ DOMAIN habit = Prompt /\ \A p \in Prompt : EventsOK(habit[p])
    /\ choice \in [Prompt -> Selected]
    /\ \A p \in Prompt : ChoiceFits(prefs[p], habit[p], choice[p])

Terminals ==
    /\ tab \in [Session -> Tab] /\ sent \in [Session -> [Prompt -> Submission]]
    /\ \A s \in Session : TerminalFits(library, tab[s], sent[s])

IInv == Counts /\ Memory /\ Terminals

-----------------------------------------------------------------------------
(* What the operators make of a terminal                                      *)

\* NoneAssumption says None is none of the parts of a terminal.
LEMMA PartsAreThere ==
    ASSUME NEW t \in Tab
    PROVE  /\ t.popup # None => t.popup \in Popup
           /\ t.feedback # None => t.feedback \in Feedback
           /\ t.cooldown # None => t.cooldown \in Cooldown
           /\ t.attempt # None => t.attempt \in Attempt
  BY DEF Tab

\* Each change of a terminal touches only its own parts.
LEMMA SettledTab ==
    ASSUME NEW t \in Tab
    PROVE  /\ Settled(t) \in Tab
           /\ Settled(t).conn = t.conn /\ Settled(t).line = t.line
           /\ Settled(t).popup = t.popup /\ Settled(t).attempt = t.attempt
           /\ Settled(t).feedback = None /\ Settled(t).cooldown = None
           /\ Settled(t).fresh = None
  BY DEF Settled, Tab

LEMMA ClearedTab ==
    ASSUME NEW t \in Tab
    PROVE  /\ Cleared(t) \in Tab
           /\ Cleared(t).conn = t.conn /\ Cleared(t).line = t.line
           /\ Cleared(t).popup = None /\ Cleared(t).attempt = None
           /\ Cleared(t).feedback = None /\ Cleared(t).cooldown = None
           /\ Cleared(t).fresh = None
  BY DEF Cleared, Settled, Tab

LEMMA ArmedTab ==
    ASSUME NEW t \in Tab, NEW p \in Prompt, NEW k \in Key
    PROVE  LET u == Armed(t, p, k) IN
           /\ u \in Tab
           /\ u.conn = t.conn /\ u.line = t.line /\ u.popup = t.popup /\ u.fresh = None
           /\ u.feedback = [kind |-> "submitted", expect |-> ExpectOf[k]]
           /\ u.cooldown = [expect |-> ExpectOf[k], recent |-> TRUE]
           /\ u.attempt = [prompt |-> p, key |-> k]
<1>1. ExpectOf[k] \in Expect
  BY CredentialAssumption
<1> DEFINE f == [kind |-> "submitted", expect |-> ExpectOf[k]]
           d == [expect |-> ExpectOf[k], recent |-> TRUE]
           a == [prompt |-> p, key |-> k]
<1>2. f \in Feedback /\ d \in Cooldown /\ a \in Attempt
  BY <1>1 DEF Feedback, Cooldown, Attempt
<1>3. Armed(t, p, k) = [t EXCEPT !.feedback = f, !.cooldown = d, !.fresh = None, !.attempt = a]
  BY DEF Armed
<1> HIDE DEF f, d, a
<1>4. LET u == Armed(t, p, k) IN
      /\ u \in Tab
      /\ u.conn = t.conn /\ u.line = t.line /\ u.popup = t.popup /\ u.fresh = None
      /\ u.feedback = f /\ u.cooldown = d /\ u.attempt = a
  BY <1>2, <1>3 DEF Tab
<1> QED
  BY <1>4 DEF f, d, a

LEMMA OfferedTab ==
    ASSUME NEW t \in Tab, NEW lib \in SUBSET Key, t.line \in Prompt
    PROVE  LET u == Offered(t, lib) IN
           /\ u \in Tab
           /\ u.conn = t.conn /\ u.line = t.line /\ u.attempt = t.attempt
           /\ u.feedback = t.feedback /\ u.cooldown = t.cooldown /\ u.fresh = t.fresh
           /\ u.popup = [prompt |-> t.line, matches |-> Matches(lib, t.line)]
<1> DEFINE o == [prompt |-> t.line, matches |-> Matches(lib, t.line)]
<1>1. o \in Popup
  BY DEF Popup, Matches
<1>2. Offered(t, lib) = [t EXCEPT !.popup = o]
  BY DEF Offered
<1> HIDE DEF o
<1>3. LET u == Offered(t, lib) IN
      /\ u \in Tab
      /\ u.conn = t.conn /\ u.line = t.line /\ u.attempt = t.attempt
      /\ u.feedback = t.feedback /\ u.cooldown = t.cooldown /\ u.fresh = t.fresh
      /\ u.popup = o
  BY <1>1, <1>2 DEF Tab
<1> QED
  BY <1>3 DEF o

LEMMA NewIsTab == NewTab("open", Other) \in Tab
  BY DEF NewTab, Tab, Line

\* A key recognises what it matches.
LEMMA MatchesRecognise ==
    ASSUME NEW lib, NEW p \in Prompt, NEW k \in Matches(lib, p)
    PROVE  Recognises(lib, p, ExpectOf[k])
  BY DEF Recognises

LEMMA RecognisedMatch ==
    ASSUME NEW lib, NEW p, NEW e, Recognises(lib, p, e)
    PROVE  p \in Prompt /\ Matches(lib, p) # {}
  BY DEF Recognises

LEMMA NoneIsNoPrompt ==
    /\ None \notin Prompt /\ None \notin Key /\ Other \notin Prompt /\ None # Other
    /\ \A lib, e : ~Recognises(lib, None, e) /\ ~Recognises(lib, Other, e)
  BY CredentialAssumption DEF Recognises

-----------------------------------------------------------------------------
(* A chunk of output                                                          *)

\* After the screening an attempt is the one whose prompt is on the line again, and
\* a terminal whose prompt came back is left as it is.
LEMMA ScreenedTab ==
    ASSUME NEW lib, NEW t \in Tab, t.cooldown = None => t.fresh = None,
           t.attempt # None =>
             t.feedback = [kind |-> "submitted", expect |-> ExpectOf[t.attempt.key]]
    PROVE  LET u == Screened(lib, t) IN
           /\ u \in Tab
           /\ u.conn = t.conn /\ u.line = t.line /\ u.popup = t.popup
           /\ u.fresh \in {None, t.fresh}
           /\ u.cooldown = None => u.fresh = None
           /\ u.attempt # None => /\ u = t /\ Repeated(lib, t)
                                  /\ t.attempt.prompt = t.line
           /\ Repeated(lib, u) \/ u.attempt = None
           /\ ~Mismatched(lib, t) /\ Repeated(lib, t) => u = t
<1> DEFINE t1 == IF Mismatched(lib, t) THEN [t EXCEPT !.attempt = None, !.feedback = None]
                                       ELSE t
           u == IF t1.feedback # None /\ ~Repeated(lib, t1)
                THEN [Settled(t1) EXCEPT !.attempt = None] ELSE t1
<1>1. Screened(lib, t) = u
  BY DEF Screened
<1>2. CASE Mismatched(lib, t)
  <2>1. /\ t1 \in Tab /\ t1.attempt = None /\ t1.feedback = None
        /\ t1.conn = t.conn /\ t1.line = t.line /\ t1.popup = t.popup /\ t1.fresh = t.fresh
        /\ t1.cooldown = t.cooldown
    BY <1>2 DEF Tab
  <2>2. u = t1
    BY <2>1
  <2> QED
    BY <1>1, <1>2, <2>1, <2>2
<1>3. CASE ~Mismatched(lib, t)
  <2>1. t1 = t
    BY <1>3
  <2> HIDE DEF t1
  <2>2. CASE t.feedback # None /\ ~Repeated(lib, t)
    <3>1. u = [Settled(t) EXCEPT !.attempt = None]
      BY <2>1, <2>2
    <3>2. /\ u \in Tab /\ u.attempt = None /\ u.fresh = None
          /\ u.conn = t.conn /\ u.line = t.line /\ u.popup = t.popup
      BY <3>1, SettledTab DEF Tab
    <3> QED
      BY <1>1, <2>2, <3>2
  <2>3. CASE t.feedback = None \/ Repeated(lib, t)
    <3>1. u = t
      BY <2>1, <2>3
    <3>2. t.attempt # None => t.feedback # None /\ t.attempt.prompt = t.line
      <4> SUFFICES ASSUME t.attempt # None
                   PROVE  t.feedback # None /\ t.attempt.prompt = t.line
        OBVIOUS
      <4>1. attempt_matches_prompt(lib, t)
        BY <1>3 DEF Mismatched
      <4>2. t.attempt.key \in Key /\ ExpectOf[t.attempt.key] \in Expect
        BY PartsAreThere, CredentialAssumption DEF Attempt
      <4>3. [kind |-> "submitted", expect |-> ExpectOf[t.attempt.key]] \in Feedback
        BY <4>2 DEF Feedback
      <4> QED
        BY <4>1, <4>3, NoneAssumption DEF attempt_matches_prompt
    <3> QED
      BY <1>1, <2>3, <3>1, <3>2
  <2> QED
    BY <2>2, <2>3 DEF Repeated
<1> QED
  BY <1>2, <1>3

\* The prompt of an attempt comes back: nothing of the terminal is dropped before it is
\* looked at as a repeated one.
LEMMA AttemptComesBack ==
    ASSUME NEW lib, NEW t \in Tab, NEW q \in Prompt, NEW k \in Key,
           t.attempt = [prompt |-> q, key |-> k], t.line = q,
           t.feedback = [kind |-> "submitted", expect |-> ExpectOf[k]],
           t.cooldown = None => t.fresh = None,
           Recognises(lib, q, ExpectOf[k])
    PROVE  Screened(lib, t) = t /\ Repeated(lib, t)
<1>1. ExpectOf[k] \in Expect
  BY CredentialAssumption
<1>2. t.feedback \in Feedback /\ t.feedback.expect = ExpectOf[k]
  BY <1>1 DEF Feedback
<1>3. Repeated(lib, t)
  BY <1>2, NoneAssumption DEF Repeated
<1>4. ~Mismatched(lib, t)
  BY DEF Mismatched, attempt_matches_prompt
<1>5. t.attempt.key = k
  OBVIOUS
<1> QED
  BY <1>3, <1>4, <1>5, ScreenedTab

\* While a submission is unanswered, a chunk that leads to a decision brings its prompt
\* back.
LEMMA UnansweredComesBack ==
    ASSUME NEW lib, NEW t, NEW e, TerminalFits(lib, t, e), NEW q \in Prompt,
           Unanswered(e, q), onekey_popup_for_output(lib, t)
    PROVE  /\ Screened(lib, t) = t /\ Repeated(lib, t) /\ t.line = q
           /\ t.attempt = [prompt |-> q, key |-> e[q].key]
<1>1. t \in Tab /\ e \in [Prompt -> Submission] /\ t.line \in Prompt
  BY DEF TerminalFits, onekey_popup_for_output
<1>2. t.attempt = [prompt |-> q, key |-> e[q].key] /\ t.line = q
  BY <1>1, NoneIsNoPrompt DEF TerminalFits, LastIsAttempt
<1>3. e[q].key # None /\ e[q].known
  BY DEF Unanswered
<1>4. e[q].key \in Key /\ Recognises(lib, q, ExpectOf[e[q].key])
  BY <1>1, <1>3 DEF TerminalFits, Submission
<1>5. t.attempt \in Attempt /\ t.attempt # None /\ t.attempt.key = e[q].key
  BY <1>2, <1>4, NoneAssumption DEF Attempt
<1>6. /\ t.feedback = [kind |-> "submitted", expect |-> ExpectOf[e[q].key]]
      /\ t.cooldown = None => t.fresh = None
  BY <1>5 DEF TerminalFits, AttemptFits
<1> QED
  BY <1>1, <1>2, <1>4, <1>6, AttemptComesBack

\* A terminal without an attempt fits submissions of which none is unanswered.
LEMMA AskedFits ==
    ASSUME NEW lib, NEW u \in Tab, NEW e \in [Prompt -> Submission],
           u.attempt = None, u.fresh \in {None, u.line}, u.cooldown = None => u.fresh = None,
           u.conn = "down" => \A p \in Prompt : e[p].key = None,
           \A p \in Prompt : e[p].key # None /\ e[p].known =>
                               Recognises(lib, p, ExpectOf[e[p].key]),
           \A p \in Prompt : ~Unanswered(e, p)
    PROVE  TerminalFits(lib, u, e)
  BY DEF TerminalFits, AttemptFits, LastIsAttempt

\* What was just submitted at p is the attempt.
LEMMA ArmedFits ==
    ASSUME NEW lib, NEW t \in Tab, NEW e \in [Prompt -> Submission],
           NEW p \in Prompt, NEW k \in Key, NEW r \in Submission,
           t.popup = None, t.conn # "down",
           \A q \in Prompt : e[q].key # None /\ e[q].known =>
                               Recognises(lib, q, ExpectOf[e[q].key]),
           \A q \in Prompt : ~Unanswered(e, q),
           r.key = k, r.since \in {"nothing", "other"},
           r.since = "nothing" => t.line = p,
           r.known => Recognises(lib, p, ExpectOf[k])
    PROVE  TerminalFits(lib, Armed(t, p, k), [e EXCEPT ![p] = r])
<1> DEFINE u == Armed(t, p, k)
           x == [e EXCEPT ![p] = r]
<1>1. /\ u \in Tab
      /\ u.conn = t.conn /\ u.line = t.line /\ u.popup = t.popup /\ u.fresh = None
      /\ u.feedback = [kind |-> "submitted", expect |-> ExpectOf[k]]
      /\ u.cooldown = [expect |-> ExpectOf[k], recent |-> TRUE]
      /\ u.attempt = [prompt |-> p, key |-> k]
  BY ArmedTab
<1>2. x \in [Prompt -> Submission] /\ x[p] = r /\ \A q \in Prompt \ {p} : x[q] = e[q]
  OBVIOUS
<1> HIDE DEF u, x
<1>3. u.attempt.prompt = p /\ u.attempt.key = k
  BY <1>1
<1>4. u.cooldown # None /\ u.cooldown.expect = ExpectOf[k] /\ u.cooldown.recent
  <2>1. ExpectOf[k] \in Expect
    BY CredentialAssumption
  <2>2. u.cooldown \in Cooldown
    BY <1>1, <2>1 DEF Cooldown
  <2>3. u.cooldown # None
    BY <2>2, NoneAssumption
  <2>4. u.cooldown.expect = ExpectOf[k]
    BY <1>1
  <2>5. u.cooldown.recent = TRUE
    BY <1>1
  <2> QED
    BY <2>3, <2>4, <2>5
<1>5. AttemptFits(u, x)
  BY <1>1, <1>2, <1>3, <1>4, NoneIsNoPrompt DEF AttemptFits
<1>6. LastIsAttempt(u, x)
  <2> SUFFICES ASSUME NEW q \in Prompt, Unanswered(x, q)
               PROVE  u.attempt = [prompt |-> q, key |-> x[q].key] /\ u.line \in {q, Other}
    BY DEF LastIsAttempt
  <2>1. q = p
    BY <1>2 DEF Unanswered
  <2> QED
    BY <1>1, <1>2, <2>1 DEF Unanswered
<1>7. \A q \in Prompt : x[q].key # None /\ x[q].known => Recognises(lib, q, ExpectOf[x[q].key])
  BY <1>2
<1> QED
  BY <1>1, <1>2, <1>5, <1>6, <1>7 DEF TerminalFits, u, x

\* What a chunk of output can come to: nothing, or the chooser.
Passes ==
    /\ decided' = NoDecision
    /\ habit' = habit
    /\ prefs' = prefs \/ \E p \in Prompt : prefs' = forget_onekey_preference(p)

\* The attempt's prompt is on the line again.
TurnsDown(s, t) ==
    \E p \in Prompt, k \in Key, cands \in SUBSET Key :
        /\ t.attempt = [prompt |-> p, key |-> k] /\ t.line = p
        /\ Recognises(library, p, ExpectOf[k])
        /\ onekey_popup_for_output(library, t)
        /\ decided' = Decision("rejected", s, p, k)
        /\ prefs' = forget_onekey_preference(p)
        /\ habit' = Recorded(habit, p, [kind |-> "rejected", key |-> k, cands |-> cands])

\* What was preferred, or chosen twice, is submitted; all that was is answered.
Answered(s, noted) ==
    \E p \in Prompt, k \in Key, cands \in SUBSET Key :
        /\ decided' = Decision("submitted", s, p, k)
        /\ prefs[p] = k \/ resolve_onekey_habit(habit[p], cands) = k
        /\ prefs' = prefs
        /\ habit' = Recorded(habit, p, [kind |-> "auto", key |-> k, cands |-> cands])
        /\ \A q \in Prompt : ~Unanswered(noted, q)

LEMMA CheckStep ==
    ASSUME Counts, Memory, Terminals, NEW s \in Session, NEW t, NEW noted,
           TerminalFits(library, t, noted), t.conn # "down",
           check_onekey_match(s, t, noted)
    PROVE  /\ \E u \in Tab, e \in [Prompt -> Submission] :
                 /\ tab' = [tab EXCEPT ![s] = u] /\ sent' = [sent EXCEPT ![s] = e]
                 /\ u.line = t.line
                 /\ TerminalFits(library, u, e)
           /\ Passes \/ TurnsDown(s, t) \/ Answered(s, noted)
<1> DEFINE w == Screened(library, t)
           p == t.line
           cands == Matches(library, p)
           Leads(u, e) == /\ tab' = [tab EXCEPT ![s] = u] /\ sent' = [sent EXCEPT ![s] = e]
                          /\ u \in Tab /\ e \in [Prompt -> Submission] /\ u.line = t.line
                          /\ TerminalFits(library, u, e)
           Outcome == Passes \/ TurnsDown(s, t) \/ Answered(s, noted)
<1>1. /\ t \in Tab /\ noted \in [Prompt -> Submission] /\ library \in SUBSET Key
      /\ t.fresh \in {None, t.line} /\ (t.cooldown = None => t.fresh = None)
      /\ \A q \in Prompt : noted[q].key # None /\ noted[q].known =>
                             Recognises(library, q, ExpectOf[noted[q].key])
  BY DEF TerminalFits, Counts
<1>2. CASE ~onekey_popup_for_output(library, t)
  <2>1. Leads(t, noted) /\ Passes
    BY <1>1, <1>2 DEF check_onekey_match, Passes
  <2> QED
    BY <2>1
<1>3. CASE onekey_popup_for_output(library, t)
  <2>1. Apply(s, w, noted) /\ t.popup = None /\ p \in Prompt
    BY <1>3 DEF check_onekey_match, onekey_popup_for_output
  <2>2. t.attempt # None =>
          t.feedback = [kind |-> "submitted", expect |-> ExpectOf[t.attempt.key]]
    BY DEF TerminalFits, AttemptFits
  <2>3. /\ w \in Tab /\ w.conn = t.conn /\ w.line = p /\ w.popup = None
        /\ w.fresh \in {None, t.fresh} /\ (w.cooldown = None => w.fresh = None)
        /\ w.attempt # None => w = t /\ Repeated(library, t) /\ t.attempt.prompt = p
        /\ Repeated(library, w) \/ w.attempt = None
    BY <1>1, <2>1, <2>2, ScreenedTab
  <2>4. \A q \in Prompt : Unanswered(noted, q) =>
          /\ w = t /\ Repeated(library, w) /\ w.attempt = [prompt |-> q, key |-> noted[q].key]
          /\ w.attempt # None /\ w.attempt.prompt = q
    <3> SUFFICES ASSUME NEW q \in Prompt, Unanswered(noted, q)
                 PROVE  /\ w = t /\ Repeated(library, w) /\ w.attempt # None
                        /\ w.attempt = [prompt |-> q, key |-> noted[q].key]
                        /\ w.attempt.prompt = q
      OBVIOUS
    <3>1. w = t /\ Repeated(library, t) /\ t.attempt = [prompt |-> q, key |-> noted[q].key]
      BY <1>3, UnansweredComesBack
    <3>2. noted[q].key \in Key
      BY <1>1 DEF Unanswered, Submission
    <3>3. t.attempt \in Attempt
      BY <3>1, <3>2 DEF Attempt
    <3> QED
      BY <3>1, <3>3, NoneAssumption
  <2> HIDE DEF w
  <2>5. p = w.line
    BY <2>3
  <2>6. CASE Repeated(library, w)
    <3> DEFINE f == [kind |-> "rejected", expect |-> w.feedback.expect]
               z == Settled(w)
               v == [z EXCEPT !.attempt = None, !.feedback = f]
               u == Offered(v, library)
               e == IF w.attempt = None THEN noted
                    ELSE [noted EXCEPT ![w.attempt.prompt].since = "judged"]
    <3>1. Reject(s, w) /\ sent' = [sent EXCEPT ![s] = e]
      BY <2>1, <2>6 DEF Apply
    <3>2. f \in Feedback
      <4>1. w.feedback \in Feedback
        BY <2>3, <2>6, PartsAreThere DEF Repeated
      <4> QED
        BY <4>1 DEF Feedback
    <3>3. tab' = [tab EXCEPT ![s] = u]
      BY <3>1 DEF Reject
    <3>4. /\ z \in Tab /\ z.conn = t.conn /\ z.line = p
          /\ z.cooldown = None /\ z.fresh = None
      BY <2>3, SettledTab
    <3> HIDE DEF f, z
    <3>5. /\ v \in Tab /\ v.conn = t.conn /\ v.line = p /\ v.attempt = None
          /\ v.cooldown = None /\ v.fresh = None
      BY <3>2, <3>4 DEF Tab
    <3> HIDE DEF v
    <3>6. /\ u \in Tab /\ u.conn = t.conn /\ u.line = p /\ u.attempt = None
          /\ u.cooldown = None /\ u.fresh = None
      BY <1>1, <2>1, <3>5, OfferedTab
    <3>7. w.attempt # None => w.attempt \in Attempt /\ w.attempt.prompt \in Prompt
      BY <2>3, PartsAreThere DEF Attempt
    <3>8. /\ e \in [Prompt -> Submission]
          /\ \A q \in Prompt : e[q].key = noted[q].key /\ e[q].known = noted[q].known
          /\ \A q \in Prompt : e[q].since = noted[q].since
                               \/ (e[q].since = "judged" /\ w.attempt # None
                                   /\ q = w.attempt.prompt)
          /\ w.attempt # None => e[w.attempt.prompt].since = "judged"
      BY <1>1, <3>7 DEF Submission
    <3> HIDE DEF u, e
    <3>9. \A q \in Prompt : ~Unanswered(e, q)
      BY <2>4, <3>8 DEF Unanswered
    <3>10. TerminalFits(library, u, e)
      <4>1. \A q \in Prompt : e[q].key # None /\ e[q].known =>
                                Recognises(library, q, ExpectOf[e[q].key])
        BY <1>1, <3>8
      <4> QED
        BY <3>6, <3>8, <3>9, <4>1, AskedFits
    <3>11. Leads(u, e)
      BY <3>1, <3>3, <3>6, <3>8, <3>10
    <3>12. Outcome
      <4>1. CASE w.attempt = None
        BY <3>1, <4>1 DEF Reject, Passes
      <4>2. CASE w.attempt # None
        <5>1. w = t /\ t.attempt \in Attempt /\ t.attempt.prompt = p
          BY <2>3, <3>7, <4>2
        <5>2. t.attempt = [prompt |-> p, key |-> t.attempt.key] /\ t.attempt.key \in Key
          BY <5>1 DEF Attempt
        <5>3. /\ prefs' = forget_onekey_preference(p)
              /\ habit' = Recorded(habit, p, [kind |-> "rejected", key |-> t.attempt.key,
                                              cands |-> cands])
              /\ decided' = Decision("rejected", s, p, t.attempt.key)
          BY <3>1, <4>2, <5>1 DEF Reject
        <5>4. cands \in SUBSET Key
          BY <1>1 DEF Matches
        <5>5. Recognises(library, p, ExpectOf[t.attempt.key])
          <6>1. Recognises(library, p, t.feedback.expect)
            BY <2>3, <4>2 DEF Repeated
          <6>2. t.attempt # None
            BY <4>2, <5>1
          <6>3. t.feedback = [kind |-> "submitted", expect |-> ExpectOf[t.attempt.key]]
            BY <2>2, <6>2
          <6> QED
            BY <6>1, <6>3
        <5>6. TurnsDown(s, t)
          BY <1>3, <2>1, <5>2, <5>3, <5>4, <5>5 DEF TurnsDown
        <5> QED
          BY <5>6
      <4> QED
        BY <4>1, <4>2
    <3> QED
      BY <3>11, <3>12
  <2>7. CASE ~Repeated(library, w)
    <3>1. w.attempt = None /\ \A q \in Prompt : ~Unanswered(noted, q)
      BY <2>3, <2>4, <2>7
    <3>2. ASSUME Choose(s, w), sent' = [sent EXCEPT ![s] = noted], habit' = habit,
                 prefs' = prefs \/ prefs' = forget_onekey_preference(p)
          PROVE  Leads(Offered(w, library), noted) /\ Passes
      <4> DEFINE u == Offered(w, library)
      <4>1. /\ u \in Tab /\ u.conn = t.conn /\ u.line = p /\ u.attempt = None
            /\ u.fresh = w.fresh /\ u.cooldown = w.cooldown
        BY <1>1, <2>1, <2>3, <3>1, OfferedTab
      <4>2. tab' = [tab EXCEPT ![s] = u] /\ decided' = NoDecision
        BY <3>2 DEF Choose
      <4> HIDE DEF u
      <4>3. TerminalFits(library, u, noted)
        BY <1>1, <2>3, <3>1, <4>1, AskedFits
      <4>4. Passes
        BY <2>1, <3>2, <4>2 DEF Passes
      <4> QED
        BY <1>1, <3>2, <4>1, <4>2, <4>3, <4>4 DEF u
    <3>3. ASSUME NEW k \in cands, submit_remembered_onekey(s, w, k, noted), prefs' = prefs,
                 prefs[p] = k \/ resolve_onekey_habit(habit[p], cands) = k
          PROVE  (\E u, e : Leads(u, e)) /\ Outcome
      <4>1. k \in Key /\ cands \in SUBSET Key /\ Recognises(library, p, ExpectOf[k])
        BY <1>1, <2>1, MatchesRecognise DEF Matches
      <4>2. CASE w.conn = "open"
        <5>1. /\ tab' = [tab EXCEPT ![s] = Armed(w, p, k)]
              /\ habit' = Recorded(habit, p, [kind |-> "auto", key |-> k, cands |-> cands])
              /\ sent' = [sent EXCEPT ![s] = [noted EXCEPT ![p] = JustSent(k)]]
              /\ decided' = Decision("submitted", s, p, k)
          BY <2>5, <3>3, <4>2 DEF submit_remembered_onekey
        <5>2. /\ JustSent(k) \in Submission /\ JustSent(k).key = k
              /\ JustSent(k).since = "nothing" /\ JustSent(k).known
          BY <4>1 DEF JustSent, NothingSent, Submission
        <5>3. TerminalFits(library, Armed(w, p, k), [noted EXCEPT ![p] = JustSent(k)])
          BY <1>1, <2>1, <2>3, <3>1, <4>1, <5>2, ArmedFits
        <5>4. Armed(w, p, k) \in Tab /\ Armed(w, p, k).line = p
          BY <2>1, <2>3, <4>1, ArmedTab
        <5>5. [noted EXCEPT ![p] = JustSent(k)] \in [Prompt -> Submission]
          BY <1>1, <5>2
        <5>6. Leads(Armed(w, p, k), [noted EXCEPT ![p] = JustSent(k)])
          BY <5>1, <5>3, <5>4, <5>5
        <5>7. Answered(s, noted)
          BY <2>1, <2>7, <3>1, <3>3, <4>1, <5>1 DEF Answered, w
        <5> QED
          BY <5>6, <5>7
      <4>3. CASE w.conn # "open"
        <5>1. Choose(s, w) /\ sent' = [sent EXCEPT ![s] = noted] /\ habit' = habit
          BY <3>3, <4>3 DEF submit_remembered_onekey
        <5> QED
          BY <3>2, <3>3, <5>1
      <4> QED
        BY <4>2, <4>3
    <3>4. \/ /\ Choose(s, w) /\ sent' = [sent EXCEPT ![s] = noted] /\ habit' = habit
             /\ prefs' = prefs \/ prefs' = forget_onekey_preference(p)
          \/ \E k \in cands : /\ submit_remembered_onekey(s, w, k, noted) /\ prefs' = prefs
                              /\ prefs[p] = k \/ resolve_onekey_habit(habit[p], cands) = k
      BY <2>1, <2>5, <2>7 DEF Apply
    <3> QED
      BY <3>2, <3>3, <3>4
  <2> QED
    BY <2>6, <2>7
<1> QED
  BY <1>2, <1>3

-----------------------------------------------------------------------------
(* What the user did before                                                   *)

\* A recorded event is the newest, and at least the one before it is kept.
LEMMA RecordedShape ==
    ASSUME NEW h, DOMAIN h = Prompt, \A q \in Prompt : EventsOK(h[q]),
           NEW p \in Prompt, NEW e \in Event, NEW g, g = Recorded(h, p, e)
    PROVE  /\ DOMAIN g = Prompt
           /\ \A q \in Prompt : EventsOK(g[q])
           /\ \A q \in Prompt \ {p} : g[q] = h[q]
           /\ Len(g[p]) > 0 /\ g[p][Len(g[p])] = e
           /\ Len(g[p]) > 1 => /\ Len(h[p]) > 0
                               /\ g[p][Len(g[p]) - 1] = h[p][Len(h[p])]
<1> DEFINE all == Append(h[p], e)
           new == IF Len(all) > HabitCap THEN Tail(all) ELSE all
<1>1. DOMAIN g = Prompt /\ (\A q \in Prompt \ {p} : g[q] = h[q]) /\ g[p] = new
  BY DEF Recorded
<1>2. h[p] \in Seq(Event) /\ Len(h[p]) \in Nat /\ Len(h[p]) <= HabitCap
  BY DEF EventsOK
<1>3. HabitCap \in Nat /\ HabitCap > 1
  BY CredentialAssumption
<1>4. /\ all \in Seq(Event) /\ Len(all) = Len(h[p]) + 1 /\ all[Len(all)] = e
      /\ Len(h[p]) > 0 => all[Len(all) - 1] = h[p][Len(h[p])]
  BY <1>2
<1> HIDE DEF all
<1>5. CASE Len(all) > HabitCap
  <2>1. Len(h[p]) = HabitCap /\ all # <<>> /\ new = Tail(all)
    BY <1>2, <1>3, <1>4, <1>5
  <2>2. /\ new \in Seq(Event) /\ Len(new) = Len(all) - 1
        /\ \A i \in 1..Len(new) : new[i] = all[i + 1]
    BY <1>4, <2>1
  <2> HIDE DEF new
  <2>3. /\ EventsOK(new) /\ Len(new) > 1
        /\ new[Len(new)] = e /\ new[Len(new) - 1] = h[p][Len(h[p])]
    BY <1>2, <1>3, <1>4, <2>1, <2>2 DEF EventsOK
  <2>4. Len(h[p]) > 0
    BY <1>2, <1>3, <2>1
  <2>5. \A q \in Prompt : EventsOK(g[q])
    BY <1>1, <2>3
  <2>6. Len(new) > 0
    BY <2>3 DEF EventsOK
  <2> QED
    BY <1>1, <2>3, <2>4, <2>5, <2>6
<1>6. CASE ~(Len(all) > HabitCap)
  <2>1. new = all
    BY <1>6
  <2>2. EventsOK(new) /\ Len(new) > 0 /\ new[Len(new)] = e
    BY <1>2, <1>3, <1>4, <1>6, <2>1 DEF EventsOK
  <2>3. Len(new) > 1 => Len(h[p]) > 0 /\ new[Len(new) - 1] = h[p][Len(h[p])]
    BY <1>2, <1>4, <2>1
  <2> QED
    BY <1>1, <2>2, <2>3
<1> QED
  BY <1>5, <1>6

\* A rejection leaves nothing to be submitted.
LEMMA RejectedFits ==
    ASSUME NEW g, NEW c, g[Len(g)].kind = "rejected"
    PROVE  ChoiceFits(None, g, c)
  BY DEF ChoiceFits

\* Nothing is preferred any more.
LEMMA ForgottenFits ==
    ASSUME NEW pref, NEW g, NEW c, ChoiceFits(pref, g, c)
    PROVE  ChoiceFits(None, g, c)
  BY DEF ChoiceFits

\* What was earned may be submitted once more.
LEMMA EarnedFits ==
    ASSUME NEW pref, NEW h, NEW g, NEW c \in Selected, ChoiceFits(pref, h, c),
           NEW k \in Key, c.among = k \/ (c.key = k /\ c.times = 2),
           g[Len(g)].key = k
    PROVE  ChoiceFits(pref, g, c)
  BY DEF ChoiceFits, Selected

\* The user selects k, among several entries or once more.
LEMMA SelectedFits ==
    ASSUME NEW pref, NEW h, NEW g, NEW c \in Selected, ChoiceFits(pref, h, c),
           NEW k \in Key, NEW n, NEW d, NEW many \in BOOLEAN,
           Len(g) > 0, g[Len(g)].key = k,
           Len(g) > 1 => Len(h) > 0 /\ g[Len(g) - 1] = h[Len(h)],
           d.key = k, d.times = (IF c.key = k /\ c.times > 0 THEN 2 ELSE 1),
           d.among = (IF many THEN k ELSE c.among),
           many => n \in {k, None}, ~many => n = pref
    PROVE  ChoiceFits(n, g, d)
<1>1. n # None => d.among = n
  BY DEF ChoiceFits
<1>2. d.times > 0
  OBVIOUS
<1>3. ASSUME Len(g) > 1, g[Len(g) - 1].kind # "rejected", g[Len(g) - 1].key = g[Len(g)].key
      PROVE  d.among = k \/ d.times = 2
  <2>1. c.among = k \/ (c.key = k /\ c.times > 0)
    BY <1>3 DEF ChoiceFits
  <2> QED
    BY <2>1
<1> QED
  BY <1>1, <1>2, <1>3 DEF ChoiceFits

\* What would be submitted was earned.
LEMMA SubmittedIsEarned ==
    ASSUME Memory, NEW p \in Prompt, NEW k \in Key, NEW cands,
           prefs[p] = k \/ resolve_onekey_habit(habit[p], cands) = k
    PROVE  choice[p].among = k \/ (choice[p].key = k /\ choice[p].times = 2)
<1>1. ChoiceFits(prefs[p], habit[p], choice[p]) /\ None \notin Key
  BY NoneIsNoPrompt DEF Memory
<1>2. CASE prefs[p] = k
  BY <1>1, <1>2 DEF ChoiceFits
<1>3. CASE resolve_onekey_habit(habit[p], cands) = k
  <2>1. habit[p] \in Seq(Event) /\ Len(habit[p]) \in Nat
    BY DEF Memory, EventsOK
  <2>2. /\ Len(habit[p]) >= 2
        /\ Len(habit[p]) \in Selections(habit[p]) /\ Len(habit[p]) - 1 \in Selections(habit[p])
        /\ habit[p][Len(habit[p]) - 1].key = habit[p][Len(habit[p])].key
        /\ habit[p][Len(habit[p])].key = k
    BY <1>1, <1>3 DEF resolve_onekey_habit
  <2> QED
    BY <1>1, <2>1, <2>2 DEF ChoiceFits, Selections
<1> QED
  BY <1>2, <1>3

\* A withdrawn choice is a choice still, and the others are not touched.
LEMMA WithdrawnShape ==
    ASSUME NEW c \in [Prompt -> Selected], NEW p \in Prompt, NEW k
    PROVE  /\ Withdrawn(c, p, k) \in [Prompt -> Selected]
           /\ \A q \in Prompt \ {p} : Withdrawn(c, p, k)[q] = c[q]
<1> DEFINE x == c[p].key
           y == IF c[p].key = k THEN 0 ELSE c[p].times
           z == IF c[p].among = k THEN None ELSE c[p].among
           r == [key |-> x, times |-> y, among |-> z]
<1>1. x \in Key \cup {None} /\ y \in 0..2 /\ z \in Key \cup {None}
  BY DEF Selected
<1>2. r \in Selected
  BY <1>1 DEF Selected
<1>3. Withdrawn(c, p, k) = [c EXCEPT ![p] = r]
  BY DEF Withdrawn
<1> QED
  BY <1>2, <1>3

\* The three outcomes of a chunk of output keep the memory.
LEMMA PassesKeeps ==
    ASSUME Memory, Passes, choice' = choice
    PROVE  Memory'
<1>1. CASE prefs' = prefs
  BY <1>1 DEF Memory, Passes
<1>2. CASE \E p \in Prompt : prefs' = forget_onekey_preference(p)
  <2>1. PICK p \in Prompt : prefs' = [prefs EXCEPT ![p] = None]
    BY <1>2 DEF forget_onekey_preference
  <2>2. /\ prefs' \in [Prompt -> Key \cup {None}] /\ prefs'[p] = None
        /\ \A q \in Prompt \ {p} : prefs'[q] = prefs[q]
    BY <2>1 DEF Memory
  <2>3. ASSUME NEW q \in Prompt
        PROVE  ChoiceFits(prefs'[q], habit[q], choice[q])
    <3>1. ChoiceFits(prefs[q], habit[q], choice[q])
      BY DEF Memory
    <3> QED
      BY <2>2, <3>1, ForgottenFits
  <2> QED
    BY <2>2, <2>3 DEF Memory, Passes
<1> QED
  BY <1>1, <1>2 DEF Passes

LEMMA TurnsDownKeeps ==
    ASSUME Memory, NEW s, NEW t, TurnsDown(s, t),
           NEW c \in [Prompt -> Selected],
           \A q \in Prompt : q # decided'.prompt => c[q] = choice[q],
           choice' = Withdrawn(c, decided'.prompt, decided'.key)
    PROVE  Memory'
<1>1. PICK p \in Prompt, k \in Key, cands \in SUBSET Key :
        /\ decided' = Decision("rejected", s, p, k)
        /\ prefs' = [prefs EXCEPT ![p] = None]
        /\ habit' = Recorded(habit, p, [kind |-> "rejected", key |-> k, cands |-> cands])
  BY DEF TurnsDown, forget_onekey_preference
<1> DEFINE e == [kind |-> "rejected", key |-> k, cands |-> cands]
<1>2. e \in Event /\ e.kind = "rejected"
  BY DEF Event
<1>3. habit' = Recorded(habit, p, e)
  BY <1>1
<1> HIDE DEF e
<1>4. DOMAIN habit = Prompt /\ \A q \in Prompt : EventsOK(habit[q])
  BY DEF Memory
<1>5. /\ DOMAIN habit' = Prompt
      /\ \A q \in Prompt : EventsOK(habit'[q])
      /\ \A q \in Prompt \ {p} : habit'[q] = habit[q]
      /\ habit'[p][Len(habit'[p])] = e
  BY <1>2, <1>3, <1>4, RecordedShape
<1>6. decided'.prompt = p
  BY <1>1 DEF Decision
<1>7. /\ choice' \in [Prompt -> Selected]
      /\ \A q \in Prompt \ {p} : choice'[q] = choice[q]
  BY <1>6, WithdrawnShape
<1>8. /\ prefs' \in [Prompt -> Key \cup {None}] /\ prefs'[p] = None
      /\ \A q \in Prompt \ {p} : prefs'[q] = prefs[q]
      /\ \A q \in Prompt \ Safe : prefs'[q] = None
  BY <1>1 DEF Memory
<1>9. ASSUME NEW q \in Prompt
      PROVE  ChoiceFits(prefs'[q], habit'[q], choice'[q])
  <2>1. ChoiceFits(prefs[q], habit[q], choice[q])
    BY DEF Memory
  <2>2. CASE q # p
    BY <1>5, <1>7, <1>8, <2>1, <2>2
  <2>3. CASE q = p
    BY <1>2, <1>5, <1>8, <2>3, RejectedFits
  <2> QED
    BY <2>2, <2>3
<1> QED
  BY <1>5, <1>7, <1>8, <1>9 DEF Memory

LEMMA AnsweredKeeps ==
    ASSUME Memory, NEW s, NEW noted, Answered(s, noted), choice' = choice
    PROVE  Memory'
<1>1. PICK p \in Prompt, k \in Key, cands \in SUBSET Key :
        /\ prefs[p] = k \/ resolve_onekey_habit(habit[p], cands) = k
        /\ prefs' = prefs
        /\ habit' = Recorded(habit, p, [kind |-> "auto", key |-> k, cands |-> cands])
  BY DEF Answered
<1> DEFINE e == [kind |-> "auto", key |-> k, cands |-> cands]
<1>2. e \in Event /\ e.key = k
  BY DEF Event
<1>3. habit' = Recorded(habit, p, e)
  BY <1>1
<1> HIDE DEF e
<1>4. DOMAIN habit = Prompt /\ \A q \in Prompt : EventsOK(habit[q])
  BY DEF Memory
<1>5. /\ DOMAIN habit' = Prompt
      /\ \A q \in Prompt : EventsOK(habit'[q])
      /\ \A q \in Prompt \ {p} : habit'[q] = habit[q]
      /\ habit'[p][Len(habit'[p])] = e
  BY <1>2, <1>3, <1>4, RecordedShape
<1>6. choice[p].among = k \/ (choice[p].key = k /\ choice[p].times = 2)
  BY <1>1, SubmittedIsEarned
<1>7. ASSUME NEW q \in Prompt
      PROVE  ChoiceFits(prefs[q], habit'[q], choice[q])
  <2>1. ChoiceFits(prefs[q], habit[q], choice[q]) /\ choice[q] \in Selected
    BY DEF Memory
  <2>2. CASE q # p
    BY <1>5, <2>1, <2>2
  <2>3. CASE q = p
    BY <1>2, <1>5, <1>6, <2>1, <2>3, EarnedFits
  <2> QED
    BY <2>2, <2>3
<1> QED
  BY <1>1, <1>5, <1>7 DEF Memory

-----------------------------------------------------------------------------
(* Each action keeps the invariant                                            *)

LEMMA OneTerminal ==
    ASSUME Terminals, library' = library, NEW s \in Session, NEW u, NEW e,
           tab' = [tab EXCEPT ![s] = u], sent' = [sent EXCEPT ![s] = e],
           TerminalFits(library, u, e)
    PROVE  Terminals'
<1>1. u \in Tab /\ e \in [Prompt -> Submission]
  BY DEF TerminalFits
<1>2. /\ tab' \in [Session -> Tab] /\ sent' \in [Session -> [Prompt -> Submission]]
      /\ tab'[s] = u /\ sent'[s] = e
      /\ \A r \in Session \ {s} : tab'[r] = tab[r] /\ sent'[r] = sent[r]
  BY <1>1 DEF Terminals
<1>3. ASSUME NEW r \in Session
      PROVE  TerminalFits(library', tab'[r], sent'[r])
  BY <1>2 DEF Terminals
<1> QED
  BY <1>2, <1>3 DEF Terminals

\* The same, when what was submitted stays.
LEMMA OneTab ==
    ASSUME Terminals, library' = library, sent' = sent, NEW s \in Session, NEW u,
           tab' = [tab EXCEPT ![s] = u],
           TerminalFits(library, u, sent[s])
    PROVE  Terminals'
<1>1. sent' = [sent EXCEPT ![s] = sent[s]]
  BY DEF Terminals
<1> QED
  BY <1>1, OneTerminal

\* The line is the prompt, and new since the submission if there is one.
LEMMA ShownTab ==
    ASSUME Terminals, NEW s \in Session, NEW line \in Line
    PROVE  LET t == Shown(s, line) IN
           /\ t \in Tab
           /\ t.conn = tab[s].conn /\ t.line = line /\ t.popup = tab[s].popup
           /\ t.feedback = tab[s].feedback /\ t.cooldown = tab[s].cooldown
           /\ t.attempt = tab[s].attempt
           /\ tab[s].cooldown = None => t.fresh = None
           /\ tab[s].cooldown # None => t.fresh = line
<1>1. tab[s] \in Tab /\ (tab[s].cooldown = None => tab[s].fresh = None)
  BY DEF Terminals, TerminalFits
<1>2. CASE tab[s].cooldown = None
  <2>1. Shown(s, line) = [tab[s] EXCEPT !.line = line]
    BY <1>2 DEF Shown, note_onekey_output
  <2> QED
    BY <1>1, <1>2, <2>1 DEF Tab
<1>3. CASE tab[s].cooldown # None
  <2>1. Shown(s, line) = [tab[s] EXCEPT !.fresh = line, !.line = line]
    BY <1>3 DEF Shown, note_onekey_output
  <2> QED
    BY <1>1, <1>3, <2>1 DEF Tab
<1> QED
  BY <1>2, <1>3

\* What was submitted is followed by a prompt now.
LEMMA AskedSinceShape ==
    ASSUME NEW p \in Prompt, NEW q \in Prompt, NEW e \in Submission
    PROVE  LET n == AskedSince(p, q, e) IN
           /\ n \in Submission
           /\ n.key = e.key /\ n.known = e.known /\ n.lapsed = e.lapsed
           /\ e.key # None => n.since # "nothing"
           /\ e.since # "judged" => n.since # "judged"
           /\ e.key # None /\ q = p /\ e.since # "judged" => n.since \in {"again", "later"}
<1>1. CASE e.key = None
  BY <1>1 DEF AskedSince
<1>2. CASE e.key # None
  <2> DEFINE x == CASE e.since = "nothing" -> IF q = p THEN "again" ELSE "other"
                    [] e.since = "other" /\ q = p -> "later"
                    [] OTHER -> e.since
  <2>1. AskedSince(p, q, e) = [e EXCEPT !.since = x]
    BY <1>2 DEF AskedSince
  <2>2. /\ x \in {"again", "other", "later", "judged"}
        /\ e.since # "judged" => x # "judged"
        /\ q = p /\ e.since # "judged" => x \in {"again", "later"}
    BY DEF Submission
  <2> HIDE DEF x
  <2> QED
    BY <1>2, <2>1, <2>2 DEF Submission
<1> QED
  BY <1>1, <1>2

\* What Ask makes of the submissions.
Noted(s, p) == [q \in Prompt |-> AskedSince(p, q, sent[s][q])]

LEMMA AskFits ==
    ASSUME Terminals, NEW s \in Session, NEW p \in Prompt
    PROVE  /\ TerminalFits(library, Shown(s, p), Noted(s, p))
           /\ Noted(s, p) \in [Prompt -> Submission]
<1> DEFINE t == Shown(s, p)
           n == Noted(s, p)
<1>1. TerminalFits(library, tab[s], sent[s]) /\ sent[s] \in [Prompt -> Submission]
  BY DEF Terminals
<1>2. /\ t \in Tab
      /\ t.conn = tab[s].conn /\ t.line = p /\ t.popup = tab[s].popup
      /\ t.feedback = tab[s].feedback /\ t.cooldown = tab[s].cooldown
      /\ t.attempt = tab[s].attempt
      /\ tab[s].cooldown = None => t.fresh = None
      /\ tab[s].cooldown # None => t.fresh = p
  BY ShownTab DEF Line
<1>3. \A q \in Prompt :
        /\ n[q] \in Submission
        /\ n[q].key = sent[s][q].key /\ n[q].known = sent[s][q].known
        /\ n[q].lapsed = sent[s][q].lapsed
        /\ sent[s][q].key # None => n[q].since # "nothing"
        /\ sent[s][q].since # "judged" => n[q].since # "judged"
        /\ sent[s][q].key # None /\ q = p /\ sent[s][q].since # "judged" =>
             n[q].since \in {"again", "later"}
  BY <1>1, AskedSinceShape DEF Noted
<1>4. n \in [Prompt -> Submission]
  BY <1>3 DEF Noted
<1> HIDE DEF t, n
<1>5. LastIsAttempt(t, n)
  BY <1>3 DEF LastIsAttempt, Unanswered
<1>6. AttemptFits(t, n)
  <2> SUFFICES ASSUME t.attempt # None
               PROVE  AttemptFits(t, n)
    BY DEF AttemptFits
  <2>1. /\ tab[s].attempt.prompt \in Prompt /\ tab[s].attempt.key \in Key
        /\ tab[s].attempt.key # None
    BY <1>1, <1>2, PartsAreThere, NoneIsNoPrompt DEF Attempt, TerminalFits
  <2>2. AttemptFits(tab[s], sent[s])
    BY <1>1 DEF TerminalFits
  <2> QED
    BY <1>2, <1>3, <2>1, <2>2 DEF AttemptFits
<1>7. \A q \in Prompt : n[q].key # None /\ n[q].known => Recognises(library, q, ExpectOf[n[q].key])
  BY <1>1, <1>3 DEF TerminalFits
<1>8. t.conn = "down" => \A q \in Prompt : n[q].key = None
  BY <1>1, <1>2, <1>3 DEF TerminalFits
<1> QED
  BY <1>2, <1>4, <1>5, <1>6, <1>7, <1>8 DEF TerminalFits, t, n

\* The prompt asked again is that of the last submission: it is turned down.
LEMMA TurnedDownIsRejected ==
    ASSUME Terminals, NEW s \in Session, NEW p \in Prompt, TurnedDown(s, p),
           check_onekey_match(s, Shown(s, p), Noted(s, p))
    PROVE  /\ Screened(library, Shown(s, p)) = Shown(s, p)
           /\ Repeated(library, Shown(s, p))
           /\ decided' = Decision("rejected", s, p, sent[s][p].key)
<1> DEFINE t == Shown(s, p)
           k == sent[s][p].key
<1>1. TerminalFits(library, tab[s], sent[s]) /\ sent[s] \in [Prompt -> Submission]
  BY DEF Terminals
<1>2. /\ t \in Tab
      /\ t.conn = tab[s].conn /\ t.line = p /\ t.popup = tab[s].popup
      /\ t.feedback = tab[s].feedback /\ t.cooldown = tab[s].cooldown
      /\ t.attempt = tab[s].attempt
      /\ tab[s].cooldown = None => t.fresh = None
      /\ tab[s].cooldown # None => t.fresh = p
  BY ShownTab DEF Line
<1>3. k \in Key /\ Unanswered(sent[s], p) /\ Recognises(library, p, ExpectOf[k])
  BY <1>1 DEF TurnedDown, Unanswered, TerminalFits, Submission
<1>4. tab[s].attempt = [prompt |-> p, key |-> k]
  BY <1>1, <1>3 DEF TerminalFits, LastIsAttempt
<1> HIDE DEF t, k
<1>5. /\ t.attempt = [prompt |-> p, key |-> k] /\ t.attempt \in Attempt /\ t.attempt # None
      /\ t.attempt.key = k /\ t.attempt.prompt = p
  <2>1. t.attempt = [prompt |-> p, key |-> k]
    BY <1>2, <1>4
  <2>2. t.attempt \in Attempt
    BY <1>3, <2>1 DEF Attempt
  <2>3. t.attempt # None
    BY <2>2, NoneAssumption
  <2> QED
    BY <2>1, <2>2, <2>3
<1>6. /\ t.popup = None /\ t.feedback = [kind |-> "submitted", expect |-> ExpectOf[k]]
      /\ t.cooldown # None /\ t.cooldown.expect = ExpectOf[k] /\ t.fresh = p
  BY <1>1, <1>2, <1>5 DEF TerminalFits, AttemptFits
<1>7. ~Residual(library, t)
  BY <1>3, <1>6 DEF Residual
<1>8. onekey_popup_for_output(library, t)
  BY <1>2, <1>3, <1>6, <1>7, RecognisedMatch DEF onekey_popup_for_output
<1>9. Screened(library, t) = t /\ Repeated(library, t)
  BY <1>2, <1>3, <1>5, <1>6, AttemptComesBack
<1>10. Apply(s, t, Noted(s, p))
  BY <1>8, <1>9 DEF check_onekey_match, t
<1>11. Reject(s, t)
  BY <1>9, <1>10 DEF Apply
<1>12. decided' = Decision("rejected", s, p, k)
  BY <1>5, <1>11 DEF Reject
<1> QED
  BY <1>9, <1>12 DEF t, k

LEMMA DecisionKinds ==
    /\ NoDecision.kind = "none"
    /\ \A kind, s, p, k : /\ Decision(kind, s, p, k).kind = kind
                          /\ Decision(kind, s, p, k).session = s
                          /\ Decision(kind, s, p, k).prompt = p
                          /\ Decision(kind, s, p, k).key = k
  BY DEF NoDecision, Decision

LEMMA OutcomeKinds ==
    ASSUME NEW s, NEW t, NEW noted
    PROVE  /\ Passes => decided'.kind = "none"
           /\ TurnsDown(s, t) => decided'.kind = "rejected"
           /\ Answered(s, noted) => decided'.kind = "submitted"
<1>1. ASSUME Passes
      PROVE  decided'.kind = "none"
  BY <1>1, DecisionKinds DEF Passes
<1>2. ASSUME TurnsDown(s, t)
      PROVE  decided'.kind = "rejected"
  BY <1>2, DecisionKinds DEF TurnsDown
<1>3. ASSUME Answered(s, noted)
      PROVE  decided'.kind = "submitted"
  BY <1>3, DecisionKinds DEF Answered
<1> QED
  BY <1>1, <1>2, <1>3

\* What the decision on a chunk leaves of the choices, c being they without the one
\* the prompt turns down.
LEMMA StandingKeeps ==
    ASSUME Memory, NEW s, NEW t, NEW noted, NEW c \in [Prompt -> Selected],
           Passes \/ TurnsDown(s, t) \/ Answered(s, noted),
           Standing(c),
           c = choice \/ (/\ decided'.kind = "rejected"
                          /\ \A q \in Prompt : q # decided'.prompt => c[q] = choice[q])
    PROVE  Memory' /\ decided'.kind \in {"none", "submitted", "rejected"}
<1>1. CASE TurnsDown(s, t)
  <2>1. decided'.kind = "rejected"
    BY <1>1, OutcomeKinds
  <2>2. choice' = Withdrawn(c, decided'.prompt, decided'.key)
    BY <2>1 DEF Standing
  <2>3. \A q \in Prompt : q # decided'.prompt => c[q] = choice[q]
    OBVIOUS
  <2> QED
    BY <1>1, <2>1, <2>2, <2>3, TurnsDownKeeps
<1>2. CASE Passes
  <2>1. decided'.kind = "none"
    BY <1>2, OutcomeKinds
  <2>2. choice' = choice
    BY <2>1 DEF Standing
  <2> QED
    BY <1>2, <2>1, <2>2, PassesKeeps
<1>3. CASE Answered(s, noted)
  <2>1. decided'.kind = "submitted"
    BY <1>3, OutcomeKinds
  <2>2. choice' = choice
    BY <2>1 DEF Standing
  <2> QED
    BY <1>3, <2>1, <2>2, AnsweredKeeps
<1> QED
  BY <1>1, <1>2, <1>3

LEMMA AskKeeps ==
    ASSUME IInv, NEW s \in Session, NEW p \in Prompt, Ask(s, p)
    PROVE  IInv'
<1> DEFINE t == Shown(s, p)
           k == sent[s][p].key
           c == IF TurnedDown(s, p) THEN Withdrawn(choice, p, k) ELSE choice
<1> USE DEF IInv
<1>1. /\ check_onekey_match(s, t, Noted(s, p)) /\ t.conn # "down"
      /\ TerminalFits(library, t, Noted(s, p))
  <2>1. t.conn = tab[s].conn
    BY ShownTab DEF Line
  <2> QED
    BY <2>1, AskFits DEF Ask, Noted
<1>2. \E u \in Tab, e \in [Prompt -> Submission] :
        /\ tab' = [tab EXCEPT ![s] = u] /\ sent' = [sent EXCEPT ![s] = e]
        /\ TerminalFits(library, u, e)
  BY <1>1, CheckStep
<1>3. Passes \/ TurnsDown(s, t) \/ Answered(s, Noted(s, p))
  BY <1>1, CheckStep
<1>4. library' = library
  BY DEF Ask
<1>5. Terminals'
  BY <1>2, <1>4, OneTerminal
<1>6. choice \in [Prompt -> Selected]
  BY DEF Memory
<1>7. c \in [Prompt -> Selected] /\ \A q \in Prompt : q # p => c[q] = choice[q]
  BY <1>6, WithdrawnShape
<1>8. Standing(c)
  BY DEF Ask
<1>9. c = choice \/ (/\ decided'.kind = "rejected"
                     /\ \A q \in Prompt : q # decided'.prompt => c[q] = choice[q])
  <2>1. CASE TurnedDown(s, p)
    <3>1. decided' = Decision("rejected", s, p, k)
      BY <1>1, <2>1, TurnedDownIsRejected
    <3> QED
      BY <1>7, <3>1, DecisionKinds
  <2> QED
    BY <2>1
<1> HIDE DEF c, t
<1>10. Memory' /\ decided'.kind \in {"none", "submitted", "rejected"}
  BY <1>3, <1>7, <1>8, <1>9, StandingKeeps
<1>11. Counts'
  BY <1>10, CredentialAssumption DEF Counts, Ask
<1> QED
  BY <1>5, <1>10, <1>11

\* A line that is no prompt answers nothing.
LEMMA ReplyFits ==
    ASSUME Terminals, NEW s \in Session
    PROVE  /\ TerminalFits(library, Shown(s, Other), sent[s])
           /\ ~onekey_popup_for_output(library, Shown(s, Other))
<1> DEFINE t == Shown(s, Other)
<1>1. TerminalFits(library, tab[s], sent[s])
  BY DEF Terminals
<1>2. /\ t \in Tab
      /\ t.conn = tab[s].conn /\ t.line = Other /\ t.popup = tab[s].popup
      /\ t.feedback = tab[s].feedback /\ t.cooldown = tab[s].cooldown
      /\ t.attempt = tab[s].attempt
      /\ tab[s].cooldown = None => t.fresh = None
      /\ tab[s].cooldown # None => t.fresh = Other
  BY ShownTab DEF Line
<1> HIDE DEF t
<1>3. AttemptFits(t, sent[s])
  <2> SUFFICES ASSUME t.attempt # None
               PROVE  AttemptFits(t, sent[s])
    BY DEF AttemptFits
  <2>1. t.attempt.prompt # Other
    BY <1>2, PartsAreThere, NoneIsNoPrompt DEF Attempt
  <2>2. AttemptFits(tab[s], sent[s])
    BY <1>1 DEF TerminalFits
  <2> QED
    BY <1>2, <2>1, <2>2 DEF AttemptFits
<1>4. LastIsAttempt(t, sent[s])
  BY <1>1, <1>2 DEF TerminalFits, LastIsAttempt
<1>5. TerminalFits(library, t, sent[s])
  BY <1>1, <1>2, <1>3, <1>4 DEF TerminalFits
<1>6. ~onekey_popup_for_output(library, t)
  BY <1>2, NoneIsNoPrompt DEF onekey_popup_for_output
<1> QED
  BY <1>5, <1>6 DEF t

LEMMA ReplyKeeps ==
    ASSUME IInv, NEW s \in Session, Reply(s)
    PROVE  IInv'
<1> USE DEF IInv
<1>1. /\ tab' = [tab EXCEPT ![s] = Shown(s, Other)] /\ sent' = [sent EXCEPT ![s] = sent[s]]
      /\ decided' = NoDecision /\ prefs' = prefs /\ habit' = habit
  BY ReplyFits DEF Reply, check_onekey_match
<1>2. /\ library' = library /\ asks' = asks /\ edits' = edits /\ restarts' = restarts
      /\ choice' = choice
  BY DEF Reply
<1>3. Terminals'
  BY <1>1, <1>2, ReplyFits, OneTerminal
<1>4. Memory'
  BY <1>1, <1>2 DEF Memory
<1>5. Counts'
  BY <1>1, <1>2, DecisionKinds DEF Counts
<1> QED
  BY <1>3, <1>4, <1>5

LEMMA BlankKeeps ==
    ASSUME IInv, NEW s \in Session, Blank(s)
    PROVE  IInv'
<1> USE DEF IInv
<1>1. /\ check_onekey_match(s, tab[s], sent[s]) /\ tab[s].conn # "down"
      /\ TerminalFits(library, tab[s], sent[s])
  BY DEF Blank, Terminals
<1>2. \E u \in Tab, e \in [Prompt -> Submission] :
        /\ tab' = [tab EXCEPT ![s] = u] /\ sent' = [sent EXCEPT ![s] = e]
        /\ TerminalFits(library, u, e)
  BY <1>1, CheckStep
<1>3. Passes \/ TurnsDown(s, tab[s]) \/ Answered(s, sent[s])
  BY <1>1, CheckStep
<1>4. /\ library' = library /\ asks' = asks /\ edits' = edits /\ restarts' = restarts
      /\ Standing(choice)
  BY DEF Blank
<1>5. Terminals'
  BY <1>2, <1>4, OneTerminal
<1>6. choice \in [Prompt -> Selected]
  BY DEF Memory
<1>7. Memory' /\ decided'.kind \in {"none", "submitted", "rejected"}
  BY <1>3, <1>4, <1>6, StandingKeeps
<1>8. Counts'
  BY <1>4, <1>7 DEF Counts
<1> QED
  BY <1>5, <1>7, <1>8

LEMMA CooldownEndsKeeps ==
    ASSUME IInv, NEW s \in Session, CooldownEnds(s)
    PROVE  IInv'
<1> DEFINE t == tab[s]
           d == [t.cooldown EXCEPT !.recent = FALSE]
           u == [t EXCEPT !.cooldown = d]
           e == [p \in Prompt |-> [sent[s][p] EXCEPT !.lapsed = sent[s][p].key # None]]
<1> USE DEF IInv
<1>1. TerminalFits(library, t, sent[s]) /\ t \in Tab /\ sent[s] \in [Prompt -> Submission]
  BY DEF Terminals
<1>2. /\ tab' = [tab EXCEPT ![s] = u] /\ sent' = [sent EXCEPT ![s] = e]
      /\ decided' = NoDecision
      /\ UNCHANGED <<library, prefs, habit, asks, edits, restarts, choice>>
  BY DEF CooldownEnds
<1>3. d \in Cooldown /\ d.expect = t.cooldown.expect
  <2>1. t.cooldown \in Cooldown
    BY <1>1, PartsAreThere DEF CooldownEnds
  <2> QED
    BY <2>1 DEF Cooldown
<1>4. d # None
  BY <1>3, NoneAssumption
<1> HIDE DEF d
<1>5. /\ u \in Tab
      /\ u.conn = t.conn /\ u.line = t.line /\ u.popup = t.popup /\ u.feedback = t.feedback
      /\ u.fresh = t.fresh /\ u.attempt = t.attempt /\ u.cooldown = d
  BY <1>1, <1>3 DEF Tab
<1>6. /\ e \in [Prompt -> Submission]
      /\ \A p \in Prompt : /\ e[p].key = sent[s][p].key /\ e[p].since = sent[s][p].since
                           /\ e[p].known = sent[s][p].known
  BY <1>1 DEF Submission
<1>7. \A p \in Prompt : e[p].key # None => e[p].lapsed
  BY <1>1 DEF Submission
<1> HIDE DEF u, e
<1>8. AttemptFits(u, e)
  <2> SUFFICES ASSUME u.attempt # None
               PROVE  AttemptFits(u, e)
    BY DEF AttemptFits
  <2>1. u.attempt.prompt \in Prompt /\ u.attempt.key # None
    BY <1>5, PartsAreThere, NoneIsNoPrompt DEF Attempt
  <2>2. AttemptFits(t, sent[s])
    BY <1>1 DEF TerminalFits
  <2>3. e[u.attempt.prompt].lapsed
    BY <1>5, <1>6, <1>7, <2>1, <2>2 DEF AttemptFits
  <2> HIDE DEF t
  <2> QED
    BY <1>3, <1>4, <1>5, <1>6, <2>1, <2>2, <2>3 DEF AttemptFits
<1>9. LastIsAttempt(u, e)
  BY <1>1, <1>5, <1>6 DEF TerminalFits, LastIsAttempt, Unanswered
<1>10. TerminalFits(library, u, e)
  BY <1>1, <1>4, <1>5, <1>6, <1>8, <1>9 DEF TerminalFits
<1>11. Terminals'
  BY <1>2, <1>10, OneTerminal
<1>12. Memory' /\ Counts'
  BY <1>2, DecisionKinds DEF Memory, Counts
<1> QED
  BY <1>11, <1>12

\* The chooser is closed, or the connection changed; nothing else of the terminal is.
LEMMA ClosedTab ==
    ASSUME NEW t \in Tab, NEW c \in {"open", "closing", "down"}
    PROVE  /\ [t EXCEPT !.popup = None] \in Tab
           /\ [t EXCEPT !.popup = None].conn = t.conn /\ [t EXCEPT !.popup = None].line = t.line
           /\ [t EXCEPT !.popup = None].fresh = t.fresh
           /\ [t EXCEPT !.popup = None].cooldown = t.cooldown
           /\ [t EXCEPT !.popup = None].attempt = t.attempt
           /\ [t EXCEPT !.popup = None].popup = None
           /\ [t EXCEPT !.conn = c] \in Tab
           /\ [t EXCEPT !.conn = c].conn = c /\ [t EXCEPT !.conn = c].line = t.line
           /\ [t EXCEPT !.conn = c].popup = t.popup
           /\ [t EXCEPT !.conn = c].feedback = t.feedback
           /\ [t EXCEPT !.conn = c].cooldown = t.cooldown
           /\ [t EXCEPT !.conn = c].fresh = t.fresh
           /\ [t EXCEPT !.conn = c].attempt = t.attempt
  BY DEF Tab

\* Without an attempt nothing is unanswered.
LEMMA NoAttempt ==
    ASSUME NEW lib, NEW t, NEW e, TerminalFits(lib, t, e), t.attempt = None
    PROVE  \A p \in Prompt : ~Unanswered(e, p)
<1> SUFFICES ASSUME NEW p \in Prompt, Unanswered(e, p)
             PROVE  FALSE
  OBVIOUS
<1>1. e[p].key \in Key
  BY DEF Unanswered, TerminalFits, Submission
<1>2. [prompt |-> p, key |-> e[p].key] \in Attempt
  BY <1>1 DEF Attempt
<1> QED
  BY <1>2, NoneAssumption DEF TerminalFits, LastIsAttempt

\* A terminal that gives up what it remembers of a submission still fits.
LEMMA GivenUpFits ==
    ASSUME NEW lib, NEW t, NEW e, TerminalFits(lib, t, e), t.attempt = None,
           NEW u \in Tab, u.attempt = None, u.fresh = None, u.conn = t.conn
    PROVE  TerminalFits(lib, u, e)
<1>1. \A p \in Prompt : ~Unanswered(e, p)
  BY NoAttempt
<1> QED
  BY <1>1, AskedFits DEF TerminalFits

\* The chooser is not shown with an attempt.
LEMMA NoAttemptWithChooser ==
    ASSUME Terminals, NEW s \in Session, tab[s].popup # None
    PROVE  /\ tab[s].attempt = None /\ tab[s] \in Tab
           /\ TerminalFits(library, tab[s], sent[s])
           /\ tab[s].popup.prompt \in Prompt /\ tab[s].popup.matches \in SUBSET Key
<1>1. TerminalFits(library, tab[s], sent[s]) /\ tab[s] \in Tab
  BY DEF Terminals
<1>2. tab[s].popup \in Popup
  BY <1>1, PartsAreThere
<1> QED
  BY <1>1, <1>2 DEF TerminalFits, AttemptFits, Popup

LEMMA SelectKeeps ==
    ASSUME IInv, NEW s \in Session, NEW k \in Key, on_onekey_select(s, k)
    PROVE  IInv'
<1> DEFINE t == [tab[s] EXCEPT !.popup = None]
           p == tab[s].popup.prompt
           matches == tab[s].popup.matches
           many == Cardinality(matches) > 1
<1> USE DEF IInv
<1>1. /\ tab[s].attempt = None /\ tab[s] \in Tab
      /\ TerminalFits(library, tab[s], sent[s])
      /\ p \in Prompt /\ matches \in SUBSET Key
  BY NoAttemptWithChooser DEF on_onekey_select
<1>2. /\ t \in Tab /\ t.conn = tab[s].conn /\ t.line = tab[s].line /\ t.attempt = None
      /\ t.popup = None
  BY <1>1, ClosedTab
<1>3. decided' = NoDecision /\ UNCHANGED <<library, asks, edits, restarts>>
  BY DEF on_onekey_select
<1>4. Counts'
  BY <1>3, DecisionKinds DEF Counts
<1>5. CASE t.conn = "open"
  <2> DEFINE x == [JustSent(k) EXCEPT !.since = IF t.line = p THEN "nothing" ELSE "other",
                                      !.known = Recognises(library, p, ExpectOf[k])]
             e == [kind |-> "manual", key |-> k, cands |-> matches]
             c == choice[p]
             d == [key |-> k, times |-> IF c.key = k /\ c.times > 0 THEN 2 ELSE 1,
                   among |-> IF many THEN k ELSE c.among]
  <2>1. /\ tab' = [tab EXCEPT ![s] = Armed(t, p, k)]
        /\ habit' = Recorded(habit, p, e)
        /\ prefs' = take_onekey_selection(p, k, matches)
        /\ sent' = [sent EXCEPT ![s][p] = x]
        /\ choice' = [choice EXCEPT ![p] = d]
    BY <1>5 DEF on_onekey_select
  <2>2. /\ x \in Submission /\ x.key = k
        /\ x.since \in {"nothing", "other"} /\ (x.since = "nothing" => t.line = p)
        /\ x.known => Recognises(library, p, ExpectOf[k])
    <3> DEFINE v == IF t.line = p THEN "nothing" ELSE "other"
               b == Recognises(library, p, ExpectOf[k])
    <3>1. v \in {"nothing", "other"} /\ (v = "nothing" => t.line = p)
      OBVIOUS
    <3>2. b \in BOOLEAN
      BY DEF Recognises
    <3>3. x = [JustSent(k) EXCEPT !.since = v, !.known = b]
      OBVIOUS
    <3> HIDE DEF v, b, x
    <3>4. x = [key |-> k, since |-> v, lapsed |-> FALSE, known |-> b]
      BY <3>3 DEF JustSent, NothingSent
    <3>5. x \in Submission
      BY <3>1, <3>2, <3>4 DEF Submission
    <3>6. x.known = b /\ x.since = v /\ x.key = k
      BY <3>4
    <3> QED
      BY <3>1, <3>5, <3>6 DEF b
  <2> HIDE DEF x, e, d
  <2>3. \A q \in Prompt : ~Unanswered(sent[s], q)
    BY <1>1, NoAttempt
  <2>4. TerminalFits(library, Armed(t, p, k), [sent[s] EXCEPT ![p] = x])
    <3>1. /\ sent[s] \in [Prompt -> Submission]
          /\ \A q \in Prompt : sent[s][q].key # None /\ sent[s][q].known =>
                                 Recognises(library, q, ExpectOf[sent[s][q].key])
      BY <1>1 DEF TerminalFits
    <3>2. t.conn # "down"
      BY <1>5
    <3> HIDE DEF t, p
    <3> QED
      BY <1>1, <1>2, <2>2, <2>3, <3>1, <3>2, ArmedFits
  <2>5. sent' = [sent EXCEPT ![s] = [sent[s] EXCEPT ![p] = x]]
    BY <2>1
  <2>6. Terminals'
    BY <1>3, <2>1, <2>4, <2>5, OneTerminal
  <2>7. /\ c \in Selected /\ ChoiceFits(prefs[p], habit[p], c)
        /\ DOMAIN habit = Prompt /\ \A q \in Prompt : EventsOK(habit[q])
    BY <1>1 DEF Memory
  <2>8. /\ d \in Selected /\ d.key = k
        /\ d.times = (IF c.key = k /\ c.times > 0 THEN 2 ELSE 1)
        /\ d.among = (IF many THEN k ELSE c.among)
    BY <2>7 DEF d, Selected
  <2>9. e \in Event /\ e.key = k
    BY <1>1 DEF e, Event
  <2>10. /\ DOMAIN habit' = Prompt
         /\ \A q \in Prompt : EventsOK(habit'[q])
         /\ \A q \in Prompt \ {p} : habit'[q] = habit[q]
         /\ Len(habit'[p]) > 0 /\ habit'[p][Len(habit'[p])] = e
         /\ Len(habit'[p]) > 1 => /\ Len(habit[p]) > 0
                                  /\ habit'[p][Len(habit'[p]) - 1] = habit[p][Len(habit[p])]
    BY <1>1, <2>1, <2>7, <2>9, RecordedShape
  <2>11. /\ prefs' \in [Prompt -> Key \cup {None}]
         /\ \A q \in Prompt \ Safe : prefs'[q] = None
         /\ \A q \in Prompt \ {p} : prefs'[q] = prefs[q]
         /\ many => prefs'[p] \in {k, None}
         /\ ~many => prefs'[p] = prefs[p]
    <3>1. CASE p \in Safe /\ many
      <4>1. prefs' = [prefs EXCEPT ![p] = k]
        BY <2>1, <3>1 DEF take_onekey_selection
      <4> QED
        BY <1>1, <3>1, <4>1 DEF Memory
    <3>2. CASE ~(p \in Safe /\ many)
      <4>1. prefs' = prefs
        BY <2>1, <3>2 DEF take_onekey_selection
      <4> QED
        BY <1>1, <3>2, <4>1 DEF Memory
    <3> QED
      BY <3>1, <3>2
  <2>12. /\ choice' \in [Prompt -> Selected] /\ choice'[p] = d
         /\ \A q \in Prompt \ {p} : choice'[q] = choice[q]
    BY <1>1, <2>1, <2>8 DEF Memory
  <2>13. ChoiceFits(prefs'[p], habit'[p], choice'[p])
    <3>1. many \in BOOLEAN
      OBVIOUS
    <3> HIDE DEF many, p, c
    <3> QED
      BY <2>7, <2>8, <2>9, <2>10, <2>11, <2>12, <3>1, SelectedFits
  <2>14. ASSUME NEW q \in Prompt \ {p}
         PROVE  ChoiceFits(prefs'[q], habit'[q], choice'[q])
    BY <2>10, <2>11, <2>12 DEF Memory
  <2>15. Memory'
    <3>1. \A q \in Prompt : ChoiceFits(prefs'[q], habit'[q], choice'[q])
      BY <2>13, <2>14
    <3> QED
      BY <2>10, <2>11, <2>12, <3>1 DEF Memory
  <2> QED
    BY <1>4, <2>6, <2>15
<1>6. CASE t.conn # "open"
  <2>1. tab' = [tab EXCEPT ![s] = Settled(t)] /\ UNCHANGED <<prefs, habit, sent, choice>>
    BY <1>6 DEF on_onekey_select
  <2> HIDE DEF t
  <2>2. TerminalFits(library, Settled(t), sent[s])
    BY <1>1, <1>2, SettledTab, GivenUpFits
  <2>3. Terminals'
    BY <1>3, <2>1, <2>2, OneTab
  <2>4. Memory'
    BY <2>1 DEF Memory
  <2> QED
    BY <1>4, <2>3, <2>4
<1> QED
  BY <1>5, <1>6

LEMMA DismissKeeps ==
    ASSUME IInv, NEW s \in Session, NEW reason, dismiss_onekey_popup(s, reason)
    PROVE  IInv'
<1> USE DEF IInv
<1>1. tab[s].attempt = None /\ tab[s] \in Tab /\ TerminalFits(library, tab[s], sent[s])
  BY NoAttemptWithChooser DEF dismiss_onekey_popup
<1>2. /\ tab' = [tab EXCEPT ![s] = Cleared(tab[s])] /\ decided' = NoDecision
      /\ UNCHANGED <<library, prefs, habit, asks, edits, restarts, sent, choice>>
  BY DEF dismiss_onekey_popup
<1>3. TerminalFits(library, Cleared(tab[s]), sent[s])
  BY <1>1, ClearedTab, GivenUpFits
<1>4. Terminals'
  BY <1>2, <1>3, OneTab
<1> QED
  BY <1>2, <1>4, DecisionKinds DEF Memory, Counts

\* Typing leaves an attempt alone and gives up the rest.
LEMMA TypeKeeps ==
    ASSUME IInv, NEW s \in Session, Type(s)
    PROVE  IInv'
<1> DEFINE t == IF tab[s].popup # None /\ tab[s].popup.prompt \notin Persistent
                THEN Cleared(tab[s]) ELSE tab[s]
           u == note_manual_input(t, FALSE)
<1> USE DEF IInv
<1>1. TerminalFits(library, tab[s], sent[s]) /\ tab[s] \in Tab
  BY DEF Terminals
<1>2. /\ tab' = [tab EXCEPT ![s] = u] /\ decided' = NoDecision
      /\ UNCHANGED <<library, prefs, habit, asks, edits, restarts, sent, choice>>
  BY DEF Type
<1>3. TerminalFits(library, t, sent[s]) /\ t \in Tab
  <2>1. CASE tab[s].popup # None /\ tab[s].popup.prompt \notin Persistent
    <3>1. tab[s].attempt = None
      BY <2>1, NoAttemptWithChooser
    <3>2. TerminalFits(library, Cleared(tab[s]), sent[s]) /\ Cleared(tab[s]) \in Tab
      BY <1>1, <3>1, ClearedTab, GivenUpFits
    <3> QED
      BY <2>1, <3>2
  <2>2. CASE ~(tab[s].popup # None /\ tab[s].popup.prompt \notin Persistent)
    BY <1>1, <2>2
  <2> QED
    BY <2>1, <2>2
<1> HIDE DEF t
<1>4. TerminalFits(library, u, sent[s])
  <2>1. CASE t.attempt = None
    <3>1. u = Settled(t)
      BY <2>1 DEF note_manual_input
    <3>2. TerminalFits(library, Settled(t), sent[s])
      BY <1>3, <2>1, SettledTab, GivenUpFits
    <3> QED
      BY <3>1, <3>2
  <2>2. CASE t.attempt # None
    BY <1>3, <2>2 DEF note_manual_input
  <2> QED
    BY <2>1, <2>2
<1>5. Terminals'
  BY <1>2, <1>4, OneTab
<1> QED
  BY <1>2, <1>5, DecisionKinds DEF Memory, Counts

LEMMA NothingSentShape ==
    /\ NothingSent \in Submission /\ NothingSent.key = None
    /\ [p \in Prompt |-> NothingSent] \in [Prompt -> Submission]
    /\ \A lib : \A u \in Tab :
         u.attempt = None /\ u.fresh = None => TerminalFits(lib, u, [p \in Prompt |-> NothingSent])
<1>1. NothingSent \in Submission /\ NothingSent.key = None
  BY DEF NothingSent, Submission
<1> DEFINE e == [p \in Prompt |-> NothingSent]
<1>2. e \in [Prompt -> Submission] /\ \A p \in Prompt : e[p].key = None
  BY <1>1
<1> HIDE DEF e
<1>3. ASSUME NEW lib, NEW u \in Tab, u.attempt = None, u.fresh = None
      PROVE  TerminalFits(lib, u, e)
  BY <1>2, <1>3, AskedFits DEF Unanswered
<1> QED
  BY <1>1, <1>2, <1>3 DEF e

\* A command gives up everything; an answer by hand leaves an attempt alone.
LEMMA EnterKeeps ==
    ASSUME IInv, NEW s \in Session, Enter(s)
    PROVE  IInv'
<1> DEFINE t == tab[s]
           command == t.line \notin Prompt
           u == note_manual_input(t, command)
<1> USE DEF IInv
<1>1. TerminalFits(library, t, sent[s]) /\ t \in Tab
  BY DEF Terminals
<1>2. /\ tab' = [tab EXCEPT ![s] = u] /\ decided' = NoDecision
      /\ UNCHANGED <<library, prefs, habit, asks, edits, restarts, choice>>
      /\ sent' = IF command THEN [sent EXCEPT ![s] = [p \in Prompt |-> NothingSent]] ELSE sent
  BY DEF Enter
<1>3. CASE command
  <2>1. u.attempt = None /\ u.fresh = None /\ u \in Tab
    <3>1. CASE t.attempt = None
      <4>1. u = Settled(t)
        BY <3>1 DEF note_manual_input
      <4> QED
        BY <1>1, <3>1, <4>1, SettledTab
    <3>2. CASE t.attempt # None
      <4> DEFINE z == Settled(t)
      <4>1. u = [z EXCEPT !.attempt = None]
        BY <1>3, <3>2 DEF note_manual_input
      <4>2. z \in Tab /\ z.fresh = None
        BY <1>1, SettledTab
      <4> HIDE DEF z
      <4> QED
        BY <4>1, <4>2 DEF Tab
    <3> QED
      BY <3>1, <3>2
  <2> HIDE DEF u
  <2>2. TerminalFits(library, u, [p \in Prompt |-> NothingSent])
    BY <2>1, NothingSentShape
  <2>3. Terminals'
    BY <1>2, <1>3, <2>2, OneTerminal
  <2> QED
    BY <1>2, <2>3, DecisionKinds DEF Memory, Counts
<1>4. CASE ~command
  <2>1. TerminalFits(library, u, sent[s])
    <3>1. CASE t.attempt = None
      <4>1. u = Settled(t)
        BY <3>1 DEF note_manual_input
      <4>2. TerminalFits(library, Settled(t), sent[s])
        BY <1>1, <3>1, SettledTab, GivenUpFits
      <4> QED
        BY <4>1, <4>2
    <3>2. CASE t.attempt # None
      BY <1>1, <1>4, <3>2 DEF note_manual_input
    <3> QED
      BY <3>1, <3>2
  <2> HIDE DEF u
  <2>2. Terminals'
    BY <1>2, <1>4, <2>1, OneTab
  <2> QED
    BY <1>2, <2>2, DecisionKinds DEF Memory, Counts
<1> QED
  BY <1>3, <1>4

\* What a larger library makes of a prompt.
LEMMA RecognisedStill ==
    ASSUME NEW lib, NEW more, lib \subseteq more, NEW p, NEW e, Recognises(lib, p, e)
    PROVE  Recognises(more, p, e)
  BY DEF Recognises, Matches

LEMMA EditKeeps ==
    ASSUME IInv, NEW lib \in SUBSET Key, EditLibrary(lib)
    PROVE  IInv'
<1> USE DEF IInv
<1>1. /\ library' = lib /\ tab' = Refreshed(lib) /\ sent' = StillKnown(lib)
      /\ decided' = NoDecision /\ edits' = edits + 1 /\ edits < MaxEdits
      /\ UNCHANGED <<prefs, habit, asks, restarts, choice>>
  BY DEF EditLibrary
<1>2. ASSUME NEW s \in Session
      PROVE  /\ tab'[s] \in Tab /\ sent'[s] \in [Prompt -> Submission]
             /\ TerminalFits(library', tab'[s], sent'[s])
  <2> DEFINE t == tab[s]
             u == tab'[s]
             e == sent'[s]
  <2>1. TerminalFits(library, t, sent[s]) /\ t \in Tab /\ sent[s] \in [Prompt -> Submission]
    BY DEF Terminals
  <2>2. /\ e \in [Prompt -> Submission]
        /\ \A p \in Prompt :
             /\ e[p].key = sent[s][p].key /\ e[p].since = sent[s][p].since
             /\ e[p].lapsed = sent[s][p].lapsed
             /\ e[p].known => sent[s][p].known
             /\ e[p].known /\ e[p].key # None => Recognises(lib, p, ExpectOf[e[p].key])
    <3> DEFINE b(p) == sent[s][p].known /\ (sent[s][p].key # None =>
                                              Recognises(lib, p, ExpectOf[sent[s][p].key]))
    <3>1. e = [p \in Prompt |-> [sent[s][p] EXCEPT !.known = b(p)]]
      BY <1>1 DEF StillKnown
    <3>2. \A p \in Prompt : b(p) \in BOOLEAN /\ sent[s][p] \in Submission
      BY <2>1
    <3> HIDE DEF b, e
    <3>3. \A p \in Prompt :
            /\ e[p] \in Submission
            /\ e[p].key = sent[s][p].key /\ e[p].since = sent[s][p].since
            /\ e[p].lapsed = sent[s][p].lapsed /\ e[p].known = b(p)
      BY <3>1, <3>2 DEF Submission
    <3>4. e \in [Prompt -> Submission]
      BY <3>1, <3>3
    <3> QED
      BY <3>3, <3>4 DEF b
  <2>3. CASE t.attempt = None /\ onekey_popup_for_output(lib, t)
    <3>1. u = Offered(t, lib)
      BY <1>1, <2>3 DEF Refreshed
    <3>2. t.line \in Prompt
      BY <2>3 DEF onekey_popup_for_output
    <3> HIDE DEF t, u, e
    <3>3. /\ u \in Tab /\ u.conn = t.conn /\ u.line = t.line /\ u.attempt = None
          /\ u.fresh = t.fresh /\ u.cooldown = t.cooldown
      BY <2>1, <2>3, <3>1, <3>2, OfferedTab
    <3>4. \A p \in Prompt : ~Unanswered(sent[s], p)
      BY <2>1, <2>3, NoAttempt
    <3>5. \A p \in Prompt : ~Unanswered(e, p)
      BY <2>2, <3>4 DEF Unanswered
    <3>6. TerminalFits(lib, u, e)
      BY <2>1, <2>2, <3>3, <3>5, AskedFits DEF TerminalFits
    <3> QED
      BY <1>1, <2>2, <3>3, <3>6 DEF u, e
  <2>4. CASE ~(t.attempt = None /\ onekey_popup_for_output(lib, t))
    <3>1. u = t
      BY <1>1, <2>4 DEF Refreshed
    <3> HIDE DEF t, u, e
    <3>2. AttemptFits(t, e)
      <4> SUFFICES ASSUME t.attempt # None
                   PROVE  AttemptFits(t, e)
        BY DEF AttemptFits
      <4>1. t.attempt.prompt \in Prompt
        BY <2>1, PartsAreThere DEF Attempt
      <4>2. AttemptFits(t, sent[s])
        BY <2>1 DEF TerminalFits
      <4> QED
        BY <2>2, <4>1, <4>2 DEF AttemptFits
    <3>3. LastIsAttempt(t, e)
      <4>1. LastIsAttempt(t, sent[s])
        BY <2>1 DEF TerminalFits
      <4> QED
        BY <2>2, <4>1 DEF LastIsAttempt, Unanswered
    <3>4. TerminalFits(lib, t, e)
      BY <2>1, <2>2, <3>2, <3>3 DEF TerminalFits
    <3> QED
      BY <1>1, <2>1, <2>2, <3>1, <3>4 DEF u, e
  <2> QED
    BY <2>3, <2>4
<1>3. tab' \in [Session -> Tab] /\ sent' \in [Session -> [Prompt -> Submission]]
  BY <1>1, <1>2 DEF Refreshed, StillKnown
<1>4. Terminals'
  BY <1>2, <1>3 DEF Terminals
<1>5. Memory'
  BY <1>1 DEF Memory
<1>6. Counts'
  BY <1>1, DecisionKinds, CredentialAssumption DEF Counts
<1> QED
  BY <1>4, <1>5, <1>6

LEMMA SaveKeeps ==
    ASSUME IInv, NEW s \in Session, NEW new \in {{}} \cup {{k} : k \in Key},
           on_onekey_save(s, new)
    PROVE  IInv'
<1> USE DEF IInv
<1> DEFINE t == tab[s]
           z == Settled(t)
           u == [z EXCEPT !.popup = None]
<1>1. /\ library' = library \cup new /\ tab' = [tab EXCEPT ![s] = u]
      /\ decided' = NoDecision /\ edits' = edits + Cardinality(new)
      /\ UNCHANGED <<prefs, habit, asks, restarts, sent, choice>>
      /\ \A k \in new : edits < MaxEdits
  BY DEF on_onekey_save
<1>2. t.attempt = None /\ t \in Tab /\ TerminalFits(library, t, sent[s])
  BY NoAttemptWithChooser DEF on_onekey_save
<1>3. new \subseteq Key /\ Counts'
  <2>1. CASE new = {}
    <3>1. Cardinality(new) = 0
      BY <2>1, FS_EmptySet
    <3> QED
      BY <1>1, <2>1, <3>1, DecisionKinds DEF Counts
  <2>2. CASE \E k \in Key : new = {k}
    <3>1. PICK k \in Key : new = {k}
      BY <2>2
    <3>2. Cardinality(new) = 1 /\ edits < MaxEdits
      BY <1>1, <3>1, FS_Singleton
    <3> QED
      BY <1>1, <3>1, <3>2, DecisionKinds, CredentialAssumption DEF Counts
  <2> QED
    BY <2>1, <2>2
<1>4. ASSUME NEW r \in Session
      PROVE  TerminalFits(library', tab[r], sent[r])
  <2>1. TerminalFits(library, tab[r], sent[r]) /\ library \subseteq library'
    BY <1>1 DEF Terminals
  <2> HIDE DEF u, z
  <2> QED
    BY <2>1, RecognisedStill DEF TerminalFits
<1>5. /\ z \in Tab /\ z.conn = t.conn /\ z.line = t.line /\ z.attempt = None
      /\ z.fresh = None
  BY <1>2, SettledTab
<1> HIDE DEF z
<1>6. u \in Tab /\ u.conn = t.conn /\ u.attempt = None /\ u.fresh = None
  BY <1>5 DEF Tab
<1> HIDE DEF u
<1>7. TerminalFits(library', u, sent[s])
  BY <1>2, <1>4, <1>6, GivenUpFits
<1>8. tab' \in [Session -> Tab] /\ \A r \in Session : tab'[r] = IF r = s THEN u ELSE tab[r]
  BY <1>1, <1>6 DEF Terminals
<1>9. Terminals'
  <2>1. \A r \in Session : TerminalFits(library', tab'[r], sent'[r])
    BY <1>1, <1>4, <1>7, <1>8
  <2> QED
    BY <1>1, <1>8, <2>1 DEF Terminals
<1> QED
  BY <1>1, <1>3, <1>9 DEF Memory

LEMMA ChannelClosesKeeps ==
    ASSUME IInv, NEW s \in Session, ChannelCloses(s)
    PROVE  IInv'
<1> DEFINE t == tab[s]
           u == [t EXCEPT !.conn = "closing"]
<1> USE DEF IInv
<1>1. /\ tab' = [tab EXCEPT ![s] = u] /\ decided' = NoDecision
      /\ UNCHANGED <<library, prefs, habit, asks, edits, restarts, sent, choice>>
  BY DEF ChannelCloses
<1>2. TerminalFits(library, t, sent[s]) /\ t \in Tab
  BY DEF Terminals
<1>3. /\ u \in Tab /\ u.conn = "closing" /\ u.line = t.line /\ u.popup = t.popup
      /\ u.feedback = t.feedback /\ u.cooldown = t.cooldown /\ u.fresh = t.fresh
      /\ u.attempt = t.attempt
  BY <1>2, ClosedTab
<1> HIDE DEF u, t
<1>4. TerminalFits(library, u, sent[s])
  BY <1>2, <1>3 DEF TerminalFits, AttemptFits, LastIsAttempt
<1>5. Terminals'
  BY <1>1, <1>4, OneTab
<1> QED
  BY <1>1, <1>5, DecisionKinds DEF Memory, Counts

LEMMA DisconnectedKeeps ==
    ASSUME IInv, NEW s \in Session, Disconnected(s)
    PROVE  IInv'
<1> DEFINE z == Cleared(tab[s])
           u == [z EXCEPT !.conn = "down"]
<1> USE DEF IInv
<1>1. /\ tab' = [tab EXCEPT ![s] = u] /\ decided' = NoDecision
      /\ sent' = [sent EXCEPT ![s] = [p \in Prompt |-> NothingSent]]
      /\ UNCHANGED <<library, prefs, habit, asks, edits, restarts, choice>>
  BY DEF Disconnected
<1>2. z \in Tab /\ z.attempt = None /\ z.fresh = None
  BY ClearedTab DEF Terminals
<1> HIDE DEF z
<1>3. u \in Tab /\ u.attempt = None /\ u.fresh = None
  BY <1>2, ClosedTab
<1> HIDE DEF u
<1>4. TerminalFits(library, u, [p \in Prompt |-> NothingSent])
  BY <1>3, NothingSentShape
<1>5. Terminals'
  BY <1>1, <1>4, OneTerminal
<1> QED
  BY <1>1, <1>5, DecisionKinds DEF Memory, Counts

LEMMA NewTabShape ==
    /\ NewTab("open", Other) \in Tab
    /\ NewTab("open", Other).attempt = None /\ NewTab("open", Other).fresh = None
  BY NewIsTab DEF NewTab

\* Nothing was submitted while the connection was down.
LEMMA ReconnectKeeps ==
    ASSUME IInv, NEW s \in Session, reconnect_session(s)
    PROVE  IInv'
<1> DEFINE u == NewTab("open", Other)
<1> USE DEF IInv
<1>1. /\ tab' = [tab EXCEPT ![s] = u] /\ decided' = NoDecision /\ tab[s].conn = "down"
      /\ UNCHANGED <<library, prefs, habit, asks, edits, restarts, sent, choice>>
  BY DEF reconnect_session
<1>2. u \in Tab /\ u.attempt = None /\ u.fresh = None /\ u.conn = "open"
  BY NewTabShape DEF NewTab
<1> HIDE DEF u
<1>3. /\ sent[s] \in [Prompt -> Submission]
      /\ \A p \in Prompt : sent[s][p].key = None
  BY <1>1 DEF Terminals, TerminalFits
<1>4. TerminalFits(library, u, sent[s])
  BY <1>2, <1>3, AskedFits DEF Unanswered
<1>5. Terminals'
  BY <1>1, <1>4, OneTab
<1> QED
  BY <1>1, <1>5, DecisionKinds DEF Memory, Counts

LEMMA NoHabitFits ==
    ASSUME NEW pref, NEW c, pref # None => c.among = pref
    PROVE  ChoiceFits(pref, <<>>, c) /\ EventsOK(<<>>)
<1>1. Len(<<>>) = 0 /\ <<>> \in Seq(Event)
  OBVIOUS
<1>2. EventsOK(<<>>)
  BY <1>1, CredentialAssumption DEF EventsOK
<1>3. ChoiceFits(pref, <<>>, c)
  BY <1>1 DEF ChoiceFits
<1> QED
  BY <1>2, <1>3

LEMMA RestartKeeps ==
    ASSUME IInv, Restart
    PROVE  IInv'
<1> DEFINE u == NewTab("open", Other)
           n == [p \in Prompt |-> NothingSent]
<1> USE DEF IInv
<1>1. /\ tab' = [s \in Session |-> u] /\ sent' = [s \in Session |-> n]
      /\ habit' = habit \/ habit' = [p \in Prompt |-> <<>>]
      /\ decided' = NoDecision /\ restarts' = restarts + 1 /\ restarts < MaxRestarts
      /\ UNCHANGED <<library, prefs, asks, edits, choice>>
  BY DEF Restart
<1>2. u \in Tab /\ TerminalFits(library, u, n) /\ n \in [Prompt -> Submission]
  BY NewTabShape, NothingSentShape
<1> HIDE DEF u, n
<1>3. Terminals'
  BY <1>1, <1>2 DEF Terminals
<1>4. Counts'
  BY <1>1, DecisionKinds, CredentialAssumption DEF Counts
<1>5. Memory'
  <2>1. CASE habit' = habit
    BY <1>1, <2>1 DEF Memory
  <2>2. CASE habit' = [p \in Prompt |-> <<>>]
    <3>1. \A p \in Prompt : ChoiceFits(prefs[p], habit'[p], choice[p]) /\ EventsOK(habit'[p])
      <4> SUFFICES ASSUME NEW p \in Prompt
                   PROVE  ChoiceFits(prefs[p], habit'[p], choice[p]) /\ EventsOK(habit'[p])
        OBVIOUS
      <4>1. prefs[p] # None => choice[p].among = prefs[p]
        BY DEF Memory, ChoiceFits
      <4>2. habit'[p] = <<>>
        BY <2>2
      <4> QED
        BY <4>1, <4>2, NoHabitFits
    <3> QED
      BY <1>1, <2>2, <3>1 DEF Memory
  <2> QED
    BY <1>1, <2>1, <2>2
<1> QED
  BY <1>3, <1>4, <1>5

-----------------------------------------------------------------------------
(* The theorems                                                               *)

LEMMA InitFits == Init => IInv
<1> SUFFICES ASSUME Init
             PROVE  IInv
  OBVIOUS
<1>1. Counts
  BY DecisionKinds, CredentialAssumption DEF Init, Counts
<1>2. Memory
  <2>1. NothingChosen \in Selected
    BY DEF NothingChosen, Selected
  <2>2. /\ prefs \in [Prompt -> Key \cup {None}] /\ choice \in [Prompt -> Selected]
        /\ DOMAIN habit = Prompt
        /\ \A p \in Prompt : prefs[p] = None /\ habit[p] = <<>>
    BY <2>1 DEF Init
  <2>3. \A p \in Prompt : ChoiceFits(prefs[p], habit[p], choice[p]) /\ EventsOK(habit[p])
    BY <2>2, NoHabitFits
  <2> QED
    BY <2>2, <2>3, CredentialAssumption DEF Memory
<1>3. Terminals
  BY NewTabShape, NothingSentShape DEF Init, Terminals
<1> QED
  BY <1>1, <1>2, <1>3 DEF IInv

LEMMA NextKeeps == IInv /\ [Next]_vars => IInv'
<1> SUFFICES ASSUME IInv, [Next]_vars
             PROVE  IInv'
  OBVIOUS
<1>1. CASE \E s \in Session, p \in Prompt : Ask(s, p)
  BY <1>1, AskKeeps
<1>2. CASE \E s \in Session : Reply(s)
  BY <1>2, ReplyKeeps
<1>3. CASE \E s \in Session : Blank(s)
  BY <1>3, BlankKeeps
<1>4. CASE \E s \in Session : CooldownEnds(s)
  BY <1>4, CooldownEndsKeeps
<1>5. CASE \E s \in Session, k \in Key : on_onekey_select(s, k)
  BY <1>5, SelectKeeps
<1>6. CASE \E s \in Session, new \in {{}} \cup {{k} : k \in Key} : on_onekey_save(s, new)
  BY <1>6, SaveKeeps
<1>7. CASE \E s \in Session, reason \in {"cancel", "focus"} : dismiss_onekey_popup(s, reason)
  BY <1>7, DismissKeeps
<1>8. CASE \E s \in Session : Type(s)
  BY <1>8, TypeKeeps
<1>9. CASE \E s \in Session : Enter(s)
  BY <1>9, EnterKeeps
<1>10. CASE \E lib \in SUBSET Key : EditLibrary(lib)
  BY <1>10, EditKeeps
<1>11. CASE \E s \in Session : ChannelCloses(s)
  BY <1>11, ChannelClosesKeeps
<1>12. CASE \E s \in Session : Disconnected(s)
  BY <1>12, DisconnectedKeeps
<1>13. CASE \E s \in Session : reconnect_session(s)
  BY <1>13, ReconnectKeeps
<1>14. CASE Restart
  BY <1>14, RestartKeeps
<1>15. CASE UNCHANGED vars
  BY <1>15 DEF vars, IInv, Counts, Memory, Terminals
<1> QED
  BY <1>1, <1>2, <1>3, <1>4, <1>5, <1>6, <1>7, <1>8, <1>9, <1>10, <1>11, <1>12, <1>13,
     <1>14, <1>15 DEF Next

\* The attempt of a terminal is the submission it stands for, and what would be
\* submitted without asking was chosen, whatever the user and the remote do.
THEOREM AlwaysInv == Spec => []IInv
<1>1. Init => IInv
  BY InitFits
<1>2. IInv /\ [Next]_vars => IInv'
  BY NextKeeps
<1> QED
  BY <1>1, <1>2, PTL DEF Spec

\* Everything kept for the terminals, prompts and preferences has its type: a prompt
\* too vague to be remembered has no preference, and no prompt has more events than
\* record_onekey_behavior keeps.
THEOREM TypeCorrect == Spec => []TypeOK
<1>1. IInv => TypeOK
  <2> SUFFICES ASSUME IInv
               PROVE  TypeOK
    OBVIOUS
  <2> USE DEF IInv
  <2>1. ASSUME NEW s \in Session
        PROVE  LET t == tab[s] IN
               /\ t.conn \in {"open", "closing", "down"} /\ t.line \in Line
               /\ t.popup = None \/ t.popup \in Popup
               /\ t.feedback = None \/ t.feedback \in Feedback
               /\ t.cooldown = None \/ t.cooldown \in Cooldown
               /\ t.fresh \in Line \cup {None}
               /\ t.attempt = None \/ t.attempt \in Attempt
    BY DEF Terminals, Tab
  <2>2. DOMAIN tab = Session /\ sent \in [Session -> [Prompt -> Submission]]
    BY DEF Terminals
  <2>3. \A p \in Prompt : habit[p] \in Seq(Event) /\ Len(habit[p]) <= HabitCap
    BY DEF Memory, EventsOK
  <2> QED
    BY <2>1, <2>2, <2>3 DEF TypeOK, Counts, Memory, Submission, Selected
<1> QED
  BY <1>1, AlwaysInv, PTL

\* Only a prompt and output that shows nothing lead to a decision.
LEMMA OnlyChunksDecide ==
    ASSUME IInv, Next, decided'.kind # "none"
    PROVE  \E s \in Session : Blank(s) \/ \E p \in Prompt : Ask(s, p)
<1>1. decided' # NoDecision
  BY DecisionKinds
<1>2. \A s \in Session : Reply(s) => decided' = NoDecision
  BY ReplyFits DEF Reply, check_onekey_match, IInv
<1> QED
  BY <1>1, <1>2 DEF Next, CooldownEnds, on_onekey_select, on_onekey_save,
     dismiss_onekey_popup, Type, Enter, EditLibrary, ChannelCloses, Disconnected,
     reconnect_session, Restart

\* What such a chunk comes to.
LEMMA ChunkDecides ==
    ASSUME IInv, NEW s \in Session
    PROVE  /\ \A p \in Prompt : Ask(s, p) =>
                LET t == Shown(s, p) IN
                /\ Passes \/ TurnsDown(s, t) \/ Answered(s, Noted(s, p))
                /\ tab'[s].line = p
                /\ TurnedDown(s, p) => decided'.kind = "rejected"
           /\ Blank(s) =>
                Passes \/ TurnsDown(s, tab[s]) \/ Answered(s, sent[s])
<1> USE DEF IInv
<1>1. ASSUME NEW p \in Prompt, Ask(s, p)
      PROVE  LET t == Shown(s, p) IN
             /\ Passes \/ TurnsDown(s, t) \/ Answered(s, Noted(s, p))
             /\ tab'[s].line = p
             /\ TurnedDown(s, p) => decided'.kind = "rejected"
  <2> DEFINE t == Shown(s, p)
  <2>1. t.conn = tab[s].conn /\ t.line = p
    BY ShownTab DEF Line
  <2>2. /\ check_onekey_match(s, t, Noted(s, p)) /\ t.conn # "down"
        /\ TerminalFits(library, t, Noted(s, p))
    BY <1>1, <2>1, AskFits DEF Ask, Noted
  <2>3. TurnedDown(s, p) => decided'.kind = "rejected"
    BY <2>2, TurnedDownIsRejected, DecisionKinds
  <2> HIDE DEF t
  <2>4. Passes \/ TurnsDown(s, t) \/ Answered(s, Noted(s, p))
    BY <2>2, CheckStep
  <2>5. \E u \in Tab : tab' = [tab EXCEPT ![s] = u] /\ u.line = t.line
    BY <2>2, CheckStep
  <2>6. tab'[s].line = p
    BY <2>1, <2>5 DEF Terminals
  <2> QED
    BY <2>3, <2>4, <2>6 DEF t
<1>2. ASSUME Blank(s)
      PROVE  Passes \/ TurnsDown(s, tab[s]) \/ Answered(s, sent[s])
  <2>1. /\ check_onekey_match(s, tab[s], sent[s]) /\ tab[s].conn # "down"
        /\ TerminalFits(library, tab[s], sent[s])
    BY <1>2 DEF Blank, Terminals
  <2> QED
    BY <2>1, CheckStep
<1> QED
  BY <1>1, <1>2

\* A credential that is submitted without asking is the one the user chose at this
\* prompt, among several entries or twice in a row, and the remote has not answered
\* that choice with the same prompt: however apply_onekey_popup, the chooser, the
\* library and restarts interleave.
THEOREM ChosenBeforeSubmitted == Spec => AutoIsEarned
<1>1. IInv /\ [Next]_vars =>
        [Submits =>
           LET c == choice'[decided'.prompt] IN
           \/ c.among = decided'.key
           \/ c.key = decided'.key /\ c.times = 2]_vars
  <2> SUFFICES ASSUME IInv, Next, Submits
               PROVE  LET c == choice'[decided'.prompt] IN
                      c.among = decided'.key \/ (c.key = decided'.key /\ c.times = 2)
    OBVIOUS
  <2>1. decided'.kind = "submitted"
    BY DEF Submits
  <2>2. ASSUME NEW s, NEW noted, Answered(s, noted), choice' = choice
        PROVE  LET c == choice'[decided'.prompt] IN
               c.among = decided'.key \/ (c.key = decided'.key /\ c.times = 2)
    <3>1. PICK p \in Prompt, k \in Key, cands \in SUBSET Key :
            /\ decided' = Decision("submitted", s, p, k)
            /\ prefs[p] = k \/ resolve_onekey_habit(habit[p], cands) = k
      BY <2>2 DEF Answered
    <3>2. choice[p].among = k \/ (choice[p].key = k /\ choice[p].times = 2)
      BY <3>1, SubmittedIsEarned DEF IInv
    <3>3. decided'.prompt = p /\ decided'.key = k
      BY <3>1, DecisionKinds
    <3> QED
      BY <2>2, <3>2, <3>3
  <2>3. PICK s \in Session : Blank(s) \/ \E p \in Prompt : Ask(s, p)
    BY <2>1, OnlyChunksDecide
  <2>4. CASE Blank(s)
    <3>1. Answered(s, sent[s])
      BY <2>1, <2>4, ChunkDecides, OutcomeKinds
    <3>2. choice' = choice
      BY <2>1, <2>4 DEF Blank, Standing
    <3> QED
      BY <2>2, <3>1, <3>2
  <2>5. CASE \E p \in Prompt : Ask(s, p)
    <3>1. PICK p \in Prompt : Ask(s, p)
      BY <2>5
    <3>2. Answered(s, Noted(s, p)) /\ ~TurnedDown(s, p)
      BY <2>1, <3>1, ChunkDecides, OutcomeKinds
    <3>3. choice' = choice
      BY <2>1, <3>1, <3>2 DEF Ask, Standing
    <3> QED
      BY <2>2, <3>2, <3>3
  <2> QED
    BY <2>3, <2>4, <2>5
<1> QED
  BY <1>1, AlwaysInv, PTL DEF Spec, AutoIsEarned

\* A choice is held against the user only if its prompt came after the submission or
\* stayed beyond the cooldown; and while a submission is unanswered nothing is
\* submitted without a new prompt.
THEOREM NewPromptsCount == Spec => OnlyNewPromptsCount
<1> DEFINE Fair == LET e == sent[decided'.session][decided'.prompt] IN
                   /\ e.key = decided'.key
                   /\ \/ e.since \in {"again", "later"} \/ e.lapsed
                      \/ asks' # asks /\ tab'[decided'.session].line = decided'.prompt
           Once == \A p \in Prompt :
                     LET e == sent[decided'.session][p] IN
                     e.key # None /\ e.since = "nothing" /\ e.known => asks' # asks
<1>1. ASSUME IInv, NEW s \in Session, NEW p \in Prompt, NEW k \in Key,
             tab[s].attempt = [prompt |-> p, key |-> k]
      PROVE  /\ sent[s][p].key = k
             /\ tab[s].cooldown # None /\ tab[s].cooldown.expect = ExpectOf[k]
             /\ ~tab[s].cooldown.recent => sent[s][p].lapsed
             /\ tab[s].fresh = p => sent[s][p].since \in {"again", "later"}
             /\ tab[s].fresh \in {None, tab[s].line}
  <2>1. tab[s].attempt \in Attempt
    BY <1>1 DEF Attempt
  <2>2. tab[s].attempt # None /\ tab[s].attempt.key = k /\ tab[s].attempt.prompt = p
    BY <1>1, <2>1, NoneAssumption
  <2>3. AttemptFits(tab[s], sent[s]) /\ tab[s].fresh \in {None, tab[s].line}
    BY <1>1 DEF IInv, Terminals, TerminalFits
  <2> QED
    BY <2>2, <2>3 DEF AttemptFits
<1>2. ASSUME IInv, NEW s \in Session, Blank(s), decided'.kind # "none"
      PROVE  (Rejects => Fair) /\ (Submits => Once)
  <2>1. CASE TurnsDown(s, tab[s])
    <3>1. PICK p \in Prompt, k \in Key :
            /\ tab[s].attempt = [prompt |-> p, key |-> k] /\ tab[s].line = p
            /\ Recognises(library, p, ExpectOf[k])
            /\ onekey_popup_for_output(library, tab[s])
            /\ decided' = Decision("rejected", s, p, k)
      BY <2>1 DEF TurnsDown
    <3>2. /\ sent[s][p].key = k
          /\ tab[s].cooldown # None /\ tab[s].cooldown.expect = ExpectOf[k]
          /\ ~tab[s].cooldown.recent => sent[s][p].lapsed
          /\ tab[s].fresh = p => sent[s][p].since \in {"again", "later"}
          /\ tab[s].fresh \in {None, p}
      BY <1>1, <1>2, <3>1
    <3>3. ~Residual(library, tab[s])
      BY <3>1 DEF onekey_popup_for_output
    <3>4. tab[s].cooldown.recent => tab[s].fresh = p
      BY <3>1, <3>2, <3>3, NoneIsNoPrompt DEF Residual
    <3>5. sent[s][p].since \in {"again", "later"} \/ sent[s][p].lapsed
      BY <3>2, <3>4
    <3>6. /\ decided'.session = s /\ decided'.prompt = p /\ decided'.key = k
          /\ decided'.kind = "rejected"
      BY <3>1, DecisionKinds
    <3> QED
      BY <3>2, <3>5, <3>6 DEF Submits
  <2>2. CASE Answered(s, sent[s])
    <3>1. decided'.kind = "submitted" /\ decided'.session = s
      BY <2>2, DecisionKinds DEF Answered
    <3>2. \A p \in Prompt : ~Unanswered(sent[s], p)
      BY <2>2 DEF Answered
    <3> QED
      BY <3>1, <3>2 DEF Rejects, Unanswered
  <2> QED
    BY <1>2, <2>1, <2>2, ChunkDecides, OutcomeKinds
<1>3. ASSUME IInv, NEW s \in Session, NEW p \in Prompt, Ask(s, p), decided'.kind # "none"
      PROVE  (Rejects => Fair) /\ (Submits => Once)
  <2> DEFINE t == Shown(s, p)
  <2>1. asks' # asks
    BY <1>3, CredentialAssumption DEF Ask, IInv, Counts
  <2>2. tab'[s].line = p /\ t.attempt = tab[s].attempt /\ t.line = p
    BY <1>3, ChunkDecides, ShownTab DEF IInv, Line
  <2>3. CASE TurnsDown(s, t)
    <3> HIDE DEF t
    <3>1. PICK q \in Prompt, k \in Key :
            /\ t.attempt = [prompt |-> q, key |-> k] /\ t.line = q
            /\ decided' = Decision("rejected", s, q, k)
      BY <2>3 DEF TurnsDown
    <3>2. q = p /\ sent[s][p].key = k
      <4>1. q = p /\ tab[s].attempt = [prompt |-> p, key |-> k]
        BY <2>2, <3>1
      <4> QED
        BY <1>1, <1>3, <4>1
    <3>3. /\ decided'.session = s /\ decided'.prompt = p /\ decided'.key = k
          /\ decided'.kind = "rejected"
      BY <3>1, <3>2, DecisionKinds
    <3> QED
      BY <2>1, <2>2, <3>2, <3>3 DEF Submits
  <2>4. CASE Answered(s, Noted(s, p))
    <3>1. decided'.kind = "submitted"
      BY <2>4, OutcomeKinds
    <3> QED
      BY <2>1, <3>1 DEF Rejects
  <2> QED
    BY <1>3, <2>3, <2>4, ChunkDecides, OutcomeKinds
<1>4. IInv /\ [Next]_vars => [(Rejects => Fair) /\ (Submits => Once)]_vars
  <2> SUFFICES ASSUME IInv, Next
               PROVE  (Rejects => Fair) /\ (Submits => Once)
    OBVIOUS
  <2>1. CASE decided'.kind = "none"
    BY <2>1 DEF Rejects, Submits
  <2>2. CASE decided'.kind # "none"
    <3> HIDE DEF Fair, Once
    <3> QED
      BY <1>2, <1>3, <2>2, OnlyChunksDecide
  <2> QED
    BY <2>1, <2>2
<1> QED
  BY <1>4, AlwaysInv, PTL DEF Spec, OnlyNewPromptsCount
=============================================================================
