-------------------------- MODULE CredentialPrompt --------------------------
(* OneKey: answering credential prompts of a remote from a library of saved   *)
(* entries. Every chunk of output is looked at; when the terminal's last line *)
(* is a prompt that entries match, a chooser is shown, or a choice the user   *)
(* made before is submitted without asking: a remembered preference, or a     *)
(* habit of two selections in a row. A prompt that comes back is taken for a  *)
(* rejection of what was submitted there.                                     *)
(*                                                                            *)
(* The terminals belong to one saved connection, which is how preferences and *)
(* habits are shared among them. A key is an entry with its step; the texts   *)
(* are left out: Answers says which keys match a prompt and ExpectOf which    *)
(* pattern they do it by. Left out too: the switch that turns OneKey off, the *)
(* full-screen programs and the one-time-password prompts it keeps away from, *)
(* and the relay's sudo lease.                                                *)
EXTENDS Naturals, Sequences, FiniteSets

CONSTANTS
    Session,        \* terminals of the connection
    Prompt,         \* prompts, by fingerprint
    Key,            \* entries of the library
    Expect,         \* patterns
    ExpectOf,       \* the pattern of each key
    Answers,        \* the keys that match each prompt
    Safe,           \* prompts specific enough for a remembered preference
    Persistent,     \* prompts for a password: their chooser is not dismissed by typing
    Other,          \* a line that is no prompt
    None,
    HabitCap,       \* ONEKEY_HABIT_EVENTS_CAP
    MaxAsks,        \* bound: prompts printed
    MaxEdits,       \* bound: changes of the library
    MaxRestarts     \* bound: restarts of the application

ASSUME CredentialAssumption ==
    /\ ExpectOf \in [Key -> Expect]
    /\ Answers \in [Prompt -> SUBSET Key]
    /\ Safe \subseteq Prompt /\ Persistent \subseteq Prompt
    /\ Other \notin Prompt /\ None \notin Prompt \cup Key \cup {Other}
    /\ HabitCap \in Nat \ {0, 1} /\ {MaxAsks, MaxEdits, MaxRestarts} \subseteq Nat

VARIABLES
    library,        \* state.onekeys
    prefs,          \* onekey_preferences, in memory and in settings.json
    habit,          \* onekey_habit_events
    tab,            \* what is kept for each terminal, and its last line
    asks, edits, restarts,
    \* For the properties; no action depends on these.
    sent,           \* what OneKey last submitted at a prompt since the user's last command
    choice,         \* what the user selected at a prompt
    decided         \* what the last step decided

vars == <<library, prefs, habit, tab, asks, edits, restarts, sent, choice, decided>>

Line     == Prompt \cup {Other}
Popup    == [prompt : Prompt, matches : SUBSET Key]
Feedback == [kind : {"submitted", "rejected"}, expect : Expect]
Cooldown == [expect : Expect, recent : BOOLEAN]
Attempt  == [prompt : Prompt, key : Key]
Event    == [kind : {"manual", "auto", "rejected"}, key : Key, cands : SUBSET Key]

\* An absent part of a terminal is none of the parts.
ASSUME NoneAssumption == None \notin Popup \cup Feedback \cup Cooldown \cup Attempt

Matches(lib, p) == lib \cap Answers[p]

\* Some entry of the library recognises the line by pattern e.
Recognises(lib, line, e) ==
    line \in Prompt /\ \E k \in Matches(lib, line) : ExpectOf[k] = e

NewTab(conn, line) ==
    [conn |-> conn, line |-> line, popup |-> None, feedback |-> None,
     cooldown |-> None, fresh |-> None, attempt |-> None]

\* The submission in progress is forgotten, the popup is not.
Settled(t) == [t EXCEPT !.feedback = None, !.cooldown = None, !.fresh = None]

\* clear_onekey_session_runtime, and what dismiss_onekey_popup removes.
Cleared(t) == [Settled(t) EXCEPT !.popup = None, !.attempt = None]

NothingSent   == [key |-> None, since |-> "nothing", lapsed |-> FALSE, known |-> TRUE]
JustSent(k)   == [NothingSent EXCEPT !.key = k]
NothingChosen == [key |-> None, times |-> 0, among |-> None]
NoDecision    == [kind |-> "none", session |-> None, prompt |-> None, key |-> None]
Decision(kind, s, p, k) == [kind |-> kind, session |-> s, prompt |-> p, key |-> k]

TypeOK ==
    /\ library \subseteq Key
    /\ prefs \in [Prompt -> Key \cup {None}]
    /\ \A p \in Prompt \ Safe : prefs[p] = None
    /\ DOMAIN habit = Prompt
    /\ \A p \in Prompt : habit[p] \in Seq(Event) /\ Len(habit[p]) <= HabitCap
    /\ DOMAIN tab = Session
    /\ \A s \in Session : LET t == tab[s] IN
        /\ t.conn \in {"open", "closing", "down"} /\ t.line \in Line
        /\ t.popup = None \/ t.popup \in Popup
        /\ t.feedback = None \/ t.feedback \in Feedback
        /\ t.cooldown = None \/ t.cooldown \in Cooldown
        /\ t.fresh \in Line \cup {None}
        /\ t.attempt = None \/ t.attempt \in Attempt
    /\ asks \in 0..MaxAsks /\ edits \in 0..MaxEdits /\ restarts \in 0..MaxRestarts
    /\ sent \in [Session -> [Prompt -> [key : Key \cup {None}, lapsed : BOOLEAN,
                                        known : BOOLEAN,
                                        since : {"nothing", "again", "other", "later",
                                                 "judged"}]]]
    /\ choice \in [Prompt -> [key : Key \cup {None}, times : 0..2, among : Key \cup {None}]]
    /\ decided.kind \in {"none", "submitted", "rejected"}

Init ==
    /\ library = Key
    /\ prefs = [p \in Prompt |-> None]
    /\ habit = [p \in Prompt |-> <<>>]
    /\ tab = [s \in Session |-> NewTab("open", Other)]
    /\ asks = 0 /\ edits = 0 /\ restarts = 0
    /\ sent = [s \in Session |-> [p \in Prompt |-> NothingSent]]
    /\ choice = [p \in Prompt |-> NothingChosen]
    /\ decided = NoDecision

-----------------------------------------------------------------------------
(* What the user did before                                                   *)

\* Mutant: the oldest event is not dropped.
Recorded_All(h, p, e) == [h EXCEPT ![p] = Append(@, e)]

Recorded(h, p, e) ==
    [h EXCEPT ![p] = LET all == Append(@, e)
                     IN  IF Len(all) > HabitCap THEN Tail(all) ELSE all]

Selections(events) == {i \in DOMAIN events : events[i].kind # "rejected"}

\* The newest selection was made among other entries than match now.
onekey_candidates_changed(events, cands) ==
    \E i \in Selections(events) :
        /\ \A j \in Selections(events) : j <= i
        /\ events[i].cands # cands

\* The last two events are selections of one key, the newest among these entries.
resolve_onekey_habit(events, cands) ==
    LET n == Len(events)
    IN  IF /\ n >= 2
           /\ n \in Selections(events) /\ (n - 1) \in Selections(events)
           /\ events[n].cands = cands
           /\ events[n - 1].key = events[n].key
        THEN events[n].key ELSE None

-----------------------------------------------------------------------------
(* A chunk of output                                                          *)

\* Just submitted, and the prompt on the line is the one that was answered.
Residual(lib, t) ==
    /\ t.cooldown # None
    /\ t.cooldown.recent
    /\ Recognises(lib, t.line, t.cooldown.expect)
    /\ ~Recognises(lib, t.fresh, t.cooldown.expect)

onekey_popup_for_output(lib, t) ==
    /\ t.popup = None
    /\ ~Residual(lib, t)
    /\ t.line \in Prompt
    /\ Matches(lib, t.line) # {}

\* Mutant: any prompt the attempt's pattern matches is the attempt's.
attempt_matches_prompt_ByPattern(lib, t) ==
    Recognises(lib, t.line, ExpectOf[t.attempt.key])

attempt_matches_prompt(lib, t) ==
    /\ t.attempt.prompt = t.line
    /\ Recognises(lib, t.line, ExpectOf[t.attempt.key])

Mismatched(lib, t) == t.attempt # None /\ ~attempt_matches_prompt(lib, t)
Repeated(lib, t)   == t.feedback # None /\ Recognises(lib, t.line, t.feedback.expect)

\* An attempt at another prompt is dropped, then a submission with another pattern.
Screened(lib, t) ==
    LET t1 == IF Mismatched(lib, t) THEN [t EXCEPT !.attempt = None, !.feedback = None]
                                    ELSE t
    IN  IF t1.feedback # None /\ ~Repeated(lib, t1)
        THEN [Settled(t1) EXCEPT !.attempt = None] ELSE t1

\* Mutant: the rejected choice stays remembered.
forget_onekey_preference_Not(p) == prefs

forget_onekey_preference(p) == [prefs EXCEPT ![p] = None]

Offered(t, lib) == [t EXCEPT !.popup = [prompt |-> t.line, matches |-> Matches(lib, t.line)]]

\* The prompt came back: the attempt is rejected, and the user is asked.
Reject(s, t) ==
    LET p == t.line IN
    /\ tab' = [tab EXCEPT ![s] =
                 Offered([Settled(t) EXCEPT !.attempt = None,
                            !.feedback = [kind |-> "rejected", expect |-> t.feedback.expect]],
                         library)]
    /\ IF t.attempt = None
       THEN decided' = NoDecision /\ UNCHANGED <<prefs, habit>>
       ELSE /\ prefs' = forget_onekey_preference(t.attempt.prompt)
            /\ habit' = Recorded(habit, t.attempt.prompt,
                                 [kind |-> "rejected", key |-> t.attempt.key,
                                  cands |-> Matches(library, p)])
            /\ decided' = Decision("rejected", s, t.attempt.prompt, t.attempt.key)

Choose(s, t) == tab' = [tab EXCEPT ![s] = Offered(t, library)] /\ decided' = NoDecision

\* submit_remembered_onekey: armed like a selection, or the chooser if it cannot be sent.
Armed(t, p, k) ==
    [t EXCEPT !.feedback = [kind |-> "submitted", expect |-> ExpectOf[k]],
              !.cooldown = [expect |-> ExpectOf[k], recent |-> TRUE],
              !.fresh = None,
              !.attempt = [prompt |-> p, key |-> k]]

submit_remembered_onekey(s, t, k, noted) ==
    LET p == t.line IN
    IF t.conn = "open"
    THEN /\ tab' = [tab EXCEPT ![s] = Armed(t, p, k)]
         /\ habit' = Recorded(habit, p, [kind |-> "auto", key |-> k,
                                         cands |-> Matches(library, p)])
         /\ sent' = [sent EXCEPT ![s] = [noted EXCEPT ![p] = JustSent(k)]]
         /\ decided' = Decision("submitted", s, p, k)
    ELSE /\ Choose(s, t)
         /\ sent' = [sent EXCEPT ![s] = noted]
         /\ UNCHANGED habit

\* apply_onekey_popup after its first lines.
Apply(s, t, noted) ==
    LET p      == t.line
        cands  == Matches(library, p)
        usual  == resolve_onekey_habit(habit[p], cands)
    IN
    \/ /\ Repeated(library, t)
       /\ Reject(s, t)
       /\ sent' = [sent EXCEPT ![s] = IF t.attempt = None THEN noted ELSE
                     [noted EXCEPT ![t.attempt.prompt].since = "judged"]]
    \/ /\ ~Repeated(library, t)
       /\ onekey_candidates_changed(habit[p], cands)
       /\ Choose(s, t)
       /\ sent' = [sent EXCEPT ![s] = noted]
       /\ UNCHANGED <<prefs, habit>>
    \/ /\ ~Repeated(library, t) /\ ~onekey_candidates_changed(habit[p], cands)
       /\ \/ /\ prefs[p] \in cands
             /\ submit_remembered_onekey(s, t, prefs[p], noted)
             /\ UNCHANGED prefs
          \/ /\ prefs[p] \notin cands \cup {None}
             /\ Choose(s, t)
             /\ prefs' = forget_onekey_preference(p)
             /\ sent' = [sent EXCEPT ![s] = noted]
             /\ UNCHANGED habit
          \/ /\ prefs[p] = None /\ usual \in cands
             /\ submit_remembered_onekey(s, t, usual, noted)
             /\ UNCHANGED prefs
          \/ /\ prefs[p] = None /\ usual \notin cands
             /\ Choose(s, t)
             /\ sent' = [sent EXCEPT ![s] = noted]
             /\ UNCHANGED <<prefs, habit>>

\* t is the terminal with the chunk in it, noted what the properties make of it.
check_onekey_match(s, t, noted) ==
    IF onekey_popup_for_output(library, t)
    THEN Apply(s, Screened(library, t), noted)
    ELSE /\ tab' = [tab EXCEPT ![s] = t]
         /\ sent' = [sent EXCEPT ![s] = noted]
         /\ decided' = NoDecision
         /\ UNCHANGED <<prefs, habit>>

note_onekey_output(t, line) == IF t.cooldown = None THEN t ELSE [t EXCEPT !.fresh = line]

Shown(s, line) == [note_onekey_output(tab[s], line) EXCEPT !.line = line]

\* What was submitted at q once the remote asks p.
AskedSince(p, q, e) ==
    IF e.key = None THEN e
    ELSE [e EXCEPT !.since = CASE @ = "nothing" -> IF q = p THEN "again" ELSE "other"
                               [] @ = "other" /\ q = p -> "later"
                               [] OTHER -> @]

\* The user's choice of k at p no longer stands.
Withdrawn(chosen, p, k) ==
    [chosen EXCEPT ![p] = [key   |-> @.key,
                           times |-> IF @.key = k THEN 0 ELSE @.times,
                           among |-> IF @.among = k THEN None ELSE @.among]]

\* The submission at p is answered by asking p again, and the library could tell all
\* the time.
TurnedDown(s, p) ==
    LET e == sent[s][p] IN e.key # None /\ e.since = "nothing" /\ e.known

\* A choice falls when the remote turns it down, and when it is held against.
Standing(chosen) ==
    choice' = IF decided'.kind = "rejected"
              THEN Withdrawn(chosen, decided'.prompt, decided'.key) ELSE chosen

Ask(s, p) ==
    /\ tab[s].conn # "down"
    /\ asks < MaxAsks
    /\ asks' = asks + 1
    /\ check_onekey_match(s, Shown(s, p),
                          [q \in Prompt |-> AskedSince(p, q, sent[s][q])])
    /\ Standing(IF TurnedDown(s, p)
                THEN Withdrawn(choice, p, sent[s][p].key) ELSE choice)
    /\ UNCHANGED <<library, edits, restarts>>

\* Output with a line in it that is no prompt.
Reply(s) ==
    /\ tab[s].conn # "down"
    /\ check_onekey_match(s, Shown(s, Other), sent[s])
    /\ UNCHANGED <<library, asks, edits, restarts, choice>>

\* Output that shows nothing: an empty line, a control sequence.
Blank(s) ==
    /\ tab[s].conn # "down"
    /\ check_onekey_match(s, tab[s], sent[s])
    /\ Standing(choice)
    /\ UNCHANGED <<library, asks, edits, restarts>>

CooldownEnds(s) ==
    /\ tab[s].cooldown # None
    /\ tab[s].cooldown.recent
    /\ tab' = [tab EXCEPT ![s].cooldown.recent = FALSE]
    /\ sent' = [sent EXCEPT ![s] = [p \in Prompt |->
                 [sent[s][p] EXCEPT !.lapsed = sent[s][p].key # None]]]
    /\ decided' = NoDecision
    /\ UNCHANGED <<library, prefs, habit, asks, edits, restarts, choice>>

-----------------------------------------------------------------------------
(* The user                                                                   *)

take_onekey_selection(p, k, matches) ==
    IF p \in Safe /\ Cardinality(matches) > 1 THEN [prefs EXCEPT ![p] = k] ELSE prefs

on_onekey_select(s, k) ==
    LET t == [tab[s] EXCEPT !.popup = None]
        p == tab[s].popup.prompt
        matches == tab[s].popup.matches
    IN
    /\ tab[s].popup # None
    /\ k \in matches
    /\ decided' = NoDecision
    /\ IF t.conn = "open"
       THEN /\ tab' = [tab EXCEPT ![s] = Armed(t, p, k)]
            /\ habit' = Recorded(habit, p, [kind |-> "manual", key |-> k, cands |-> matches])
            /\ prefs' = take_onekey_selection(p, k, matches)
            /\ sent' = [sent EXCEPT ![s][p] = [JustSent(k) EXCEPT
                          !.since = IF t.line = p THEN "nothing" ELSE "other",
                          !.known = Recognises(library, p, ExpectOf[k])]]
            /\ choice' = [choice EXCEPT ![p] =
                 [key |-> k,
                  times |-> IF @.key = k /\ @.times > 0 THEN 2 ELSE 1,
                  among |-> IF Cardinality(matches) > 1 THEN k ELSE @.among]]
       ELSE /\ tab' = [tab EXCEPT ![s] = Settled(t)]
            /\ UNCHANGED <<prefs, habit, sent, choice>>
    /\ UNCHANGED <<library, asks, edits, restarts>>

\* Escape, or the focus moves away from a chooser that does not insist.
dismiss_onekey_popup(s, reason) ==
    /\ tab[s].popup # None
    /\ reason = "focus" => tab[s].popup.prompt \notin Persistent
    /\ tab' = [tab EXCEPT ![s] = Cleared(@)]
    /\ decided' = NoDecision
    /\ UNCHANGED <<library, prefs, habit, asks, edits, restarts, sent, choice>>

note_manual_input(t, command) ==
    IF t.attempt = None THEN Settled(t)
    ELSE IF command THEN [Settled(t) EXCEPT !.attempt = None] ELSE t

\* A key other than Enter, which a chooser that does not insist gives way to.
Type(s) ==
    LET t == IF tab[s].popup # None /\ tab[s].popup.prompt \notin Persistent
             THEN Cleared(tab[s]) ELSE tab[s]
    IN
    /\ tab[s].conn # "down"
    /\ tab' = [tab EXCEPT ![s] = note_manual_input(t, FALSE)]
    /\ decided' = NoDecision
    /\ UNCHANGED <<library, prefs, habit, asks, edits, restarts, sent, choice>>

\* Enter with no chooser, which would take it: an answer by hand, or a command.
Enter(s) ==
    LET command == tab[s].line \notin Prompt IN
    /\ tab[s].conn # "down"
    /\ tab[s].popup = None
    /\ tab' = [tab EXCEPT ![s] = note_manual_input(@, command)]
    /\ sent' = IF command THEN [sent EXCEPT ![s] = [p \in Prompt |-> NothingSent]] ELSE sent
    /\ decided' = NoDecision
    /\ UNCHANGED <<library, prefs, habit, asks, edits, restarts, choice>>

\* The submissions whose prompt lib, too, recognises by the same pattern.
StillKnown(lib) ==
    [s \in Session |-> [p \in Prompt |->
        LET e == sent[s][p]
        IN  [e EXCEPT !.known = e.known /\ (e.key # None =>
                                              Recognises(lib, p, ExpectOf[e.key]))]]]

\* current_prompt_onekey_popups: terminals with an attempt are left alone.
Refreshed(lib) ==
    [s \in Session |-> IF tab[s].attempt = None /\ onekey_popup_for_output(lib, tab[s])
                       THEN Offered(tab[s], lib) ELSE tab[s]]

EditLibrary(lib) ==
    /\ edits < MaxEdits
    /\ edits' = edits + 1
    /\ lib # library
    /\ library' = lib
    /\ tab' = Refreshed(lib)
    /\ sent' = StillKnown(lib)
    /\ decided' = NoDecision
    /\ UNCHANGED <<prefs, habit, asks, restarts, choice>>

\* What was typed after the prompt, if anything shows, becomes an entry; the chooser
\* closes, and nothing looks for prompts.
on_onekey_save(s, new) ==
    /\ tab[s].popup # None
    /\ \A k \in new : /\ edits < MaxEdits
                      /\ k \in Answers[tab[s].popup.prompt] \ library
                      /\ \E m \in tab[s].popup.matches : ExpectOf[m] = ExpectOf[k]
    /\ edits' = edits + Cardinality(new)
    /\ library' = library \cup new
    /\ tab' = [tab EXCEPT ![s] = [Settled(@) EXCEPT !.popup = None]]
    /\ decided' = NoDecision
    /\ UNCHANGED <<prefs, habit, asks, restarts, sent, choice>>

-----------------------------------------------------------------------------
(* The connection and the application                                         *)

ChannelCloses(s) ==
    /\ tab[s].conn = "open"
    /\ tab' = [tab EXCEPT ![s].conn = "closing"]
    /\ decided' = NoDecision
    /\ UNCHANGED <<library, prefs, habit, asks, edits, restarts, sent, choice>>

Disconnected(s) ==
    /\ tab[s].conn = "closing"
    /\ tab' = [tab EXCEPT ![s] = [Cleared(@) EXCEPT !.conn = "down"]]
    /\ sent' = [sent EXCEPT ![s] = [p \in Prompt |-> NothingSent]]
    /\ decided' = NoDecision
    /\ UNCHANGED <<library, prefs, habit, asks, edits, restarts, choice>>

reconnect_session(s) ==
    /\ tab[s].conn = "down"
    /\ tab' = [tab EXCEPT ![s] = NewTab("open", Other)]
    /\ decided' = NoDecision
    /\ UNCHANGED <<library, prefs, habit, asks, edits, restarts, sent, choice>>

\* Habits come back from the usage database if the build has it.
Restart ==
    /\ restarts < MaxRestarts
    /\ restarts' = restarts + 1
    /\ tab' = [s \in Session |-> NewTab("open", Other)]
    /\ habit' \in {habit, [p \in Prompt |-> <<>>]}
    /\ sent' = [s \in Session |-> [p \in Prompt |-> NothingSent]]
    /\ decided' = NoDecision
    /\ UNCHANGED <<library, prefs, asks, edits, choice>>

Next ==
    \/ \E s \in Session, p \in Prompt : Ask(s, p)
    \/ \E s \in Session : Reply(s) \/ Blank(s) \/ CooldownEnds(s)
    \/ \E s \in Session, k \in Key : on_onekey_select(s, k)
    \/ \E s \in Session, new \in {{}} \cup {{k} : k \in Key} : on_onekey_save(s, new)
    \/ \E s \in Session, reason \in {"cancel", "focus"} : dismiss_onekey_popup(s, reason)
    \/ \E s \in Session : Type(s) \/ Enter(s)
    \/ \E lib \in SUBSET Key : EditLibrary(lib)
    \/ \E s \in Session : ChannelCloses(s) \/ Disconnected(s) \/ reconnect_session(s)
    \/ Restart

Spec == Init /\ [][Next]_vars

-----------------------------------------------------------------------------
(* Properties                                                                 *)

Submits == decided'.kind = "submitted"
Rejects == decided'.kind = "rejected"

\* What is submitted without asking is what the user chose at this very prompt:
\* among several entries, or twice in a row; and since the last time the remote
\* answered that choice by asking the same prompt again. (A library that has not
\* recognised that prompt all the time cannot tell that it is the same.)
AutoIsEarned ==
    [][Submits =>
         LET c == choice'[decided'.prompt] IN
         \/ c.among = decided'.key
         \/ c.key = decided'.key /\ c.times = 2]_vars

\* What the remote did not ask again is neither rejected nor answered again. A choice
\* is held against the user only if its prompt came after the submission: another
\* prompt the same pattern matches is no rejection, nor is the answered prompt still on
\* the screen while it is fresh. And one prompt is answered without asking once: the
\* next submission needs a new prompt, or a library that for a while did not recognise
\* the one that was answered.
OnlyNewPromptsCount ==
    [][/\ Rejects =>
            LET e == sent[decided'.session][decided'.prompt] IN
            /\ e.key = decided'.key
            /\ \/ e.since \in {"again", "later"} \/ e.lapsed
               \/ asks' # asks /\ tab'[decided'.session].line = decided'.prompt
       /\ Submits =>
            \A p \in Prompt :
               LET e == sent[decided'.session][p] IN
               e.key # None /\ e.since = "nothing" /\ e.known => asks' # asks]_vars
=============================================================================
