---------------------------- MODULE FileDownload ----------------------------
(***************************************************************************)
(* What a download from the remote `sz` promises the user: a file is only  *)
(* received after it was offered and a place for it was chosen, what is    *)
(* kept of it only grows, and the transfer is only reported as done when   *)
(* all of it is kept. A transfer may be given up at any moment.            *)
(***************************************************************************)
EXTENDS Naturals

CONSTANT Total      \* the length of the file, in blocks

VARIABLES stage,    \* what the user was told
          kept      \* how much of the file is on disk

vars == <<stage, kept>>

Stages == {"none", "offered", "accepted", "finished"}

TypeOK == stage \in Stages /\ kept \in 0..Total

Init == stage = "none" /\ kept = 0

Offer == stage \in {"none", "finished"} /\ stage' = "offered" /\ kept' = 0

Accept == stage = "offered" /\ stage' = "accepted" /\ UNCHANGED kept

Keep ==
    /\ stage = "accepted"
    /\ kept' \in (kept + 1)..Total
    /\ UNCHANGED stage

\* The end may come with the last blocks.
Finish ==
    /\ stage = "accepted"
    /\ kept' = Total
    /\ stage' = "finished"

GiveUp == stage' = "none" /\ kept' = 0

Next == Offer \/ Accept \/ Keep \/ Finish \/ GiveUp

Spec == Init /\ [][Next]_vars
=============================================================================
