----------------------------- MODULE ZmodemLink -----------------------------
(***************************************************************************)
(* A terminal session and the remote it talks to: at a shell prompt, or    *)
(* running `sz` (the remote sends a file) or `rz` (it receives one). The   *)
(* remote's programs are not part of the repository; they are modelled     *)
(* from what session.rs expects of them and may be interrupted or killed   *)
(* at any moment. Output reaches the bridge in chunks of any size.         *)
(***************************************************************************)
EXTENDS Zmodem

CONSTANTS Total,        \* length of the file the remote sends, in blocks
          Uploads,      \* lengths of the files the user may upload
          Created,      \* whether a chosen file can be created
          SkipAnytime,  \* may any `rz` skip its file, or only the last program
          MaxRuns,      \* how many programs are started
          MaxChunk      \* frames in one chunk of output

ASSUME LinkAssumption ==
    /\ Total \in Nat /\ Uploads \subseteq Nat
    /\ Created \subseteq BOOLEAN /\ SkipAnytime \in BOOLEAN
    /\ MaxRuns \in Nat /\ MaxChunk \in Nat \ {0}

VARIABLES
    toHost,     \* output on its way to the bridge
    peer,       \* the program the remote runs
    runs        \* how many it has started

linkVars == <<bridge, toHost, peer, runs>>

\* pc: where the program is. next: the next block `sz` sends. got: what `rz`
\* has received. inFrame: `rz` expects another data subframe.
Shell == [prog |-> "shell", pc |-> "prompt", next |-> 0, got |-> <<>>,
          inFrame |-> FALSE]

LinkInit ==
    /\ InitBridge
    /\ toHost = <<>>
    /\ peer = Shell
    /\ runs = 0

Says(frames) == toHost' = toHost \o frames
At(p) == peer' = [peer EXCEPT !.pc = p]

-----------------------------------------------------------------------------
(* The remote.                                                             *)

IsMetaFrame(f) == f.type = "DATA" /\ f.body = MetaBlock

\* Frames that open a dialog: the metadata of a file, and `rz` saying it is ready.
OpensDialog(f) == IsMetaFrame(f) \/ f.type = "ZRINIT"

\* A program is started: no dialog is open or about to be, and the shell has
\* read what was typed before.
Start(prog) ==
    /\ peer.prog = "shell" /\ runs < MaxRuns
    /\ saveDialogs = 0 /\ openDialogs = 0 /\ toPeer = <<>>
    /\ \A i \in DOMAIN toHost : ~OpensDialog(toHost[i])
    /\ runs' = runs + 1
    /\ peer' = [Shell EXCEPT !.prog = prog, !.pc = "start"]
    /\ Says(<<Header(IF prog = "sz" THEN "ZRQINIT" ELSE "ZRINIT", 0)>>)
    /\ UNCHANGED bridge

\* The shell prints a prompt, or a lot of output.
ShellPrints ==
    /\ peer.prog = "shell" /\ toHost = <<>>
    /\ \E t \in {"TEXT", "FLOOD"} : Says(<<Header(t, 0)>>)
    /\ UNCHANGED <<bridge, peer, runs>>

Read == toPeer # <<>> /\ toPeer' = Tail(toPeer)
In == Head(toPeer)

\* `rz` is told that the file it receives is complete.
EndOfUpload ==
    /\ peer.prog = "rz" /\ peer.pc = "data" /\ ~peer.inFrame
    /\ toPeer # <<>> /\ In.type = "ZEOF"

ShellReads ==
    /\ peer.prog = "shell" /\ Read
    /\ UNCHANGED <<session, writer, disk, saveDialogs, openDialogs, outcome,
                   toHost, peer, runs>>

SzReads ==
    /\ peer.prog = "sz" /\ Read
    /\ \/ /\ peer.pc = "start" /\ In.type = "ZRINIT"
          /\ At("asked")
          /\ Says(<<Header("ZFILE", 0), Data(MetaBlock, "AckEnd")>>)
       \/ /\ peer.pc = "asked" /\ In.type = "ZRPOS"
          /\ peer' = [peer EXCEPT !.pc = "stream", !.next = In.pos + 1]
          /\ Says(<<Header("ZDATA", In.pos)>>)
       \/ /\ peer.pc = "ended" /\ In.type = "ZFIN"
          /\ peer' = Shell
          /\ Says(<<Header("ZFIN", 0)>>)
       \/ /\ <<peer.pc, In.type>> \notin
               {<<"start", "ZRINIT">>, <<"asked", "ZRPOS">>, <<"ended", "ZFIN">>}
          /\ UNCHANGED <<peer, toHost>>
    /\ UNCHANGED <<session, writer, disk, saveDialogs, openDialogs, outcome, runs>>

SzStreams ==
    /\ peer.prog = "sz" /\ peer.pc = "stream"
    /\ IF peer.next > Total
       THEN /\ Says(<<Header("ZEOF", Total)>>)
            /\ At("ended")
       ELSE /\ \E e \in IF peer.next = Total THEN {"End", "AckEnd"}
                        ELSE {"Continue", "AckContinue"} :
                  Says(<<Data(peer.next, e)>>)
            /\ peer' = [peer EXCEPT !.next = peer.next + 1]
    /\ UNCHANGED <<bridge, runs>>

\* What the program does not expect, it ignores.
RzReads ==
    /\ peer.prog = "rz" /\ Read
    /\ \/ /\ peer.pc = "start" /\ IsMetaFrame(In)
          /\ At("data")
          /\ Says(<<Header("ZRPOS", 0)>>)
       \/ /\ peer.pc = "data" /\ In.type = "DATA"
          /\ peer' = [peer EXCEPT !.got = Append(peer.got, In.body),
                                  !.inFrame = In.end \in {"Continue", "AckContinue"}]
          /\ Says(IF In.end \in {"AckContinue", "AckEnd"}
                  THEN <<Header("ZACK", 0)>> ELSE <<>>)
       \/ /\ EndOfUpload
          /\ At("ended")
          /\ Says(<<Header("ZFIN", 0)>>)
       \/ /\ peer.pc = "ended" /\ In.type = "ZFIN"
          /\ peer' = Shell
          /\ UNCHANGED toHost
       \/ /\ ~(peer.pc = "start" /\ IsMetaFrame(In))
          /\ ~(peer.pc = "data" /\ In.type = "DATA")
          /\ ~EndOfUpload
          /\ ~(peer.pc = "ended" /\ In.type = "ZFIN")
          /\ UNCHANGED <<peer, toHost>>
    /\ UNCHANGED <<session, writer, disk, saveDialogs, openDialogs, outcome, runs>>

\* `rz` does not want the file it was offered.
RzSkips ==
    /\ SkipAnytime \/ runs = MaxRuns
    /\ peer.prog = "rz" /\ peer.pc = "start" /\ Read
    /\ IsMetaFrame(In)
    /\ Says(<<Header("ZSKIP", 0)>>)
    /\ At("ended")
    /\ UNCHANGED <<session, writer, disk, saveDialogs, openDialogs, outcome, runs>>

\* The user interrupts the program, which says so, or it is killed.
Interrupted ==
    /\ peer.prog # "shell"
    /\ peer' = Shell
    /\ \/ Says(<<Header("CAN", 0)>>)
       \/ UNCHANGED toHost
    /\ UNCHANGED <<bridge, runs>>

-----------------------------------------------------------------------------
(* The terminal session.                                                   *)

Output ==
    \E n \in 1..MaxChunk :
        /\ n <= Len(toHost)
        /\ process_output(SubSeq(toHost, 1, n))
        /\ toHost' = SubSeq(toHost, n + 1, Len(toHost))
        /\ UNCHANGED <<peer, runs>>

Dialogs ==
    /\ \/ \E path \in Paths, created \in Created : SaveConfirmed(path, created)
       \/ SaveDismissed
       \/ \E n \in Uploads : OpenConfirmed(n)
       \/ OpenDismissed
    /\ UNCHANGED <<toHost, peer, runs>>

\* The connection is lost, and made again.
Disconnect ==
    /\ remove
    /\ toHost' = <<>> /\ toPeer' = <<>>
    /\ peer' = Shell
    /\ UNCHANGED runs

LinkNext ==
    \/ \E prog \in {"sz", "rz"} : Start(prog)
    \/ ShellPrints \/ ShellReads
    \/ SzReads \/ SzStreams \/ RzReads \/ RzSkips
    \/ Interrupted
    \/ Output \/ Dialogs \/ Disconnect

LinkSpec == LinkInit /\ [][LinkNext]_linkVars

-----------------------------------------------------------------------------
(* Properties.                                                             *)

SessionRecords ==
    [phase : Phases, direction : {"Receive", "Send"},
     detector : {"idle", "data", "jammed"}, armed : BOOLEAN, named : BOOLEAN,
     bytes : Nat, data_offset : Nat, payload : Nat, send_offset : Nat,
     to_pty : {<<>>}, events : {<<>>}]

\* The bridge is well-typed, and nothing the session wanted to send or to
\* report is left in it between two steps.
LinkTypeOK ==
    /\ session = NoSession \/ session \in SessionRecords
    /\ writer \in Paths \union {NoFile}
    /\ \A p \in Paths : disk[p] \in Seq(Nat)
    /\ saveDialogs \in Nat /\ openDialogs \in Nat
    /\ outcome.how \in {"none", "Receive", "Send", "Cancelled"}
    /\ outcome.path \in Paths \union {NoFile}

IsPrefixOfFile(blocks) == \A i \in DOMAIN blocks : blocks[i] = i

\* What a download puts on disk is a prefix of the remote's file, whatever the
\* chunks, interruptions, kills and disconnects: no block twice, none missing,
\* never the metadata (session.rs, handle_data and zmodem.rs, dispatch_event).
KeptIsPrefix ==
    \A p \in Paths : Len(disk[p]) <= Total /\ IsPrefixOfFile(disk[p])

\* A file the remote's `rz` was told the end of is the file that was picked: the
\* blocks since its ZRPOS are all there, in order (session.rs,
\* pump_send_blocks).
UploadIsWhole ==
    EndOfUpload => Len(peer.got) = In.pos /\ IsPrefixOfFile(peer.got)

\* Files arrive as they are, in either direction, as far as they arrive.
FilesArrive == KeptIsPrefix /\ UploadIsWhole

-----------------------------------------------------------------------------
(* A download is what FileDownload says.                                   *)

stage ==
    IF session.phase = "AwaitSavePath" /\ session.named THEN "offered"
    ELSE IF session.phase = "Receiving" THEN "accepted"
    ELSE IF outcome.how = "Receive" /\ outcome.path # NoFile THEN "finished"
    ELSE "none"

kept ==
    LET path == IF stage = "accepted" THEN writer
                ELSE IF stage = "finished" THEN outcome.path ELSE NoFile
    IN  IF path = NoFile THEN 0 ELSE Len(disk[path])

Download == INSTANCE FileDownload WITH stage <- stage, kept <- kept, Total <- Total
DownloadSpec == Download!Spec
=============================================================================
