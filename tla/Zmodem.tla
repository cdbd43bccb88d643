------------------------------- MODULE Zmodem -------------------------------
(***************************************************************************)
(* File transfers inside one terminal session: the protocol state machine  *)
(* (crates/rusterm-zmodem, session.rs and parser.rs) and the bridge that   *)
(* feeds it terminal output and turns its events into file dialogs and     *)
(* writes (crates/rusterm-ui/src/zmodem.rs).                               *)
(*                                                                         *)
(* A chunk of output may hold several frames. All of them are handled,     *)
(* then the answers are sent, then the events are dispatched, in one step  *)
(* of the event loop; only the dialogs answer later. The unit of data is a *)
(* block: one data subframe, of one byte as far as offsets are concerned.  *)
(***************************************************************************)
EXTENDS Naturals, Sequences

CONSTANTS Paths,        \* local files the user may pick in a save dialog
          NoFile        \* no writer is installed

ASSUME PathsAssumption == NoFile \notin Paths

VARIABLES
    session,        \* the ZmodemSession of the terminal session, if any
    writer,         \* writers: the file that data is written to
    disk,           \* the contents of the local files, block by block
    saveDialogs,    \* save dialogs the user has not answered
    openDialogs,    \* open dialogs the user has not answered
    toPeer,         \* frames sent to the remote and not read by it
    outcome         \* how the last transfer ended, and the file it was for

bridge == <<session, writer, disk, saveDialogs, openDialogs, toPeer, outcome>>

Header(t, p) == [type |-> t, pos |-> p]
Data(b, e) == [type |-> "DATA", body |-> b, end |-> e]

\* Block 0 is the name and size that follow a ZFILE header.
MetaBlock == 0

Phases == {"Init", "AwaitFile", "AwaitSavePath", "Receiving", "AwaitRpos",
           "Sending", "Done", "Cancelled"}

\* detector: "idle" between frames, "data" where a data subframe is expected,
\* "jammed" when something else came there: the detector then looks for the
\* end of a subframe that will never check out.
\* armed: a frame was seen, so what is not a frame is no longer rendered.
New == [phase |-> "Init", direction |-> "Receive", detector |-> "idle",
        armed |-> FALSE, named |-> FALSE, bytes |-> 0, data_offset |-> 0,
        payload |-> 0, send_offset |-> 0, to_pty |-> <<>>, events |-> <<>>]

NoSession == [phase |-> "none"]

Send(s, f) == [s EXCEPT !.to_pty = Append(s.to_pty, f)]
Emit(s, e) == [s EXCEPT !.events = Append(s.events, e)]
Enter(s, p) == [s EXCEPT !.phase = p]

-----------------------------------------------------------------------------
(* The protocol, session.rs.                                               *)

\* Mutant: the last block counts as sent before it is.
pump_send_blocks_EndsEarly(s) ==
    IF s.send_offset + 1 >= s.payload
    THEN Send(s, Header("ZEOF", s.payload))
    ELSE LET end == s.send_offset + 1
         IN  [Send(Send(s, Header("ZDATA", s.send_offset)),
                   Data(end, "AckContinue"))
                EXCEPT !.send_offset = end, !.bytes = end]

\* One block for each acknowledgement, each after a ZDATA header of its own.
pump_send_blocks(s) ==
    IF s.send_offset >= s.payload
    THEN Send(s, Header("ZEOF", s.payload))
    ELSE LET end == s.send_offset + 1
         IN  [Send(Send(s, Header("ZDATA", s.send_offset)),
                   Data(end, IF end = s.payload THEN "AckEnd" ELSE "AckContinue"))
                EXCEPT !.send_offset = end, !.bytes = end]

Finished(s, direction) ==
    Emit(Enter(s, "Done"), [type |-> "Done", direction |-> direction])

handle_header(s, f) ==
    CASE s.phase = "Init" /\ f.type = "ZRQINIT" ->
            Send(Emit([s EXCEPT !.phase = "AwaitFile", !.direction = "Receive"],
                      [type |-> "ReceiveOffered"]),
                 Header("ZRINIT", 0))
      [] s.phase = "Init" /\ f.type = "ZRINIT" ->
            Emit([s EXCEPT !.direction = "Send"], [type |-> "SendOffered"])
      [] s.phase = "AwaitFile" /\ f.type = "ZFILE" -> Enter(s, "AwaitSavePath")
      [] s.phase = "AwaitRpos" /\ f.type = "ZRPOS" ->
            pump_send_blocks([s EXCEPT !.send_offset = f.pos, !.phase = "Sending"])
      [] s.phase = "Receiving" /\ f.type = "ZDATA" ->
            [s EXCEPT !.data_offset = f.pos]
      [] s.phase = "Sending" /\ f.type = "ZACK" -> pump_send_blocks(s)
      [] s.phase = "Receiving" /\ f.type = "ZEOF" ->
            Finished(Send(s, Header("ZFIN", 0)), "Receive")
      [] f.type = "ZFIN" ->
            Finished(IF s.phase # "Done" THEN Send(s, Header("ZFIN", 0)) ELSE s,
                     s.direction)
      [] f.type = "ZSKIP" -> Emit(Enter(s, "Init"), [type |-> "Skipped"])
      [] OTHER -> s

\* Mutant: the name that was already received is not looked at.
IsMetadata_IgnoresName(s) ==
    s.phase \in {"Receiving", "AwaitSavePath"} /\ s.bytes = 0

\* The first data of a transfer is the metadata of the file.
IsMetadata(s) ==
    s.phase \in {"Receiving", "AwaitSavePath"} /\ ~s.named /\ s.bytes = 0

handle_data(s, f) ==
    IF IsMetadata(s)
    THEN Emit([s EXCEPT !.named = TRUE], [type |-> "FileOffer"])
    ELSE LET got == Emit([s EXCEPT !.bytes = s.data_offset + 1],
                         [type |-> "DataReceived", body |-> f.body])
         IN  IF f.end \in {"AckContinue", "AckEnd"}
             THEN Send(got, Header("ZACK", s.data_offset))
             ELSE got

\* One unit of output, through the detector (parser.rs). A cancel is eight CAN
\* bytes. Text is anything that is no frame; more than 64 KiB of it overflow a
\* detector that waits for data.
feed(s, f) ==
    CASE s.detector # "idle" /\ f.type = "FLOOD" -> [s EXCEPT !.detector = "idle"]
      [] s.detector = "jammed" /\ f.type # "FLOOD" -> s
      [] s.detector = "data" /\ f.type = "DATA" ->
            handle_data([s EXCEPT !.detector =
                             IF f.end \in {"End", "AckEnd"} THEN "idle" ELSE "data"],
                        f)
      [] s.detector = "data" /\ f.type \notin {"DATA", "FLOOD"} ->
            [s EXCEPT !.detector = "jammed"]
      [] s.detector = "idle" /\ f.type = "CAN" ->
            Emit(Enter([s EXCEPT !.armed = FALSE], "Cancelled"),
                 [type |-> "Cancelled"])
      [] s.detector = "idle" /\ f.type \in {"DATA", "TEXT", "FLOOD"} -> s
      [] OTHER ->
            handle_header(
                [s EXCEPT !.armed = TRUE,
                          !.detector = IF f.type \in {"ZFILE", "ZDATA"}
                                       THEN "data" ELSE "idle"],
                f)

\* The user chose where to save: the sender may stream.
set_save_path(s) ==
    IF s.phase = "AwaitSavePath"
    THEN Send(Enter(s, "Receiving"), Header("ZRPOS", 0))
    ELSE s

begin_send(s, n) ==
    Send(Send([s EXCEPT !.direction = "Send", !.phase = "AwaitRpos",
                        !.payload = n, !.named = TRUE],
              Header("ZFILE", 0)),
         Data(MetaBlock, "AckEnd"))

-----------------------------------------------------------------------------
(* The bridge, rusterm-ui/src/zmodem.rs.                                   *)

\* The parts of the state that events act on.
Bridge == [session |-> session, writer |-> writer, disk |-> disk,
           save |-> saveDialogs, open |-> openDialogs, outcome |-> outcome]

NoOutcome == [how |-> "none", path |-> NoFile]

Removed(b, how) ==
    [b EXCEPT !.session = NoSession, !.writer = NoFile,
              !.outcome = [how |-> how, path |-> b.writer]]

dispatch_event(b, e) ==
    CASE e.type = "SendOffered" -> [b EXCEPT !.open = @ + 1]
      [] e.type = "FileOffer" -> [b EXCEPT !.save = @ + 1, !.outcome = NoOutcome]
      [] e.type = "DataReceived" ->
            IF b.writer = NoFile THEN b
            ELSE [b EXCEPT !.disk[b.writer] = Append(@, e.body)]
      [] e.type = "Done" -> Removed(b, e.direction)
      [] e.type = "Cancelled" -> Removed(b, "Cancelled")
      [] OTHER -> b

\* Mutant: the events are copied out of the session instead of taken.
Drained_KeepsEvents(s) ==
    IF s = NoSession THEN s ELSE [s EXCEPT !.to_pty = <<>>]

\* The session once its answers and events are taken.
Drained(s) ==
    IF s = NoSession THEN s ELSE [s EXCEPT !.to_pty = <<>>, !.events = <<>>]

\* The session after a chunk of output, frame by frame.
FeedAll(s, chunk) ==
    LET fed[n \in 0..Len(chunk)] == IF n = 0 THEN s ELSE feed(fed[n - 1], chunk[n])
    IN  fed[Len(chunk)]

DispatchAll(b, events) ==
    LET done[n \in 0..Len(events)] ==
            IF n = 0 THEN b ELSE dispatch_event(done[n - 1], events[n])
    IN  done[Len(events)]

\* The session that output is fed to: one is made where there is none.
session_for == IF session = NoSession THEN New ELSE session

\* A chunk of output arrives.
process_output(chunk) ==
    LET s == FeedAll(session_for, chunk)
        b == DispatchAll([Bridge EXCEPT !.session = Drained(s)], s.events)
    IN  /\ session' = b.session
        /\ writer' = b.writer
        /\ disk' = b.disk
        /\ saveDialogs' = b.save
        /\ openDialogs' = b.open
        /\ outcome' = b.outcome
        /\ toPeer' = toPeer \o s.to_pty

\* What a dialog makes the session send, when there still is one.
Answer(s) ==
    IF session = NoSession
    THEN UNCHANGED <<session, toPeer>>
    ELSE /\ session' = Drained(s)
         /\ toPeer' = toPeer \o s.to_pty

\* The session asks for the data before the file is created; when it cannot be
\* created that is only logged.
install_receive_path(path, created) ==
    /\ Answer(set_save_path(session))
    /\ IF created
       THEN /\ writer' = path
            /\ disk' = [disk EXCEPT ![path] = <<>>]
       ELSE UNCHANGED <<writer, disk>>

SaveConfirmed(path, created) ==
    /\ saveDialogs > 0
    /\ saveDialogs' = saveDialogs - 1
    /\ install_receive_path(path, created)
    /\ UNCHANGED <<openDialogs, outcome>>

\* A file of n blocks was picked and read.
OpenConfirmed(n) ==
    /\ openDialogs > 0
    /\ openDialogs' = openDialogs - 1
    /\ Answer(begin_send(session, n))
    /\ UNCHANGED <<writer, disk, saveDialogs, outcome>>

\* A dialog that is dismissed tells the remote nothing.
SaveDismissed ==
    /\ saveDialogs > 0
    /\ saveDialogs' = saveDialogs - 1
    /\ UNCHANGED <<session, writer, disk, openDialogs, toPeer, outcome>>

OpenDismissed ==
    /\ openDialogs > 0
    /\ openDialogs' = openDialogs - 1
    /\ UNCHANGED <<session, writer, disk, saveDialogs, toPeer, outcome>>

\* The terminal session disconnects.
remove ==
    /\ session' = NoSession
    /\ writer' = NoFile
    /\ UNCHANGED <<disk, saveDialogs, openDialogs, outcome>>

InitBridge ==
    /\ session = NoSession
    /\ writer = NoFile
    /\ disk = [p \in Paths |-> <<>>]
    /\ saveDialogs = 0 /\ openDialogs = 0
    /\ toPeer = <<>>
    /\ outcome = NoOutcome
=============================================================================
