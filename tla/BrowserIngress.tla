---------------------------- MODULE BrowserIngress ----------------------------
(***************************************************************************)
(* The server's end of a formal recording that a browser sends: numbered   *)
(* frames over a WebSocket into the archive of one capture, each           *)
(* acknowledged once it is durable, and two control messages, by which the *)
(* page reports that audio is missing or that a recovery is done.          *)
(***************************************************************************)
EXTENDS Naturals, SequencesExt, FiniteSetsExt

VARIABLES
    status,     \* recording_status of the capture
    log,        \* the frames in the archive: chunk i is the frame with sequence i
    socket,     \* is there a socket that the page listens to?
    up, down,   \* what is on its way on it, to the server and to the page
    late        \* what was on its way on earlier sockets and may still be handled

ingressVars == <<status, log, socket, up, down, late>>

Frame(s, c) == [type |-> "frame", seq |-> s, chunk |-> c]
Incomplete == [type |-> "capture_incomplete", seq |-> 0, chunk |-> 0]
RecoveryComplete(s) == [type |-> "capture_recovery_complete", seq |-> s, chunk |-> 0]

Reply(type, s) == [type |-> type, seq |-> s]
Ack(s) == <<Reply("ack", s)>>
Close == <<Reply("close", 0)>>
Told == <<Reply("capture_incomplete_ack", 0)>> \o Close

IngressInit ==
    /\ status = "CAPTURING" /\ log = <<>>
    /\ socket = FALSE /\ up = <<>> /\ down = <<>> /\ late = {}

--------------------------------------------------------------------------------
(* What the handler of a socket does with a message and answers. A frame of an  *)
(* INCOMPLETE capture is appended like one of a running capture: a recovery may *)
(* be under way.                                                                *)

Repeated(m, answer) ==
    /\ m.type = "frame" /\ m.seq \in DOMAIN log /\ log[m.seq] = m.chunk
    /\ answer = Ack(m.seq)
    /\ UNCHANGED <<status, log>>

Appended(m, answer) ==
    /\ m.type = "frame" /\ m.seq = Len(log) + 1
    /\ status # "COMPLETE"
    /\ log' = Append(log, m.chunk)
    /\ answer = Ack(m.seq)
    /\ UNCHANGED status

\* The next frame of a COMPLETE capture. The page is not told why.
TooLate(m, answer) ==
    /\ m.type = "frame" /\ m.seq = Len(log) + 1
    /\ status = "COMPLETE"
    /\ answer = Close
    /\ UNCHANGED <<status, log>>

\* Also of a COMPLETE capture.
Discontinuous(m, answer) ==
    /\ m.type = "frame"
    /\ IF m.seq \in DOMAIN log THEN log[m.seq] # m.chunk ELSE m.seq # Len(log) + 1
    /\ status' = "INCOMPLETE"
    /\ answer = Told
    /\ UNCHANGED log

Marked(m, answer) ==
    /\ m.type = "capture_incomplete"
    /\ IF status = "COMPLETE" THEN answer = Close ELSE answer = Told
    /\ status' = IF status = "COMPLETE" THEN "COMPLETE" ELSE "INCOMPLETE"
    /\ UNCHANGED log

Completed(m, answer) ==
    /\ m.type = "capture_recovery_complete"
    /\ IF status # "CAPTURING" /\ m.seq = Len(log) + 1
         THEN answer = <<Reply("capture_recovery_complete_ack", 0)>> /\ status' = "COMPLETE"
         ELSE answer = Close /\ UNCHANGED status
    /\ UNCHANGED log

Handle(m, answer) ==
    \/ Repeated(m, answer) \/ Appended(m, answer) \/ TooLate(m, answer)
    \/ Discontinuous(m, answer) \/ Marked(m, answer) \/ Completed(m, answer)

\* The disk is full or fails, or recognition cannot take a recovered capture.
HandleFails(m, answer) ==
    /\ \/ /\ m.type = "frame" /\ m.seq = Len(log) + 1 /\ status # "COMPLETE"
          /\ status' = "INCOMPLETE" /\ answer = Told
       \/ /\ m.type = "capture_recovery_complete"
          /\ answer = Close /\ UNCHANGED status
    /\ UNCHANGED log

Answers(m) == {Ack(m.seq), Close, Told, <<Reply("capture_recovery_complete_ack", 0)>>}

--------------------------------------------------------------------------------
Closing == Reply("close", 0) \in Range(down)

\* A handler that has closed its socket reads no more from it.
Served(m, answer) ==
    /\ socket /\ up # <<>> /\ ~Closing
    /\ m = Head(up) /\ up' = Tail(up)
    /\ down' = down \o answer
    /\ UNCHANGED <<socket, late>>

Receive == \E m \in ToSet(up) : \E answer \in Answers(m) : Served(m, answer) /\ Handle(m, answer)

ReceiveFails ==
    \E m \in ToSet(up) : \E answer \in Answers(m) : Served(m, answer) /\ HandleFails(m, answer)

\* The handler of an earlier socket goes on with what it had begun or received.
ReceiveLate ==
    \E m \in late :
       /\ \E answer \in Answers(m) : Handle(m, answer)
       /\ late' = late \ {m}
       /\ UNCHANGED <<socket, up, down>>

OpenSocket == ~socket /\ socket' = TRUE /\ UNCHANGED <<status, log, up, down, late>>

\* After a control message nothing more is read.
Unheard ==
    IF Closing THEN {}
    ELSE {up[i] : i \in {j \in DOMAIN up : \A k \in 1..j - 1 : up[k].type = "frame"}}

\* Its answers will not be read, and its handler may go on for a while.
Leave ==
    /\ up' = <<>> /\ down' = <<>>
    /\ late' = late \cup Unheard
    /\ UNCHANGED <<status, log>>

\* Whoever closes it, and whatever was on its way.
CloseSocket == Leave /\ socket' = FALSE

\* The page listens to another one from now on. The server serves both.
Supersede == Leave /\ socket /\ UNCHANGED socket

Post(m) == up' = Append(up, m) /\ UNCHANGED <<status, log, socket, down, late>>

\* The capture loop ends and the archive is finalized, which leaves an INCOMPLETE
\* capture as it is.
Finish ==
    /\ status' = IF status = "CAPTURING" THEN "COMPLETE" ELSE status
    /\ UNCHANGED <<log, socket, up, down, late>>

\* The capture is resumed, or cannot be.
RestartServer ==
    /\ status' \in IF status = "CAPTURING" THEN {"CAPTURING", "INCOMPLETE"} ELSE {status}
    /\ socket' = FALSE /\ up' = <<>> /\ down' = <<>> /\ late' = {}
    /\ UNCHANGED log
================================================================================
