--------------------------- MODULE BrowserTransport ---------------------------
(***************************************************************************)
(* A formal recording in the browser. Each piece of sound becomes a frame  *)
(* in IndexedDB before it is sent and stays there until the server has     *)
(* acknowledged it. Sockets come and go, the page may be reloaded, and a   *)
(* capture that has become INCOMPLETE can be completed with what the       *)
(* browser still holds.                                                    *)
(***************************************************************************)
EXTENDS BrowserIngress

CONSTANT Scenarios  \* bounds of a behaviour: pieces of sound, how much goes wrong, and what

VARIABLES
    outbox,     \* IndexedDB: the frames that are not acknowledged, by sequence
    cursor,     \* IndexedDB: the sequence of the next frame
    page,       \* the streamer of the page, or its recovery
    sounds,     \* history: the sequence of each piece of sound, 0 if it was not stored
    happened,   \* history: what has gone wrong
    troubles,   \* how often
    scenario    \* one of the Scenarios: never changes

vars == <<ingressVars, outbox, cursor, page, sounds, happened, troubles, scenario>>

NoFrame == [seq |-> 0, chunk |-> 0]
NoPage == [at |-> "closed",     \* closed, starting, open, stopped, finished, recovering
           mic |-> FALSE,       \* is the microphone open?
           stopping |-> FALSE,  \* the microphone is off, and stop waits for the outbox
           failed |-> FALSE,    \* audio is missing: nothing more is recorded
           bypass |-> FALSE,    \* and the server may be told before the outbox is empty
           marker |-> "none",   \* of that report: none, sent, confirmed
           next |-> 1,          \* sequence of the next frame
           writing |-> FALSE,   \* a frame is stored, and the cursor not yet
           inFlight |-> 0,      \* the frame that waits for its acknowledgement
           timed |-> FALSE,     \* with a timer: it was sent on the present socket
           deaf |-> FALSE,      \* is an answer due on a socket it no longer listens to?
           acking |-> 0,        \* the frame being deleted
           pump |-> "idle",     \* of pumpFormalOutbox: idle, reading, read
           waits |-> {},        \* who waits for it: start, loss (a handler), reconnect
           read |-> NoFrame,    \* the frame it has read
           retry |-> FALSE,     \* is there a timer for another connection?
           opening |-> 0]       \* the connections of reconnect that are under way

Init ==
    /\ IngressInit
    /\ outbox = <<>> /\ cursor = 1
    /\ page = NoPage
    /\ sounds = <<>> /\ happened = {}
    /\ troubles = 0
    /\ scenario \in Scenarios

Trouble(kinds) ==
    /\ \E kind \in kinds : kind \in scenario.kinds
    /\ troubles < scenario.troubles
    /\ troubles' = troubles + 1
    /\ happened' = happened \cup kinds
    /\ UNCHANGED scenario
NoTrouble == UNCHANGED <<happened, troubles, scenario>>

Stored == UNCHANGED <<outbox, cursor>>

\* A frame may have been stored without the number of its successor.
Reconciled == Max({cursor} \cup {s + 1 : s \in DOMAIN outbox})

Oldest == IF outbox = <<>> THEN NoFrame
          ELSE LET s == Min(DOMAIN outbox) IN [seq |-> s, chunk |-> outbox[s]]
With(s, c) == [n \in DOMAIN outbox \cup {s} |-> IF n = s THEN c ELSE outbox[n]]
Without(s) == [n \in DOMAIN outbox \ {s} |-> outbox[n]]

--------------------------------------------------------------------------------
(* What the handlers of the page do to its state. *)

\* A call of pumpFormalOutbox while one is under way waits for that one, and shares
\* its failure.
Pumped(p, who) ==
    IF p.pump # "idle"
      THEN [p EXCEPT !.waits = @ \cup who]
      ELSE IF p.at = "open" /\ p.marker # "confirmed" /\ p.inFlight = 0 /\ socket'
             THEN [p EXCEPT !.pump = "reading", !.waits = who]
             ELSE p

\* Whether or not a connection is under way already.
Rescheduled(p) == [p EXCEPT !.retry = @ \/ p.marker # "confirmed"]

Failed(p, bypass) ==
    IF p.at = "open"
      THEN LET failed == [p EXCEPT !.failed = TRUE, !.bypass = @ \/ bypass]
           IN IF socket' THEN Pumped(failed, {}) ELSE Rescheduled(failed)
      ELSE p

\* Mutant: a report that was sent is not repeated on another socket.
UnpluggedMutant(p) == Rescheduled([p EXCEPT !.inFlight = 0, !.timed = FALSE, !.deaf = FALSE])

Unplugged(p) ==
    Rescheduled([p EXCEPT !.inFlight = 0, !.timed = FALSE, !.deaf = FALSE,
                          !.marker = IF @ = "sent" THEN "none" ELSE @])

OpeningFailed(p) == [p EXCEPT !.opening = @ - 1, !.retry = TRUE]

\* A stop begins. The connection that was opened last is closed if it is still under way.
Stopping(p) ==
    LET stopping == [p EXCEPT !.stopping = TRUE]
    IN {stopping} \cup IF p.opening > 0 THEN {OpeningFailed(stopping)} ELSE {}

--------------------------------------------------------------------------------
(* Start and recording. *)

\* When the status says that the capture runs, and no other tab has the lease. A stop
\* that got no further is taken back.
Start ==
    /\ page.at \in {"closed", "stopped"} /\ status = "CAPTURING"
    /\ page' = [NoPage EXCEPT !.at = "starting", !.next = Reconciled]
    /\ cursor' = Reconciled
    /\ UNCHANGED <<ingressVars, outbox, sounds>> /\ NoTrouble

\* No socket, or no microphone. The page stops, and reports what it can.
StartFails ==
    /\ Trouble({"start"})
    /\ page.at \in {"starting", "open"} /\ ~page.mic /\ ~page.stopping
    /\ "start" \notin page.waits
    /\ UNCHANGED <<ingressVars, sounds>> /\ Stored
    /\ \E p \in Stopping([page EXCEPT !.at = "open"]) : page' = Failed(p, FALSE)

Connect ==
    /\ page.at = "starting"
    /\ OpenSocket
    /\ page' = Pumped([page EXCEPT !.at = "open"], {"start"})
    /\ UNCHANGED sounds /\ Stored /\ NoTrouble

\* Only after the frames of an earlier visit have been looked for.
OpenMicrophone ==
    /\ page.at = "open" /\ "start" \notin page.waits
    /\ ~page.mic /\ ~page.stopping /\ ~page.failed
    /\ page' = [page EXCEPT !.mic = TRUE]
    /\ UNCHANGED <<ingressVars, sounds>> /\ Stored /\ NoTrouble

Hear(s) ==
    /\ page.mic /\ ~page.stopping /\ ~page.failed /\ ~page.writing
    /\ Len(sounds) < scenario.chunks
    /\ sounds' = Append(sounds, s)

PutFrame ==
    /\ Hear(page.next)
    /\ outbox' = With(page.next, Len(sounds'))
    /\ page' = [page EXCEPT !.writing = TRUE, !.next = @ + 1]
    /\ UNCHANGED <<ingressVars, cursor>> /\ NoTrouble

\* The outbox is full, or the browser's quota is used up.
PutFails ==
    /\ Trouble({"store"})
    /\ Hear(0)
    /\ UNCHANGED ingressVars /\ Stored
    /\ page' = Failed(page, FALSE)

SaveCursor ==
    /\ page.writing
    /\ cursor' = page.next
    /\ UNCHANGED <<ingressVars, sounds, outbox>> /\ NoTrouble
    /\ page' = Pumped([page EXCEPT !.writing = FALSE], {"loss"})

SaveFails ==
    /\ Trouble({"store"})
    /\ page.writing
    /\ UNCHANGED <<ingressVars, sounds>> /\ Stored
    /\ page' = Failed([page EXCEPT !.writing = FALSE], FALSE)

--------------------------------------------------------------------------------
(* The pump: one frame at a time, the oldest first, and the report of a failure *)
(* once all frames are acknowledged.                                            *)

PumpReads ==
    /\ page.pump = "reading"
    /\ page' = [page EXCEPT !.pump = "read", !.read = Oldest]
    /\ UNCHANGED <<ingressVars, sounds>> /\ Stored /\ NoTrouble

PumpCannotRead ==
    /\ Trouble({"store"})
    /\ page.pump = "reading"
    /\ UNCHANGED <<ingressVars, sounds>> /\ Stored
    /\ page' = Failed([page EXCEPT !.pump = "read", !.read = NoFrame], TRUE)

Idle(p) == [p EXCEPT !.pump = "idle", !.waits = {}, !.read = NoFrame]

Reports == page.failed /\ page.marker = "none" /\ (page.read = NoFrame \/ page.bypass)

PumpSends ==
    /\ page.pump = "read" /\ socket
    /\ \/ /\ Reports
          /\ Post(Incomplete)
          /\ page' = [Idle(page) EXCEPT !.marker = "sent"]
       \/ /\ ~Reports /\ page.read = NoFrame
          /\ UNCHANGED ingressVars
          /\ page' = Idle(page)
       \/ /\ ~Reports /\ page.read # NoFrame
          /\ Post(Frame(page.read.seq, page.read.chunk))
          /\ page' = [Idle(page) EXCEPT !.inFlight = page.read.seq, !.timed = TRUE]
    /\ UNCHANGED sounds /\ Stored /\ NoTrouble

\* The socket has gone while the outbox was read, and is used all the same: a start
\* fails, a handler takes it for a loss, a reconnect tries again.
PumpIsCut ==
    /\ page.pump = "read" /\ ~socket
    /\ UNCHANGED <<ingressVars, sounds, troubles, scenario>> /\ Stored
    /\ LET who == IF Reports \/ page.read # NoFrame THEN page.waits ELSE {}
           starts == "start" \in who /\ ~page.stopping
           cut == [Idle(page) EXCEPT !.retry = @ \/ "reconnect" \in who]
       IN IF starts \/ "loss" \in who
            THEN /\ \E p \in IF starts THEN Stopping(cut) ELSE {cut} : page' = Failed(p, FALSE)
                 /\ happened' = happened \cup {"cut"}
            ELSE page' = cut /\ UNCHANGED happened

--------------------------------------------------------------------------------
(* Answers and sockets. *)

Answered(type) ==
    /\ socket /\ down # <<>> /\ Head(down).type = type
    /\ down' = Tail(down)
    /\ UNCHANGED <<status, log, socket, up, late>>

\* An acknowledgement that is repeated is ignored.
ReceiveAck ==
    /\ page.at = "open" /\ page.acking = 0
    /\ Answered("ack")
    /\ LET s == Head(down).seq IN
       page' = IF s \in DOMAIN outbox THEN [page EXCEPT !.acking = s] ELSE page
    /\ UNCHANGED sounds /\ Stored /\ NoTrouble

AckIsDone(p) ==
    [p EXCEPT !.acking = 0,
              !.inFlight = IF @ = p.acking THEN 0 ELSE @,
              !.timed = @ /\ p.inFlight # p.acking]

DeleteFrame ==
    /\ page.acking # 0
    /\ outbox' = Without(page.acking)
    /\ UNCHANGED <<ingressVars, sounds, cursor>> /\ NoTrouble
    /\ page' = Pumped(AckIsDone(page), {"loss"})

DeleteFails ==
    /\ Trouble({"store"})
    /\ page.acking # 0
    /\ UNCHANGED <<ingressVars, sounds>> /\ Stored
    /\ page' = Failed(AckIsDone(page), TRUE)

ReceiveTold ==
    /\ page.at = "open"
    /\ Answered("capture_incomplete_ack")
    /\ UNCHANGED sounds /\ Stored /\ NoTrouble
    /\ page' = Failed([page EXCEPT !.marker = "confirmed"], FALSE)

\* With code 4410, which says that audio is missing.
ReceiveClose ==
    /\ page.at = "open"
    /\ down # <<>> /\ Head(down) = Close[1]
    /\ CloseSocket
    /\ UNCHANGED sounds /\ Stored /\ NoTrouble
    /\ page' = Failed(Unplugged(page), FALSE)

\* The network fails, or the server does not answer within the five seconds.
LoseSocket ==
    /\ Trouble({"socket"})
    /\ page.at = "open" /\ socket
    /\ CloseSocket
    /\ page' = Unplugged(page)
    /\ UNCHANGED sounds /\ Stored

\* No answer will come.
AckTimeout ==
    /\ page.at = "open" /\ socket /\ page.timed
    /\ page.inFlight \notin {0, page.acking} /\ up = <<>> /\ down = <<>>
    /\ CloseSocket
    /\ page' = Unplugged(page)
    /\ UNCHANGED sounds /\ Stored /\ NoTrouble

\* The timer fires. Nothing keeps a second connection from being opened while the
\* first is under way, or has led to a socket.
Reconnect ==
    /\ page.at = "open" /\ page.retry
    /\ page' = [page EXCEPT !.retry = FALSE, !.opening = @ + 1]
    /\ UNCHANGED <<ingressVars, sounds>> /\ Stored /\ NoTrouble

ReconnectFails ==
    /\ Trouble({"socket"})
    /\ page.at = "open" /\ page.opening > 0
    /\ page' = OpeningFailed(page)
    /\ UNCHANGED <<ingressVars, sounds>> /\ Stored

\* What the page has sent and not yet seen answered.
Unanswered == page.inFlight \notin {0, page.acking} \/ page.marker = "sent"

\* The page listens to the new socket only. An answer that was on its way on another
\* one is never read, and the close of that one is not noticed.
Reconnected ==
    /\ page.at = "open" /\ page.opening > 0
    /\ OpenSocket \/ Supersede
    /\ page' = Pumped([page EXCEPT !.opening = @ - 1, !.timed = FALSE,
                                   !.deaf = @ \/ (socket /\ Unanswered)], {"reconnect"})
    /\ UNCHANGED sounds /\ Stored /\ NoTrouble

--------------------------------------------------------------------------------
(* Stop, which is confirmed in three steps: the outbox is empty, or the server  *)
(* knows that audio is missing; the server has ended the capture; what the      *)
(* browser holds is cleared.                                                    *)

Stop ==
    /\ page.at = "open" /\ ~page.stopping
    /\ page' \in Stopping(page)
    /\ UNCHANGED <<ingressVars, sounds>> /\ Stored /\ NoTrouble

Drain ==
    /\ page.stopping /\ page.at = "open"
    /\ UNCHANGED <<ingressVars, sounds>> /\ Stored /\ NoTrouble
    /\ page' = Pumped(page, {})

\* Mutant: an empty outbox is enough, also for a page that has lost audio.
DrainedMutant == page.marker = "confirmed" \/ outbox = <<>>

Drained == page.marker = "confirmed" \/ (outbox = <<>> /\ ~page.failed)

Stopped ==
    /\ page.stopping /\ page.at = "open" /\ ~page.writing
    /\ Drained
    /\ page' = Idle([Unplugged(page) EXCEPT !.at = "stopped", !.retry = FALSE, !.opening = 0])
    /\ CloseSocket
    /\ UNCHANGED sounds /\ Stored /\ NoTrouble

FinishCapture ==
    /\ page.at = "stopped"
    /\ Finish
    /\ page' = [page EXCEPT !.at = "finished"]
    /\ UNCHANGED sounds /\ Stored /\ NoTrouble

\* Mutant: cleared in any case.
ClearedMutant == outbox' = <<>> /\ cursor' = 1

Cleared == IF page.marker = "confirmed" THEN Stored ELSE outbox' = <<>> /\ cursor' = 1

\* A deletion that was under way is done by then.
ConfirmFinalized ==
    /\ page.at = "finished" /\ page.acking = 0
    /\ Cleared
    /\ page' = NoPage
    /\ UNCHANGED <<ingressVars, sounds>> /\ NoTrouble

--------------------------------------------------------------------------------
(* Recovery: every frame again, each with its acknowledgement, then the cursor. *)

Recover ==
    /\ page.at = "closed" /\ status # "CAPTURING" /\ outbox # <<>>
    /\ OpenSocket
    /\ page' = [NoPage EXCEPT !.at = "recovering", !.next = Reconciled]
    /\ UNCHANGED sounds /\ Stored /\ NoTrouble

RecoverFrame ==
    /\ page.at = "recovering" /\ page.inFlight = 0
    /\ outbox # <<>>
    /\ Post(Frame(Oldest.seq, Oldest.chunk))
    /\ page' = [page EXCEPT !.inFlight = Oldest.seq]
    /\ UNCHANGED sounds /\ Stored /\ NoTrouble

RecoverAck ==
    /\ page.at = "recovering"
    /\ Answered("ack")
    /\ outbox' = Without(page.inFlight)
    /\ page' = [page EXCEPT !.inFlight = 0]
    /\ UNCHANGED <<sounds, cursor>> /\ NoTrouble

RecoverEnd ==
    /\ page.at = "recovering" /\ page.inFlight = 0
    /\ outbox = <<>>
    /\ Post(RecoveryComplete(page.next))
    /\ page' = [page EXCEPT !.inFlight = page.next]
    /\ UNCHANGED sounds /\ Stored /\ NoTrouble

Recovered ==
    /\ page.at = "recovering"
    /\ down # <<>> /\ Head(down).type = "capture_recovery_complete_ack"
    /\ CloseSocket
    /\ outbox' = <<>> /\ cursor' = 1
    /\ page' = NoPage
    /\ UNCHANGED sounds /\ NoTrouble

RecoveryRefused ==
    /\ page.at = "recovering"
    /\ down # <<>> /\ Head(down).type \in {"capture_incomplete_ack", "close"}
    /\ CloseSocket
    /\ page' = NoPage
    /\ UNCHANGED sounds /\ Stored /\ NoTrouble

\* The network fails, or the server does not answer within the ten seconds.
RecoveryFails ==
    /\ Trouble({"socket"})
    /\ page.at = "recovering"
    /\ CloseSocket
    /\ page' = NoPage
    /\ UNCHANGED sounds /\ Stored

--------------------------------------------------------------------------------
\* A frame is acknowledged before its number is saved as used: the next visit of the
\* page will use it again.
Reuses == page.next > Reconciled

Reload ==
    /\ Trouble(IF Reuses THEN {"reload", "reused"} ELSE {"reload"})
    /\ page.at # "closed"
    /\ CloseSocket
    /\ page' = NoPage
    /\ UNCHANGED sounds /\ Stored

\* By a tab without the lease, or by the end of the session.
StopElsewhere ==
    /\ Trouble({"elsewhere"})
    /\ Finish
    /\ UNCHANGED <<page, sounds>> /\ Stored

ServerFails ==
    /\ Trouble({"server"})
    /\ ReceiveFails
    /\ UNCHANGED <<page, sounds>> /\ Stored

Restart ==
    /\ Trouble({"server"})
    /\ RestartServer
    /\ page' = IF page.at = "recovering" THEN NoPage
               ELSE IF socket THEN Unplugged(page) ELSE page
    /\ UNCHANGED sounds /\ Stored

ServerStep == (Receive \/ ReceiveLate) /\ UNCHANGED <<page, sounds>> /\ Stored /\ NoTrouble

Next ==
    \/ Start \/ StartFails \/ Connect \/ OpenMicrophone
    \/ PutFrame \/ PutFails \/ SaveCursor \/ SaveFails
    \/ PumpReads \/ PumpCannotRead \/ PumpSends \/ PumpIsCut
    \/ ReceiveAck \/ DeleteFrame \/ DeleteFails \/ ReceiveTold \/ ReceiveClose
    \/ LoseSocket \/ AckTimeout \/ Reconnect \/ ReconnectFails \/ Reconnected
    \/ Stop \/ Drain \/ Stopped \/ FinishCapture \/ ConfirmFinalized
    \/ Recover \/ RecoverFrame \/ RecoverAck \/ RecoverEnd \/ Recovered
    \/ RecoveryRefused \/ RecoveryFails
    \/ Reload \/ StopElsewhere \/ ServerFails \/ Restart
    \/ ServerStep

\* The page's handlers run, the server answers and lets the page connect again.
Fairness ==
    /\ WF_vars(Connect) /\ WF_vars(Reconnect) /\ WF_vars(Reconnected) /\ WF_vars(SaveCursor)
    /\ WF_vars(PumpReads) /\ WF_vars(PumpSends) /\ WF_vars(PumpIsCut)
    /\ WF_vars(ReceiveAck) /\ WF_vars(DeleteFrame)
    /\ WF_vars(ReceiveTold) /\ WF_vars(ReceiveClose) /\ WF_vars(AckTimeout)
    /\ WF_vars(Drain) /\ WF_vars(Stopped)
    /\ WF_vars(ServerStep)

Spec == Init /\ [][Next]_vars /\ Fairness
--------------------------------------------------------------------------------
Frames == [seq : Nat, chunk : Nat]

TypeOK ==
    /\ status \in {"CAPTURING", "INCOMPLETE", "COMPLETE"}
    /\ log \in Seq(DOMAIN sounds)
    /\ socket \in BOOLEAN /\ (~socket => up = <<>> /\ down = <<>>)
    /\ \A m \in Range(up) \cup late : m.type = "frame" => m.chunk \in DOMAIN sounds
    /\ DOMAIN outbox \subseteq 1..Len(sounds) /\ Range(outbox) \subseteq DOMAIN sounds
    /\ cursor \in 1..Len(sounds) + 1
    /\ page.at \in {"closed", "starting", "open", "stopped", "finished", "recovering"}
    /\ page.marker \in {"none", "sent", "confirmed"}
    /\ page.pump \in {"idle", "reading", "read"}
    /\ \A s \in DOMAIN outbox : page.at \in {"starting", "open"} => s < page.next
    /\ page.acking # 0 => page.acking \in DOMAIN outbox

InLog(c) == sounds[c] \in DOMAIN log /\ log[sounds[c]] = c
InOutbox(c) == sounds[c] \in DOMAIN outbox /\ outbox[sounds[c]] = c

\* Sound that was stored is in the archive or still in the browser, whatever happens
\* to the page, the sockets and the server.
KeptSomewhere == \A c \in DOMAIN sounds : sounds[c] = 0 \/ InLog(c) \/ InOutbox(c)

\* A frame on its way, also on a socket that is gone, is the next one of the archive
\* or one that it has: the server never sees a gap or another sound under the same
\* number, unless a page is left before the number of an acknowledged frame is saved
\* as used.
NoConflict ==
    "reused" \notin happened =>
        \A m \in Range(up) \cup late : m.type = "frame" =>
            \/ m.seq \in DOMAIN log /\ log[m.seq] = m.chunk
            \/ m.seq = Len(log) + 1

\* Unless the capture is ended behind the back of the page that records it, COMPLETE
\* means that the archive has all that was stored, also after a recovery, and a page
\* that has lost sound stops only when the capture is known to be INCOMPLETE.
CompleteIsWhole ==
    "elsewhere" \notin happened =>
        /\ status = "COMPLETE" => \A c \in DOMAIN sounds : sounds[c] = 0 \/ InLog(c)
        /\ page.failed /\ page.at \in {"stopped", "finished"} => status = "INCOMPLETE"

\* The state is well formed and no stored sound is in neither the outbox nor the archive
\* (BoundedBrowserAsrOutbox, handleFormalAck).
NothingStoredIsLost == TypeOK /\ KeptSomewhere

\* What the server takes from the sockets is the recording, in order, and its COMPLETE is
\* true (pumpFormalOutbox, append_audio, complete_browser_capture_recovery).
ArchiveIsTheRecording == NoConflict /\ CompleteIsWhole

\* A stop ends with everything acknowledged, and a loss is made known to the server,
\* however often sockets are lost and connections overlap on the way, unless the capture
\* was ended elsewhere or, as it may be again after each lost socket, a second connection
\* took over while the page waited for an answer on the first
\* (BrowserPcmStreamer.reconnect, bindSocket, failIncomplete, stop).
StopEnds ==
    page.stopping \/ page.failed ~>
        \/ page.at # "open" \/ (page.marker = "confirmed" /\ ~page.stopping)
        \/ status = "COMPLETE" \/ page.deaf
================================================================================
