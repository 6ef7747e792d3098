---------------------------- MODULE EnrolmentServer ----------------------------
(***************************************************************************)
(* Enrolling a voiceprint, the server's side: the routes                   *)
(* (app/api/voiceprints.py) keep a context beside the capture service      *)
(* (audio_capture_service.py, see VoiceprintCapture), and a socket brings  *)
(* the audio of a browser (app/websocket/voiceprint_enrollment.py).  The   *)
(* routes run in threads: each access to the context or to the service is  *)
(* a step of its own.                                                      *)
(***************************************************************************)
EXTENDS Naturals, FiniteSets

CONSTANTS
    Starts,      \* attempts to record, numbered; each names the capture that it starts
    Scenarios,   \* whom they record, and the audio input: "BROWSER" or "ALSA"
    MaxTroubles  \* bound: requests refused, answers, sockets and tracks lost

Nobody == 0

ASSUME EnrolmentAssumption == Starts \subseteq Nat \ {Nobody}

VARIABLES
    mode,        \* the audio input
    subject,     \* for each attempt, whom it records
    current,     \* the capture of the service
    complete,    \* the capture under way, once it has speech enough
    context,     \* voiceprint_enrollment_context: the capture it is about
    starting,    \* for each attempt, its POST of start
    stopping,    \* for each attempt, its POST of stop: where it is and whose audio it has
    cancelling,  \* the cancellations under way: who asks, of what, and where it is
    channel,     \* for each capture, its socket
    leaving,     \* captures whose socket is closed, unnoticed by the server
    enrolled,    \* history: for each stop that enrolled, the capture it enrolled
    troubles

serverVars == <<mode, subject, current, complete, context, starting, stopping, cancelling,
                channel, leaving, enrolled, troubles>>

NotAsked == [at |-> "none", audio |-> Nobody]
Asked(at) == [at |-> at, audio |-> Nobody]
IsOf(c, k) == c # Nobody /\ subject[c] = subject[k]

ServerInit ==
    /\ \E s \in Scenarios : mode = s.mode /\ subject = s.subject
    /\ current = Nobody /\ complete = {} /\ context = Nobody
    /\ starting = [k \in Starts |-> "none"] /\ stopping = [k \in Starts |-> NotAsked]
    /\ cancelling = {} /\ channel = [k \in Starts |-> "none"]
    /\ leaving = {} /\ enrolled = {} /\ troubles = 0

Trouble == troubles < MaxTroubles /\ troubles' = troubles + 1
NoTrouble == UNCHANGED troubles
--------------------------------------------------------------------------------
\* AudioCaptureService.start ends the capture under way and drops its audio.
OpenCapture(k) ==
    /\ starting[k] = "asked"
    /\ \/ current' = k /\ starting' = [starting EXCEPT ![k] = "opened"] /\ NoTrouble
       \/ /\ current' \in {current, Nobody} /\ Trouble
          /\ starting' = [starting EXCEPT ![k] = "refused"]
    /\ complete' = complete \cap {current'}
    /\ UNCHANGED <<mode, subject, context, stopping, cancelling, channel, leaving, enrolled>>

SetContext(k) ==
    /\ starting[k] = "opened"
    /\ context' = k /\ starting' = [starting EXCEPT ![k] = "done"]
    /\ UNCHANGED <<mode, subject, current, complete, stopping, cancelling, channel, leaving, enrolled,
                   troubles>>

StopMoves(k, at, audio) ==
    /\ stopping' = [stopping EXCEPT ![k] = [at |-> at, audio |-> audio]]
    /\ complete' = complete \cap {current'}
    /\ UNCHANGED <<mode, subject, starting, cancelling, channel, leaving>>

\* The route checks the context it has read ...
CheckContext(k) ==
    /\ stopping[k].at = "asked" /\ UNCHANGED <<current, context, enrolled, troubles>>
    /\ StopMoves(k, IF IsOf(context, k) THEN "checked" ELSE "refused", Nobody)

\* Mutant: the service does not compare the subject.
TakeAudioMutant(k) ==
    /\ stopping[k].at = "checked" /\ current # Nobody
    /\ UNCHANGED <<current, context, enrolled, troubles>>
    /\ StopMoves(k, "taken", current)

\* ... AudioCaptureService.stop checks the capture under way, holding its lock ...
TakeAudio(k) ==
    /\ stopping[k].at = "checked" /\ UNCHANGED <<current, context, enrolled, troubles>>
    /\ IF IsOf(current, k) THEN StopMoves(k, "taken", current)
       ELSE StopMoves(k, "refused", Nobody)

\* ... waits for its collector without the lock, and drops it unless another is under
\* way by then. When it fails, it may keep the capture.
HandOver(k) ==
    LET audio == stopping[k].audio
        dropped == IF current = audio THEN Nobody ELSE current IN
    /\ stopping[k].at = "taken" /\ UNCHANGED <<context, enrolled>>
    /\ \/ current' = dropped /\ NoTrouble /\ StopMoves(k, "handed", audio)
       \/ current' \in {current, dropped} /\ Trouble /\ StopMoves(k, "refused", Nobody)

\* _clear_context: if the context is another's by now, the audio taken is lost.
ClearContext(k) ==
    /\ stopping[k].at = "handed" /\ UNCHANGED <<current, enrolled, troubles>>
    /\ \/ IsOf(context, k) /\ context' = Nobody /\ StopMoves(k, "cleared", stopping[k].audio)
       \/ ~IsOf(context, k) /\ UNCHANGED context /\ StopMoves(k, "refused", Nobody)

\* enroll_suspect, add_sample: they need speech enough.
Enrol(k) ==
    /\ stopping[k].at = "cleared" /\ UNCHANGED <<current, context, troubles>>
    /\ \/ StopMoves(k, "done", Nobody) /\ enrolled' = enrolled \cup {<<k, stopping[k].audio>>}
       \/ StopMoves(k, "refused", Nobody) /\ UNCHANGED enrolled

\* cancel_enrollment: the context that it clears at the end may be another's.
CancelStep(c) ==
    LET moves(at) == cancelling' = (cancelling \ {c}) \cup {[c EXCEPT !.at = at]} IN
    /\ c \in cancelling
    /\ \/ /\ c.at = "asked" /\ UNCHANGED context
          /\ \/ /\ context = c.of /\ current = c.of
                /\ moves("cancelled") /\ current' = Nobody
             \/ /\ {context, current} # {c.of}
                /\ moves("done") /\ UNCHANGED current
       \/ /\ c.at = "cancelled" /\ moves("done") /\ context' = Nobody
          /\ UNCHANGED current
    /\ complete' = complete \cap {current'}
    /\ UNCHANGED <<mode, subject, starting, stopping, channel, leaving, enrolled, troubles>>
--------------------------------------------------------------------------------
\* The socket is accepted only for the capture under way.
Accept(k) ==
    /\ channel[k] = "opening"
    /\ channel' = [channel EXCEPT ![k] = IF current = k THEN "open" ELSE "refused"]
    /\ UNCHANGED <<mode, subject, current, complete, context, starting, stopping, cancelling,
                   leaving, enrolled, troubles>>

\* A frame completes the speech that is needed; a frame of a capture that is no more
\* closes the socket.
Frame(k) ==
    /\ channel[k] = "open"
    /\ IF current = k THEN complete' = {k} /\ UNCHANGED channel
       ELSE channel' = [channel EXCEPT ![k] = "closed"] /\ UNCHANGED complete
    /\ UNCHANGED <<mode, subject, current, context, starting, stopping, cancelling, leaving, enrolled,
                   troubles>>

\* The handler's finally: a capture that is not complete is cancelled.
Disconnected(k) ==
    /\ k \in leaving /\ leaving' = leaving \ {k}
    /\ IF current = k /\ k \notin complete
       THEN /\ current' = Nobody
            /\ context' = IF context = k THEN Nobody ELSE context
       ELSE UNCHANGED <<current, context>>
    /\ UNCHANGED <<mode, subject, complete, starting, stopping, cancelling, channel, enrolled,
                   troubles>>

ServerStep(k) ==
    OpenCapture(k) \/ SetContext(k) \/ CheckContext(k) \/ TakeAudio(k) \/ HandOver(k)
    \/ ClearContext(k) \/ Enrol(k) \/ Accept(k) \/ Disconnected(k)
===============================================================================
