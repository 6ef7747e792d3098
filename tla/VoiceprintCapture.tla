--------------------------- MODULE VoiceprintCapture ---------------------------
(***************************************************************************)
(* Recording a voiceprint (app/services/audio_capture_service.py): at most *)
(* one enrolment, from the microphone or from a browser, that a new start  *)
(* stops first.  The waits for a VAD session and for the end of a thread   *)
(* are outside the service's lock; the lock is held across start_record.   *)
(***************************************************************************)
EXTENDS AlsaRecorder

CONSTANT Browser    \* the enrolments that a browser records; the others are ALSA

ASSUME BrowserAssumption == Browser \subseteq Enrolments

VARIABLES
    current,    \* _capture
    enrolLock,  \* who holds the service's lock across steps
    enrolCall,  \* for each caller, where its call is
    rushed      \* history: enrolments that two calls of start were starting

enrolVars == <<current, enrolLock, enrolCall, rushed>>

NoEnrolCall == [op |-> "idle", for |-> Nobody, old |-> Nobody]
EnrolTypeOK ==
    /\ current \in Enrolments \cup {Nobody} /\ enrolLock \in Callers \cup {Nobody}
    /\ rushed \subseteq Enrolments
    /\ enrolCall \in [Callers -> {NoEnrolCall}
                      \cup [op : {"replace"}, for : Enrolments, old : Enrolments]
                      \cup [op : {"open", "record", "end"}, for : Enrolments, old : {Nobody}]]

EnrolInit ==
    /\ current = Nobody /\ enrolLock = Nobody /\ rushed = {}
    /\ enrolCall = [t \in Callers |-> NoEnrolCall]

Enrols(t, op, e) == enrolCall' = [enrolCall EXCEPT ![t] = [op |-> op, for |-> e, old |-> Nobody]]
Done(t) == enrolCall' = [enrolCall EXCEPT ![t] = NoEnrolCall]

\* A call of start has a capture of its own.
Starting == {enrolCall[t].for : t \in {u \in Callers : enrolCall[u].op \in {"replace", "open", "record"}}}
Unused(e) ==
    /\ e # current /\ thread[e] = "none"
    /\ \A t \in Callers : e \notin {enrolCall[t].for, enrolCall[t].old}

\* MANUAL_STOP or CANCELLED; only a collector is told by its stop_event
AskToEnd(e) ==
    /\ asked' = IF thread[e] = "reading" THEN asked \cup {e} ELSE asked
    /\ UNCHANGED <<recorder, opening, thread, heard, kept, failed, overlapped>>

\* done_event: set by the end of the collector, or by stop itself
Ended(e) == thread[e] = "none"
--------------------------------------------------------------------------------
BeginEnrolment(t, e) ==
    /\ enrolCall[t] = NoEnrolCall /\ enrolLock = Nobody /\ Unused(e)
    /\ rushed' = IF Starting = {} THEN rushed \ {e} ELSE rushed \cup Starting \cup {e}
    /\ \/ current = Nobody /\ Enrols(t, "open", e) /\ UNCHANGED recorderVars
       \/ /\ current # Nobody /\ AskToEnd(current)
          /\ enrolCall' = [enrolCall EXCEPT ![t] = [op |-> "replace", for |-> e, old |-> current]]
    /\ UNCHANGED <<current, enrolLock>>

\* stop, called by start, has cleared the old capture; if its thread failed, stop
\* raises AUDIO_CAPTURE_FAILED, and so does start.
Replace(t) ==
    LET call == enrolCall[t] IN
    /\ call.op = "replace" /\ enrolLock = Nobody /\ Ended(call.old)
    /\ current' = IF current = call.old THEN Nobody ELSE current
    /\ IF call.old \in failed THEN Done(t) ELSE Enrols(t, "open", call.for)
    /\ UNCHANGED <<recorderVars, enrolLock, rushed>>

\* A browser's enrolment never opens the recorder.
OpenEnrolment(t) ==
    LET e == enrolCall[t].for IN
    /\ enrolCall[t].op = "open" /\ enrolLock = Nobody
    /\ \/ /\ e \in Browser /\ current' = e /\ Done(t)
          /\ kept' = [kept EXCEPT ![e] = 0] /\ asked' = asked \ {e}
          /\ UNCHANGED <<recorder, opening, thread, heard, failed, overlapped, enrolLock>>
       \/ /\ e \notin Browser /\ CheckIdle(e)
          /\ enrolLock' = t /\ Enrols(t, "record", e)
          /\ UNCHANGED current
       \/ /\ e \notin Browser /\ recorder.running /\ Done(t)
          /\ UNCHANGED <<recorderVars, current, enrolLock>>
    /\ UNCHANGED rushed

StartCollector(t) ==
    /\ enrolCall[t].op = "record" /\ Record(enrolCall[t].for)
    /\ current' = enrolCall[t].for /\ enrolLock' = Nobody /\ Done(t)
    /\ UNCHANGED rushed

\* No VAD session, no arecord, or the old capture does not end in time (500)
EnrolmentFails(t) ==
    /\ \/ /\ enrolCall[t].op = "open" /\ UNCHANGED <<recorderVars, enrolLock>>
       \/ /\ enrolCall[t].op = "replace" /\ ~Ended(enrolCall[t].old)
          /\ UNCHANGED <<recorderVars, enrolLock>>
       \/ /\ enrolCall[t].op = "record" /\ Abandon(enrolCall[t].for)
          /\ enrolLock' = Nobody
    /\ Done(t)
    /\ UNCHANGED <<current, rushed>>

\* stop and cancel
EndEnrolment(t) ==
    /\ enrolCall[t] = NoEnrolCall /\ enrolLock = Nobody /\ current # Nobody
    /\ AskToEnd(current) /\ Enrols(t, "end", current)
    /\ UNCHANGED <<current, enrolLock, rushed>>

\* The audio is returned; or AUDIO_CAPTURE_STOP_TIMEOUT, and the capture stays.
EnrolmentEnded(t) ==
    LET e == enrolCall[t].for IN
    /\ enrolCall[t].op = "end" /\ enrolLock = Nobody
    /\ current' = IF Ended(e) /\ current = e THEN Nobody ELSE current
    /\ Done(t)
    /\ UNCHANGED <<recorderVars, enrolLock, rushed>>

\* push_browser_pcm; the chunk may complete the speech that is needed
PushBrowser(e) ==
    /\ e \in Browser /\ current = e /\ enrolLock = Nobody
    /\ e \notin asked /\ ~Full(e)
    /\ kept' = [kept EXCEPT ![e] = @ + 1]
    /\ asked' \in {asked, asked \cup {e}}
    /\ UNCHANGED <<recorder, opening, thread, heard, failed, overlapped, enrolVars>>

EnrolStep(t) == Replace(t) \/ OpenEnrolment(t) \/ StartCollector(t) \/ EnrolmentEnded(t)
===============================================================================
