------------------------------ MODULE Microphone ------------------------------
(***************************************************************************)
(* The microphone of the terminal with all who use it: formal captures and *)
(* dictations (AsrCapture) and voiceprint enrolments (VoiceprintCapture),  *)
(* which know nothing of each other and share one ALSARecorder.            *)
(***************************************************************************)
EXTENDS AsrCapture, VoiceprintCapture

CONSTANT Parties    \* bound: those who use the microphone in one behaviour

ASSUME PartiesAssumption == Parties \subseteq SUBSET Readers

VARIABLE party      \* one of the Parties: never changes

vars == <<recorderVars, asrVars, enrolVars, party>>

Init == RecorderInit /\ AsrInit /\ EnrolInit /\ party \in Parties

Step ==
    \/ Deliver /\ UNCHANGED <<asrVars, enrolVars>>
    \/ Exit /\ UNCHANGED <<asrVars, enrolVars>>
    \/ Restart /\ UNCHANGED <<asrVars, enrolVars>>
    \/ \E r \in party : ThreadStep(r) /\ UNCHANGED <<asrVars, enrolVars>>
    \/ \E r \in party : FailLoop(r) /\ UNCHANGED <<asrVars, enrolVars>>
    \/ \E e \in Enrolments : EnoughSpeech(e) /\ UNCHANGED <<asrVars, enrolVars>>
    \/ \E t \in Callers :
       /\ enrolCall[t] = NoEnrolCall
       /\ \/ \E r \in AsrReaders \cap party : Start(t, r) \/ Stop(t, r) \/ Poll(t, r)
          \/ Shutdown(t) \/ StartFails(t) \/ AsrStep(t)
       /\ UNCHANGED enrolVars
    \/ \E t \in Callers :
       /\ Idle(t)
       /\ \/ \E e \in Enrolments \cap party : BeginEnrolment(t, e)
          \/ EndEnrolment(t) \/ EnrolmentFails(t) \/ EnrolStep(t)
       /\ UNCHANGED asrVars
    \/ \E e \in Enrolments : PushBrowser(e) /\ UNCHANGED asrVars

Next == Step /\ UNCHANGED party

\* arecord delivers while it runs, and the threads run, that of the recorder too.
ReaderStep(r) == r \in party /\ ThreadStep(r) /\ UNCHANGED <<asrVars, enrolVars, party>>
Fairness ==
    /\ WF_vars(Deliver /\ UNCHANGED <<asrVars, enrolVars, party>>)
    /\ WF_vars(Restart /\ UNCHANGED <<asrVars, enrolVars, party>>)
    /\ \A r \in Readers \ Browser : WF_vars(ReaderStep(r))

Spec == Init /\ [][Next]_vars /\ Fairness
--------------------------------------------------------------------------------
TypeOK == RecorderTypeOK /\ AsrTypeOK /\ EnrolTypeOK

\* Unless two starts have overlapped or the recorder has given up, it has one
\* user at a time, and nobody is given a chunk of another's recording: not the
\* words of an interrogation in a voiceprint, nor those of one case in another.
OneUser ==
    overlapped = {} /\ ~recorder.error =>
        /\ Cardinality(Holders) <= 1
        /\ \A r \in Readers : heard[r] \subseteq {r}

\* Starts overlap only when a recognition and an enrolment, which do not know of each
\* other, begin together: each service keeps its own apart.
StartsApart == overlapped \subseteq {{a, e} : a \in AsrReaders, e \in Enrolments}

\* Whatever happens, a recorder that runs has the thread for which it was started, which
\* will call stop; and that stop misses no arecord, unless the arecord has ended by
\* itself just before, or the recorder has given up, or starts have overlapped.
SomeoneStops ==
    /\ recorder.running => recorder.for \in Holders
    /\ \A r \in Readers :
          thread[r] = "returning" /\ Missed # {} =>
              recorder.gone \/ recorder.error \/ overlapped # {}

\* A capture or a dictation that nobody has asked to stop is one that stop can find,
\* unless it was started while an earlier one of its case was being stopped.
Stoppable ==
    \A r \in AsrReaders :
        thread[r] = "reading" /\ r \notin asked /\ r \notin outrun =>
            r \in sources \/ r = dictation

\* An enrolment that records is the one that stop and cancel end, unless it was
\* started together with another.
Endable ==
    \A e \in Enrolments :
        thread[e] = "reading" /\ e \notin asked /\ e \notin rushed => e = current

\* The microphone has one user, who will stop it (ALSARecorder.start, read_frames, stop,
\* and the loops of the captures).
OneUserAtATime == TypeOK /\ OneUser /\ StartsApart /\ SomeoneStops

\* Whoever records can be found by the request that ends it
\* (SourceAwareAsrCaptureService.stop, status; AudioCaptureService.stop, cancel).
UserIsFound == Stoppable /\ Endable

\* A capture or a dictation that is asked to stop gives the microphone back, also if
\* the call that asked has timed out.
AskedStops ==
    \A r \in AsrReaders : (r \in asked /\ thread[r] = "reading") ~> (thread[r] = "none")

\* An enrolment from the microphone that nobody stops, because the page was closed or
\* another enrolment took its place, gives the microphone back all the same.
EnrolmentEnds ==
    \A e \in Enrolments \ Browser : (thread[e] = "reading") ~> (thread[e] = "none" \/ overlapped # {})

\* The microphone is given back, by those who are asked to stop and by those whom
\* nobody stops (AsrCaptureService._capture_loop, AudioCaptureService._collect).
GivenBack == AskedStops /\ EnrolmentEnds
===============================================================================
