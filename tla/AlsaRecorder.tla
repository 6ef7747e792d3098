----------------------------- MODULE AlsaRecorder -----------------------------
(***************************************************************************)
(* The one microphone of the terminal (hardware/audio/alsa.py) and the     *)
(* threads that read it: the loops of formal captures and of preparation   *)
(* dictation (app/services/asr_capture_service.py), and the collectors of  *)
(* voiceprint enrolments (app/services/audio_capture_service.py).          *)
(*                                                                         *)
(* The recorder has no owner and no lock.  Whoever calls start while it is *)
(* not running has it, whoever reads gets the oldest chunk, and stop stops *)
(* whatever is being recorded.                                             *)
(***************************************************************************)
EXTENDS Naturals, Sequences, FiniteSets

CONSTANTS
    Captures,       \* formal captures, one for each case
    Preparations,   \* dictations of the preparation stage, one for each case
    Enrolments,     \* voiceprint recordings
    QueueChunks,    \* chunks the reader thread keeps (queue_chunks)
    MaxChunks,      \* chunks an enrolment may keep (max_bytes)
    RestartLimit,   \* how often arecord is started again in a recording (restart_limit)
    Callers,        \* HTTP calls under way at the same time
    Nobody          \* None

ASSUME RecorderAssumption ==
    /\ QueueChunks \in Nat \ {0} /\ MaxChunks \in Nat \ {0} /\ RestartLimit \in Nat
    /\ Captures \cap Preparations = {} /\ Captures \cap Enrolments = {}
    /\ Preparations \cap Enrolments = {}
    /\ Nobody \notin Callers \cup Captures \cup Preparations \cup Enrolments

Readers == Captures \cup Preparations \cup Enrolments

VARIABLES
    recorder,   \* the ALSARecorder
    opening,    \* callers of start between its check and its Popen
    thread,     \* for each reader, where its thread is
    asked,      \* readers whose stop_event is set, until they leave their loop
    heard,      \* for each reader, whose recordings it was given chunks of
    kept,       \* for each enrolment, the chunks in its buffer
    failed,     \* enrolments whose loop was left with an exception
    overlapped  \* history: the readers of whom two calls of start passed the check together

recorderVars == <<recorder, opening, thread, asked, heard, kept, failed, overlapped>>

\* for: the reader whose call of start made the recording, Nobody when it is over;
\* gone: arecord has ended and the reader thread is about to start another
Recorders ==
    [running : BOOLEAN, for : Readers \cup {Nobody}, error : BOOLEAN,
     gone    : BOOLEAN, restarts : 0..RestartLimit,
     chunks  : UNION {[1..n -> Readers] : n \in 0..QueueChunks}]

RecorderTypeOK ==
    /\ recorder \in Recorders /\ opening \subseteq Readers /\ asked \subseteq Readers
    /\ thread \in [Readers -> {"none", "reading", "returning", "returned"}]
    /\ heard \in [Readers -> SUBSET Readers]
    /\ kept \in [Enrolments -> 0..MaxChunks]
    /\ failed \subseteq Enrolments
    /\ overlapped \subseteq SUBSET Readers

RecorderInit ==
    /\ recorder = [running |-> FALSE, for |-> Nobody, error |-> FALSE,
                   gone |-> FALSE, restarts |-> 0, chunks |-> <<>>]
    /\ opening = {} /\ asked = {} /\ failed = {}
    /\ thread = [r \in Readers |-> "none"]
    /\ heard = [r \in Readers |-> {}]
    /\ kept = [e \in Enrolments |-> 0]
    /\ overlapped = {}

Holders == {r \in Readers : thread[r] \in {"reading", "returning"}}
--------------------------------------------------------------------------------
(* ALSARecorder.start: the check, DEVICE_BUSY, and the start itself.  An   *)
(* error of an earlier recording is kept: only open clears it.             *)

CheckIdle(r) ==
    /\ ~recorder.running
    /\ opening' = opening \cup {r}
    /\ UNCHANGED <<recorder, thread, asked, heard, kept, failed, overlapped>>

\* An arecord that already runs, for a start that overlapped, is put out of reach by the
\* new one: from then on there is one that nobody stops.
Record(r) ==
    /\ r \in opening
    /\ opening' = opening \ {r}
    /\ recorder' = [recorder EXCEPT !.running = TRUE, !.for = r, !.gone = FALSE, !.restarts = 0,
                                    !.chunks = <<>>]
    /\ overlapped' = overlapped \cup {{r, q} : q \in opening \ {r}}
    /\ thread' = [thread EXCEPT ![r] = "reading"]
    /\ failed' = failed \ {r}
    /\ UNCHANGED <<asked, heard, kept>>

\* There is no arecord, or Popen failed after the check.
Abandon(r) ==
    /\ r \in opening
    /\ opening' = opening \ {r}
    /\ recorder' \in {recorder, [recorder EXCEPT !.error = TRUE]}
    /\ UNCHANGED <<thread, asked, heard, kept, failed, overlapped>>

\* _reader_loop; a full queue drops the chunk
Deliver ==
    /\ recorder.running /\ ~recorder.gone /\ Len(recorder.chunks) < QueueChunks
    /\ recorder' = [recorder EXCEPT !.chunks = Append(@, recorder.for)]
    /\ UNCHANGED <<opening, thread, asked, heard, kept, failed, overlapped>>

\* Over: the restarts of a recorder that does not run are never asked for.
Over == [recorder EXCEPT !.running = FALSE, !.for = Nobody, !.gone = FALSE, !.restarts = 0]
GivenUp == [Over EXCEPT !.error = TRUE]

\* _handle_process_exit: arecord has ended.  It is started again, if it may be ...
Exit ==
    /\ recorder.running /\ ~recorder.gone
    /\ recorder' = IF recorder.restarts < RestartLimit
                   THEN [recorder EXCEPT !.gone = TRUE, !.restarts = @ + 1] ELSE GivenUp
    /\ UNCHANGED <<opening, thread, asked, heard, kept, failed, overlapped>>

\* ... after 0.2 seconds, if that succeeds.
Restart ==
    /\ recorder.gone
    /\ recorder' \in {[recorder EXCEPT !.gone = FALSE], GivenUp}
    /\ UNCHANGED <<opening, thread, asked, heard, kept, failed, overlapped>>
--------------------------------------------------------------------------------
(* The threads *)

\* read_frames: the oldest chunk, AUDIO_READ_FAILED or AUDIO_NOT_RUNNING
Unreadable == recorder.chunks = <<>> /\ (recorder.error \/ ~recorder.running)

\* The loop ends when it is asked to, and a collector also with a full buffer.
Full(r) == r \in Enrolments /\ kept[r] = MaxChunks
Looping(r) == thread[r] = "reading" /\ r \notin asked /\ ~Full(r)

Read(r) ==
    /\ Looping(r) /\ recorder.chunks # <<>>
    /\ recorder' = [recorder EXCEPT !.chunks = Tail(@)]
    /\ heard' = [heard EXCEPT ![r] = @ \cup {Head(recorder.chunks)}]
    /\ kept' = [e \in Enrolments |-> IF e = r THEN kept[e] + 1 ELSE kept[e]]
    /\ UNCHANGED <<opening, thread, asked, failed, overlapped>>

\* VAD finds enough speech and sets USABLE_SPEECH_TARGET with the stop event.
EnoughSpeech(e) ==
    /\ thread[e] = "reading" /\ e \notin asked /\ kept[e] > 0
    /\ asked' = asked \cup {e}
    /\ UNCHANGED <<recorder, opening, thread, heard, kept, failed, overlapped>>

\* Mutant: reading from a recorder that is dead returns nothing instead of raising.
LeaveLoopSilentMutant(r) ==
    /\ thread[r] = "reading"
    /\ r \in asked \/ Full(r)
    /\ thread' = [thread EXCEPT ![r] = "returning"]
    /\ asked' = asked \ {r}
    /\ UNCHANGED <<recorder, opening, heard, kept, failed, overlapped>>

LeaveLoop(r) ==
    /\ thread[r] = "reading"
    /\ r \in asked \/ Full(r) \/ Unreadable
    /\ thread' = [thread EXCEPT ![r] = "returning"]
    /\ failed' = IF Looping(r) THEN failed \cup ({r} \cap Enrolments) ELSE failed
    /\ asked' = asked \ {r}
    /\ UNCHANGED <<recorder, opening, heard, kept, overlapped>>

\* append_audio, the speech worker or VAD raises in the loop
FailLoop(r) ==
    /\ Looping(r)
    /\ thread' = [thread EXCEPT ![r] = "returning"]
    /\ failed' = failed \cup ({r} \cap Enrolments)
    /\ UNCHANGED <<recorder, opening, asked, heard, kept, overlapped>>

\* What a stop cannot find, because it is just being started: by a call of start, or by
\* the reader thread.  Nobody stops that arecord.
Missed == opening \cup (IF recorder.gone THEN {recorder.for} ELSE {})

\* finally: ALSARecorder.stop.  The chunks not yet read stay in the queue.
StopRecord(r) ==
    /\ thread[r] = "returning"
    /\ recorder' = Over
    /\ thread' = [thread EXCEPT ![r] = "returned"]
    /\ UNCHANGED <<opening, asked, heard, kept, failed, overlapped>>

\* finish_capture, the row, _active.pop; or the result of the dictation; or
\* done_event.  The thread is gone.
EndThread(r) ==
    /\ thread[r] = "returned"
    /\ thread' = [thread EXCEPT ![r] = "none"]
    /\ heard' = [heard EXCEPT ![r] = {}]
    /\ kept' = [e \in Enrolments |-> IF e = r THEN 0 ELSE kept[e]]
    /\ UNCHANGED <<recorder, opening, asked, failed, overlapped>>

ThreadStep(r) == Read(r) \/ LeaveLoop(r) \/ StopRecord(r) \/ EndThread(r)
===============================================================================
