------------------------------ MODULE AsrCapture ------------------------------
(***************************************************************************)
(* Who may use the microphone for recognition: the calls start, stop,      *)
(* status and shutdown of SourceAwareAsrCaptureService, with those of the  *)
(* AsrCaptureService of the ALSA input that they wrap.  The HTTP handlers  *)
(* that call them run in a thread pool.  A start is serialised by the lock *)
(* of the wrapper; a stop and a status keep what they read across a wait.  *)
(***************************************************************************)
EXTENDS AlsaRecorder

VARIABLES
    sources,    \* _capture_sources: the captures of the ALSA input
    dictation,  \* _preparation_source
    lock,       \* who holds the wrapper's lock across steps
    asrCall,    \* for each caller, where its call is
    outrun      \* history: readers started while a stop, a status or a
                \* shutdown of an earlier one of theirs was under way

asrVars == <<sources, dictation, lock, asrCall, outrun>>

AsrReaders == Captures \cup Preparations
NoAsrCall == [op |-> "idle", for |-> Nobody]

AsrTypeOK ==
    /\ sources \subseteq Captures /\ dictation \in Preparations \cup {Nobody}
    /\ lock \in Callers \cup {Nobody} /\ outrun \subseteq AsrReaders
    /\ asrCall \in [Callers -> {NoAsrCall}
                    \cup [op : {"start", "record", "forget"}, for : AsrReaders]
                    \cup [op : {"clear"}, for : {Nobody}]]

AsrInit ==
    /\ sources = {} /\ dictation = Nobody /\ lock = Nobody /\ outrun = {}
    /\ asrCall = [t \in Callers |-> NoAsrCall]

Alive(r) == thread[r] # "none"
Calls(t, op, r) == asrCall' = [asrCall EXCEPT ![t] = [op |-> op, for |-> r]]
Returns(t) == asrCall' = [asrCall EXCEPT ![t] = NoAsrCall]
Idle(t) == asrCall[t] = NoAsrCall
--------------------------------------------------------------------------------
(* start and start_preparation *)

\* _prune_capture_if_stopped, for every case
Pruned == {c \in sources : Alive(c)}

\* ASR_AUDIO_RESOURCE_BUSY and ALREADY_ACTIVE, of the wrapper and then of the
\* service: a capture asks only for its own thread and for dictations, a
\* dictation for any thread.
Busy(r) ==
    \/ Pruned # {} \/ dictation # Nobody
    \/ r \in Captures /\ Alive(r)
    \/ \E p \in Preparations : Alive(p)
    \/ r \in Preparations /\ \E c \in Captures : Alive(c)

Start(t, r) ==
    /\ Idle(t) /\ lock = Nobody
    /\ sources' = Pruned
    /\ \/ Busy(r) /\ UNCHANGED <<lock, asrCall>>
       \/ ~Busy(r) /\ lock' = t /\ Calls(t, "start", r)
    /\ UNCHANGED <<recorderVars, dictation, outrun>>

\* Mutant: the cleanup of a failed start stops the recorder all the same.
OpenRecorderMutant(t) ==
    /\ asrCall[t].op = "start"
    /\ \/ /\ CheckIdle(asrCall[t].for) /\ Calls(t, "record", asrCall[t].for)
          /\ UNCHANGED lock
       \/ /\ recorder.running /\ Returns(t) /\ lock' = Nobody
          /\ recorder' = Over
          /\ UNCHANGED <<opening, thread, asked, heard, kept, failed, overlapped>>
    /\ UNCHANGED <<sources, dictation, outrun>>

\* The rows, the archive or the speech session are open: start_record, which may
\* find the microphone busy.  The cleanup leaves the recorder alone.
OpenRecorder(t) ==
    /\ asrCall[t].op = "start"
    /\ \/ /\ CheckIdle(asrCall[t].for) /\ Calls(t, "record", asrCall[t].for)
          /\ UNCHANGED lock
       \/ /\ recorder.running /\ Returns(t) /\ lock' = Nobody
          /\ UNCHANGED recorderVars
    /\ UNCHANGED <<sources, dictation, outrun>>

StartFails(t) ==
    /\ \/ asrCall[t].op = "start" /\ UNCHANGED recorderVars
       \/ asrCall[t].op = "record" /\ Abandon(asrCall[t].for)
    /\ Returns(t) /\ lock' = Nobody
    /\ UNCHANGED <<sources, dictation, outrun>>

\* arecord runs, the runtime is registered and its thread started.
StartThread(t) ==
    LET r == asrCall[t].for IN
    /\ asrCall[t].op = "record" /\ Record(r)
    /\ Returns(t) /\ lock' = Nobody
    /\ sources' = sources \cup ({r} \cap Captures)
    /\ dictation' = IF r \in Preparations THEN r ELSE dictation
    /\ outrun' = IF \E u \in Callers : \/ asrCall[u].op = "clear"
                                       \/ asrCall[u] = [op |-> "forget", for |-> r]
                 THEN outrun \cup {r} ELSE outrun \ {r}
--------------------------------------------------------------------------------
(* stop, stop_preparation, status and shutdown *)

\* stop_event.set(); a thread that has left its loop does not look at it any more.
AskToStop(r) == asked' = IF thread[r] = "reading" THEN asked \cup {r} ELSE asked

\* The caller holds the entry that it found.  Without one stop is a status; a
\* dictation is asked to stop all the same.
Stop(t, r) ==
    /\ Idle(t) /\ lock = Nobody
    /\ r \in Captures => r \in sources
    /\ AskToStop(r)
    /\ IF r \in sources \cup {dictation} THEN Calls(t, "forget", r) ELSE UNCHANGED asrCall
    /\ UNCHANGED <<recorder, opening, thread, heard, kept, failed, overlapped,
                   sources, dictation, lock, outrun>>

\* Mutant: status drops the entry without asking whether the capture is active.
PollMutant(t, r) ==
    /\ Idle(t) /\ lock = Nobody
    /\ r \in sources
    /\ Calls(t, "forget", r)
    /\ UNCHANGED <<recorderVars, sources, dictation, lock, outrun>>

\* status finds an entry whose capture is not active
Poll(t, r) ==
    /\ Idle(t) /\ lock = Nobody
    /\ r \in sources /\ ~Alive(r)
    /\ Calls(t, "forget", r)
    /\ UNCHANGED <<recorderVars, sources, dictation, lock, outrun>>

\* The thread is joined, or the join times out (504): either way the entry is
\* dropped if it is equal to the one found.
Forget(t) ==
    /\ asrCall[t].op = "forget" /\ lock = Nobody
    /\ sources' = sources \ {asrCall[t].for}
    /\ dictation' = IF dictation = asrCall[t].for THEN Nobody ELSE dictation
    /\ Returns(t)
    /\ UNCHANGED <<recorderVars, lock, outrun>>

\* shutdown (POST /asr/stop): every registered thread is asked to stop ...
Shutdown(t) ==
    /\ Idle(t)
    /\ asked' = asked \cup {r \in AsrReaders : thread[r] = "reading"}
    /\ Calls(t, "clear", Nobody)
    /\ UNCHANGED <<recorder, opening, thread, heard, kept, failed, overlapped,
                   sources, dictation, lock, outrun>>

\* ... and then every entry is dropped
Clear(t) ==
    /\ asrCall[t].op = "clear" /\ lock = Nobody
    /\ sources' = {} /\ dictation' = Nobody
    /\ Returns(t)
    /\ UNCHANGED <<recorderVars, lock, outrun>>

AsrStep(t) == OpenRecorder(t) \/ StartThread(t) \/ Forget(t) \/ Clear(t)
===============================================================================
