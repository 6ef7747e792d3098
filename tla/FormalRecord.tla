----------------------------- MODULE FormalRecord -----------------------------
(***************************************************************************)
(* One interrogation from speech to the frozen record: recognition adds    *)
(* fragments, the speaker thread attributes them, the QA thread files them *)
(* in the record, the officers edit and confirm, and finalization freezes  *)
(* what there is.  The process may die between any two transactions.       *)
(***************************************************************************)
EXTENDS SpeakerJobs, RecordRequests

VARIABLE crashes

vars == <<tables, speaker, qaVars, requestVars, crashes>>

Init == TablesInit /\ JobsInit /\ RoutingInit /\ RequestsInit /\ crashes = 0
--------------------------------------------------------------------------------
(* The capture, as LiveSpeech describes it *)

\* AsrCaptureService.start, in a session that is RUNNING
StartCapture ==
    /\ capture \in {"NONE", "COMPLETE"} /\ captures < scenario.captures
    /\ workflow = "QUESTIONING"
    /\ capture' = "CAPTURING" /\ captures' = captures + 1
    /\ UNCHANGED <<scenario, frags, units, rounds, workflow, overtaken, speaker, qaVars,
                   request, final, asked, awaited, signatures, crashes>>

\* Recognition commits a final fragment, PENDING_ANALYSIS.  In a scenario with
\* speakers its job is over at once, as if analysis took no time.
Recognise ==
    /\ capture \in {"CAPTURING", "FINALIZING"}
    /\ Cardinality({f \in DOMAIN frags : frags[f].parent = 0}) < scenario.heard
    /\ \/ /\ scenario.speakers = {}
          /\ frags' = Append(frags, Heard)
          /\ UNCHANGED <<notices, marker>>
       \/ \E role \in scenario.speakers :
          /\ frags' = Append(frags, [Heard EXCEPT !.speaker = role, !.job = "OVER"])
          /\ Notify(IF role = "UNKNOWN" THEN <<>> ELSE <<Len(frags) + 1>>)
    /\ UNCHANGED <<scenario, units, rounds, capture, workflow, overtaken, speaker,
                   flush, startup, drain, qa, requestVars, crashes>>

StopCapture ==
    /\ capture = "CAPTURING"
    /\ capture' = "FINALIZING"
    /\ UNCHANGED <<scenario, frags, units, rounds, workflow, overtaken, speaker, qaVars,
                   requestVars, crashes>>

\* asr_status becomes COMPLETE ...
EndRecognition ==
    /\ capture = "FINALIZING"
    /\ capture' = "ENDING"
    /\ UNCHANGED <<scenario, frags, units, rounds, workflow, overtaken, speaker, qaVars,
                   requestVars, crashes>>

\* ... and then the thread queues the last speaker jobs, asks for a flush and
\* signals that the capture has finished.
FinishCallbacks ==
    /\ capture = "ENDING"
    /\ capture' = "COMPLETE"
    /\ frags' = WithJobs
    /\ flush' = TRUE
    /\ UNCHANGED <<scenario, units, rounds, workflow, overtaken, speaker,
                   notices, marker, startup, drain, qa, requestVars, crashes>>

Capturing == StartCapture \/ Recognise \/ StopCapture \/ EndRecognition \/ FinishCallbacks

\* _route_resolved_fragments tells the QA thread and the job is over.
TellResolved ==
    /\ Told /\ Notify(StillOpen)
    /\ UNCHANGED <<flush, startup, drain, qa>>

Analysis == Schedule \/ TakeNext \/ EndAnalysis

\* Both threads and the requests go; a capture that ran is ended by recovery.
Crash ==
    /\ crashes < scenario.crashes
    /\ crashes' = crashes + 1
    /\ capture' = CASE capture = "CAPTURING" -> "FINALIZING"
                    [] capture = "ENDING" -> "COMPLETE" [] OTHER -> capture
    /\ RestartJobs /\ RestartRouting /\ RestartRequests
    /\ UNCHANGED <<scenario, units, rounds, workflow, overtaken, asked, captures, awaited, signatures>>

Processed == capture \in {"NONE", "COMPLETE"} /\ JobsSettled

RoutingStep == UNCHANGED <<speaker, requestVars, crashes>> /\ Thread
AnalysisStep == UNCHANGED <<qaVars, requestVars, crashes>> /\ Analysis
TellStep == UNCHANGED <<requestVars, crashes>> /\ TellResolved
CommitStep == UNCHANGED <<speaker, crashes>> /\ Commit
RecognitionStep == EndRecognition \/ FinishCallbacks

Next ==
    \/ Capturing
    \/ AnalysisStep \/ TellStep \/ RoutingStep
    \/ (Requests \/ Waited(Processed)) /\ UNCHANGED <<speaker, crashes>>
    \/ Crash

\* The threads run as long as the process does, a request that has begun gets
\* its answer, and the end of a recording is processed.
Fairness ==
    /\ WF_vars(RoutingStep) /\ WF_vars(AnalysisStep) /\ WF_vars(TellStep) /\ WF_vars(CommitStep)
    /\ WF_vars(RecognitionStep)

Spec == Init /\ [][Next]_vars /\ Fairness
--------------------------------------------------------------------------------
TypeOK == TablesOK /\ JobsOK /\ RoutingOK /\ RequestsOK /\ crashes \in 0..scenario.crashes

\* A fragment is linked once, in one role, and one unit is open at most,
\* whichever of the queue, the sweeps, the flushes and the recoveries brings
\* the fragment, and however often (QAUnitBuilder.consume_fragment).
OneHome ==
    /\ \A u, v \in DOMAIN units : u # v => LinkedTo(units[u]) \cap LinkedTo(units[v]) = {}
    /\ \A u \in DOMAIN units : Cardinality(LinkedTo(units[u])) =
          Cardinality(units[u].question) + Cardinality(units[u].answer)
                                         + Cardinality(units[u].control)
    /\ Cardinality(OpenIn(units)) <= 1

\* A fragment that was replaced by its turns is not in the record beside them:
\* an edit or a confirmation made while the speaker thread works on it makes
\* the split void.  Only a request overtaken between its check and its write
\* brings a replaced fragment back (_commit_split_speaker_decisions).
SpokenOnce ==
    overtaken \/ \A f \in DOMAIN frags :
        LET p == frags[f].parent IN
        p # 0 => frags[p].state = "SUPERSEDED" /\ p \notin Assigned

\* A unit that is APPLIED stands in the record by one round, with all of its
\* answers, and no other unit stands there: late answers, rollbacks, manual
\* decisions and routing done again after a crash leave nothing double or
\* short, unless a handler was overtaken (apply_auto, resolve_manual,
\* rollback_qa_unit, reopen_for_late_answer).
FiledOnce ==
    overtaken \/ \A u \in DOMAIN units :
        LET live == {r \in DOMAIN rounds : rounds[r].unit = u /\ rounds[r].live} IN
        IF units[u].status = "APPLIED"
          THEN \E r \in live : live = {r} /\ rounds[r].answer = units[u].answer
          ELSE live = {}

\* The tables of the record agree: rows are well formed, and each piece of speech has one
\* home in the units, stands there once, and is filed once, whatever the threads and the
\* requests do in between (qa_routing_coordinator, live_speech_coordinator, message and
\* rollback requests).
RecordAgrees == TypeOK /\ OneHome /\ SpokenOnce /\ FiledOnce

\* When the record is frozen nothing of the session is in the works: no audio
\* to transcribe, no fragment to attribute, to review or to file, no unit to
\* decide, unless a handler was overtaken or a capture was begun after
\* finalization had waited for all there were (finalize).
FrozenIsWhole ==
    Frozen /\ ~overtaken /\ awaited = captures =>
        Processed /\ Reviewed /\ Decided /\ Eligible = {}

\* Once frozen the record stays what it is: no round is added or withdrawn, no
\* fragment changes, and the stage only goes on to signing, whatever was under
\* way; a handler that was overtaken is the only exception
\* (assert_formal_record_mutable, finalize).
FrozenStays ==
    [][Frozen /\ awaited = captures /\ ~overtaken' =>
         /\ rounds' = rounds /\ frags' = frags
         /\ workflow' = workflow \/ workflow' \in Allowed(workflow)]_vars

\* Speech that was attributed is filed and units that are complete are decided
\* in the end, across dropped notices, requests and restarts of the process
\* (_recovery_markers, _recover_unassigned_sessions, _recover_speaker_jobs).
Backlog ==
    \/ Eligible # {}
    \/ \E u \in DOMAIN units : units[u].status \in {"CLOSED", "ROUTING"}
    \/ \E f \in DOMAIN frags : frags[f].job \in {"PENDING", "RUNNING"}
CatchesUp == Backlog ~> (~Backlog \/ overtaken)

================================================================================
