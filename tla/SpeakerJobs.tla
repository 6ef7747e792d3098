------------------------------ MODULE SpeakerJobs ------------------------------
(***************************************************************************)
(* The speaker thread (app/services/live_speech_coordinator.py): each      *)
(* fragment that recognition wrote gets one durable job; the thread reads  *)
(* the job, works on the audio for seconds with no lock held, and then     *)
(* writes its outcome if the fragment is still untouched.                  *)
(*                                                                         *)
(* What QA routing is told goes through Notify, an operator the composing  *)
(* module supplies by the variable notices.                                *)
(***************************************************************************)
EXTENDS RecordTables

VARIABLE
    speaker     \* what the thread has in hand; its queue, filled again at every
                \* start, holds the jobs that are PENDING

Resting == [stage |-> "idle", frag |-> 0, resolved |-> <<>>]

JobsInit == speaker = Resting

JobsOK ==
    /\ speaker \in [stage : {"idle", "working", "telling"},
                    frag : 0..MaxFragments,
                    resolved : Seq(1..MaxFragments)]

\* The unresolved fragments of the capture, and the pass that gives each a job
Unscheduled == {f \in DOMAIN frags : Unedited(frags[f]) /\ frags[f].job = "NONE"}
WithJobs == [f \in DOMAIN frags |->
                IF f \in Unscheduled THEN [frags[f] EXCEPT !.job = "PENDING"]
                                     ELSE frags[f]]

\* schedule_speaker_jobs: once there is speech enough while the capture runs
Schedule ==
    /\ capture \in {"CAPTURING", "FINALIZING"}
    /\ Unscheduled # {}
    /\ frags' = WithJobs
    /\ UNCHANGED <<scenario, units, rounds, capture, workflow, overtaken, speaker>>

\* The jobs that _queue_speaker_job has put in the queue, once each; the order
\* of the queue is left open.
Waiting == {f \in DOMAIN frags : frags[f].job = "PENDING"}

\* process_speaker_job up to the commit that marks it RUNNING.  A job whose
\* fragment was edited meanwhile is done with.
TakeJob(f) ==
    /\ IF Unedited(frags[f])
         THEN /\ frags' = [frags EXCEPT ![f].job = "RUNNING"]
              /\ speaker' = [Resting EXCEPT !.stage = "working", !.frag = f]
         ELSE /\ frags' = [frags EXCEPT ![f].job = "OVER"]
              /\ UNCHANGED speaker
    /\ UNCHANGED <<scenario, units, rounds, capture, workflow, overtaken>>

\* The thread takes the next job when recognition leaves it the time.
TakeNext == speaker.stage = "idle" /\ \E f \in Waiting : TakeJob(f)

\* The end of a job, with the fragments that QA routing must be told of
EndJob(resolved) ==
    /\ speaker' = IF resolved = <<>> THEN Resting
                  ELSE [speaker EXCEPT !.stage = "telling", !.resolved = resolved]
    /\ UNCHANGED <<scenario, units, rounds, capture, workflow, overtaken>>

\* _commit_single_speaker_decision; a failure and an ambiguous boundary leave the
\* fragment UNKNOWN and the job NEEDS_REVIEW, which ends it as well.
CommitSingle(role) ==
    LET f == speaker.frag IN
    /\ speaker.stage = "working"
    /\ IF Unedited(frags[f])
         THEN /\ frags' = [frags EXCEPT ![f].job = "OVER", ![f].speaker = role]
              /\ EndJob(IF role = "UNKNOWN" THEN <<>> ELSE <<f>>)
         ELSE /\ frags' = [frags EXCEPT ![f].job = "OVER"]
              /\ EndJob(<<>>)

\* Mutant: the fragment is not looked at again.
CommitSplitMutant(first, second) ==
    LET f == speaker.frag
        n == Len(frags)
        Child(role) == [speaker |-> role, state |-> "PENDING", job |-> "OVER", parent |-> f]
    IN
    /\ speaker.stage = "working" /\ n + 2 <= MaxFragments
    /\ frags' = [frags EXCEPT ![f].job = "OVER", ![f].state = "SUPERSEDED"]
                \o <<Child(first), Child(second)>>
    /\ EndJob(<<>>)

\* _commit_split_speaker_decisions: the turns replace the fragment.
CommitSplit(first, second) ==
    LET f == speaker.frag
        n == Len(frags)
        Child(role) == [speaker |-> role, state |-> "PENDING", job |-> "OVER", parent |-> f]
    IN
    /\ speaker.stage = "working"
    /\ IF Unedited(frags[f])
         THEN /\ n + 2 <= MaxFragments
              /\ frags' = [frags EXCEPT ![f].job = "OVER", ![f].state = "SUPERSEDED"]
                          \o <<Child(first), Child(second)>>
              /\ EndJob(SelectSeq(<<n + 1, n + 2>>,
                            LAMBDA c : \/ (c = n + 1 /\ first # "UNKNOWN")
                                       \/ (c = n + 2 /\ second # "UNKNOWN")))
         ELSE /\ frags' = [frags EXCEPT ![f].job = "OVER"]
              /\ EndJob(<<>>)

\* What the analysis of the sound comes to: one speaker, UNKNOWN when the
\* boundary is ambiguous or any step of it fails, or the speakers of the turns it
\* is cut into: two here, with different voices.
Voices == Roles \cup {"UNKNOWN"}
Verdicts == {<<v>> : v \in Voices} \cup {t \in Voices \X Voices : t[1] # t[2]}
EndAnalysis ==
    \E v \in Verdicts : IF Len(v) = 1 THEN CommitSingle(v[1]) ELSE CommitSplit(v[1], v[2])

\* _route_resolved_fragments reads again which are still open; the composing
\* module hands those to QA routing.
StillOpen == SelectSeq(speaker.resolved,
                       LAMBDA f : frags[f].speaker \in Roles
                                  /\ frags[f].state \in {"PENDING", "EDITED"})
Told ==
    /\ speaker.stage = "telling"
    /\ speaker' = Resting
    /\ UNCHANGED tables

\* Nothing of the session waits for the speaker thread.
JobsSettled == speaker = Resting /\ \A f \in DOMAIN frags : frags[f].job \notin {"PENDING", "RUNNING"}

\* The restart: _recover_speaker_jobs after schedule_speaker_jobs of what ended.
Rescheduled ==
    [f \in DOMAIN frags |->
        IF \/ frags[f].job = "RUNNING"
           \/ f \in Unscheduled /\ capture \in {"ENDING", "COMPLETE"}
          THEN [frags[f] EXCEPT !.job = "PENDING"] ELSE frags[f]]
RestartJobs ==
    /\ frags' = Rescheduled
    /\ speaker' = Resting
================================================================================
