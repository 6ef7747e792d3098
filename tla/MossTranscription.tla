--------------------------- MODULE MossTranscription ---------------------------
(***************************************************************************)
(* The application's side of a long transcription with its worker: HTTP    *)
(* calls that submit a recording and write a row for the job, and a poller *)
(* that copies what the worker has published into revisions of the row.    *)
(***************************************************************************)
EXTENDS MossWorker

CONSTANT Callers    \* bound: HTTP calls at a time

MaxJobs == Max({rec.jobs : rec \in Recordings})

VARIABLES
    rows,       \* the rows of the case, oldest first: job, state, and the latest
                \* revision: its text and whether it is the final one
    calls,      \* of each HTTP call where it is, and the job it repeats or has submitted
    poll        \* what the poller has read from the worker: row, state and text

vars == <<workerVars, rows, calls, poll>>

Settled == Terminal \cup {"RECOVERY_REQUIRED"}
NoCall == [at |-> "none", job |-> 0]
NoPoll == [row |-> 0, state |-> "", text |-> {}]

Init == WorkerInit /\ rows = <<>> /\ calls = [t \in Callers |-> NoCall] /\ poll = NoPoll

To(t, at, j) == calls' = [calls EXCEPT ![t] = [at |-> at, job |-> j]]

\* No matter whether another job of the case is active.
Submit(t) ==
    /\ calls[t].at = "none"
    /\ To(t, "submitting", 0)
    /\ UNCHANGED <<workerVars, rows, poll>>

Resubmit(t) ==
    /\ calls[t].at = "none"
    /\ rows # <<>> /\ Last(rows).state \in Settled
    /\ To(t, "submitting", Last(rows).job)
    /\ UNCHANGED <<workerVars, rows, poll>>

\* The worker refuses a recording without the hash of the job that is repeated.
SubmitJob(t) ==
    /\ calls[t].at = "submitting"
    /\ calls[t].job # 0 => Readable(calls[t].job)
    /\ NewJob
    /\ To(t, "submitted", Len(jobs) + 1)
    /\ UNCHANGED <<rows, poll>>

CreateRow(t) ==
    /\ calls[t].at = "submitted"
    /\ rows' = Append(rows, [job |-> calls[t].job, state |-> "QUEUED", text |-> {}, final |-> FALSE])
    /\ To(t, "none", 0)
    /\ UNCHANGED <<workerVars, poll>>

\* Refused, timed out, or failed: a job may have been submitted all the same.
CallFails(t) ==
    /\ calls[t].at # "none"
    /\ To(t, "none", 0)
    /\ UNCHANGED <<workerVars, rows, poll>>

\* A read of a job whose audio has changed fails, and so does every later one.
PollJob(r) ==
    LET j == rows[r].job IN
    /\ poll = NoPoll
    /\ r \in DOMAIN rows /\ rows[r].state \notin Settled
    /\ Readable(j)
    /\ poll' = [row |-> r, state |-> jobs[j].state,
                text |-> CASE jobs[j].state = "COMPLETED" -> jobs[j].text
                           [] jobs[j].state \in Settled \ {"COMPLETED"} -> {}
                           [] OTHER -> Published(j)]
    /\ UNCHANGED <<workerVars, rows, calls>>

\* Mutant: the final revision is left out if it has no more text than the last one.
PollRowMutant ==
    LET r == poll.row
        more == Cardinality(poll.text) > Cardinality(rows[r].text) IN
    /\ poll # NoPoll
    /\ poll' = NoPoll
    /\ IF rows[r].state \in Settled
         THEN UNCHANGED rows
         ELSE rows' = [rows EXCEPT
                ![r].state = poll.state,
                ![r].text = IF more THEN poll.text ELSE @,
                ![r].final = poll.state = "COMPLETED" /\ more]
    /\ UNCHANGED <<workerVars, calls>>

\* A settled row stays as it is, a longer text is a new revision, and a job that has
\* completed gets its final revision together with its state.
PollRow ==
    LET r == poll.row
        final == poll.state = "COMPLETED" IN
    /\ poll # NoPoll
    /\ poll' = NoPoll
    /\ IF rows[r].state \in Settled
         THEN UNCHANGED rows
         ELSE rows' = [rows EXCEPT
                ![r].state = poll.state,
                ![r].text = IF final \/ Cardinality(poll.text) > Cardinality(@) THEN poll.text ELSE @,
                ![r].final = final]
    /\ UNCHANGED <<workerVars, calls>>

RestartApplication ==
    /\ Trouble("application")
    /\ calls' = [t \in Callers |-> NoCall] /\ poll' = NoPoll
    /\ UNCHANGED <<jobs, queue, scheduler, events, acked, stranded, changed, recording, rows>>

Next ==
    \/ \E t \in Callers :
       Submit(t) \/ Resubmit(t) \/ SubmitJob(t) \/ CreateRow(t) \/ CallFails(t)
    \/ \E r \in DOMAIN rows : PollJob(r)
    \/ PollRow
    \/ RestartApplication
    \/ (Schedule \/ RestartWorker \/ ChangeAudio) /\ UNCHANGED <<rows, calls, poll>>
    \/ \E j \in DOMAIN jobs : (Cancel(j) \/ Resume(j)) /\ UNCHANGED <<rows, calls, poll>>

\* The threads run, the child answers or dies, and the poller visits every row again
\* and again.
Fairness ==
    /\ WF_vars(Schedule /\ UNCHANGED <<rows, calls, poll>>)
    /\ \A r \in 1..MaxJobs : SF_vars(r \in DOMAIN rows /\ PollJob(r))
    /\ WF_vars(PollRow)

Spec == Init /\ [][Next]_vars /\ Fairness
--------------------------------------------------------------------------------
TypeOK ==
    /\ WorkerTypeOK
    /\ \A r \in DOMAIN rows :
       /\ rows[r].job \in DOMAIN jobs
       /\ rows[r].state \in {"QUEUED", "RUNNING"} \cup Settled
       /\ rows[r].text \subseteq Pieces
    /\ poll.row \in 0..Len(rows)

Outcome(j) == IF jobs[j].state \in Terminal THEN jobs[j].state ELSE "open"
Shown(r) == [job |-> rows[r].job, text |-> rows[r].text, final |-> rows[r].final]
Transcript == INSTANCE MossTranscript WITH
    Whole <- Pieces,
    text <- [j \in DOMAIN jobs |-> Published(j)],
    outcome <- [j \in DOMAIN jobs |-> Outcome(j)],
    shown <- [r \in DOMAIN rows |-> Shown(r)]

\* Windows that are retried, split and merged, restarts and polls together keep the
\* promise of MossTranscript: text never gets lost and the end is final.
ImplementsTranscript == Transcript!Spec

\* A job whose cancel was answered never completes, even if the worker restarts before
\* it has looked at the cancel and the job is resumed.
CancelHolds == \A j \in acked : jobs[j].state # "COMPLETED"

\* A job survives one crash of the child, and no more, whatever power losses and
\* resumptions lie between the crashes.
OneRecovery ==
    \A j \in DOMAIN jobs :
        /\ Cardinality(With(j, "crashed")) <= 2
        /\ jobs[j].state = "COMPLETED" => Cardinality(With(j, "crashed")) <= 1

\* A job keeps its promises through crashes and restarts: it is well formed, a cancel
\* that was answered holds, and one crash of the child is recovered from, not more
\* (MossSupervisor.cancel, run_pending, _recover_spool).
JobsHold == TypeOK /\ CancelHolds /\ OneRecovery

\* A row that says COMPLETED has its final revision, of a job that has completed, with
\* the text of every piece of the recording.
RowIsWhole ==
    \A r \in DOMAIN rows :
        rows[r].state = "COMPLETED" =>
            rows[r].final /\ rows[r].text = Pieces /\ jobs[rows[r].job].state = "COMPLETED"

\* The worker's jobs and the application's rows about them, through restarts of either.
JobsAndRowsHold == JobsHold /\ RowIsWhole

\* Every row is settled in the end, so that the recording can be submitted again, unless
\* the audio has changed or the worker could not even write that the job had failed.
Settles ==
    \A r \in 1..MaxJobs :
        (r \in DOMAIN rows /\ rows[r].state \notin Settled)
            ~> (/\ r \in DOMAIN rows
                /\ \/ rows[r].state \in Settled
                   \/ rows[r].job \in changed \cup stranded)
================================================================================
