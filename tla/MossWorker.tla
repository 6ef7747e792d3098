------------------------------- MODULE MossWorker -------------------------------
(***************************************************************************)
(* The worker for long recordings: a spool of jobs on disk, a socket on    *)
(* which jobs are submitted, read and cancelled, and one scheduler thread  *)
(* that transcribes one job after the other, window by window, in a child  *)
(* process.  A window is committed by its checkpoint, and a job found      *)
(* unfinished after a restart is only marked.  The states between          *)
(* PREPARING and MERGING are one here, "RUNNING".                          *)
(***************************************************************************)
EXTENDS Integers, Sequences, FiniteSetsExt, SequencesExt

CONSTANTS
    Pieces,         \* a recording in pieces of eight minutes at most
    Recordings      \* bounds: the windows in which a recording is first planned, how
                    \* many jobs are submitted for it, what may trouble them, and how
                    \* often altogether

\* A window: its pieces, its longest length, and how many windows were tried before it.
Windows == [pieces : SUBSET Pieces, minutes : {8, 10}, attempt : Nat]

ASSUME MossAssumption ==
    /\ Pieces \subseteq Nat /\ IsFiniteSet(Pieces)
    /\ \A rec \in Recordings :
       /\ rec.plan \subseteq Windows /\ \A w \in rec.plan : w.pieces # {}
       /\ UNION {w.pieces : w \in rec.plan} = Pieces
       /\ rec.jobs \in Nat \ {0} /\ rec.troubles \in Nat
       /\ rec.kinds \subseteq {"cancel", "resume", "audio", "worker", "application"}

VARIABLES
    jobs,       \* the spool: of each job its state, whether a cancel is recorded, its
                \* plan, the checkpoints of its windows, and the merged text
    queue,      \* the jobs that wait for the scheduler
    scheduler,  \* where the scheduler is, and with which job
    events,     \* the jobs whose cancel event is set
    acked,      \* the jobs whose cancel was answered before they had ended
    stranded,   \* the jobs whose run broke without being able to write it
    changed,    \* the jobs whose audio file no longer has the hash they were given
    troubles,   \* how many troubles there have been
    recording   \* one of the Recordings: never changes

workerVars == <<jobs, queue, scheduler, events, acked, stranded, changed, troubles, recording>>

Terminal == {"COMPLETED", "FAILED", "CANCELLED"}
Job == [state |-> "QUEUED", asked |-> FALSE, checks |-> <<>>, text |-> {},
        plan |-> recording.plan]

NoJob == [at |-> "idle", job |-> 0]

WorkerInit ==
    /\ jobs = <<>> /\ queue = <<>> /\ scheduler = NoJob
    /\ events = {} /\ acked = {} /\ stranded = {} /\ changed = {} /\ troubles = 0
    /\ recording \in Recordings

With(j, result) == {w \in DOMAIN jobs[j].checks : jobs[j].checks[w] = result}
Done(j) == With(j, "done") \cap jobs[j].plan
Published(j) == UNION {w.pieces : w \in Done(j)}
Pending(j) == jobs[j].plan \ With(j, "done")
NextWindow(j) == CHOOSE w \in Pending(j) : \A v \in Pending(j) : Min(w.pieces) <= Min(v.pieces)
Ended(j) == jobs[j].state \in Terminal
Readable(j) == j \notin changed
Active(j) == scheduler.job = j /\ scheduler.at # "taken"
Trouble(kind) ==
    /\ kind \in recording.kinds
    /\ troubles < recording.troubles
    /\ troubles' = troubles + 1
--------------------------------------------------------------------------------
(* The socket: one request at a time *)

NewJob ==
    /\ Len(jobs) < recording.jobs
    /\ jobs' = Append(jobs, Job)
    /\ queue' = Append(queue, Len(jobs) + 1)
    /\ UNCHANGED <<scheduler, events, acked, stranded, changed, troubles, recording>>

Cancel(j) ==
    /\ Trouble("cancel")
    /\ Readable(j)
    /\ ~Ended(j)
    /\ events' = events \cup {j}
    /\ acked' = acked \cup {j}
    /\ jobs' = IF Active(j) THEN [jobs EXCEPT ![j].asked = TRUE]
                            ELSE [jobs EXCEPT ![j].state = "CANCELLED"]
    /\ UNCHANGED <<queue, scheduler, stranded, changed, recording>>

\* Not offered on the socket yet.  An active job whose cancel is recorded is ended
\* under the scheduler's feet.
Resume(j) ==
    /\ Trouble("resume")
    /\ Readable(j)
    /\ ~Ended(j)
    /\ IF jobs[j].asked
         THEN /\ jobs' = [jobs EXCEPT ![j].state = "CANCELLED"]
              /\ UNCHANGED <<queue, events>>
         ELSE /\ j \notin ToSet(queue) /\ ~Active(j)
              /\ queue' = Append(queue, j)
              /\ events' = events \ {j}
              /\ UNCHANGED jobs
    /\ UNCHANGED <<scheduler, acked, stranded, changed, recording>>

ChangeAudio ==
    /\ Trouble("audio")
    /\ changed # DOMAIN jobs
    /\ changed' = DOMAIN jobs
    /\ UNCHANGED <<jobs, queue, scheduler, events, acked, stranded, recording>>
--------------------------------------------------------------------------------
(* The scheduler thread *)

Go(at) == scheduler' = [scheduler EXCEPT !.at = at]
Leave == scheduler' = NoJob

\* A job that has ended changes its state no more: the run breaks.
Settle(j, state) ==
    /\ ~Ended(j)
    /\ jobs' = [jobs EXCEPT ![j].state = state]
    /\ Leave

Take ==
    /\ scheduler.at = "idle" /\ queue # <<>>
    /\ scheduler' = [at |-> "taken", job |-> Head(queue)]
    /\ queue' = Tail(queue)
    /\ UNCHANGED jobs

\* Mutant: a job that was cancelled while it waited is begun all the same.
ClaimMutant(j) ==
    /\ scheduler.at = "taken"
    /\ IF Readable(j)
         THEN jobs' = [jobs EXCEPT ![j].state = "RUNNING"] /\ Go("loop")
         ELSE Leave /\ UNCHANGED jobs

Claim(j) ==
    /\ scheduler.at = "taken"
    /\ IF Readable(j) /\ ~Ended(j)
         THEN jobs' = [jobs EXCEPT ![j].state = "RUNNING"] /\ Go("loop")
         ELSE Leave /\ UNCHANGED jobs

SeeCancel(j) ==
    /\ scheduler.at \in {"loop", "infer"}
    /\ j \in events
    /\ Settle(j, "CANCELLED")

Commit(j, w, result) ==
    jobs' = [jobs EXCEPT ![j].checks = [v \in DOMAIN @ \cup {w} |-> IF v = w THEN result ELSE @[v]]]

Fresh(j, p, minutes) == [pieces |-> p, minutes |-> minutes, attempt |-> Cardinality(DOMAIN jobs[j].checks)]

\* save_job writes windows.json and then job.json, holding the lock of every reader and
\* of cancel; the second write, PREPARING again, keeps a recorded cancel and changes
\* nothing that this module tells apart: a crash between them is a crash after them.
Replace(j, w, new) ==
    /\ ~Ended(j)
    /\ jobs' = [jobs EXCEPT ![j].plan = (@ \ {w}) \cup new, ![j].state = "RUNNING"]
    /\ UNCHANGED scheduler

\* A window that has failed is tried once more if the child crashed, in windows of
\* eight minutes if it was too long, and fails the job otherwise.
Retry(j, w) ==
    CASE jobs[j].checks[w] = "crashed" ->
            IF Cardinality(With(j, "crashed")) > 1
              THEN Settle(j, "FAILED")
              ELSE Replace(j, w, {Fresh(j, w.pieces, w.minutes)})
      [] jobs[j].checks[w] = "too long" ->
            \/ w.minutes = 10 /\ Replace(j, w, {Fresh(j, {p}, 8) : p \in w.pieces})
            \/ Settle(j, "FAILED")
      [] OTHER -> Settle(j, "FAILED")

Loop(j) ==
    /\ scheduler.at = "loop"
    /\ j \notin events
    /\ IF Pending(j) = {}
         THEN Go("merge") /\ UNCHANGED jobs
         ELSE LET w == NextWindow(j) IN
              IF w \in DOMAIN jobs[j].checks
                THEN Retry(j, w)
                ELSE \/ Commit(j, w, "too long") /\ UNCHANGED scheduler
                     \/ Go("infer") /\ UNCHANGED jobs

Infer(j) ==
    /\ scheduler.at = "infer"
    /\ \E result \in {"done", "too long", "invalid", "crashed"} : Commit(j, NextWindow(j), result)
    /\ Go("loop")

Merge(j) ==
    /\ scheduler.at = "merge" /\ ~Ended(j)
    /\ jobs' = [jobs EXCEPT ![j].text = Published(j)]
    /\ Go("finish")

Finish(j) ==
    /\ scheduler.at = "finish"
    /\ Settle(j, IF j \in events THEN "CANCELLED" ELSE "COMPLETED")

\* Anything unforeseen ends the run; the job is FAILED if that can still be written,
\* and otherwise keeps the state it has, with nobody working on it.
Break(j) ==
    /\ scheduler.at \notin {"idle", "taken"}
    /\ Leave
    /\ \/ /\ Readable(j) /\ ~Ended(j)
          /\ jobs' = [jobs EXCEPT ![j].state = "FAILED"]
          /\ UNCHANGED stranded
       \/ /\ stranded' = IF Ended(j) THEN stranded ELSE stranded \cup {j}
          /\ UNCHANGED jobs

Run(j) == SeeCancel(j) \/ Loop(j) \/ Infer(j) \/ Merge(j) \/ Finish(j)

Schedule ==
    /\ \/ Take /\ UNCHANGED stranded
       \/ Claim(scheduler.job) /\ UNCHANGED <<queue, stranded>>
       \/ /\ Readable(scheduler.job)
          /\ Run(scheduler.job)
          /\ UNCHANGED <<queue, stranded>>
       \/ Break(scheduler.job) /\ UNCHANGED queue
    /\ UNCHANGED <<events, acked, changed, troubles, recording>>
--------------------------------------------------------------------------------
\* Mutant: only a job that was being worked on is marked.
RecoveredMutant(j) ==
    IF Readable(j) /\ jobs[j].state = "RUNNING"
      THEN [jobs[j] EXCEPT !.state = "RECOVERY_REQUIRED"]
      ELSE jobs[j]

\* A recorded cancel is kept.
Recovered(j) ==
    IF Readable(j) /\ ~Ended(j)
      THEN [jobs[j] EXCEPT !.state = "RECOVERY_REQUIRED"]
      ELSE jobs[j]

\* The worker is killed, or loses its power, and starts again.
RestartWorker ==
    /\ Trouble("worker")
    /\ jobs' = [j \in DOMAIN jobs |-> Recovered(j)]
    /\ queue' = <<>> /\ scheduler' = NoJob /\ events' = {}
    /\ UNCHANGED <<acked, stranded, changed, recording>>

WorkerTypeOK ==
    /\ \A j \in DOMAIN jobs :
       /\ jobs[j].state \in {"QUEUED", "RUNNING", "RECOVERY_REQUIRED"} \cup Terminal
       /\ jobs[j].plan \subseteq Windows /\ DOMAIN jobs[j].checks \subseteq Windows
       /\ UNION {w.pieces : w \in jobs[j].plan} = Pieces
    /\ scheduler.at \in {"idle", "taken", "loop", "infer", "merge", "finish"}
    /\ ToSet(queue) \cup events \cup acked \cup stranded \cup changed \subseteq DOMAIN jobs
================================================================================
