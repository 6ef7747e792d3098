------------------------------- MODULE LiveSpeech -------------------------------
(***************************************************************************)
(* How the recording of one capture becomes text: the capture loop, the    *)
(* browser's frames, the recognition queue with its one consumer thread,   *)
(* and the restart (app/services/live_speech_coordinator.py with           *)
(* app/services/asr_capture_service.py).                                   *)
(*                                                                         *)
(* Audio is committed to the archive first and only then queued for        *)
(* recognition; a cursor, a marker of the unfinished utterance and a       *)
(* finalization checkpoint in the database say where recognition has to    *)
(* begin again after a restart.  Each transaction is one step, and between *)
(* the transactions of a call the other threads run.                       *)
(*                                                                         *)
(* The archive is here what AudioLog promises of it while no stored audio  *)
(* is damaged: a sample count and a recording status.  A value that may be *)
(* absent (a nullable column) is the set of it: {} or {n}.                 *)
(***************************************************************************)
EXTENDS SpeechSession, Sequences

CONSTANTS
    Recordings,     \* the voiced positions of the recordings explored
    Kinds,          \* the kinds of capture explored: "device", "browser"
    MaxSamples,     \* bound: samples recorded
    MaxPiece,       \* _MAX_INFERENCE_SAMPLES, also the most one append carries
    ReplayWindow,   \* _FINALIZE_REPLAY_WINDOW_MS
    MaxCrashes,     \* bound: crashes of the backend
    MaxFaults       \* bound: failing calls of the worker, archive and database

\* "a 6.2-second tail covers finalization output"
ASSUME WindowAssumption ==
    /\ MaxPiece \in Nat \ {0}
    /\ ReplayWindow \in Nat
    /\ ReplayWindow >= MaxUtterance + PreRoll

ASSUME EnvironmentAssumption ==
    /\ Kinds \subseteq {"device", "browser"}
    /\ MaxSamples \in Nat /\ MaxCrashes \in Nat /\ MaxFaults \in Nat
    /\ Recordings \subseteq SUBSET Nat

VARIABLES
    kind, voice,     \* which capture is explored: never change
    rec,             \* capture.recording_status
    count,           \* capture.audio_sample_count
    asr,             \* capture.asr_status
    cursor,          \* capture.asr_cursor_sample
    unfinished,      \* capture.asr_unfinished_start_sample
    checkpoint,      \* capture.asr_finalize_checkpoint_sample
    fragments,       \* the rows of asr_fragments, by the range of their key
    up,              \* the backend: "down", booting ("begun", "sealed"), "up"
    loop,            \* the capture loop: "recording", steps of stopping, "stopped"
    feed,            \* the call in progress that brings audio, or completes it
    queue,           \* asr_queue
    task,            \* what the recognition thread is working on
    asrCursor,       \* _asr_cursors of this capture
    blocked,         \* is the capture in _asr_blocked?
    storageError,    \* runtime.storage_error
    recovering,      \* is it in _browser_recoveries_started?
    session,         \* the worker's session: open in _open_asr_sessions?
    crashes, faults, \* counters of the environment
    reopened         \* where sessions began with too much unread audio behind them

capture == <<rec, count>>
progress == <<asr, cursor, unfinished, checkpoint>>
memory == <<asrCursor, blocked, storageError, recovering>>
worker == <<session, reopened>>
env == <<kind, voice, crashes, faults>>
vars == <<env, capture, progress, fragments, up, loop, feed, queue, task,
          memory, worker>>
--------------------------------------------------------------------------------
Positions == 0..MaxSamples
Optional == {{}} \cup {{n} : n \in Positions}
Utterances == Positions \X Positions

RangeOf(from, to) == [kind |-> "range", start |-> from, end |-> to]
Finish == [kind |-> "finish", start |-> 0, end |-> 0]
Tasks == [kind : {"range", "finish"}, start : Positions, end : Positions]

\* A task in hand: how far it is, what is still to commit, the marker to set.
Idle == [kind |-> "none", stage |-> "none", start |-> 0, end |-> 0,
         finals |-> {}, open |-> {}]
InHand(t) == [kind |-> t.kind, stage |-> "taken", start |-> t.start,
              end |-> t.end, finals |-> {}, open |-> {}]

NoCall == [at |-> "idle", start |-> 0, end |-> 0]
Closed == [open |-> FALSE, base |-> 0, pos |-> 0]

\* [from, to) in pieces of at most MaxPiece samples.
Pieces(from, to) ==
    [i \in 1..((to - from + MaxPiece - 1) \div MaxPiece) |->
        RangeOf(from + (i - 1) * MaxPiece, LeastOf({to, from + i * MaxPiece}))]

\* Queue.join would return.
Drained == queue = <<>> /\ task = Idle

Fault == faults < MaxFaults /\ faults' = faults + 1

Init ==
    /\ kind \in Kinds /\ voice \in Recordings
    /\ rec = "CAPTURING" /\ count = 0
    /\ asr = "PENDING" /\ cursor = 0 /\ unfinished = {} /\ checkpoint = {}
    /\ fragments = {}
    /\ up = "up" /\ loop = "recording" /\ feed = NoCall
    /\ queue = <<>> /\ task = Idle
    /\ asrCursor = {0} /\ blocked = FALSE /\ storageError = FALSE
    /\ recovering = FALSE
    /\ session = Closed /\ reopened = {}
    /\ crashes = 0 /\ faults = 0

\* Mutant of BeginFinalization: without a marker, nothing needs a replay.
BeginFinalizationMutant ==
    /\ checkpoint' = {LeastOf((IF unfinished # {} THEN unfinished ELSE {count})
                                \cup checkpoint)}
    /\ asr' = "FINALIZING"
    /\ UNCHANGED <<cursor, unfinished>>

\* _begin_asr_finalization: where a replay would have to begin.
BeginFinalization ==
    LET tail == IF count > ReplayWindow THEN count - ReplayWindow ELSE 0
        marker == IF unfinished # {} THEN unfinished ELSE {tail}
    IN /\ checkpoint' = {LeastOf(marker \cup checkpoint)}
       /\ asr' = "FINALIZING"
       /\ UNCHANGED <<cursor, unfinished>>

\* _mark_storage_error: also a COMPLETE capture becomes INCOMPLETE.
MarkStorageError == storageError' = TRUE /\ rec' = "INCOMPLETE"

Put(tasks) == queue' = queue \o tasks
--------------------------------------------------------------------------------
(* Audio arrives: append_audio, called by the capture loop of a device or   *)
(* for a frame of the browser.                                              *)

\* ingest_browser_frame finds the capture CAPTURING, or the loop has read a chunk.
FrameArrives ==
    /\ up = "up" /\ feed = NoCall
    /\ loop = "recording" /\ count < MaxSamples
    /\ kind = "browser" => rec = "CAPTURING"
    /\ feed' = [NoCall EXCEPT !.at = "live"]
    /\ UNCHANGED <<env, capture, progress, fragments, up, loop, queue, task,
                   memory, worker>>

\* The archive commits the frame.
Store ==
    /\ feed.at = "live" /\ rec = "CAPTURING"
    /\ \E n \in 1..MaxPiece :
        /\ count + n <= MaxSamples
        /\ count' = count + n
        /\ feed' = [at |-> "stored", start |-> count, end |-> count + n]
    /\ UNCHANGED <<env, rec, progress, fragments, up, loop, queue, task,
                   memory, worker>>

\* Only now is its range queued, whatever has happened to the capture meanwhile.
QueueStored ==
    /\ feed.at = "stored"
    /\ Put(<<RangeOf(feed.start, feed.end)>>)
    /\ feed' = NoCall
    /\ UNCHANGED <<env, capture, progress, fragments, up, loop, task, memory, worker>>

\* The archive refuses: the capture is no longer CAPTURING, or storage fails.
\* A device's loop ends; the handler of the browser's socket stops its loop.
StoreFails ==
    /\ feed.at = "live"
    /\ \/ rec # "CAPTURING" /\ UNCHANGED faults
       \/ Fault
    /\ MarkStorageError
    /\ feed' = NoCall
    /\ loop' = IF loop = "recording" THEN "stopping" ELSE loop
    /\ UNCHANGED <<kind, voice, crashes, count, progress, fragments, up, queue,
                   task, asrCursor, blocked, recovering, worker>>

\* mark_browser_capture_incomplete: the browser has lost audio, or a frame did
\* not continue the recording; the loop is told to stop.
BrowserGivesUp ==
    /\ kind = "browser" /\ up = "up" /\ feed = NoCall
    /\ rec = "CAPTURING"
    /\ rec' = "INCOMPLETE"
    /\ loop' = IF loop = "recording" THEN "stopping" ELSE loop
    /\ UNCHANGED <<env, count, progress, fragments, up, feed, queue, task, memory,
                   worker>>
--------------------------------------------------------------------------------
(* The capture loop ends: stop, then finish_capture.  A device's loop brings *)
(* the audio itself and cannot end in the middle of an append; a browser's   *)
(* frames come on other threads.                                             *)

Stop ==
    /\ up = "up" /\ loop = "recording"
    /\ kind = "device" => feed = NoCall
    /\ loop' = "stopping"
    /\ UNCHANGED <<env, capture, progress, fragments, up, feed, queue, task,
                   memory, worker>>

\* finish_capture of a capture whose storage failed.
FinishBlocked ==
    /\ loop = "stopping" /\ storageError
    /\ blocked' = TRUE
    /\ loop' = "finished"
    /\ UNCHANGED <<env, capture, progress, fragments, up, feed, queue, task,
                   asrCursor, storageError, recovering, worker>>

FinishBegins ==
    /\ loop = "stopping" /\ ~storageError
    /\ BeginFinalization
    /\ loop' = "begun"
    /\ UNCHANGED <<env, capture, fragments, up, feed, queue, task, memory, worker>>

\* The archive is finalized if the capture was seen CAPTURING.
FinishReads ==
    /\ loop = "begun"
    /\ loop' = IF rec = "CAPTURING" THEN "sealing" ELSE "finished"
    /\ UNCHANGED <<env, capture, progress, fragments, up, feed, queue, task,
                   memory, worker>>

FinishSeals ==
    /\ loop = "sealing" /\ rec # "INCOMPLETE"
    /\ rec' = "COMPLETE"
    /\ loop' = "finished"
    /\ UNCHANGED <<env, count, progress, fragments, up, feed, queue, task,
                   memory, worker>>

\* finalize_capture refuses an INCOMPLETE capture; either call may fail.
FinishFails ==
    /\ \/ loop = "sealing" /\ rec = "INCOMPLETE" /\ UNCHANGED faults
       \/ loop = "stopping" /\ ~storageError /\ Fault
       \/ loop = "sealing" /\ rec # "INCOMPLETE" /\ Fault
    /\ MarkStorageError
    /\ blocked' = TRUE
    /\ loop' = "finished"
    /\ UNCHANGED <<kind, voice, crashes, count, progress, fragments, up, feed,
                   queue, task, asrCursor, recovering, worker>>

\* _enqueue_finish_capture.
FinishQueued ==
    /\ loop = "finished"
    /\ Put(<<Finish>>)
    /\ loop' = "stopped"
    /\ UNCHANGED <<env, capture, progress, fragments, up, feed, task, memory,
                   worker>>
--------------------------------------------------------------------------------
(* The browser brings frames of an INCOMPLETE capture it still holds        *)
(* (replay_browser_frame) and then asks to complete it                      *)
(* (complete_browser_capture_recovery).  Its socket waited for the capture  *)
(* loop to end before it closed; a frame already stored changes nothing.    *)

CanRecover ==
    kind = "browser" /\ up = "up" /\ feed = NoCall /\ loop = "stopped"
    /\ rec = "INCOMPLETE"

ReplayArrives ==
    /\ CanRecover /\ count < MaxSamples
    /\ feed' = [NoCall EXCEPT !.at = IF recovering THEN "rebased" ELSE "recover"]
    /\ recovering' = TRUE
    /\ UNCHANGED <<env, capture, progress, fragments, up, loop, queue, task,
                   asrCursor, blocked, storageError, worker>>

\* The first frame waits for the recognition queue to drain ...
ReplayDrains ==
    /\ feed.at = "recover" /\ Drained
    /\ feed' = [feed EXCEPT !.at = "drained"]
    /\ UNCHANGED <<env, capture, progress, fragments, up, loop, queue, task,
                   memory, worker>>

\* ... and starts recognition again at the cursor, with a new runtime.
ReplayRebases ==
    /\ feed.at = "drained"
    /\ asrCursor' = {cursor} /\ blocked' = FALSE /\ storageError' = FALSE
    /\ Put(Pieces(cursor, count))
    /\ feed' = [feed EXCEPT !.at = "rebased"]
    /\ UNCHANGED <<env, capture, progress, fragments, up, loop, task, recovering,
                   worker>>

ReplayStores ==
    /\ feed.at = "rebased"
    /\ \E n \in 1..MaxPiece :
        /\ count + n <= MaxSamples
        /\ count' = count + n
        /\ feed' = [at |-> "restored", start |-> count, end |-> count + n]
    /\ UNCHANGED <<env, rec, progress, fragments, up, loop, queue, task, memory,
                   worker>>

ReplayQueued ==
    /\ feed.at = "restored"
    /\ Put(<<RangeOf(feed.start, feed.end)>>)
    /\ feed' = NoCall
    /\ UNCHANGED <<env, capture, progress, fragments, up, loop, task, memory, worker>>

\* The request is valid; the cursor it has read is kept in feed.start.
CompletionArrives ==
    /\ CanRecover
    /\ feed' = [at |-> "completing", start |-> cursor, end |-> count]
    /\ UNCHANGED <<env, capture, progress, fragments, up, loop, queue, task,
                   memory, worker>>

CompletionDrains ==
    /\ feed.at = "completing" /\ Drained
    /\ asrCursor' = IF asrCursor = {} THEN {feed.start} ELSE asrCursor
    /\ blocked' = FALSE /\ storageError' = FALSE
    /\ feed' = [feed EXCEPT !.at = "unblocked"]
    /\ UNCHANGED <<env, capture, progress, fragments, up, loop, queue, task,
                   recovering, worker>>

CompletionBegins ==
    /\ feed.at = "unblocked"
    /\ BeginFinalization
    /\ feed' = [feed EXCEPT !.at = "finalizing"]
    /\ UNCHANGED <<env, capture, fragments, up, loop, queue, task, memory, worker>>

CompletionSeals ==
    /\ feed.at = "finalizing"
    /\ rec' = "COMPLETE"
    /\ feed' = [feed EXCEPT !.at = "completed"]
    /\ UNCHANGED <<env, count, progress, fragments, up, loop, queue, task, memory,
                   worker>>

CompletionQueued ==
    /\ feed.at = "completed"
    /\ Put(<<Finish>>)
    /\ recovering' = FALSE
    /\ feed' = NoCall
    /\ UNCHANGED <<env, capture, progress, fragments, up, loop, task, asrCursor,
                   blocked, storageError, worker>>

\* A step of either call raises; what was done stays done.
RecoveryFails ==
    /\ feed.at \in {"drained", "rebased", "unblocked", "finalizing"}
    /\ Fault
    /\ feed' = NoCall
    /\ UNCHANGED <<kind, voice, crashes, capture, progress, fragments, up, loop,
                   queue, task, memory, worker>>
--------------------------------------------------------------------------------
(* The recognition thread, _asr_loop, on a range of audio.                  *)

TakeTask ==
    /\ up = "up" /\ task = Idle /\ queue # <<>>
    /\ task' = InHand(Head(queue))
    /\ queue' = Tail(queue)
    /\ UNCHANGED <<env, capture, progress, fragments, up, loop, feed, memory, worker>>

RangeTaken == task.kind = "range" /\ task.stage = "taken"

SkipRange ==
    /\ RangeTaken /\ blocked
    /\ task' = Idle
    /\ UNCHANGED <<env, capture, progress, fragments, up, loop, feed, queue,
                   memory, worker>>

\* "ASR queue received a non-contiguous durable audio range"
RefuseRange ==
    /\ RangeTaken /\ ~blocked
    /\ asrCursor \notin {{}, {task.start}}
    /\ blocked' = TRUE
    /\ task' = Idle
    /\ UNCHANGED <<env, capture, progress, fragments, up, loop, feed, queue,
                   asrCursor, storageError, recovering, worker>>

CanHear == RangeTaken /\ ~blocked /\ asrCursor \in {{}, {task.start}}

\* The session a range is sent to: the open one, or one that begins with it.
Hearing == IF session.open THEN session
           ELSE [open |-> TRUE, base |-> task.start, pos |-> task.start]

\* Does the audio unread when a session opens reach past the replay window?
BacklogHides(base) == base > 0 /\ count - ReplayWindow > base - StartLag

\* Audio before the cursor is heard again: the cursor goes back first.
Rewound == LeastOf({cursor, task.start})

\* The marker that a batch of the worker's events leaves: the start of the
\* utterance it leaves open, the old one if it says nothing of any utterance.
MarkerAfter(s, finals, started) ==
    IF finals = {} /\ started = {} THEN unfinished
    ELSE {ReplayStart(u) : u \in started \cap Open(voice, s.base, task.end)}

\* process_asr_range up to the worker's answer.
Hear ==
    /\ CanHear
    /\ LET s == Hearing
           finals == Finals(voice, s.base, s.pos, task.end)
           started == NewStarts(voice, s.base, s.pos, task.end)
       IN /\ session' = [s EXCEPT !.pos = task.end]
          /\ task' = [task EXCEPT !.stage = "heard", !.finals = finals,
                        !.open = MarkerAfter(s, finals, started)]
    /\ cursor' = Rewound
    /\ asrCursor' = {task.start}
    /\ reopened' = IF ~session.open /\ BacklogHides(task.start)
                   THEN reopened \cup {task.start} ELSE reopened
    /\ UNCHANGED <<env, capture, asr, unfinished, checkpoint, fragments, up, loop,
                   feed, queue, blocked, storageError, recovering>>

\* Opening, reading or sending raises, before or after the worker heard it.
HearFails ==
    /\ CanHear /\ Fault
    /\ session' \in {session, Hearing, [Hearing EXCEPT !.pos = task.end]}
    /\ cursor' \in {cursor, Rewound}
    /\ asrCursor' = {task.start}
    /\ blocked' = TRUE
    /\ task' = Idle
    /\ UNCHANGED <<kind, voice, crashes, capture, asr, unfinished, checkpoint,
                   fragments, up, loop, feed, queue, storageError, recovering,
                   reopened>>

\* _consume_events persists the final texts in the order the worker sent them;
\* previews are only shown.
NextFinal == CHOOSE u \in task.finals : \A w \in task.finals : u[1] <= w[1]

\* _persist_asr_only_fragment: one transaction for each final; a row with the
\* same key is reused.
CommitFinal ==
    /\ task.stage = "heard" /\ task.finals # {}
    /\ fragments' = fragments \cup {NextFinal}
    /\ task' = [task EXCEPT !.finals = @ \ {NextFinal}]
    /\ UNCHANGED <<env, capture, progress, up, loop, feed, queue, memory, worker>>

\* _advance_asr_cursor, once all of them are committed.
Advance ==
    /\ task.kind = "range" /\ task.stage = "heard" /\ task.finals = {}
    /\ cursor' = IF cursor > task.end THEN cursor ELSE task.end
    /\ unfinished' = task.open
    /\ asrCursor' = {task.end}
    /\ task' = Idle
    /\ UNCHANGED <<env, capture, asr, checkpoint, fragments, up, loop, feed, queue,
                   blocked, storageError, recovering, worker>>

\* A transaction of either fails.
RangeFails ==
    /\ task.kind = "range" /\ task.stage = "heard" /\ Fault
    /\ blocked' = TRUE
    /\ task' = Idle
    /\ UNCHANGED <<kind, voice, crashes, capture, progress, fragments, up, loop,
                   feed, queue, asrCursor, storageError, recovering, worker>>
--------------------------------------------------------------------------------
(* The recognition thread on a finished capture.  However it goes, the       *)
(* session is closed and whoever waits for the capture is woken.             *)

FinishTaken == task.kind = "finish" /\ task.stage = "taken"
\* Mutant of EndFinish: the session stays open.
EndFinishMutant == task' = Idle /\ UNCHANGED worker
EndFinish == task' = Idle /\ session' = Closed /\ UNCHANGED reopened

SkipFinish ==
    /\ FinishTaken /\ (blocked \/ storageError)
    /\ EndFinish
    /\ UNCHANGED <<env, capture, progress, fragments, up, loop, feed, queue, memory>>

EnsureFinalizing ==
    /\ FinishTaken /\ ~blocked /\ ~storageError
    /\ IF asr # "FINALIZING" THEN BeginFinalization ELSE UNCHANGED progress
    /\ task' = [task EXCEPT !.stage = "begun"]
    /\ UNCHANGED <<env, capture, fragments, up, loop, feed, queue, memory, worker>>

\* The session is opened if no range has opened it; what it still holds is
\* forced out, up to the sample count read just before.
FlushSession ==
    /\ task.kind = "finish" /\ task.stage = "begun"
    /\ LET base == LeastOf({cursor} \cup unfinished)
           s == IF session.open THEN session
                ELSE [open |-> TRUE, base |-> base, pos |-> base]
           finals == Flush(voice, s.base, s.pos)
       IN /\ session' = s
          /\ task' = [task EXCEPT !.stage = "heard", !.end = count,
                        !.finals = finals,
                        !.open = IF finals = {} THEN unfinished ELSE {}]
    /\ UNCHANGED <<env, capture, progress, fragments, up, loop, feed, queue,
                   memory, reopened>>

CompleteAsr ==
    /\ task.kind = "finish" /\ task.stage = "heard" /\ task.finals = {}
    /\ asr' = "COMPLETE" /\ cursor' = task.end
    /\ unfinished' = task.open /\ checkpoint' = {}
    /\ asrCursor' = {task.end}
    /\ EndFinish
    /\ UNCHANGED <<env, capture, fragments, up, loop, feed, queue, blocked,
                   storageError, recovering>>

\* The error is reported, nothing is retried before a restart; only a failure
\* to begin the finalization also blocks the capture.
FinishErrs ==
    /\ task.kind = "finish" /\ ~(FinishTaken /\ (blocked \/ storageError))
    /\ Fault
    /\ blocked' = (blocked \/ FinishTaken)
    /\ EndFinish
    /\ UNCHANGED <<kind, voice, crashes, capture, progress, fragments, up, loop,
                   feed, queue, asrCursor, storageError, recovering>>
--------------------------------------------------------------------------------
(* The backend dies at any step, and starts again (start).                  *)

Crash ==
    /\ up # "down" /\ crashes < MaxCrashes
    /\ crashes' = crashes + 1
    /\ up' = "down" /\ loop' = "stopped" /\ feed' = NoCall
    /\ queue' = <<>> /\ task' = Idle /\ session' = Closed
    /\ asrCursor' = {} /\ blocked' = FALSE /\ storageError' = FALSE
    /\ recovering' = FALSE
    /\ UNCHANGED <<kind, voice, faults, capture, progress, fragments, reopened>>

Resumable == kind = "browser" /\ rec = "CAPTURING"

\* Mutant of NeedsAsr: only unread audio is a reason to recover.
NeedsAsrMutant == rec = "CAPTURING" \/ cursor < count \/ unfinished # {}

NeedsAsr ==
    \/ rec = "CAPTURING"
    \/ asr \in {"PENDING", "FINALIZING"}
    \/ cursor < count
    \/ unfinished # {}
    \/ checkpoint # {}

NothingToRecover ==
    /\ up = "down" /\ ~NeedsAsr
    /\ up' = "up"
    /\ UNCHANGED <<env, capture, progress, fragments, loop, feed, queue, task,
                   memory, worker>>

BootBegins ==
    /\ up = "down" /\ NeedsAsr /\ ~Resumable
    /\ BeginFinalization
    /\ up' = "begun"
    /\ UNCHANGED <<env, capture, fragments, loop, feed, queue, task, memory, worker>>

\* The recording of a device cannot go on: it is finalized as it is.
BootSeals ==
    /\ up = "begun"
    /\ rec' = IF rec = "CAPTURING" THEN "COMPLETE" ELSE rec
    /\ up' = "sealed"
    /\ UNCHANGED <<env, count, progress, fragments, loop, feed, queue, task,
                   memory, worker>>

\* Either fails: the audio is kept, recognition waits for the next start.
BootFails ==
    /\ \/ up = "down" /\ NeedsAsr /\ ~Resumable
       \/ up = "begun" /\ rec = "CAPTURING"
    /\ Fault
    /\ MarkStorageError
    /\ blocked' = TRUE
    /\ up' = "sealed"
    /\ UNCHANGED <<kind, voice, crashes, count, progress, fragments, loop, feed,
                   queue, task, asrCursor, recovering, worker>>

\* Where recognition begins again, and the work this leaves.
RestartPoint == LeastOf({cursor} \cup unfinished \cup checkpoint)

BootQueues ==
    /\ up = "sealed"
    /\ asrCursor' = {RestartPoint}
    /\ queue' = Append(Pieces(RestartPoint, count), Finish)
    /\ up' = "up"
    /\ UNCHANGED <<env, capture, progress, fragments, loop, feed, task, blocked,
                   storageError, recovering, worker>>

\* resume_browser_capture: its capture loop runs again.
Rebound == loop' = "recording"

\* A browser's recording goes on after the restart.
BootResumes ==
    /\ up = "down" /\ Resumable
    /\ asrCursor' = {RestartPoint}
    /\ queue' = Pieces(RestartPoint, count)
    /\ up' = "up" /\ Rebound
    /\ UNCHANGED <<env, capture, progress, fragments, feed, task, blocked,
                   storageError, recovering, worker>>

\* It cannot be resumed: its runtime cannot be rebuilt, so that recovery goes
\* on as for any INCOMPLETE capture (BootBegins) ...
ResumeFails ==
    /\ up = "down" /\ Resumable /\ Fault
    /\ rec' = "INCOMPLETE"
    /\ UNCHANGED <<kind, voice, crashes, count, progress, fragments, up, loop, feed,
                   queue, task, memory, worker>>

\* ... or its input is busy, after its audio was queued from the restart point.
RebindFails ==
    /\ up = "down" /\ Resumable /\ Fault
    /\ rec' = "INCOMPLETE"
    /\ BeginFinalization
    /\ asrCursor' = {RestartPoint}
    /\ queue' = Append(Pieces(RestartPoint, count), Finish)
    /\ up' = "up"
    /\ UNCHANGED <<kind, voice, crashes, count, fragments, loop, feed, task,
                   blocked, storageError, recovering, worker>>
--------------------------------------------------------------------------------
CaptureLoop ==
    FinishBlocked \/ FinishBegins \/ FinishReads \/ FinishSeals \/ FinishQueued

FeedCall ==
    \/ Store \/ QueueStored
    \/ ReplayDrains \/ ReplayRebases \/ ReplayStores \/ ReplayQueued
    \/ CompletionDrains \/ CompletionBegins \/ CompletionSeals \/ CompletionQueued

Recognition ==
    \/ TakeTask \/ SkipRange \/ RefuseRange \/ Hear \/ CommitFinal \/ Advance
    \/ SkipFinish \/ EnsureFinalizing \/ FlushSession \/ CompleteAsr

Boot == NothingToRecover \/ BootBegins \/ BootSeals \/ BootQueues \/ BootResumes

Environment ==
    \/ FrameArrives \/ BrowserGivesUp \/ Stop \/ ReplayArrives \/ CompletionArrives

Failure ==
    \/ StoreFails \/ FinishFails \/ RecoveryFails
    \/ HearFails \/ RangeFails \/ FinishErrs
    \/ BootFails \/ ResumeFails \/ RebindFails
    \/ Crash

Next == CaptureLoop \/ FeedCall \/ Recognition \/ Boot \/ Environment \/ Failure

\* Every thread goes on with what it has begun, and systemd starts the backend
\* again; nobody has to speak, stop or recover anything.
Fairness ==
    WF_vars(CaptureLoop) /\ WF_vars(Recognition) /\ WF_vars(Boot)
    /\ WF_vars(FeedCall)

Spec == Init /\ [][Next]_vars /\ Fairness
--------------------------------------------------------------------------------
TypeOK ==
    /\ kind \in Kinds /\ voice \in Recordings
    /\ rec \in {"CAPTURING", "INCOMPLETE", "COMPLETE"}
    /\ asr \in {"PENDING", "FINALIZING", "COMPLETE"}
    /\ count \in Positions /\ cursor \in Positions
    /\ unfinished \in Optional /\ checkpoint \in Optional /\ asrCursor \in Optional
    /\ fragments \subseteq Utterances
    /\ up \in {"down", "begun", "sealed", "up"}
    /\ loop \in {"recording", "stopping", "begun", "sealing", "finished", "stopped"}
    /\ feed \in [at : {"idle", "live", "stored", "recover", "drained", "rebased",
                       "restored", "completing", "unblocked", "finalizing",
                       "completed"}, start : Positions, end : Positions]
    /\ queue \in Seq(Tasks)
    /\ task \in [kind : {"none", "range", "finish"},
                 stage : {"none", "taken", "begun", "heard"},
                 start : Positions, end : Positions,
                 finals : SUBSET Utterances, open : Optional]
    /\ {blocked, storageError, recovering} \subseteq BOOLEAN
    /\ session \in [open : BOOLEAN, base : Positions, pos : Positions]
    /\ reopened \subseteq Positions
    /\ crashes \in 0..MaxCrashes /\ faults \in 0..MaxFaults

Transcribed(s) == \E u \in fragments : u[1] <= s /\ s < u[2]

\* Where recognition would begin if the backend died now.
NextRestart ==
    LET tail == IF count > ReplayWindow THEN count - ReplayWindow ELSE 0
        marker == IF unfinished # {} THEN unfinished ELSE {tail}
    IN IF NeedsAsr /\ ~Resumable
       THEN LeastOf({cursor} \cup checkpoint \cup marker)
       ELSE RestartPoint

\* Speech a reopened session could not know of: the detector had not yet
\* reported it, and the backlog was longer than the replay window.
Hidden(s) ==
    \E b \in reopened \cup {r \in {NextRestart} : BacklogHides(r)} :
        b - StartLag <= s /\ s < b

\* Speech before the point where recognition would begin again has been
\* transcribed: "replay from the last committed boundary ... This recovers an
\* utterance that was still in memory when the worker stopped."
NothingLeftBehind ==
    \A s \in voice : s < NextRestart => Transcribed(s) \/ Hidden(s)

\* The same for the recording of a device, at every step of stopping it, of its
\* recognition, and of any number of restarts; so a capture whose asr_status is
\* COMPLETE has all of its speech in the transcript.
DeviceSpeechIsKept == kind = "device" => NothingLeftBehind

\* Recognition restarts "without duplicate transcript fragments": no sound is
\* in two rows.
NoDuplicateSpeech ==
    \A u, w \in fragments : u # w => u[2] <= w[1] \/ w[2] <= u[1]

\* Unless something has crashed or failed, no sound is in two fragments, also
\* where a browser recovers a capture that was already transcribed.
NoSpeechTwice ==
    crashes = 0 /\ faults = 0 => NoDuplicateSpeech

\* The worker counts the samples of a session by itself: a range is only sent
\* to a session that has come to its first sample, or every later timestamp
\* would be wrong.
WorkerInStep == CanHear /\ session.open => session.pos = task.start

\* asr_status COMPLETE says that nothing is left to do, after any restart.
CompleteIsSettled ==
    kind = "device" /\ asr = "COMPLETE" =>
        cursor = count /\ unfinished = {} /\ checkpoint = {}

\* The state is well formed, the speech of a device's recording is kept at every step,
\* and asr_status COMPLETE is only said of a capture with nothing left to do
\* (finish_capture, _begin_asr_finalization, start).
DeviceSpeechIsSafe == TypeOK /\ DeviceSpeechIsKept /\ CompleteIsSettled

\* Recognition hears each sample once: the worker is in step with the ranges it is sent,
\* and where nothing crashed no sound is in two fragments (_asr_loop, process_asr_range).
HeardOnce == WorkerInStep /\ NoSpeechTwice

\* A complete recording is transcribed in the end, however often the backend is
\* restarted, unless a call has failed and the capture waits for a restart.
CompleteIsTranscribed ==
    rec = "COMPLETE" ~> asr = "COMPLETE" \/ storageError \/ faults > 0
================================================================================
