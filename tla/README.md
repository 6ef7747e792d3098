# Verification of the interrogation kiosk

TLA+ models of the parts of this repository where a lost, doubled, altered or
misattributed piece of evidence would be hardest to find by testing: the archive
that stores the recording of an interrogation, the ways sound gets into it, the
pipeline that turns it into text, the record that the text becomes, the voices by
which speakers are recognised, and the migrations that carry all of it from
release to release. Each module is translated from the source; `PROJECT.json`
maps every definition to its lines.

Paths below are relative to `src/`; `services/` stands for
`linux/backend/app/services/`, `repositories/` for
`linux/backend/app/repositories/`.

## The system

An offline kiosk (RK3588 board): a Vue web application and a FastAPI backend
(`linux/backend/app`) over SQLite (SQLAlchemy, WAL, `synchronous=NORMAL`,
`autoflush=False`), a hardware layer, a speech worker, a MOSS transcription
worker and model processes of their own, and shell scripts that install,
upgrade, back up and restore it. `backend-dev/` and `backend-fastapi/` are kept
for reference and not deployed.

A case runs through identity, voiceprint enrolment, an interrogation session
with live capture (voice activity detection, speech recognition, speaker
attribution), the routing of question and answer pairs into the formal record,
review, the freezing of the record with a SHA-256 snapshot, signature and
report.

### Inventory

| Component | State | Operations | Interacts with | What is hard | What makes it correct |
|---|---|---|---|---|---|
| Durable audio archive (`services/durable_audio_archive.py`) | rows for capture, segments, receipts; WAV files; cached digests | open, append, replay, read, finalize, recover | coordinator (calls), SQLite, file system | crash and I/O failure between file and row; caches; damaged files | segments tile the recording; files match rows; final audio is immutable; acknowledged audio reads back |
| Live speech coordinator (`services/live_speech_coordinator.py`) | recognition queue, cursors, marker, checkpoint, blocked set | append, finish, recover a browser's capture, restart, recognition thread | archive, speech worker, capture service | three threads on one row; restart at any step | no speech lost or doubled; ends in COMPLETE |
| Speaker jobs (same file) | job columns of fragments, queue, pending counts | schedule, process, split, recover | fragments, routing, operating points | edits during analysis; restarts | manual decisions win; one operating point per capture |
| Capture service (`services/asr_capture_service.py`, `source_aware_asr_capture_service.py`) | active captures, dictation, sources | start, stop, status, browser frames, persist fragments | coordinator, microphone, routing | stop and start from any request | one user of the microphone, whom a request can find |
| Microphone (`hardware/audio/alsa.py`, `services/audio_capture_service.py`) | one `arecord`, enrolment's buffer | start, read, stop; enrol, cancel | captures, dictations, enrolments | no owner, no lock | nobody hears another's recording; it is given back |
| Browser transport (`app/websocket/browser_asr.py`, `webapp/src/audio/browserAsrCapture.ts`) | outbox and cursor in IndexedDB, socket, acknowledgement in flight | record, pump, acknowledge, stop, recover | capture service, archive | reconnects, reloads, failing storage | stored sound is never lost; COMPLETE is whole |
| Speech worker (`speech_worker/`) | a session's utterance, pre-roll, sample clock | open, push, finalize, close | coordinator over a socket | starts reported late; forced ends | time stamps are the recording's |
| AI supervisor (`app/ai/supervisor.py`) | worker processes, pipes, locks, epochs | request, stream, evict, cancel | API | eviction, abandoned streams, cancellation during a call | an answer belongs to its request; a cancellation is told |
| MOSS worker and coordinator (`moss_worker/`, `services/moss_transcription_coordinator.py`) | spool of jobs and windows; rows and revisions | submit, resume, cancel, poll | child process | crash between files; cancel races | text only grows; terminal states final |
| QA routing (`services/qa_routing_coordinator.py`, `qa_unit_builder.py`, `formal_record_routing_service.py`) | queue, pending flushes, recovery markers; units | enqueue, flush, drain, route, apply | fragments, language model, record | full queue; crash while routing; overtaken requests | every fragment has one home and is filed once |
| Session workflow and finalization (`services/session_service.py`, `document_finalization_service.py`) | case and session state, snapshot | start, pause, resume, finish, freeze, sign | all of the above | several drains, then one transaction | nothing enters a frozen record |
| Rounds and template (`services/interrogation_projection_service.py`, `template_workspace_service.py`, `formal_record_router.py`) | questions, rounds, pending questions | reorder, add, remove, project, route | page, filing thread | two writers on one order; repairs of a model's reply | sections keep their order; one question listens; answers are filed once |
| Voiceprints and calibration (`services/officer_voiceprint_library.py`, `speaker_calibration_service.py`, `speaker_mode.py`, `speaker_policy.py`) | samples, profiles, references, bindings, thresholds | enrol, disable, revoke, bind, calibrate, freeze, decide | captures | stale reads; restart with another calibration | references agree; a capture is judged at one point |
| Enrolment page (`webapp/src/composables/useAutoVoiceprintEnrollment.ts`) with `app/api/voiceprints.py` | attempt, busy, context | start, stop, cancel, change of case | microphone service | awaits overtaken by others | nobody's voice is enrolled as another's |
| Migrations (`alembic/versions`, `database/migration_bootstrap.py`, `deploy/`) | schema, revision, rows set aside | upgrade, adopt, switch | the old release, which goes on writing | killed between two statements | no evidence lost; the revision never lies |
| Cases, identities, HTTP, events, other devices, other views, backup | rows, best-effort events, drivers, scripts | – | – | little concurrency, or outside the reach of a model | – |

`PROJECT.json` lists each component with what is and is not modelled, and under
`hazards` the places in the code that these models are for.

## The modules

```
AudioLog                    what the archive promises, in five actions
DurableAudioArchive         the archive, row by row and file by file; implements AudioLog
DurableAudioArchiveProofs   theorems about its rows and audio, and the refinement

SpeechSession               what the speech worker reports of the samples it is sent
LiveSpeech                  the recognition pipeline of one capture, over SpeechSession
LiveSpeechProofs            theorems about both

RecordTables                fragments, QA units, rounds
SpeakerJobs                 the thread that attributes fragments, and edits
QARouting                   the thread that builds and files units
RecordRequests              HTTP requests: workflow, finalization, resolution, signature
FormalRecord                the four composed, with recording and crashes

FormalTemplate              the questions of a record and their order
QuestionRounds              rounds and pending questions
RecordRouter                what becomes of the model's reply
TemplateWorkspace           the three composed: the officer's page and the filing thread

BrowserIngress              the server's end of a recording in the browser
BrowserTransport            composed with the page, its outbox and its socket
BrowserTransportProofs      theorems about both

AlsaRecorder                the microphone and its readers
AsrCapture                  who may use it for recognition
VoiceprintCapture           who may use it for a voiceprint
Microphone                  the two composed
MicrophoneProofs            theorems about the three

MossTranscript              what a long transcription promises
MossWorker                  the worker: spool, windows, child process
MossTranscription           composed with the application; implements MossTranscript

VoiceprintLibrary           samples, profiles, references, bindings
SpeakerCalibration          composed with thresholds
SpeakerCalibrationProofs    theorems about both
SpeakerAttribution          by which operating point, while things change
SpeakerAttributionProofs    theorems about both
EnrolmentServer             the routes of an enrolment
VoiceprintEnrolment         composed with the page

AIWorker                    the supervisor of the model processes
AIWorkerProofs              theorems about it

SchemaMigration             the upgrade of the database
```

Modules named `MC...` hold sample values for TLC. Everywhere a committed
transaction is one step; what a handler read before its first write is a step of
its own, since SQLite lets others write in between.

### DurableAudioArchive

One capture. `segs`, `frames`, `status`, `count` are its rows, `disk` its
segment files, `hashers` the digests cached in memory. What can happen in the
middle of an append or a finalization is an action of its own: `CrashInAppend`
and `CrashInFinalize` leave any of the files the call may have left by then and
no change of the rows; `StoreFails` and `FinalizeFails` leave the same files and
the cached digests, and set `cleanup` for the second transaction in which the
code marks the capture INCOMPLETE and forgets the digests, which may fail too.

| Actions | Code |
|---|---|
| `OpenCapture` | `open_capture` |
| `AppendDirect`, `AppendFrame` (`Store`, `Replay`, `Conflict`) | `append`, without and with a browser's receipt, by `append_audio` and `replay_browser_frame` |
| `MarkAfterFailure`, `ForgetAfterFailure`, `CallerMarksIncomplete` | `_mark_incomplete`, `_forget_hashers`, the coordinator's `_mark_storage_error` |
| `ReadQuarantines` | `read_samples` that finds a segment it cannot verify |
| `Finalize`, `FinalizeFails` | `finalize_capture`, also of a COMPLETE capture |
| `Crash...`, `Recover`, `RecoverFails` | the process dies; `recover_incomplete` at the next start |
| `Damage` | the file system: a file is lost, or its samples altered |

Abstractions: SHA-256 is the identity on what it digests; a WAV file is its
samples and the count in its header; the clock, paths, permissions, the fields
of the header and the syncing of directories are left out; receipt 0 and
`finalized_samples` carry no information of their own; lines 469-471 of
`_append_to_segments` cannot be reached. Captures share nothing but the database
lock, so that one capture stands for all. A read that finds nothing wrong
changes nothing and is not an action.

`OverlappingReplays` says whether a browser may replay a frame between a failed
append and its clean-up. `replay_browser_frame` takes no lock, so it may; the
run and the theorems about audio exclude it because of what is described under
*Met while modelling*. `finish_capture` takes none either: a finalization may
come there in every run and theorem.

### LiveSpeech

One capture, of a `"device"` (append and stop are on the capture loop's own
thread) or of a `"browser"` (frames come on other threads). The archive is here
what `AudioLog` promises while nothing is damaged: a sample count and a status.
Nullable columns are sets of at most one value.

| State | Code |
|---|---|
| `rec`, `count`, `asr`, `cursor`, `unfinished`, `checkpoint` | columns of the capture's row |
| `fragments` | rows of `asr_fragments`, by the sample range in their key |
| `queue`, `asrCursor`, `blocked`, `recovering`, `storageError` | memory of the coordinator and the runtime |
| `loop`, `feed`, `task`, `up` | how far the capture loop, the call that brings audio, the recognition thread and the start have come |
| `session` | the worker's session: where it began, how much it has heard |
| `reopened` | history: where sessions began with more unread audio than the replay window |

Every transaction and every hand-over between threads is a step, and all
threads interleave between them: `append_audio` is `FrameArrives`, `Store`,
`QueueStored`; `finish_capture` is `FinishBegins`, `FinishReads`,
`FinishSeals`, `FinishQueued`; a range in the recognition thread is `TakeTask`,
`Hear`, one `CommitFinal` for each fragment, `Advance`; the end of a capture is
`TakeTask`, `EnsureFinalizing`, `FlushSession`, `CommitFinal`..., `CompleteAsr`;
`start` is `BootBegins`, `BootSeals`, `BootQueues`, or `BootResumes` for a
browser's capture that goes on. `Crash` stops everything at any step, also in
the middle of the recovery from an earlier crash; the actions whose names end in
`Fails` or `Errs` let a call raise there.

`SpeechSession` is an assumption about a neural network: the detector follows
the sound. An utterance starts where a run of voiced samples begins for that
session and every `MaxUtterance` samples inside it, ends at silence or the cap,
and its start is reported up to `StartLag` samples late. A session opened in the
middle of a run hears only the rest. What the session makes of the detector's
answers (finals, forced finals, replay positions with their pre-roll) is from
`speech_worker/session.py`.

Left out: texts (and utterances dropped because their text is empty), previews,
events to the web application, a failure of the transaction that records a
failure, and other captures in the same queue. A browser's replay and completion
are considered only once its capture loop has ended: the socket's handler waits
for the loop before it closes. The `runtime is None` branch of
`replay_browser_frame` (448-459) is unreachable after its first frame.

### FormalRecord

One session, its fragments, units and rounds (`RecordTables`), and four actors:
the capture (`Capturing`), the speaker thread (`SpeakerJobs`: take a job, decide,
commit one speaker or split into turns, tell routing), the routing thread
(`QARouting`: notices, sweeps after a dropped notice, flushes, the two
recoveries at start-up, the building of units, `Route` to the model and
`Apply`), and HTTP requests (`RecordRequests`), each in a step that checks and a
step that writes. `overtaken` is history: some handler wrote a row that another
had changed since it was checked. `Scenarios` bound what a behaviour explores,
so that each interesting meeting is small.

| Actions | Code |
|---|---|
| `TakeJob` ... `CommitStep`, `TellStep` | `_speaker_loop`, `process_speaker_job`, `_commit_split_speaker_decisions` |
| `Notify`, `Sweep`, `Flush...`, `Drain...`, `Route`, `Decide`, `Apply` | `enqueue`, `_run`, `_sweep_markers`, `flush`, `drain_capture`, `_route_unit`, `apply_auto` |
| `Requests` | pause, resume, finish (`session_service`), `finalize` and its drains, manual resolution, roll-back, late answers, edits and confirmations of fragments, signatures |
| `Crash` | the process dies and starts again, with its recoveries |

What only a model or a person decides (classification, who spoke) is chosen
freely. An application that fails, and the words of questions and answers, are
left out.

### TemplateWorkspace

The officer's page and the filing thread on one formal record. `FormalTemplate`
has the order of questions (fixed opening, added questions, fixed closing,
`sort_order` 10, 20, ...) with the uniqueness constraint by which one of two
concurrent requests is rolled back; `QuestionRounds` the rounds that stand in
the record and the pending questions that wait for the officer; `RecordRouter`
the checks before the model is asked and the repairs of its reply. An operation
is a set of outcomes of the tables it read (`saw`) and the tables it writes
(`now`): a handler's first SELECTs and its first write are different moments.

Abstractions: the patterns that recognise questions, questions of time, remarks
and chatter are sets of texts; candidate lists and words of answers are left
out; one case, one session, one tab (the page lets one mutation run at a time:
`mutating`); fragments are projected once attributed. `collided` remembers that
a request that ran alone was rolled back by the constraint (see *Met while
modelling*).

### Microphone

`AlsaRecorder` has the process, the reader threads and what each heard; a start
is two steps because `ALSARecorder.start` tests `running` and sets it without a
lock (`alsa.py:121`, 159). An `arecord` that ends by itself is started again by
the recorder's own thread 0.2 s later, until its limit (`Exit`, `Restart`,
`GivenUp`); what a stop cannot find, because it is just being started, is
`Missed`. `AsrCapture` has the calls of
`SourceAwareAsrCaptureService` and of the service it wraps: a start holds the
wrapper's lock, a stop keeps what it read across its join. `VoiceprintCapture`
has the service of enrolments: its lock is held across `start_record` but not
across the waits. `overlapped`, `outrun` and `rushed` are history of the three
races named below. Not modelled: captures whose source is the browser (they do
not touch the recorder), failures of the database at the end of a capture, what
the second `arecord` and the second reader thread of overlapped starts do (the
model goes on with the later one), a `Popen` that outlasts the 2 s join of a
stop.

### MossTranscription

`MossWorker`: jobs on disk (state, recorded cancel, plan, checkpoints of
windows, merged text), the queue, the scheduler thread with the job it has
taken, cancel events; a window is tried, retried once after a crash of the
child, split when it is too long, and committed by its checkpoint. The
application's side submits (`Submit`, `SubmitJob`, `CreateRow`), resubmits, polls
(`PollJob` reads, `PollRow` writes) and restarts. `MossTranscript` is the abstract
specification: text of a job only grows, an outcome is final, what the user is
shown exists, never shrinks, and is whole when it says so.

Collapsed: PREPARING to MERGING are RUNNING; the child is its answers; the
merge's de-duplication, the remapping of speakers and the mapping of speakers to
roles are left out. Resume is a call of the worker's API that its socket does
not offer today.

### BrowserTransport

`BrowserIngress` is what the server's handler does with each message and
answers; `BrowserTransport` the page: pieces of sound become frames in IndexedDB
(`PutFrame`, then `SaveCursor`), the pump reads the oldest and sends it
(`PumpReads`, `PumpSends`), an acknowledgement deletes it (`ReceiveAck`,
`DeleteFrame`), a failure of storage stops the microphone and is reported once
the outbox is empty (`Failed`, `Incomplete`), stop drains (`Stop`, `Drain`,
`Stopped`, `FinishCapture`, `ConfirmFinalized`), and what is left is recovered
later (`Recover...`). Sockets are lost with what is on its way; `late` is what a
handler of an earlier socket may still do.

A page may have several connections under way: the timer (`retry`, `Reconnect`)
is set by each closed socket and by each failure without one, whatever `opening`
counts. The one that succeeds last is the socket the page listens to
(`Reconnected`); the server goes on serving the other, but its answers are no
longer read (`Supersede`). If one was due, the page is `deaf`: the frame stays in
flight without a timer, or the report unconfirmed, and nothing more is sent until
the new socket closes. A failure of the pump reaches all who wait for it (`waits`):
a start that fails, a handler that takes it for a loss, a reconnect that tries again.

A frame is one unit of sound. Not modelled: preparation recordings, the lease
between tabs, capacity of the outbox other than as a failing write, a start that is
cancelled before its first socket (its page never opens one, so a stop with frames
of an earlier visit in the outbox does not drain), and that a second press of stop
closes a connection under way like the first.

### AIWorker

One pipe per kind of model. Locks are where the code has them: the request lock
of a kind from `Take` to the end of a call, the resource lock while room is made
(`Prepare`, `Evict`, `ResourceBusy`), the lifecycle lock while a child starts
(`Starting`). `worker[k].epoch` counts cancellations, `call[c].seen` is the
count it compares with; `unread` and `hit` are history. An abandoned stream
leaves its rest in the pipe, which is marked `unread` and excused from there on.
Not modelled: the sweep of idle processes, what `health()` marks, missing models,
`debug_terminate`, shutdown. With the registry's default budget nothing is ever
evicted; the instance's budget makes it happen.

### Voiceprints

`VoiceprintLibrary` is `officer_voiceprint_library.py` with
`repositories/voiceprints.py`: a request reads (`Load`) and later writes
(`Commit`); its first write takes SQLite's lock. An aggregate is the set of the
samples it averages. `SpeakerCalibration` adds the thresholds computed from the
samples of a setup (model and microphone) and frozen into captures. A capture's
start reads the corpus, resolves the calibration and writes its row in three
steps (`LookAtCorpus`, `Resolve`, `Freeze`), each of which others may come
between; what a resolver reads in one of them is read at once.
`SpeakerAttribution` has `decide_speaker`, `_narrow_decision` and the modes as
operators; a mode is the set of the roles it compares, a similarity a whole
number. Its actions are what changes around a decision: officers are
enrolled, revoked and bound, the device is calibrated, captures start, stop and
are taken up after a restart. `VoiceprintEnrolment` has the page's handlers, from
await to await, over the routes in `EnrolmentServer`.

`VoiceprintLibrary` has one officer's role; the second is in
`SpeakerAttribution`. Whether the fragment is still unedited when a decision is
written is `SpeakerJobs`' concern.

### SchemaMigration

The schema as a set of tables, columns, unique indexes and triggers; one action
for each change of it, since SQLite commits them one by one; the rows that a
migration reads or rewrites. `Detect` is the bootstrap that adopts a database
without a revision. The old release writes until `Switch`. `Killed` stops the
upgrade at any statement. What 0004, 0006 and 0009 read before they write their
first row is a step of its own (`ReadRows`, `ReadAssignments`, `CopySamples`):
until then nothing keeps the old release from writing. A new release that does
not become healthy counts as a `Killed` upgrade: the old one goes on. Left out:
indexes that are not unique (the bootstrap compares table names only),
downgrades, which the deployment never calls.

## What is checked

| Run | Properties | Bounds |
|---|---|---|
| `ArchiveFaults` | `TypeOK`, `SegmentsTile`, `StatusMatchesSegments`, `ReceiptsTile`, `StoredAudioReadsBack`, `FinalAudioIsImmutable`, `OnlyDamageLosesAudio`, `ImplementsAudioLog` | 3 segments of 2 samples, 2 sample values, payloads of 1 or 2, 3 faults |
| `LiveSpeech` | `DeviceSpeechIsSafe`, `HeardOnce`, `CompleteIsTranscribed` | 5 samples, ranges of 1 or 2, window 3, cap 2, pre-roll 1, start lag 1, 2 crashes, 1 failing call, 2 recordings, both kinds of capture |
| `FormalRecord` | `RecordAgrees`, `FrozenIsWhole`, `FrozenStays`, `CatchesUp` | 10 scenarios of at most 3 fragments, notice queue of 1, one overtaken request, a second capture or a crash |
| `Template` | `WorkspaceInOrder`, `FiledOnce`, `TimeNotMisfiled` | 7 scenarios over 8 texts, at most 5 fragments and 2 requests of the page |
| `Microphone` | `OneUserAtATime`, `UserIsFound`, `GivenBack` | 5 parties of 2 readers, 2 callers, a chunk an enrolment, queue of 1, 1 restart a recording |
| `Moss` | `JobsAndRowsHold`, `ImplementsTranscript`, `Settles` | a window of 10 minutes with one job and 3 troubles (cancel, resume, bad audio, restarts of worker and application); one of 8 minutes submitted twice with 1 restart of the worker |
| `BrowserTransport` | `NothingStoredIsLost`, `ArchiveIsTheRecording`, `StopEnds` | 2 chunks and 3 troubles of any kind, 3 chunks and 2 |
| `AIWorker` | `InStep`, `CancelIsTold`, `CallsEnd` | 2 kinds that do not fit together, 3 calls, one of them a stream of 1 chunk, 1 crash or cancellation |
| `Voiceprints` | `LibraryAgrees`, `BoundStays`, `FrozenIsFit` | 2 requests at once, 3 versions, 2 calibrations, 2 setups; 1 officer who is bound or 2 who give thresholds; minima of 2 officers with 1 sample each instead of 3 and 3 |
| `Enrolment` | `EnrolledIsRight`, `BusyEnds` | 2 attempts, 1 trouble, 1 change of case |
| `Attribution` | `OnePoint`, `NobodyByDefault`, `ShownIsInForce` | 2 officers, 2 captures, similarities 0 and 1, 3 operating points |
| `Migration` | `SchemaInOrder`, `NothingIsLost` | 9 starting releases and an unversioned database, 2 attempts, 3 writes of the old release, one officer, session and fragment, 2 voices |

**Archive.** Two sample values tell a sample from its altered or neighbouring
one. With segments of two samples and payloads of one or two, an append can fill
a segment exactly, stay inside one, or end one and begin the next, with a
failure in either; three segments give a first, a middle and a last. Three
faults allow a failed write, a failed clean-up and a crash in one history. The
first three invariants say that rows agree with each other and that a loss is a
visible suffix; `StoredAudioReadsBack`, that at every moment, also before
recovery, an untouched file holds what its row says, and that what passes
verification is what was acknowledged. `ImplementsAudioLog` is refinement:
`ArchivedLog` concatenates what the digests vouch for, a quarantine is `GiveUp`,
finalization `Seal`.

**LiveSpeech.** Five samples exceed the replay window of three, so the window
moves off zero and the backlog may be longer than it. A piece of two can end in
the middle of an utterance; one recording has speech beyond the cap, the other a
short utterance before a long one. Two crashes put one into the recovery from
the other. `DeviceSpeechIsSafe`: speech before the place where recognition would
begin if the backend died now is in the transcript, and COMPLETE leaves nothing
behind that a restart would act on. It excuses (`Hidden`) an utterance the
detector had not reported when a session opened behind a backlog longer than the
window. It is stated for devices; a resumed browser capture begins at its cursor
without overlap (a listed hazard). `HeardOnce`: without a failure no sound is in
two fragments, and the worker's own clock is right whenever it gets a range.

**The record.** The scenarios of `MCFormalRecord` are the ones in which two
threads or requests meet: a second answer while the first is filed, a finish
while fragments are pending, an edit that was loaded before a change. Each is
one line of its `Scenarios`. `RecordAgrees` relates fragments, units, question
answers and pending questions; `FrozenIsWhole` and `FrozenStays` are the promise
of finalization. The template run has its own scenarios because the formal
record's route to an answer is another module there.

**Devices, jobs, models.** `OneUserAtATime` and `UserIsFound` hold outside three
races of the source that `Microphone` names, each as a set of states;
`OneUserAtATime` also says which starts can overlap at all (`StartsApart`: a
recognition and an enrolment, never two of one service), and that a stop misses
an `arecord` only when it had ended by itself just before, or after an overlap or
the recorder's last restart (`SomeoneStops`).
`ImplementsTranscript` reads job and row together as a transcript that only
grows and is whole when it says so. `InStep` concerns pipes on which no stream
was left unread; `AIWorker` keeps the unread ones as a set.

**Voices.** Two requests are enough for one to overtake the other at every pair
of its reads and writes; the proofs cover any number. Two setups tell a
calibration for this microphone from one for another. Attribution uses
similarities 0 and 1, so that above, below, and equal to threshold and margin
occur.

**Schema.** The nine releases are those between which a migration rebuilds a
table or moves rows. Two attempts with a kill at any statement reach every
state a second upgrade can find.

Deadlock is checked except where the system may really stop: an interrogation or
a recording that ends (`LiveSpeech`, `Template`), a COMPLETE recording with its
page closed (`BrowserTransport`), calls that have all returned (`AIWorker`),
attempts and requests that are used up (`Migration`, `Enrolment`, `Voiceprints`).

### Fairness

Nothing is assumed of people or of failures: nobody has to speak, press stop or
reconnect by hand, nothing has to crash. What is assumed, always weak fairness
of one thread's or handler's next step unless said otherwise:

- `LiveSpeech`: the capture loop once it has begun to stop; the recognition
  thread, a daemon thread that loops as long as the process lives; a request
  that has begun; the start, which systemd repeats
  (`systemd/interrogation-api.service:15`).
- `FormalRecord`: the routing, analysis and recognition threads, the notice that
  wakes routing, and requests that have begun.
- `Microphone`: `arecord` delivers while it runs, and the threads run, that of the
  recorder, which starts `arecord` again, too.
- `MossTranscription`: the worker's scheduler; for the application's poller,
  strong fairness for each row, since it visits every row again and again but
  is between two visits in any one state.
- `BrowserTransport`: the page's handlers, the server's answers, the page's own
  reconnecting timer and the connections it opens; and that a stop which has timed out (10 s) is pressed
  again, without which its outbox would stay in the browser.
- `AIWorker`: the steps of a call, and that who opened a stream reads it or
  closes it: a reader that just keeps the iterator keeps the model.
- `VoiceprintEnrolment`: the server's handlers and the page's continuations.

The archive, `Voiceprints`, `Attribution`, `Template` and `Migration` have
safety properties only, and no fairness.

## What is proved

Eight modules hold theorems that TLAPS proves for every value of the constants;
TLC checks each property, and the inductive invariants were checked by TLC
before they were proved.

| Module | Theorem | Property |
|---|---|---|
| `DurableAudioArchiveProofs` | `TypeCorrectness`, `SegmentsAlwaysTile`, `CompleteMeansFinal`, `FinalAudioNeverChanges` | `TypeOK`, `SegmentsTile`, `StatusMatchesSegments`, `FinalAudioIsImmutable` |
| | `ReceiptsAlwaysTile`, `StoredAudioAlwaysVerifies`, `StoredAudioAlwaysReadsBack`, `OnlyDamageCostsAudio`, `ArchiveImplementsLog` | `ReceiptsTile`, `StoredAudioReadsBack`, `OnlyDamageLosesAudio`, `ImplementsAudioLog` |
| `LiveSpeechProofs` | `LiveSpeechHeardOnce`, `LiveSpeechDeviceSpeechIsSafe` | `HeardOnce`, `DeviceSpeechIsSafe` |
| `AIWorkerProofs` | `StaysInStep`, `CancellationIsTold` | `InStep`, `CancelIsTold` |
| `MicrophoneProofs` | `MicrophoneHasOneUser`, `UserIsAlwaysFound` | `OneUserAtATime`, `UserIsFound` |
| `BrowserTransportProofs` | `StoredSoundIsKept`, `ArchiveIsAlwaysTheRecording` | `NothingStoredIsLost`, `ArchiveIsTheRecording` |
| `MossTranscriptionProofs` | `MossJobsAndRowsHold`, `MossImplementsTranscript` | `JobsAndRowsHold`, `ImplementsTranscript` |
| `SpeakerCalibrationProofs` | `TypeCorrectness`, `BoundReferenceStays`, `LibraryAgreement`, `FrozenFits` | `BoundStays`, `LibraryAgrees`, `FrozenIsFit` |
| `SpeakerAttributionProofs` | `OnePointPerCapture`, `NobodyIsNamedByDefault`, `ShownModeIsInForce` | `OnePoint`, `NobodyByDefault`, `ShownIsInForce` |

**The rows of the archive.** The tiling is not inductive alone. An append
extends the last row that was not given up, and needs to know that a row which
cannot be extended is full or the capture is not accepting; a late frame makes a
COMPLETE capture INCOMPLETE, and the recovery path may then append again. That
this finds only final segments is `StatusMatchesSegments`, so the inductive
invariant is

    IInv == TypeOK /\ SegmentsTile /\ StatusMatchesSegments

Each action has a lemma for types and one for the tiling; the two pieces of an
append (fill the last segment, open the next) and the two ways audio is given up
(from a segment on, or a range) have lemmas that the actions share. Immutability
is a property of steps and follows from `TypeOK`. Assumptions:
`SegmentAssumption` (sizes are positive), `PayloadAssumption` (a payload is not
empty and not longer than a segment; the code refuses more than a second, a
segment is a minute), `EnvironmentAssumption` (which sources and damages there
are).

**The audio of the archive.** `AudioInv` adds to the rows what ties files,
digests and receipts to them: `RowsInv` (with `ReceiptsTile`, the numbering of a
browser's frames, and gaps only behind what is kept), `CachesHold` (a cached
digest is of the file's committed bytes), `DigestsHold`, `FilesHold` (an
untouched file starts with the committed bytes) and `ReceiptsVouched` (the
digests over a receipt's range are of the samples it acknowledged). An action is
one of four kinds of step, and each kind is proved once: rows stay, rows are
given up from a position on, samples are added, the capture is finalized.
`CachesHold` fails if a replay overlaps the clean-up of a failed call, and
`ReceiptsVouched` if a file is altered before its segment is filled: both are the
code's doing (see below), so the theorems name them as hypotheses.
`StoredAudioAlwaysVerifies` assumes `~OverlappingReplays`; the last three assume
in addition that `"altered" \notin DamageKinds`, files may disappear but nothing
edits one in place. `ReceiptsAlwaysTile` assumes neither. The run has the same
two settings.

**Live speech.** The invariant has four layers, each used by the next, and each
proved action by action. `BaseInv`: the state is well formed. `ControlInv`: the
backend that is down has nothing under way (`Quiet`), a recovery is of a browser's
capture whose loop has ended (`InRecovery`) and whose session has been closed or
will be before it (`ClosesFirst`), and a session that has lost the place will not
be sent another range (`InStep`), although ranges of before and after a failure
may be in the queue together. `OnceInv`: while nothing has crashed or failed,
each text is one that the open session heard to its end, or ends before it began;
utterances of one session do not overlap, which is the arithmetic of
`SpeechSession` (a session that is pushed piece by piece hears what one push of
the whole would bring, `PushKeepsApart`). `DeviceInv`, of a device's recording:
the ranges on their way follow each other from where recognition is to the end of
the recording and the finish is last (`Chain`); a backend that boots, and a
session that is opened, begin where a restart would have begun (`Booting`,
`Begins`), wherever in the finalization the last backend died; what the open
session has heard is in a fragment, or the marker is that of the one utterance it
has not ended (`Trust`: `Known`, `Honest`), so that the cursor, the checkpoint
and the marker together bound what would be lost (`KnownIsKept`); the last flush
of a capture leaves nothing (`LastWords`). `NothingLeftBehind` is a conjunct: a
session that begins at the restart point knows what was transcribed before it
only from there. Assumptions: `WindowAssumption` (the replay window is at least
an utterance and its pre-roll, as the code's comment has it), `WorkerAssumption`,
`EnvironmentAssumption`; any voiced samples, any number of crashes and faults.

**The browser's outbox.** No assumption: the theorems hold for recordings of any
length and any number of lost sockets, overlapping connections, failed writes, reloads and
restarts. That
stored sound is in the outbox or in the archive is not inductive: a frame is
deleted because an acknowledgement arrived, so `Inv` follows a number from the
page to the archive and back. `Contiguous`: below the numbers still to be given
out every number is in one of the two. `FramesHold`: a frame that was read or
sent, also on an earlier socket, is at most one ahead of the archive, and
the outbox still has it unchanged or not at all. `AcksHold`: what is
acknowledged is in the archive as the outbox has it. `Exchange`: a recovery
never has two messages under way, on which its deletion by its own counter
rests. `RecoveryHolds` and `EndHolds`: who reports an end has nothing left, or
the server knows that audio is missing. `Single` (one piece of sound per number)
and `Whole` (COMPLETE with an empty outbox) hold only as long as no number was
reused and nobody else ended the capture, which `happened` records; the two are
conditional in the invariant as they are in the property. The actions are
instances of nine kinds of step (`Quiet`, `Cut`, `Deletes`, `Serves`, `Posts`,
`Opens`, `Takes`, `Finishes`, `Hears`), each proved once; a connection that takes
over from another is a `Cut` after which there is a socket.

**The microphone.** Assumptions: the kinds of readers are disjoint, an
enrolment of a browser is an enrolment, queue and buffer hold something. `Inv`
has four parts. `RecorderInv`: unless two starts overlapped or the recorder has
given up, whoever is in its loop is the one the recording was started for, so
what is queued is of it (`Alone`, from which "one user" follows by counting).
`AsrInv`: a start that has passed its checks holds the lock and there is no
dictation (`Locked`); for a reader that nobody has asked to stop no stop and no
shutdown is about to drop the entry (`Registered`). `EnrolInv`: two starts
under way are both marked (`Rushed`), and while an enrolment records that nobody
has asked to end no start is under way (`Current`). `OpenInv`: whoever is between
the check and the `Popen` holds the lock of its service (`AsrOpens`,
`EnrolOpens`), so only starts of the two services overlap, and while the recorder
runs nobody is there (`Opened`), so a stop misses none. The parts of recognition
and enrolment meet only in `Calm`: a step of one lets nobody of the other begin
to read, so each part is proved against its own steps and against `Calm`.

**The pipe to a model.** `Inv` is `TypeOK`, `Locks`, `Pipe(k)` for every kind and `Told`:
either nobody has the request lock and an unspoiled pipe is empty (`Free`), or
one call has it and the pipe holds the rest of its exchange (`Held`), with the
request not yet read or the answer partly given (`Under`, `Over`). `Told` keeps
who was cancelled, and with which process, apart from who is told so. A restarted process
has a new epoch and empty pipes, which is why an answer cannot survive its
process.

**Long transcription.** `MossInv` is `WorkerInv`, of the worker alone, and
`AppInv`, of the application, which submits and reads jobs but changes none that
is there. Of a job: its plan covers the recording (`Planned`); a second crash can only
have been of the window that is next, so that it fails the job before anything
else is tried (`CrashesCounted`); who has completed has nothing open and its text
is that of its checkpoints (`EndIsWhole`). `SchedulerKnows` says what each step of
the scheduler may take from the one before. `CancelsKept`: a cancel that was
answered is recorded, and is either seen through its event or the job is neither
queued nor under way; a restart loses the events and the queue together. `RowGood`
and `PollGood` relate a row, and what was read for it but not yet written, to the
job as it is now: between the two the job may have got further, never back.
A step of the worker is one of a few kinds (the scheduler moves on, a job gets a
checkpoint, a new plan, another state or a recorded cancel), each proved once.
`ImplementsTranscript` is proved from the same invariant, kind by kind: a
checkpoint adds text, a new plan and a recovery leave it alone, what is written
for a poll is a step of the abstract reader. Assumptions (`MossAssumption`): a
recording has finitely many pieces and no planned window is empty, as
`plan_windows` cuts them; any number of jobs, rows, calls and troubles.

**The voiceprint library.** Two requests overlap: one loads, the other commits.
`LoadedStays` says what a request may still rely on at its commit, `CopiesAreOwn`
and `RowsBelong` that rows of one officer never come from another, `CorporaFit`
that a computation's samples are of its setup, enough of each of enough officers;
`HasLast` and `RowsThere` that what a start has resolved, and what it freezes some
steps later, is a calibration of the setup that goes with it. That the officers are
still enrolled when the row is written is not claimed: a revocation between the
two is not noticed. A request is `Fresh` if nobody has written
between its load and its commit; to compare the profile alone would not do, since
with three requests a profile can change and change back.

**Attribution.** `PointsKept`: a capture's runtime in memory and its fragments
have the point that was stored when the capture began, also after a restart. The
rest is about the decision's definition and uses no enumeration of the
similarities.

**Only model-checked.** `FormalRecord`, `TemplateWorkspace`,
`VoiceprintEnrolment` and `SchemaMigration`. Liveness under fairness (`CompleteIsTranscribed`, `CatchesUp`,
`GivenBack`, `Settles`, `StopEnds`, `CallsEnd`, `BusyEnds`) and `ENABLED` are out
of the prover's reach. So is what a recursive or folding definition computes for
every input, as it needs induction over data: the theorems use such definitions
through what one step does to them.

## Met while modelling

Behaviour of the code that the models contain and the properties exclude by name
or do not cover. Lines are those of the file named first.

- `durable_audio_archive.py:241`: a replay between a rollback and the clean-up of
  the cached digest commits a digest the file does not have; the segment is
  quarantined at the next read.
- `:773`: a crash between creating a segment's file and its header leaves a file
  that every later append refuses and recovery does not know.
- `:789`: filling a segment blesses what is in it, also audio altered in place.
- `live_speech_coordinator.py:395`: a frame is committed before its range is
  queued; stopped in between from elsewhere
  (`document_finalization_service.py:62`), the capture's end is queued first, and
  the frame is never transcribed.
- `:1076`: the checkpoint of a recovery may fall inside an utterance that is
  already in the transcript, and the key over exact ranges does not recognise
  the rest of it.
- `:753`: who has read FINALIZING may create the event of a capture after it was
  set, and waits until its limit.
- `asr_fragments.py:519`: a fragment confirmed before it was routed is taken by
  no notice, sweep, flush or recovery, and freezing does not ask for it.
- `ai/supervisor.py:286`: a stream given up half-read leaves its rest in the pipe
  and releases the lock; the next calls get answers of earlier ones.
- `browserAsrCapture.ts:887`: a socket lost while the outbox is read is taken for
  a loss of audio, though every frame is stored.
- `browserAsrCapture.ts:917-944,765-772,860`: a failure while a connection is opened
  schedules a second one; if that takes over while an acknowledgement is due on the
  first, it is never read, its timer does nothing, and the page sends no more until
  the second closes, so a stop does not end. `StopEnds` excepts just that (`deaf`).
- `officer_voiceprint_library.py:436`: a sample is disabled after the enabled
  ones were selected without a flush (`session.py:35`), so it stays in the
  aggregate until the next change.
- `useAutoVoiceprintEnrollment.ts:151`: a cancellation answered after the case
  changed leaves the page's "cancelling" mark, and no start works until a reload.
- `template_workspace_service.py:413`: the place of a removed question is given
  out again, and the unique index rolls the whole request back.
- `alsa.py:121`, `source_aware_asr_capture_service.py:222-268,296-330`,
  `audio_capture_service.py:82-115`: the three races of `Microphone`: an old stop that removes a new recording's
  source, a dead dictation that blocks starts, two enrolments started at once.
- `alsa.py:153`: when a capture and an enrolment pass the check together, the second
  `Popen` puts the first `arecord` out of reach, and nobody stops it.
- `alsa.py:223-227`: `arecord` has ended and is being started again when `stop` runs
  (257-273): `stop` finds no process to terminate, and the new one is left.
- `session_service.py:82-121`: a pause or resume that was loaded before the
  freeze writes its stage over FROZEN.
- `qa_routing_coordinator.py:273,305`: a flush during a flush is forgotten; a
  router's error leaves a unit ROUTING until a restart.
- `moss_transcription_coordinator.py:240-268`: a lost answer to a submit leaves a job without a
  row, and a resubmission between check and insertion a second one.
- `0004_global_officer_voiceprint_library.py:95-168`: while there is no officer
  the migration locks nothing until its first assignment or the new revision; a
  session that the old release binds after the assignments were read stays on the
  officer's own row, and one that it binds anew gets the earlier voice.
- `0009_dual_speaker_backends.py:74-75`: a sample that the old release enrols between
  the copy and the delete is lost; migrations that are killed half-way, except
  those that look before they change, cannot be resumed.

Not in a model: loss of power that undoes committed transactions
(`session.py:28`, `synchronous=NORMAL`), a suspect's reference replaced under a
bound session (`voiceprint_service.py:166`), the memory budget exceeded by two
kinds loading at once (`supervisor.py:322-332`), a stale poll of a finished
capture (`stores/interrogation.ts:307-375`).

## Plan

1. The models and runs above: done, one run for each component that keeps state
   over several steps.
2. The archive, live speech, the AI worker, the browser transport, the
   microphone, long transcription with its refinement, the voiceprint library,
   calibration and attribution: proved.
3. Next to prove: `SchemaMigration`'s `SchemaInOrder`.
4. `FormalRecord` and `TemplateWorkspace` fold over sequences of fragments; what
   their folds compute stays with TLC, the freeze could be proved.

Not modelled, and why: neural models and numeric scoring (no state that
interleaves), device drivers and presentation (input and output), services of a
single transaction for cases and templates (nothing to interleave), shell
procedures except the deployment's order of upgrade and switch.
