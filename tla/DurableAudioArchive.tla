-------------------------- MODULE DurableAudioArchive --------------------------
(***************************************************************************)
(* The raw evidence recording of one capture: one-minute WAV segments on   *)
(* disk, and in SQLite the capture row, its segment rows and the receipts  *)
(* of the browser frames (app/services/durable_audio_archive.py with       *)
(* app/repositories/audio_archive.py).                                     *)
(*                                                                         *)
(* Every call runs its database part in one BEGIN IMMEDIATE transaction,   *)
(* so calls are atomic towards each other; the file writes a call makes    *)
(* before its commit are not undone by the rollback.  What a failed call   *)
(* does after its rollback (mark the capture incomplete, forget the cached *)
(* hashers) happens in steps of its own.                                   *)
(*                                                                         *)
(* A sample is a model value.  SHA-256 is the identity on what it digests. *)
(* finalized_samples is not kept: every writer sets it to committed for a  *)
(* FINALIZED segment and to 0 otherwise.  Nor is the receipt 0, which only *)
(* marks a capture as the browser's.                                       *)
(***************************************************************************)
EXTENDS Naturals, Sequences

CONSTANTS
    Samples,             \* PCM16 sample values
    Payloads,            \* the pieces of PCM one append may carry
    SegmentSamples,      \* _SEGMENT_SAMPLES: capacity of a segment
    MaxSegments,         \* bound: segments of the capture
    Sources,             \* kinds of capture explored: "BROWSER", "ALSA"
    DamageKinds,         \* what the outside may do to a file: "lost", "altered"
    OverlappingReplays,  \* may a replay run while a failed call is cleaning up?
    MaxFaults            \* bound: crashes, I/O failures and damage together

ASSUME SegmentAssumption ==
    SegmentSamples \in Nat \ {0} /\ MaxSegments \in Nat \ {0}

\* An append carries at most one second, a segment one minute.
ASSUME PayloadAssumption ==
    Payloads \subseteq {p \in Seq(Samples) : Len(p) > 0 /\ Len(p) <= SegmentSamples}

ASSUME EnvironmentAssumption ==
    /\ Sources \subseteq {"BROWSER", "ALSA"}
    /\ DamageKinds \subseteq {"lost", "altered"}
    /\ OverlappingReplays \in BOOLEAN
    /\ MaxFaults \in Nat

VARIABLES
    source,    \* where the samples of this capture come from
    status,    \* capture.recording_status
    count,     \* capture.audio_sample_count
    segs,      \* the rows of asr_audio_segments, in sequence order
    frames,    \* the rows of asr_audio_frames 1, 2, ... (the browser's receipts)
    disk,      \* the segment files
    hashers,   \* _segment_hashers: the running digest cached per segment file
    cleanup,   \* what a failed call has still to do: "none", "mark", "forget"
    running,   \* is the backend process up, and recovery done?
    faults,    \* crashes, I/O failures and damage so far
    damaged    \* segments whose file the outside has changed

db == <<status, count, segs, frames>>
vars == <<source, db, disk, hashers, cleanup, running, faults, damaged>>
--------------------------------------------------------------------------------
Slots == 1..MaxSegments

RecordingStatuses == {"PENDING", "CAPTURING", "INCOMPLETE", "COMPLETE"}

\* A WAV file: its PCM bytes, and the sample count its 44-byte header claims.
\* A stub has been created but is still shorter than a header.
Files == [state : {"absent", "stub", "wav"}, header : Nat, pcm : Seq(Samples)]
NoFile == [state |-> "absent", header |-> 0, pcm |-> <<>>]
Stub == [NoFile EXCEPT !.state = "stub"]

\* _new_hasher digests PCM alone, _hash_file the whole file, header included.
Digests == [header : Nat, pcm : Seq(Samples)]
PcmDigest(pcm) == [header |-> 0, pcm |-> pcm]
FileDigest(file) == [header |-> file.header, pcm |-> file.pcm]

Hashers == [live : BOOLEAN, pcm : Seq(Samples)]
NoHasher == [live |-> FALSE, pcm |-> <<>>]
ForgetHashers == hashers' = [i \in Slots |-> NoHasher]

Segments == [status : {"ACTIVE", "FINALIZED", "GAP"}, start : Nat,
             committed : Nat, sha : Digests]
\* Mutant of Gap: the capture's status in place of the segment's.
GapStatusMutant(s) ==
    [s EXCEPT !.status = "INCOMPLETE", !.committed = 0, !.sha = PcmDigest(<<>>)]
Gap(s) == [s EXCEPT !.status = "GAP", !.committed = 0, !.sha = PcmDigest(<<>>)]
SegEnd(s) == s.start + s.committed

Receipts == [start : Nat, end : Nat, payload : Seq(Samples)]

\* Where segment i has to start: the end of the one before it.
Cursor(i) == IF i = 1 THEN 0 ELSE SegEnd(segs[i - 1])

\* Mutant of Matches: an ACTIVE segment's file may hold no uncommitted tail.
MatchesMutant(s, f) ==
    /\ f.state = "wav"
    /\ s.committed <= SegmentSamples
    /\ Len(f.pcm) = s.committed
    /\ \/ s.status = "ACTIVE" /\ PcmDigest(f.pcm) = s.sha
       \/ s.status = "FINALIZED" /\ f.header = s.committed /\ FileDigest(f) = s.sha

\* _segment_bytes_match_metadata: the file holds what the row says.
Matches(s, f) ==
    /\ f.state = "wav"
    /\ s.committed <= SegmentSamples
    /\ \/ /\ s.status = "ACTIVE"
          /\ Len(f.pcm) >= s.committed
          /\ PcmDigest(SubSeq(f.pcm, 1, s.committed)) = s.sha
       \/ /\ s.status = "FINALIZED"
          /\ Len(f.pcm) = s.committed
          /\ f.header = s.committed
          /\ FileDigest(f) = s.sha

First(S) == CHOOSE i \in S : \A j \in S : i <= j
Lesser(m, n) == IF m <= n THEN m ELSE n
--------------------------------------------------------------------------------
(* Sample ranges [a, b) of the archive. *)

Overlap(a, b) == {i \in DOMAIN segs : segs[i].start < b /\ a < SegEnd(segs[i])}

\* The index of the first segment a reader of [a, b) may not trust, 0 if none.
FirstInvalid(a, b) ==
    LET over == Overlap(a, b)
        joined(i) == segs[i].start <= a \/ \E j \in over : SegEnd(segs[j]) = segs[i].start
        bad == {i \in over : ~joined(i) \/ ~Matches(segs[i], disk[i])}
        covered == \E i \in over : b <= SegEnd(segs[i])
    IN IF bad # {} THEN First(bad)
       ELSE IF covered \/ over = {} THEN 0 ELSE First(over)

\* _read_sample_range: the stored sample at absolute position p.
StoredSample(p) ==
    LET i == CHOOSE i \in DOMAIN segs : segs[i].start <= p /\ p < SegEnd(segs[i])
    IN disk[i].pcm[p - segs[i].start + 1]

StoredEquals(a, pcm) == \A k \in DOMAIN pcm : StoredSample(a + k - 1) = pcm[k]

\* mark_capture_incomplete, inside the caller's own transaction.
MarkIncomplete == status' = "INCOMPLETE" /\ UNCHANGED <<count, segs, frames>>

\* Mutant of GapFrom: the receipts of what is given up are deleted.
GapReceiptsMutant(i) ==
    /\ segs' = [k \in DOMAIN segs |-> IF k < i THEN segs[k] ELSE Gap(segs[k])]
    /\ count' = Cursor(i)
    /\ status' = "INCOMPLETE"
    /\ frames' = SelectSeq(frames, LAMBDA f : f.end <= Cursor(i))
    /\ ForgetHashers

\* _mark_finalize_gap: everything from segment i on is given up.
GapFrom(i) ==
    /\ segs' = [k \in DOMAIN segs |-> IF k < i THEN segs[k] ELSE Gap(segs[k])]
    /\ count' = Cursor(i)
    /\ status' = "INCOMPLETE"
    /\ frames' = frames
    /\ ForgetHashers

\* _quarantine_unverified_segment_range: as above, from the first segment of
\* the prefix that cannot be verified either.
Quarantine(i) ==
    LET broken == {k \in DOMAIN segs : /\ k < i
                                       /\ \/ segs[k].start # Cursor(k)
                                          \/ ~Matches(segs[k], disk[k])}
    IN GapFrom(IF broken # {} THEN First(broken) ELSE i)
--------------------------------------------------------------------------------
(* Appending: _append_to_segments writes at most two segments, since a      *)
(* payload is shorter than a segment.                                       *)

\* Mutant of Appendable: a final segment that is not full may be continued.
AppendableMutant ==
    /\ \A i \in DOMAIN segs :
          /\ segs[i].start = Cursor(i)
          /\ segs[i].committed <= SegmentSamples
          /\ segs[i].status = "FINALIZED" \/ (segs[i].status = "ACTIVE" /\ i = Len(segs))
    /\ Cursor(Len(segs) + 1) = count

Appendable ==
    /\ \A i \in DOMAIN segs :
          /\ segs[i].start = Cursor(i)
          /\ segs[i].committed <= SegmentSamples
          /\ \/ segs[i].status = "FINALIZED" /\ segs[i].committed = SegmentSamples
             \/ segs[i].status = "ACTIVE" /\ i = Len(segs)
    /\ Cursor(Len(segs) + 1) = count

\* The segment the payload goes to first, how much of it is used already, and
\* where the payload is cut.
TailOpen == segs # <<>> /\ segs[Len(segs)].committed < SegmentSamples
Target == IF TailOpen THEN Len(segs) ELSE Len(segs) + 1
Used == IF TailOpen THEN segs[Len(segs)].committed ELSE 0
Head1(pcm) == SubSeq(pcm, 1, Lesser(SegmentSamples - Used, Len(pcm)))
Rest(pcm) == SubSeq(pcm, Lesser(SegmentSamples - Used, Len(pcm)) + 1, Len(pcm))
LastTarget(pcm) == IF Rest(pcm) = <<>> THEN Target ELSE Target + 1

\* _hasher_for: the cached digest, or one read back from the file and checked.
HasherReady(i, used) ==
    (~hashers[i].live /\ used > 0) =>
        Len(disk[i].pcm) >= used /\ SubSeq(disk[i].pcm, 1, used) = segs[i].sha.pcm
HashedSoFar(i, used) ==
    IF hashers[i].live THEN hashers[i].pcm
    ELSE IF used = 0 THEN <<>> ELSE segs[i].sha.pcm

\* _write_wav_chunk refuses a file that is shorter than its row says, header
\* included, and creates one only for a segment without samples.
Writable ==
    /\ HasherReady(Target, Used)
    /\ disk[Target].state # "stub"
    /\ Used > 0 => disk[Target].state = "wav" /\ Len(disk[Target].pcm) >= Used
NextWritable(pcm) == Rest(pcm) # <<>> => disk[Target + 1].state # "stub"

\* Mutant of WriteChunk: what an earlier failure left is not cut off first.
WriteChunkMutant(d, i, used, chunk) ==
    [d EXCEPT ![i] = [state |-> "wav", header |-> used + Len(chunk),
                      pcm |-> d[i].pcm \o chunk]]
\* _write_wav_chunk: cut the file to the committed samples, then extend it.
WriteChunk(d, i, used, chunk) ==
    [d EXCEPT ![i] = [state |-> "wav", header |-> used + Len(chunk),
                      pcm |-> SubSeq(d[i].pcm, 1, used) \o chunk]]

\* The same write, interrupted anywhere.
TornFiles(file, used, chunk) ==
    {file} \cup (IF file = NoFile THEN {Stub} ELSE {})
    \cup [state : {"wav"}, header : {file.header, used + Len(chunk)},
          pcm : {SubSeq(file.pcm, 1, used) \o SubSeq(chunk, 1, n) : n \in 0..Len(chunk)}]
TornChunk(d, i, used, chunk) ==
    {[d EXCEPT ![i] = f] : f \in TornFiles(d[i], used, chunk)}

\* The row and the cached digest after hashed (old digest and chunk) is in file.
WrittenSegment(start, hashed, file) ==
    IF file.header = SegmentSamples
    THEN [status |-> "FINALIZED", start |-> start, committed |-> file.header,
          sha |-> FileDigest(file)]
    ELSE [status |-> "ACTIVE", start |-> start, committed |-> file.header,
          sha |-> PcmDigest(hashed)]
WrittenHasher(hashed, file) ==
    IF file.header = SegmentSamples THEN NoHasher ELSE [live |-> TRUE, pcm |-> hashed]

Disk1(pcm) == WriteChunk(disk, Target, Used, Head1(pcm))
Hashed1(pcm) == HashedSoFar(Target, Used) \o Head1(pcm)
Hashers1(pcm) ==
    [hashers EXCEPT ![Target] = WrittenHasher(Hashed1(pcm), Disk1(pcm)[Target])]
Disk2(pcm) == WriteChunk(Disk1(pcm), Target + 1, 0, Rest(pcm))
Hashed2(pcm) == HashedSoFar(Target + 1, 0) \o Rest(pcm)
Hashers2(pcm) ==
    [Hashers1(pcm) EXCEPT ![Target + 1] =
        WrittenHasher(Hashed2(pcm), Disk2(pcm)[Target + 1])]

\* The segment rows after the append.
Row1(pcm) == WrittenSegment(IF TailOpen THEN segs[Target].start ELSE count,
                            Hashed1(pcm), Disk1(pcm)[Target])
Segs1(pcm) == IF TailOpen THEN [segs EXCEPT ![Target] = Row1(pcm)]
              ELSE Append(segs, Row1(pcm))
\* Mutant of Row2: the second segment starts after the whole payload.
Row2Mutant(pcm) == WrittenSegment(count + Len(pcm), Hashed2(pcm),
                                  Disk2(pcm)[Target + 1])
Row2(pcm) == WrittenSegment(count + Len(Head1(pcm)), Hashed2(pcm),
                            Disk2(pcm)[Target + 1])
AppendedSegs(pcm) ==
    IF Rest(pcm) = <<>> THEN Segs1(pcm) ELSE Append(Segs1(pcm), Row2(pcm))

\* What an append that does not commit can leave behind in files and cache.
Interrupted(pcm) ==
    IF ~Appendable \/ ~Writable
    THEN {[disk |-> disk, hashers |-> hashers]}
    ELSE [disk : TornChunk(disk, Target, Used, Head1(pcm)), hashers : {hashers}]
         \cup {[disk |-> Disk1(pcm), hashers |-> Hashers1(pcm)]}
         \cup IF Rest(pcm) = <<>> \/ ~NextWritable(pcm) THEN {}
              ELSE [disk : TornChunk(Disk1(pcm), Target + 1, 0, Rest(pcm)),
                    hashers : {Hashers1(pcm)}]
                   \cup {[disk |-> Disk2(pcm), hashers |-> Hashers2(pcm)]}

Accepting(recovering) == status = "CAPTURING" \/ (recovering /\ status = "INCOMPLETE")
--------------------------------------------------------------------------------
Init ==
    /\ source \in Sources
    /\ status = "PENDING"
    /\ count = 0
    /\ segs = <<>>
    /\ frames = <<>>
    /\ disk = [i \in Slots |-> NoFile]
    /\ hashers = [i \in Slots |-> NoHasher]
    /\ cleanup = "none"
    /\ running = TRUE
    /\ faults = 0
    /\ damaged = {}

Fault == faults < MaxFaults /\ faults' = faults + 1

\* One caller at a time: append_audio holds the append lock of the capture
\* until its failed call has cleaned up.
Undisturbed == running /\ cleanup = "none"

\* open_capture: the row was inserted as PENDING by the capture service.
OpenCapture ==
    /\ Undisturbed
    /\ status = "PENDING"
    /\ status' = "CAPTURING"
    /\ UNCHANGED <<source, count, segs, frames, disk, hashers, cleanup, running,
                   faults, damaged>>

\* _append_to_segments succeeds and the transaction commits.
StoreCommits(pcm, receipts) ==
    /\ Appendable
    /\ LastTarget(pcm) <= MaxSegments
    /\ Writable
    /\ NextWritable(pcm)
    /\ disk' = IF Rest(pcm) = <<>> THEN Disk1(pcm) ELSE Disk2(pcm)
    /\ hashers' = IF Rest(pcm) = <<>> THEN Hashers1(pcm) ELSE Hashers2(pcm)
    /\ segs' = AppendedSegs(pcm)
    /\ count' = count + Len(pcm)
    /\ frames' = receipts
    /\ UNCHANGED <<status, cleanup, faults>>

\* The rows or the files do not allow the append: it raises before the first
\* write, or before the second when only the next segment's file is in the way.
StoreRejected(pcm) ==
    /\ cleanup = "none"
    /\ \/ /\ ~Appendable \/ (Target <= MaxSegments /\ ~Writable)
          /\ UNCHANGED <<disk, hashers>>
       \/ /\ Appendable /\ LastTarget(pcm) <= MaxSegments
          /\ Writable /\ ~NextWritable(pcm)
          /\ disk' = Disk1(pcm)
          /\ hashers' = Hashers1(pcm)
    /\ cleanup' = "mark"
    /\ UNCHANGED <<db, faults>>

\* An I/O or database error anywhere in the append: the rows roll back, what
\* was written and cached so far stays.
StoreFails(pcm) ==
    /\ cleanup = "none"
    /\ Fault
    /\ LastTarget(pcm) <= MaxSegments
    /\ \E o \in Interrupted(pcm) : disk' = o.disk /\ hashers' = o.hashers
    /\ cleanup' = "mark"
    /\ UNCHANGED db

\* check_storage_reserve stops the capture: no write, but the same cleanup.
ReserveReached ==
    /\ cleanup = "none"
    /\ Fault
    /\ cleanup' = "mark"
    /\ UNCHANGED <<db, disk, hashers>>

\* New audio for the archive; a capture that is not accepting refuses it.
Store(pcm, receipts, recovering) ==
    /\ Accepting(recovering)
    /\ \/ StoreCommits(pcm, receipts)
       \/ StoreRejected(pcm)
       \/ StoreFails(pcm)
       \/ ReserveReached

\* append for the ALSA capture loop: neither sequence nor expected start.
AppendDirect(pcm) ==
    /\ source = "ALSA"
    /\ Undisturbed
    /\ Store(pcm, frames, FALSE)
    /\ UNCHANGED <<source, running, damaged>>

\* The receipt contradicts what was sent, or the frame leaves a hole.
Conflict ==
    /\ MarkIncomplete
    /\ ForgetHashers
    /\ UNCHANGED <<disk, cleanup, faults>>

\* A frame that has a receipt already: acknowledged again only if the stored
\* bytes still are the frame.
Replay(f, start, pcm) ==
    LET bad == FirstInvalid(f.start, f.end)
    IN IF f.end > count THEN Conflict
       ELSE IF bad # 0 \/ (Overlap(f.start, f.end) # {} /\ ~StoredEquals(f.start, f.payload))
            THEN /\ Quarantine(IF bad # 0 THEN bad ELSE First(Overlap(f.start, f.end)))
                 /\ UNCHANGED <<disk, cleanup, faults>>
       ELSE IF pcm = f.payload /\ start = f.start
            THEN UNCHANGED <<db, disk, hashers, cleanup, faults>>
       ELSE Conflict

\* Mutant of AppendFrame: a new frame may leave a hole before it.
AppendFrameMutant(k, start, pcm, recovering) ==
    /\ source = "BROWSER"
    /\ running
    /\ status # "PENDING"
    /\ ~recovering => cleanup = "none"
    /\ recovering => /\ status \in {"INCOMPLETE", "COMPLETE"}
                     /\ OverlappingReplays \/ cleanup = "none"
    /\ IF k \in DOMAIN frames THEN Replay(frames[k], start, pcm)
       ELSE IF k = Len(frames) + 1
       THEN Store(pcm,
                  Append(frames, [start |-> start, end |-> start + Len(pcm),
                                  payload |-> pcm]),
                  recovering)
       ELSE Conflict
    /\ UNCHANGED <<source, running, damaged>>

\* append for a browser frame.  recovering is allow_incomplete_recovery: FALSE
\* from append_audio, TRUE from replay_browser_frame, which takes no lock.
AppendFrame(k, start, pcm, recovering) ==
    /\ source = "BROWSER"
    /\ running
    /\ status # "PENDING"
    /\ ~recovering => cleanup = "none"
    /\ recovering => /\ status \in {"INCOMPLETE", "COMPLETE"}
                     /\ OverlappingReplays \/ cleanup = "none"
    /\ IF k \in DOMAIN frames THEN Replay(frames[k], start, pcm)
       ELSE IF k = Len(frames) + 1 /\ start = count
       THEN Store(pcm,
                  Append(frames, [start |-> start, end |-> start + Len(pcm),
                                  payload |-> pcm]),
                  recovering)
       ELSE Conflict
    /\ UNCHANGED <<source, running, damaged>>

\* _mark_incomplete of a failed call: a transaction that may fail as well, and
\* then is given up silently.
MarkAfterFailure ==
    /\ running
    /\ cleanup = "mark"
    /\ \/ status' = "INCOMPLETE" /\ faults' = faults
       \/ status' = status /\ Fault
    /\ cleanup' = "forget"
    /\ UNCHANGED <<source, count, segs, frames, disk, hashers, running, damaged>>

\* _forget_hashers of a failed call.
ForgetAfterFailure ==
    /\ running
    /\ cleanup = "forget"
    /\ cleanup' = "none"
    /\ ForgetHashers
    /\ UNCHANGED <<source, db, disk, running, faults, damaged>>

\* _mark_storage_error and mark_browser_capture_incomplete of the coordinator,
\* and append's refusal of odd or oversized PCM.
CallerMarksIncomplete ==
    /\ running
    /\ MarkIncomplete
    /\ UNCHANGED <<source, disk, hashers, cleanup, running, faults, damaged>>

\* read_samples(a, b) for ASR and speaker analysis, when verification fails.
ReadQuarantines(a, b) ==
    /\ running
    /\ a < b
    /\ b <= count
    /\ FirstInvalid(a, b) # 0
    /\ Quarantine(FirstInvalid(a, b))
    /\ UNCHANGED <<source, disk, cleanup, running, faults, damaged>>
--------------------------------------------------------------------------------
(* Finalization and recovery. *)

\* Segments finalize_capture cannot pass: those it raises for, and those it
\* gives up because their file does not match.
Unfinalizable(i) ==
    \/ segs[i].status = "GAP"
    \/ segs[i].start # Cursor(i)
    \/ segs[i].committed > SegmentSamples
Stuck == {i \in DOMAIN segs : Unfinalizable(i) \/ ~Matches(segs[i], disk[i])}
Tiled == Cursor(Len(segs) + 1) = count

\* _repair_wav cuts the file to its committed samples; _finalize_segment_file
\* digests what is then on disk.
RepairedFile(i) == [disk[i] EXCEPT !.header = segs[i].committed,
                                   !.pcm = SubSeq(@, 1, segs[i].committed)]
ActiveSegments == {i \in DOMAIN segs : segs[i].status = "ACTIVE"}
RepairedDisk == [i \in Slots |-> IF i \in ActiveSegments THEN RepairedFile(i) ELSE disk[i]]
\* Mutant of FinalizedSegs: a segment that is not full stays ACTIVE.
FinalizedSegsMutant ==
    [i \in DOMAIN segs |-> IF i \in ActiveSegments /\ segs[i].committed = SegmentSamples
                           THEN [segs[i] EXCEPT !.status = "FINALIZED",
                                                !.sha = FileDigest(RepairedFile(i))]
                           ELSE segs[i]]
FinalizedSegs ==
    [i \in DOMAIN segs |-> IF i \in ActiveSegments
                           THEN [segs[i] EXCEPT !.status = "FINALIZED",
                                                !.sha = FileDigest(RepairedFile(i))]
                           ELSE segs[i]]
FinalizedHashers ==
    [i \in Slots |-> IF i \in ActiveSegments THEN NoHasher ELSE hashers[i]]

\* finalize_capture on a COMPLETE capture verifies it once more.
Reverify ==
    LET bad == {i \in DOMAIN segs : \/ segs[i].start # Cursor(i)
                                    \/ segs[i].status # "FINALIZED"
                                    \/ ~Matches(segs[i], disk[i])}
    IN /\ IF bad # {} THEN GapFrom(First(bad))
          ELSE IF ~Tiled THEN MarkIncomplete /\ hashers' = hashers
          ELSE UNCHANGED <<db, hashers>>
       /\ UNCHANGED <<disk, cleanup>>

FinalizeCommits ==
    /\ Stuck = {}
    /\ Tiled
    /\ disk' = RepairedDisk
    /\ segs' = FinalizedSegs
    /\ hashers' = FinalizedHashers
    /\ status' = "COMPLETE"
    /\ UNCHANGED <<count, frames, cleanup>>

FinalizeGivesUp ==
    /\ Stuck # {}
    /\ ~Unfinalizable(First(Stuck))
    /\ GapFrom(First(Stuck))
    /\ UNCHANGED <<disk, cleanup>>

FinalizeRaises(recovering) ==
    /\ \/ ~Accepting(recovering)
       \/ Stuck # {} /\ Unfinalizable(First(Stuck))
       \/ Stuck = {} /\ ~Tiled
    /\ cleanup' = "mark"
    /\ UNCHANGED <<db, disk, hashers>>

\* recovering is allow_incomplete_recovery, from complete_browser_capture_recovery.
\* finish_capture takes no append lock: an append that failed may not have cleaned up
\* yet. What both have still to do, the finalization does after its own failure.
Finalize(recovering) ==
    /\ running
    /\ status # "PENDING"
    /\ IF status = "COMPLETE" THEN Reverify
       ELSE \/ FinalizeRaises(recovering)
            \/ Accepting(recovering) /\ (FinalizeCommits \/ FinalizeGivesUp)
    /\ UNCHANGED <<source, running, faults, damaged>>

\* An I/O or database error after the files have been repaired.
FinalizeFails(recovering) ==
    /\ running
    /\ Accepting(recovering)
    /\ Stuck = {}
    /\ Fault
    /\ disk' = RepairedDisk
    /\ hashers' \in {hashers, FinalizedHashers}
    /\ cleanup' = "mark"
    /\ UNCHANGED <<source, db, running, damaged>>

\* The process dies: memory is gone, an open transaction rolls back, the files
\* keep what had been written.
CrashWith(d) ==
    /\ running
    /\ Fault
    /\ running' = FALSE
    /\ disk' = d
    /\ ForgetHashers
    /\ cleanup' = "none"
    /\ UNCHANGED <<source, db, damaged>>

Crash == CrashWith(disk)
CrashInAppend(pcm) ==
    /\ Accepting(TRUE)
    /\ LastTarget(pcm) <= MaxSegments
    /\ \E o \in Interrupted(pcm) : CrashWith(o.disk)
CrashInFinalize == Accepting(TRUE) /\ Stuck = {} /\ CrashWith(RepairedDisk)

\* _recover_capture at startup, which passes over PENDING and COMPLETE captures.
Unrecoverable ==
    {i \in DOMAIN segs : \/ segs[i].start # Cursor(i)
                         \/ segs[i].status = "GAP"
                         \/ ~Matches(segs[i], disk[i])}
Recoverable(i) == Unrecoverable = {} \/ i < First(Unrecoverable)
RecoveredHasher(i) ==
    IF i \in ActiveSegments /\ segs[i].committed < SegmentSamples
    THEN [live |-> TRUE, pcm |-> SubSeq(disk[i].pcm, 1, segs[i].committed)]
    ELSE NoHasher
RecoveredDisk ==
    [i \in Slots |-> IF i \in ActiveSegments /\ Recoverable(i) THEN RepairedFile(i)
                     ELSE disk[i]]
RecoveredSegs ==
    [i \in DOMAIN segs |->
        IF ~Recoverable(i) THEN Gap(segs[i])
        ELSE IF segs[i].committed = SegmentSamples THEN FinalizedSegs[i] ELSE segs[i]]
Recover ==
    /\ ~running
    /\ running' = TRUE
    /\ IF ~Accepting(TRUE) THEN UNCHANGED <<db, disk, hashers>>
       ELSE /\ disk' = RecoveredDisk
            /\ segs' = RecoveredSegs
            /\ hashers' = [i \in Slots |->
                              IF i \in DOMAIN segs /\ Recoverable(i)
                              THEN RecoveredHasher(i) ELSE NoHasher]
            /\ count' = Cursor(IF Unrecoverable = {} THEN Len(segs) + 1
                               ELSE First(Unrecoverable))
            /\ status' = IF Unrecoverable # {} \/ (segs = <<>> /\ count > 0)
                         THEN "INCOMPLETE" ELSE status
            /\ frames' = frames
    /\ UNCHANGED <<source, cleanup, faults, damaged>>

\* _recover_capture raises: startup fails, the capture is marked if that is
\* still possible, and the service manager starts the process again.
RecoverFails ==
    /\ ~running
    /\ Accepting(TRUE)
    /\ Fault
    /\ status' \in {status, "INCOMPLETE"}
    /\ disk' \in {disk, RecoveredDisk}
    /\ UNCHANGED <<source, count, segs, frames, hashers, cleanup, running, damaged>>

\* Outside of the program's control: a file disappears or one sample changes.
Damage(i, kind) ==
    /\ kind \in DamageKinds
    /\ i \in DOMAIN segs
    /\ disk[i].state = "wav"
    /\ Fault
    /\ \/ kind = "lost" /\ disk' = [disk EXCEPT ![i] = NoFile]
       \/ /\ kind = "altered"
          /\ \E p \in DOMAIN disk[i].pcm : \E s \in Samples \ {disk[i].pcm[p]} :
                disk' = [disk EXCEPT ![i].pcm[p] = s]
    /\ damaged' = damaged \cup {i}
    /\ UNCHANGED <<source, db, hashers, cleanup, running>>

\* Bounds of the browser's sequence numbers and of sample positions.
FrameNumbers == 1..(Len(frames) + 2)
Positions == 0..(MaxSegments * SegmentSamples)

Next ==
    \/ OpenCapture
    \/ \E pcm \in Payloads : AppendDirect(pcm)
    \/ \E k \in FrameNumbers, start \in Positions, pcm \in Payloads, r \in BOOLEAN :
          AppendFrame(k, start, pcm, r)
    \/ MarkAfterFailure
    \/ ForgetAfterFailure
    \/ CallerMarksIncomplete
    \/ \E a, b \in Positions : ReadQuarantines(a, b)
    \/ \E r \in BOOLEAN : Finalize(r)
    \/ \E r \in BOOLEAN : FinalizeFails(r)
    \/ Crash
    \/ \E pcm \in Payloads : CrashInAppend(pcm)
    \/ CrashInFinalize
    \/ Recover
    \/ RecoverFails
    \/ \E i \in Slots, kind \in DamageKinds : Damage(i, kind)

Spec == Init /\ [][Next]_vars
--------------------------------------------------------------------------------
(* Correctness. *)

\* Every variable stays in its type.
TypeOK ==
    /\ source \in {"BROWSER", "ALSA"}
    /\ status \in RecordingStatuses
    /\ count \in Nat
    /\ segs \in Seq(Segments)
    /\ Len(segs) <= MaxSegments
    /\ frames \in Seq(Receipts)
    /\ disk \in [Slots -> Files]
    /\ hashers \in [Slots -> Hashers]
    /\ cleanup \in {"none", "mark", "forget"}
    /\ running \in BOOLEAN
    /\ faults \in Nat
    /\ damaged \subseteq Slots

Kept == {i \in DOMAIN segs : segs[i].status # "GAP"}
HasGap == Kept # DOMAIN segs

\* The segments that were not given up tile [0, count) without hole or overlap;
\* what was given up is a suffix, and then the capture is INCOMPLETE.  Only the
\* last segment can still be written, until it is full, and a segment with a
\* successor is full.
SegmentsTile ==
    /\ \A i \in Kept : \A j \in DOMAIN segs : j < i => j \in Kept
    /\ \A i \in Kept : /\ segs[i].start = Cursor(i)
                       /\ segs[i].committed \in 1..SegmentSamples
                       /\ i < Len(segs) => segs[i].status = "FINALIZED"
                       /\ i + 1 \in Kept => segs[i].committed = SegmentSamples
                       /\ segs[i].status = "ACTIVE" => segs[i].committed < SegmentSamples
    /\ IF Kept = {} THEN count = 0
       ELSE \E i \in Kept : SegEnd(segs[i]) = count /\ i + 1 \notin Kept
    /\ HasGap => status = "INCOMPLETE"

\* A capture reported COMPLETE has every segment final; a capture that has not
\* been opened holds nothing.
StatusMatchesSegments ==
    /\ status = "COMPLETE" => \A i \in DOMAIN segs : segs[i].status = "FINALIZED"
    /\ status = "PENDING" => segs = <<>> /\ frames = <<>>

\* The receipts handed to the browser tile the recording in the order of their
\* sequence numbers, and they end where the recording ends unless segments they
\* lie in were given up: no frame is stored twice, skipped or out of order.
ReceiptsTile ==
    /\ \A k \in DOMAIN frames :
          /\ frames[k].start = IF k = 1 THEN 0 ELSE frames[k - 1].end
          /\ frames[k].end = frames[k].start + Len(frames[k].payload)
          /\ frames[k].payload # <<>>
    /\ (source = "BROWSER" /\ ~HasGap) =>
          count = IF frames = <<>> THEN 0 ELSE frames[Len(frames)].end

\* What the rows promise is on disk: every segment that was not given up and
\* that nothing outside the program touched verifies against its row, also
\* between a crash or a failed write and the recovery from it.
StoredAudioVerifies ==
    \A i \in Kept \ damaged : Matches(segs[i], disk[i])

\* A range that passes verification gives back the bytes the browser sent: no
\* read returns other audio than what was acknowledged.
ReceiptReadsBack ==
    \A k \in DOMAIN frames :
        (frames[k].end <= count /\ FirstInvalid(frames[k].start, frames[k].end) = 0)
            => StoredEquals(frames[k].start, frames[k].payload)

\* The two together: what was acknowledged can be read back until something outside the
\* program takes it away, and is not taken for something else then.
StoredAudioReadsBack == StoredAudioVerifies /\ ReceiptReadsBack

\* A final segment is immutable, row and file: a step can only give it up, for
\* good, and only the outside touches its file.
FinalAudioIsImmutable ==
    [][\A i \in DOMAIN segs :
          /\ i \in DOMAIN segs'
          /\ segs[i].status = "GAP" => segs'[i].status = "GAP"
          /\ segs[i].status = "FINALIZED" =>
                /\ segs'[i] = segs[i] \/ segs'[i].status = "GAP"
                /\ disk'[i] = disk[i] \/ i \in damaged']_vars

\* Audio is given up only from a segment on whose file the outside has changed:
\* no crash, no failed write, no finalization and no check of the files ever
\* costs a committed sample by itself.
OnlyDamageLosesAudio ==
    [][\A i \in Kept : (i \in DOMAIN segs' /\ segs'[i].status # "GAP")
                        \/ \E j \in 1..i : j \in damaged]_vars
--------------------------------------------------------------------------------
(* The archive implements AudioLog.                                        *)

\* The log a reader of the rows can rely on: what the digests of the segments
\* that were not given up vouch for.
Holder(p) == CHOOSE i \in Kept : segs[i].start < p /\ p <= SegEnd(segs[i])
ArchivedLog == [p \in 1..count |-> segs[Holder(p)].sha.pcm[p - segs[Holder(p)].start]]

ArchivedStage ==
    CASE HasGap -> "broken"
      [] ~HasGap /\ status = "COMPLETE" -> "complete"
      [] ~HasGap /\ status = "INCOMPLETE" -> "incomplete"
      [] OTHER -> "open"

Log == INSTANCE AudioLog WITH log <- ArchivedLog, acks <- frames,
                              stage <- ArchivedStage

\* The archive keeps the promise of an append-only log with acknowledgements,
\* through crashes, failed writes, lost files and replays.
ImplementsAudioLog == Log!Spec
================================================================================
