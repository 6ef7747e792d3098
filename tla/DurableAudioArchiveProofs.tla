----------------------- MODULE DurableAudioArchiveProofs -----------------------
(***************************************************************************)
(* Proofs about DurableAudioArchive, for any samples, payloads, segment    *)
(* size, number of segments and faults: first of its rows, then of the     *)
(* audio behind them: what the receipts cover, that the files hold what    *)
(* their rows say, what a reader gets back, what can be lost, and that the *)
(* archive implements AudioLog.                                            *)
(***************************************************************************)
EXTENDS DurableAudioArchive, SequenceTheorems, WellFoundedInduction, TLAPS

--------------------------------------------------------------------------------
(* The operators the actions are built from. *)

\* A nonempty set of naturals has a first element.
LEMMA FirstExists ==
    ASSUME NEW S \in SUBSET Nat, S # {}
    PROVE  First(S) \in S /\ \A j \in S : First(S) <= j
<1>1. OpToRel(<, Nat) = {ss \in Nat \X Nat : ss[1] < ss[2]}
  BY Zenon DEF OpToRel
<1>2. PICK x \in S : \A y \in S : ~(<<y, x>> \in {ss \in Nat \X Nat : ss[1] < ss[2]})
  BY <1>1, NatLessThanWellFounded, WFMin, Zenon
<1>3. ASSUME NEW y \in S PROVE x <= y
  <2>1. x \in Nat /\ y \in Nat
    OBVIOUS
  <2>2. ~(<<y, x>> \in {ss \in Nat \X Nat : ss[1] < ss[2]})
    BY <1>2
  <2> QED BY <2>1, <2>2
<1>4. \E i \in S : \A j \in S : i <= j
  BY <1>3
<1> QED BY <1>4, Zenon DEF First

\* Cutting a sequence to its first n elements.
LEMMA PrefixType ==
    ASSUME NEW S, NEW s \in Seq(S), NEW n \in Nat, n <= Len(s)
    PROVE  SubSeq(s, 1, n) \in Seq(S) /\ Len(SubSeq(s, 1, n)) = n
<1>1. \A i \in 1..n : s[i] \in S
  BY ElementOfSeq
<1> QED BY <1>1, SubSeqProperties

\* A sequence rebuilt element by element.
LEMMA RebuiltSeq ==
    ASSUME NEW S, NEW s \in Seq(S), NEW t, t = [i \in DOMAIN s |-> t[i]],
           \A i \in DOMAIN s : t[i] \in S
    PROVE  t \in Seq(S) /\ Len(t) = Len(s) /\ DOMAIN t = DOMAIN s
<1>1. DOMAIN s = 1..Len(s) /\ Len(s) \in Nat
  BY LenProperties
<1> QED BY <1>1

--------------------------------------------------------------------------------
(* Types. *)

LEMMA RowsType ==
    ASSUME TypeOK
    PROVE  /\ Len(segs) \in Nat /\ DOMAIN segs = 1..Len(segs)
           /\ \A i \in DOMAIN segs :
                 /\ segs[i] \in Segments
                 /\ segs[i].start \in Nat /\ segs[i].committed \in Nat
                 /\ segs[i].sha.pcm \in Seq(Samples)
                 /\ i \in Slots
           /\ \A i \in Slots : disk[i] \in Files /\ hashers[i] \in Hashers
           /\ \A i \in 1..(Len(segs) + 1) : Cursor(i) \in Nat
<1>1. Len(segs) \in Nat /\ DOMAIN segs = 1..Len(segs)
  BY LenProperties DEF TypeOK
<1>2. ASSUME NEW i \in DOMAIN segs
      PROVE  /\ segs[i] \in Segments
             /\ segs[i].start \in Nat /\ segs[i].committed \in Nat
             /\ segs[i].sha.pcm \in Seq(Samples)
             /\ i \in Slots
  <2>1. segs[i] \in Segments
    BY <1>1, ElementOfSeq DEF TypeOK
  <2>2. i \in Slots
    BY <1>1, SegmentAssumption DEF TypeOK, Slots
  <2> QED BY <2>1, <2>2 DEF Segments, Digests
<1>3. \A i \in Slots : disk[i] \in Files /\ hashers[i] \in Hashers
  BY DEF TypeOK
<1>4. ASSUME NEW i \in 1..(Len(segs) + 1) PROVE Cursor(i) \in Nat
  <2>1. CASE i = 1
    BY <2>1 DEF Cursor
  <2>2. CASE i # 1
    <3>1. i - 1 \in DOMAIN segs
      BY <1>1, <2>2
    <3> QED BY <1>2, <2>2, <3>1 DEF Cursor, SegEnd
  <2> QED BY <2>1, <2>2
<1> QED BY <1>1, <1>2, <1>3, <1>4

\* What the two pieces of a payload are, and where they go.
LEMMA PiecesType ==
    ASSUME TypeOK, NEW pcm \in Payloads
    PROVE  /\ pcm \in Seq(Samples) /\ Len(pcm) \in Nat \ {0}
           /\ Used \in Nat /\ Used < SegmentSamples /\ Target \in Nat \ {0}
           /\ Head1(pcm) \in Seq(Samples) /\ Rest(pcm) \in Seq(Samples)
           /\ Len(Head1(pcm)) = Lesser(SegmentSamples - Used, Len(pcm))
           /\ Len(Rest(pcm)) = Len(pcm) - Len(Head1(pcm))
           /\ Len(Head1(pcm)) \in Nat \ {0} /\ Len(Rest(pcm)) \in Nat
           /\ (Rest(pcm) = <<>>) <=> (Len(Rest(pcm)) = 0)
<1>1. pcm \in Seq(Samples) /\ Len(pcm) \in Nat \ {0}
  BY PayloadAssumption
<1>2. Used \in Nat /\ Used < SegmentSamples /\ Target \in Nat \ {0}
  <2>1. CASE TailOpen
    <3>1. Len(segs) \in Nat \ {0}
      BY <2>1, RowsType, EmptySeq DEF TailOpen, TypeOK
    <3> QED BY <2>1, <3>1, RowsType DEF TailOpen, Used, Target
  <2>2. CASE ~TailOpen
    BY <2>2, RowsType, SegmentAssumption DEF Used, Target
  <2> QED BY <2>1, <2>2
<1> DEFINE n == Lesser(SegmentSamples - Used, Len(pcm))
<1>3. n \in 1..Len(pcm)
  BY <1>1, <1>2, SegmentAssumption DEF Lesser
<1>4. Head1(pcm) \in Seq(Samples) /\ Len(Head1(pcm)) = n
  BY <1>1, <1>3, PrefixType DEF Head1
<1>5. Rest(pcm) \in Seq(Samples) /\ Len(Rest(pcm)) = Len(pcm) - n
  <2>1. \A i \in (n + 1)..Len(pcm) : pcm[i] \in Samples
    BY <1>1, <1>3, ElementOfSeq
  <2>2. /\ SubSeq(pcm, n + 1, Len(pcm)) \in Seq(Samples)
        /\ Len(SubSeq(pcm, n + 1, Len(pcm))) =
              IF n + 1 <= Len(pcm) THEN Len(pcm) - (n + 1) + 1 ELSE 0
    BY <2>1, <1>1, <1>3, SubSeqProperties
  <2> QED BY <2>2, <1>1, <1>3 DEF Rest
<1>6. (Rest(pcm) = <<>>) <=> (Len(Rest(pcm)) = 0)
  BY <1>5, EmptySeq
<1> QED BY <1>1, <1>2, <1>3, <1>4, <1>5, <1>6

\* A chunk written behind the committed samples of a file.
LEMMA WriteType ==
    ASSUME NEW d \in [Slots -> Files], NEW i \in Slots, NEW used \in Nat,
           used <= Len(d[i].pcm), NEW chunk \in Seq(Samples)
    PROVE  /\ WriteChunk(d, i, used, chunk) \in [Slots -> Files]
           /\ TornChunk(d, i, used, chunk) \subseteq [Slots -> Files]
<1>1. d[i] \in Files /\ d[i].pcm \in Seq(Samples) /\ d[i].header \in Nat
  BY DEF Files
<1>2. SubSeq(d[i].pcm, 1, used) \in Seq(Samples)
  BY <1>1, PrefixType
<1>3. Len(chunk) \in Nat
  BY LenProperties
<1>4. WriteChunk(d, i, used, chunk) \in [Slots -> Files]
  <2>1. SubSeq(d[i].pcm, 1, used) \o chunk \in Seq(Samples)
    BY <1>2, ConcatProperties
  <2> QED BY <1>3, <2>1 DEF WriteChunk, Files
<1>5. ASSUME NEW f \in TornFiles(d[i], used, chunk) PROVE f \in Files
  <2>1. CASE f = d[i]
    BY <2>1
  <2>2. CASE f = Stub
    BY <2>2, EmptySeq DEF Stub, NoFile, Files
  <2>3. ASSUME NEW h \in {d[i].header, used + Len(chunk)}, NEW n \in 0..Len(chunk),
               f = [state |-> "wav", header |-> h,
                    pcm |-> SubSeq(d[i].pcm, 1, used) \o SubSeq(chunk, 1, n)]
        PROVE  f \in Files
    <3>1. SubSeq(chunk, 1, n) \in Seq(Samples)
      BY <1>3, PrefixType
    <3>2. SubSeq(d[i].pcm, 1, used) \o SubSeq(chunk, 1, n) \in Seq(Samples)
      BY <1>2, <3>1, ConcatProperties
    <3>3. h \in Nat
      BY <1>1, <1>3
    <3> QED BY <2>3, <3>2, <3>3 DEF Files
  <2> QED BY <2>1, <2>2, <2>3 DEF TornFiles
<1>6. TornChunk(d, i, used, chunk) \subseteq [Slots -> Files]
  BY <1>5 DEF TornChunk
<1> QED BY <1>4, <1>6

LEMMA WrittenType ==
    ASSUME NEW start \in Nat, NEW hashed \in Seq(Samples), NEW file \in Files
    PROVE  /\ WrittenSegment(start, hashed, file) \in Segments
           /\ WrittenHasher(hashed, file) \in Hashers
<1>1. file.header \in Nat /\ file.pcm \in Seq(Samples)
  BY DEF Files
<1>2. WrittenSegment(start, hashed, file) \in Segments
  BY <1>1 DEF WrittenSegment, Segments, Digests, PcmDigest, FileDigest
<1>3. WrittenHasher(hashed, file) \in Hashers
  BY EmptySeq DEF WrittenHasher, NoHasher, Hashers
<1> QED BY <1>2, <1>3

LEMMA HashedType ==
    ASSUME TypeOK, NEW i \in Slots, NEW used \in Nat, used # 0 => i \in DOMAIN segs
    PROVE  HashedSoFar(i, used) \in Seq(Samples)
<1>1. hashers[i].pcm \in Seq(Samples) /\ <<>> \in Seq(Samples)
  BY RowsType, EmptySeq DEF Hashers
<1>2. used # 0 => segs[i].sha.pcm \in Seq(Samples)
  BY RowsType
<1> QED BY <1>1, <1>2 DEF HashedSoFar

\* What an append writes stays in its type, in files, cache and rows.
LEMMA AppendType ==
    ASSUME TypeOK, NEW pcm \in Payloads, LastTarget(pcm) <= MaxSegments, Writable
    PROVE  /\ Disk1(pcm) \in [Slots -> Files]
           /\ Hashers1(pcm) \in [Slots -> Hashers]
           /\ TornChunk(disk, Target, Used, Head1(pcm)) \subseteq [Slots -> Files]
           /\ Rest(pcm) # <<>> =>
                 /\ Disk2(pcm) \in [Slots -> Files]
                 /\ Hashers2(pcm) \in [Slots -> Hashers]
                 /\ TornChunk(Disk1(pcm), Target + 1, 0, Rest(pcm))
                       \subseteq [Slots -> Files]
           /\ Row1(pcm) \in Segments
           /\ AppendedSegs(pcm) \in Seq(Segments)
           /\ Len(AppendedSegs(pcm)) = LastTarget(pcm)
<1> USE PiecesType
<1>1. Target \in Slots /\ (Rest(pcm) # <<>> => Target + 1 \in Slots)
  BY SegmentAssumption DEF LastTarget, Slots
<1>2. Used # 0 => TailOpen /\ Target = Len(segs) /\ Target \in DOMAIN segs
  <2>1. TailOpen => Len(segs) \in 1..Len(segs)
    BY RowsType, EmptySeq DEF TailOpen, TypeOK
  <2> QED BY <2>1, RowsType DEF Used, Target
<1>3. Used <= Len(disk[Target].pcm)
  <2>1. Len(disk[Target].pcm) \in Nat
    BY <1>1, RowsType, LenProperties DEF Files
  <2> QED BY <2>1 DEF Writable
<1>4. disk \in [Slots -> Files] /\ hashers \in [Slots -> Hashers]
  BY DEF TypeOK
<1>5. /\ Disk1(pcm) \in [Slots -> Files]
      /\ TornChunk(disk, Target, Used, Head1(pcm)) \subseteq [Slots -> Files]
  BY <1>1, <1>3, <1>4, WriteType DEF Disk1
<1>6. Hashed1(pcm) \in Seq(Samples)
  BY <1>1, <1>2, HashedType, ConcatProperties DEF Hashed1
<1>7. Disk1(pcm)[Target] \in Files
  BY <1>1, <1>5
<1>8. Hashers1(pcm) \in [Slots -> Hashers]
  BY <1>1, <1>4, <1>6, <1>7, WrittenType DEF Hashers1
<1>9. ASSUME Rest(pcm) # <<>>
      PROVE  /\ Disk2(pcm) \in [Slots -> Files]
             /\ Hashers2(pcm) \in [Slots -> Hashers]
             /\ TornChunk(Disk1(pcm), Target + 1, 0, Rest(pcm)) \subseteq [Slots -> Files]
             /\ Hashed2(pcm) \in Seq(Samples)
             /\ Disk2(pcm)[Target + 1] \in Files
  <2>1. Target + 1 \in Slots
    BY <1>1, <1>9
  <2>2. Disk1(pcm)[Target + 1] \in Files
    BY <2>1, <1>5
  <2>3. 0 <= Len(Disk1(pcm)[Target + 1].pcm)
    BY <2>2, LenProperties DEF Files
  <2>4. /\ Disk2(pcm) \in [Slots -> Files]
        /\ TornChunk(Disk1(pcm), Target + 1, 0, Rest(pcm)) \subseteq [Slots -> Files]
    BY <2>1, <2>3, <1>5, WriteType DEF Disk2
  <2>5. Hashed2(pcm) \in Seq(Samples)
    BY <2>1, HashedType, ConcatProperties DEF Hashed2
  <2>6. Disk2(pcm)[Target + 1] \in Files
    BY <2>1, <2>4
  <2>7. Hashers2(pcm) \in [Slots -> Hashers]
    BY <2>1, <2>5, <2>6, <1>8, WrittenType DEF Hashers2
  <2> QED BY <2>4, <2>5, <2>6, <2>7
<1>10. Row1(pcm) \in Segments
  <2>1. (IF TailOpen THEN segs[Target].start ELSE count) \in Nat
    <3>1. TailOpen => Target \in DOMAIN segs
      BY RowsType, EmptySeq DEF TailOpen, TypeOK, Target
    <3> QED BY <3>1, RowsType DEF TypeOK
  <2> QED BY <2>1, <1>6, <1>7, WrittenType DEF Row1
<1>11. Segs1(pcm) \in Seq(Segments) /\ Len(Segs1(pcm)) = Target
  <2>1. CASE TailOpen
    <3>1. Target \in 1..Len(segs) /\ Target = Len(segs)
      BY <2>1, RowsType, EmptySeq DEF TailOpen, TypeOK, Target
    <3> QED BY <2>1, <3>1, <1>10, ExceptSeq DEF Segs1, TypeOK
  <2>2. CASE ~TailOpen
    BY <2>2, <1>10, RowsType DEF Segs1, TypeOK, Target
  <2> QED BY <2>1, <2>2
<1>12. /\ AppendedSegs(pcm) \in Seq(Segments)
       /\ Len(AppendedSegs(pcm)) = LastTarget(pcm)
  <2>1. CASE Rest(pcm) = <<>>
    BY <2>1, <1>11 DEF AppendedSegs, LastTarget
  <2>2. CASE Rest(pcm) # <<>>
    <3>1. count + Len(Head1(pcm)) \in Nat
      BY DEF TypeOK
    <3>2. Row2(pcm) \in Segments
      BY <2>2, <3>1, <1>9, WrittenType DEF Row2
    <3> QED BY <2>2, <3>2, <1>11 DEF AppendedSegs, LastTarget
  <2> QED BY <2>1, <2>2
<1> QED BY <1>5, <1>8, <1>9, <1>10, <1>12

\* What an interrupted append leaves behind, too.
LEMMA InterruptedType ==
    ASSUME TypeOK, NEW pcm \in Payloads, LastTarget(pcm) <= MaxSegments,
           NEW o \in Interrupted(pcm)
    PROVE  o.disk \in [Slots -> Files] /\ o.hashers \in [Slots -> Hashers]
<1>1. disk \in [Slots -> Files] /\ hashers \in [Slots -> Hashers]
  BY DEF TypeOK
<1>2. CASE ~Appendable \/ ~Writable
  BY <1>1, <1>2 DEF Interrupted
<1>3. CASE Appendable /\ Writable
  <2>1. CASE Rest(pcm) = <<>> \/ ~NextWritable(pcm)
    BY <1>1, <1>3, <2>1, AppendType DEF Interrupted
  <2>2. CASE ~(Rest(pcm) = <<>> \/ ~NextWritable(pcm))
    BY <1>1, <1>3, <2>2, AppendType DEF Interrupted
  <2> QED BY <2>1, <2>2
<1> QED BY <1>2, <1>3

\* Giving up a suffix of the segments.
LEMMA GapFromType ==
    ASSUME TypeOK, NEW i \in DOMAIN segs, GapFrom(i)
    PROVE  /\ segs' \in Seq(Segments) /\ Len(segs') = Len(segs) /\ count' \in Nat
           /\ status' = "INCOMPLETE" /\ frames' = frames
           /\ hashers' \in [Slots -> Hashers]
<1>1. \A k \in DOMAIN segs : Gap(segs[k]) \in Segments
  BY RowsType, EmptySeq DEF Gap, Segments, PcmDigest, Digests
<1>2. segs' = [k \in DOMAIN segs |-> IF k < i THEN segs[k] ELSE Gap(segs[k])]
  BY DEF GapFrom
<1>3. \A k \in DOMAIN segs : segs'[k] \in Segments
  BY <1>1, <1>2, RowsType
<1>4. segs' \in Seq(Segments) /\ Len(segs') = Len(segs)
  BY <1>2, <1>3, RowsType
<1>5. count' \in Nat
  BY RowsType DEF GapFrom
<1>6. hashers' \in [Slots -> Hashers]
  BY EmptySeq DEF GapFrom, ForgetHashers, NoHasher, Hashers
<1> QED BY <1>4, <1>5, <1>6 DEF GapFrom

\* A quarantine gives up a suffix behind segments that all verify.
LEMMA QuarantineGaps ==
    ASSUME TypeOK, NEW i \in DOMAIN segs, Quarantine(i)
    PROVE  \E k \in DOMAIN segs :
              /\ GapFrom(k)
              /\ \A j \in DOMAIN segs :
                    j < k => segs[j].start = Cursor(j) /\ Matches(segs[j], disk[j])
<1> DEFINE broken == {k \in DOMAIN segs : /\ k < i
                                          /\ \/ segs[k].start # Cursor(k)
                                             \/ ~Matches(segs[k], disk[k])}
<1>1. broken \in SUBSET Nat
  BY RowsType
<1>2. CASE broken = {}
  <2>1. GapFrom(i)
    BY <1>2 DEF Quarantine
  <2> QED BY <1>2, <2>1
<1>3. CASE broken # {}
  <2>1. First(broken) \in broken /\ \A j \in broken : First(broken) <= j
    BY <1>1, <1>3, FirstExists
  <2>2. GapFrom(First(broken))
    BY <1>3 DEF Quarantine
  <2>3. PICK k \in broken : GapFrom(k) /\ \A j \in broken : k <= j
    BY <2>1, <2>2
  <2>4. k \in DOMAIN segs /\ k \in 1..Len(segs) /\ k < i /\ i \in 1..Len(segs)
    BY <2>3, RowsType
  <2>5. ASSUME NEW j \in DOMAIN segs, j < k
        PROVE  segs[j].start = Cursor(j) /\ Matches(segs[j], disk[j])
    <3>1. j \in 1..Len(segs) /\ Len(segs) \in Nat
      BY RowsType
    <3>2. j < i
      BY <3>1, <2>4, <2>5
    <3>3. j \notin broken
      BY <3>1, <2>3, <2>4, <2>5
    <3> QED BY <3>2, <3>3
  <2> QED BY <2>3, <2>4, <2>5
<1> QED BY <1>2, <1>3

\* The segments a reader is warned of exist.
LEMMA FirstInvalidInRange ==
    ASSUME TypeOK, NEW a, NEW b, FirstInvalid(a, b) # 0
    PROVE  FirstInvalid(a, b) \in DOMAIN segs
<1> DEFINE over == Overlap(a, b)
           joined(i) == segs[i].start <= a \/ \E j \in over : SegEnd(segs[j]) = segs[i].start
           bad == {i \in over : ~joined(i) \/ ~Matches(segs[i], disk[i])}
<1>1. over \subseteq DOMAIN segs /\ over \in SUBSET Nat /\ bad \subseteq over
  BY RowsType DEF Overlap
<1>2. CASE bad # {}
  <2>1. FirstInvalid(a, b) = First(bad)
    BY <1>2 DEF FirstInvalid
  <2>2. bad \in SUBSET Nat
    BY <1>1
  <2>3. First(bad) \in bad
    BY <1>2, <2>2, FirstExists
  <2> QED BY <1>1, <2>1, <2>3
<1>3. CASE bad = {}
  <2>1. FirstInvalid(a, b) = First(over) /\ over # {}
    BY <1>3 DEF FirstInvalid
  <2>2. First(over) \in over
    BY <1>1, <2>1, FirstExists
  <2> QED BY <1>1, <2>1, <2>2
<1> QED BY <1>2, <1>3

\* Files repaired by a finalization or a recovery.
LEMMA RepairedType ==
    ASSUME TypeOK, NEW i \in ActiveSegments, Matches(segs[i], disk[i])
    PROVE  RepairedFile(i) \in Files
<1>1. i \in DOMAIN segs /\ segs[i].committed \in Nat /\ disk[i] \in Files
  BY RowsType DEF ActiveSegments
<1>2. segs[i].committed <= Len(disk[i].pcm)
  BY DEF Matches, ActiveSegments
<1>3. SubSeq(disk[i].pcm, 1, segs[i].committed) \in Seq(Samples)
  BY <1>1, <1>2, PrefixType DEF Files
<1> QED BY <1>1, <1>3 DEF RepairedFile, Files

LEMMA FinalizedType ==
    ASSUME TypeOK, NEW i \in DOMAIN segs,
           i \in ActiveSegments => Matches(segs[i], disk[i])
    PROVE  FinalizedSegs[i] \in Segments
<1>1. i \in ActiveSegments => FileDigest(RepairedFile(i)) \in Digests
  BY RepairedType DEF FileDigest, Files, Digests
<1> QED BY <1>1, RowsType DEF FinalizedSegs, Segments

\* A finalization that finds every segment in order.
LEMMA FinalizeType ==
    ASSUME TypeOK, Stuck = {}
    PROVE  /\ FinalizedSegs \in Seq(Segments) /\ Len(FinalizedSegs) = Len(segs)
           /\ RepairedDisk \in [Slots -> Files]
           /\ FinalizedHashers \in [Slots -> Hashers]
<1>1. \A i \in DOMAIN segs : Matches(segs[i], disk[i])
  BY DEF Stuck
<1>2. \A i \in DOMAIN segs : FinalizedSegs[i] \in Segments
  BY <1>1, FinalizedType
<1>3. FinalizedSegs \in Seq(Segments) /\ Len(FinalizedSegs) = Len(segs)
  <2>1. FinalizedSegs = [i \in DOMAIN segs |-> FinalizedSegs[i]]
    BY DEF FinalizedSegs
  <2> QED BY <1>2, <2>1, RebuiltSeq DEF TypeOK
<1>4. RepairedDisk \in [Slots -> Files]
  <2>1. \A i \in ActiveSegments : RepairedFile(i) \in Files
    BY <1>1, RepairedType DEF ActiveSegments
  <2>2. \A i \in Slots : disk[i] \in Files
    BY RowsType
  <2> QED BY <2>1, <2>2 DEF RepairedDisk
<1>5. FinalizedHashers \in [Slots -> Hashers]
  BY RowsType, EmptySeq DEF FinalizedHashers, NoHasher, Hashers
<1> QED BY <1>3, <1>4, <1>5

\* The segments a recovery keeps are those before the first it cannot verify.
LEMMA RecoverableVerifies ==
    ASSUME TypeOK
    PROVE  /\ \A i \in DOMAIN segs : Recoverable(i) =>
                 /\ i \notin Unrecoverable
                 /\ \A j \in DOMAIN segs : j < i => Recoverable(j)
           /\ Unrecoverable # {} =>
                 /\ First(Unrecoverable) \in DOMAIN segs
                 /\ First(Unrecoverable) \in Unrecoverable
<1>1. /\ Unrecoverable \in SUBSET Nat /\ Unrecoverable \subseteq DOMAIN segs
      /\ \A i \in DOMAIN segs : i \in Nat
  BY RowsType DEF Unrecoverable
<1>2. CASE Unrecoverable = {}
  BY <1>2 DEF Recoverable
<1>3. CASE Unrecoverable # {}
  <2>1. PICK m \in Unrecoverable :
           /\ m = First(Unrecoverable)
           /\ \A j \in Unrecoverable : m <= j
    BY <1>1, <1>3, FirstExists, Zenon
  <2>2. m \in Nat /\ m \in DOMAIN segs
    BY <1>1
  <2>3. \A i \in DOMAIN segs : Recoverable(i) <=> i < m
    BY <1>3, <2>1 DEF Recoverable
  <2>4. ASSUME NEW i \in DOMAIN segs, i < m PROVE i \notin Unrecoverable
    BY <1>1, <2>1, <2>2, <2>4
  <2>5. ASSUME NEW i \in DOMAIN segs, i < m, NEW j \in DOMAIN segs, j < i PROVE j < m
    BY <1>1, <2>2, <2>5
  <2> QED BY <2>1, <2>2, <2>3, <2>4, <2>5
<1> QED BY <1>2, <1>3

\* What a recovery writes.
LEMMA RecoverType ==
    ASSUME TypeOK
    PROVE  /\ RecoveredSegs \in Seq(Segments) /\ Len(RecoveredSegs) = Len(segs)
           /\ RecoveredDisk \in [Slots -> Files]
           /\ \A i \in DOMAIN segs : Recoverable(i) => RecoveredHasher(i) \in Hashers
<1>1. \A i \in DOMAIN segs : Recoverable(i) => Matches(segs[i], disk[i])
  BY RecoverableVerifies DEF Unrecoverable
<1>2. \A i \in DOMAIN segs : RecoveredSegs[i] \in Segments
  <2>1. \A i \in DOMAIN segs : Gap(segs[i]) \in Segments
    BY RowsType, EmptySeq DEF Gap, Segments, PcmDigest, Digests
  <2>2. \A i \in DOMAIN segs : Recoverable(i) => FinalizedSegs[i] \in Segments
    BY <1>1, FinalizedType
  <2> QED BY <2>1, <2>2, RowsType DEF RecoveredSegs
<1>3. RecoveredSegs \in Seq(Segments) /\ Len(RecoveredSegs) = Len(segs)
  BY <1>2, RowsType DEF RecoveredSegs
<1>4. RecoveredDisk \in [Slots -> Files]
  BY <1>1, RepairedType, RowsType DEF RecoveredDisk, ActiveSegments
<1>5. ASSUME NEW i \in DOMAIN segs, Recoverable(i) PROVE RecoveredHasher(i) \in Hashers
  <2>1. CASE i \in ActiveSegments
    <3>1. disk[i] \in Files /\ segs[i].committed \in Nat
      BY RowsType
    <3>2. segs[i].committed <= Len(disk[i].pcm)
      BY <1>1, <1>5, <2>1 DEF Matches, ActiveSegments
    <3>3. SubSeq(disk[i].pcm, 1, segs[i].committed) \in Seq(Samples)
      BY <3>1, <3>2, PrefixType DEF Files
    <3> QED BY <3>3, EmptySeq DEF RecoveredHasher, NoHasher, Hashers
  <2>2. CASE i \notin ActiveSegments
    BY <2>2, EmptySeq DEF RecoveredHasher, NoHasher, Hashers
  <2> QED BY <2>1, <2>2
<1> QED BY <1>3, <1>4, <1>5

--------------------------------------------------------------------------------
(* Type correctness. *)

\* The rows after a call that gives up a suffix, marks the capture or does
\* nothing are typed.
RowsTyped == /\ status \in RecordingStatuses /\ count \in Nat
             /\ segs \in Seq(Segments) /\ Len(segs) <= MaxSegments
             /\ frames \in Seq(Receipts)
             /\ disk \in [Slots -> Files] /\ hashers \in [Slots -> Hashers]

LEMMA ForgottenType == ForgetHashers => hashers' \in [Slots -> Hashers]
  BY EmptySeq DEF ForgetHashers, NoHasher, Hashers

LEMMA QuarantineType ==
    ASSUME TypeOK, NEW i \in DOMAIN segs, Quarantine(i), UNCHANGED disk
    PROVE  RowsTyped'
<1>1. PICK k \in DOMAIN segs : GapFrom(k)
  BY QuarantineGaps
<1> QED BY <1>1, GapFromType DEF RowsTyped, TypeOK, RecordingStatuses

LEMMA MarkType ==
    ASSUME TypeOK, MarkIncomplete, UNCHANGED disk,
           ForgetHashers \/ UNCHANGED hashers
    PROVE  RowsTyped'
  BY ForgottenType DEF TypeOK, MarkIncomplete, RowsTyped, RecordingStatuses

LEMMA ConflictType ==
    ASSUME TypeOK, Conflict
    PROVE  RowsTyped' /\ UNCHANGED <<cleanup, faults>>
  BY MarkType DEF Conflict

LEMMA ReplayType ==
    ASSUME TypeOK, NEW f, NEW start, NEW pcm, Replay(f, start, pcm)
    PROVE  RowsTyped' /\ UNCHANGED <<cleanup, faults>>
<1> DEFINE bad == FirstInvalid(f.start, f.end)
           over == Overlap(f.start, f.end)
<1>1. CASE Conflict
  BY <1>1, ConflictType
<1>2. CASE UNCHANGED <<db, disk, hashers, cleanup, faults>>
  BY <1>2 DEF RowsTyped, TypeOK, db
<1>3. CASE /\ bad # 0 \/ over # {}
           /\ Quarantine(IF bad # 0 THEN bad ELSE First(over))
           /\ UNCHANGED <<disk, cleanup, faults>>
  <2>1. CASE bad # 0
    BY <1>3, <2>1, FirstInvalidInRange, QuarantineType
  <2>2. CASE bad = 0
    <3>1. over \in SUBSET Nat /\ over \subseteq DOMAIN segs /\ over # {}
      BY <1>3, <2>2, RowsType DEF Overlap
    <3>2. First(over) \in DOMAIN segs
      BY <3>1, FirstExists
    <3> QED BY <1>3, <2>2, <3>2, QuarantineType
  <2> QED BY <2>1, <2>2
<1> QED BY <1>1, <1>2, <1>3 DEF Replay

LEMMA StoreType ==
    ASSUME TypeOK, NEW pcm \in Payloads, NEW receipts \in Seq(Receipts),
           NEW recovering, Store(pcm, receipts, recovering)
    PROVE  RowsTyped' /\ cleanup' \in {"none", "mark", "forget"} /\ faults' \in Nat
<1>1. CASE StoreCommits(pcm, receipts)
  <2>1. count' \in Nat
    BY <1>1, PiecesType DEF StoreCommits, TypeOK
  <2>2. segs' \in Seq(Segments) /\ Len(segs') <= MaxSegments
    BY <1>1, AppendType DEF StoreCommits
  <2>3. disk' \in [Slots -> Files] /\ hashers' \in [Slots -> Hashers]
    BY <1>1, AppendType DEF StoreCommits
  <2> QED BY <1>1, <2>1, <2>2, <2>3 DEF StoreCommits, RowsTyped, TypeOK
<1>2. CASE StoreRejected(pcm)
  <2>1. disk' \in [Slots -> Files] /\ hashers' \in [Slots -> Hashers]
    BY <1>2, AppendType DEF StoreRejected, TypeOK
  <2> QED BY <1>2, <2>1 DEF StoreRejected, RowsTyped, TypeOK, db
<1>3. CASE StoreFails(pcm)
  <2>1. disk' \in [Slots -> Files] /\ hashers' \in [Slots -> Hashers]
    BY <1>3, InterruptedType DEF StoreFails
  <2> QED BY <1>3, <2>1 DEF StoreFails, Fault, RowsTyped, TypeOK, db
<1>4. CASE ReserveReached
  BY <1>4 DEF ReserveReached, Fault, RowsTyped, TypeOK, db
<1> QED BY <1>1, <1>2, <1>3, <1>4 DEF Store

LEMMA AppendFrameType ==
    ASSUME TypeOK, NEW k \in FrameNumbers, NEW start \in Positions,
           NEW pcm \in Payloads, NEW r \in BOOLEAN, AppendFrame(k, start, pcm, r)
    PROVE  TypeOK'
<1> DEFINE receipt == [start |-> start, end |-> start + Len(pcm), payload |-> pcm]
<1>1. RowsTyped' /\ cleanup' \in {"none", "mark", "forget"} /\ faults' \in Nat
  <2>1. CASE k \in DOMAIN frames
    <3>1. Replay(frames[k], start, pcm)
      BY <2>1 DEF AppendFrame
    <3> QED BY <3>1, ReplayType DEF TypeOK
  <2>2. CASE k \notin DOMAIN frames /\ k = Len(frames) + 1 /\ start = count
    <3>1. Store(pcm, Append(frames, receipt), r)
      BY <2>2 DEF AppendFrame
    <3>2. receipt \in Receipts
      BY <2>2, PiecesType DEF Receipts, TypeOK
    <3>3. Append(frames, receipt) \in Seq(Receipts)
      BY <3>2 DEF TypeOK
    <3> QED BY <3>1, <3>3, StoreType
  <2>3. CASE k \notin DOMAIN frames /\ ~(k = Len(frames) + 1 /\ start = count)
    <3>1. Conflict
      BY <2>3 DEF AppendFrame
    <3> QED BY <3>1, ConflictType DEF TypeOK
  <2> QED BY <2>1, <2>2, <2>3
<1> QED BY <1>1 DEF AppendFrame, TypeOK, RowsTyped

LEMMA FinalizeStepType ==
    ASSUME TypeOK, NEW r \in BOOLEAN, Finalize(r)
    PROVE  TypeOK'
<1>1. RowsTyped' /\ cleanup' \in {"none", "mark", "forget"}
  <2>1. CASE Reverify
    <3> DEFINE bad == {i \in DOMAIN segs : \/ segs[i].start # Cursor(i)
                                           \/ segs[i].status # "FINALIZED"
                                           \/ ~Matches(segs[i], disk[i])}
    <3>1. CASE bad # {}
      <4>1. GapFrom(First(bad)) /\ UNCHANGED <<disk, cleanup>>
        BY <2>1, <3>1 DEF Reverify
      <4>2. bad \in SUBSET Nat /\ bad \subseteq DOMAIN segs
        BY RowsType
      <4>3. First(bad) \in DOMAIN segs
        BY <3>1, <4>2, FirstExists
      <4> QED BY <4>1, <4>3, GapFromType DEF RowsTyped, TypeOK, RecordingStatuses
    <3>2. CASE bad = {} /\ ~Tiled
      <4>1. MarkIncomplete /\ UNCHANGED <<hashers, disk, cleanup>>
        BY <2>1, <3>2 DEF Reverify
      <4> QED BY <4>1, MarkType DEF TypeOK
    <3>3. CASE bad = {} /\ Tiled
      <4>1. UNCHANGED <<db, hashers, disk, cleanup>>
        BY <2>1, <3>3 DEF Reverify
      <4> QED BY <4>1 DEF RowsTyped, TypeOK, db
    <3> QED BY <3>1, <3>2, <3>3
  <2>2. CASE FinalizeRaises(r)
    BY <2>2 DEF FinalizeRaises, RowsTyped, TypeOK, db
  <2>3. CASE FinalizeCommits
    BY <2>3, FinalizeType DEF FinalizeCommits, RowsTyped, TypeOK, RecordingStatuses
  <2>4. CASE FinalizeGivesUp
    <3>1. Stuck \in SUBSET Nat /\ Stuck \subseteq DOMAIN segs /\ Stuck # {}
      BY <2>4, RowsType DEF Stuck, FinalizeGivesUp
    <3>2. First(Stuck) \in DOMAIN segs
      BY <3>1, FirstExists
    <3> QED BY <2>4, <3>2, GapFromType DEF FinalizeGivesUp, RowsTyped, TypeOK, RecordingStatuses
  <2> QED BY <2>1, <2>2, <2>3, <2>4 DEF Finalize
<1> QED BY <1>1 DEF Finalize, TypeOK, RowsTyped

LEMMA CrashType ==
    ASSUME TypeOK, NEW d \in [Slots -> Files], CrashWith(d)
    PROVE  TypeOK'
<1>1. hashers' \in [Slots -> Hashers]
  BY ForgottenType DEF CrashWith
<1>2. UNCHANGED <<source, status, count, segs, frames, damaged>>
  BY DEF CrashWith, db
<1>3. disk' = d /\ cleanup' = "none" /\ faults' = faults + 1
  BY DEF CrashWith, Fault
<1>4. running' \in BOOLEAN
  BY Zenon DEF CrashWith
<1> QED BY <1>1, <1>2, <1>3, <1>4 DEF TypeOK

LEMMA RecoverStepType ==
    ASSUME TypeOK, Recover
    PROVE  TypeOK'
<1>1. CASE ~Accepting(TRUE)
  BY <1>1 DEF Recover, TypeOK, db
<1>2. CASE Accepting(TRUE)
  <2>1. segs' = RecoveredSegs /\ disk' = RecoveredDisk
    BY <1>2 DEF Recover
  <2>2. hashers' \in [Slots -> Hashers]
    <3>1. hashers' = [i \in Slots |-> IF i \in DOMAIN segs /\ Recoverable(i)
                                      THEN RecoveredHasher(i) ELSE NoHasher]
      BY <1>2 DEF Recover
    <3>2. NoHasher \in Hashers
      BY EmptySeq DEF NoHasher, Hashers
    <3> QED BY <3>1, <3>2, RecoverType
  <2>3. count' \in Nat
    <3> DEFINE i == IF Unrecoverable = {} THEN Len(segs) + 1 ELSE First(Unrecoverable)
    <3>1. i \in 1..(Len(segs) + 1)
      BY RecoverableVerifies, RowsType
    <3>2. count' = Cursor(i)
      BY <1>2 DEF Recover
    <3> QED BY <3>1, <3>2, RowsType
  <2>4. status' \in RecordingStatuses
    BY <1>2 DEF Recover, TypeOK, RecordingStatuses
  <2> QED BY <1>2, <2>1, <2>2, <2>3, <2>4, RecoverType DEF Recover, TypeOK
<1> QED BY <1>1, <1>2

LEMMA DamageType ==
    ASSUME TypeOK, NEW i \in Slots, NEW kind \in DamageKinds, Damage(i, kind)
    PROVE  TypeOK'
<1>1. disk' \in [Slots -> Files]
  <2>1. CASE disk' = [disk EXCEPT ![i] = NoFile]
    BY <2>1, EmptySeq DEF TypeOK, NoFile, Files
  <2>2. ASSUME NEW p \in DOMAIN disk[i].pcm, NEW s \in Samples,
               disk' = [disk EXCEPT ![i].pcm[p] = s]
        PROVE  disk' \in [Slots -> Files]
    <3>1. disk[i].pcm \in Seq(Samples) /\ p \in 1..Len(disk[i].pcm)
      BY RowsType, LenProperties DEF Files
    <3>2. [disk[i].pcm EXCEPT ![p] = s] \in Seq(Samples)
      BY <3>1, ExceptSeq
    <3>3. disk' = [disk EXCEPT ![i] = [disk[i] EXCEPT !.pcm = [disk[i].pcm EXCEPT ![p] = s]]]
      BY <2>2 DEF TypeOK
    <3> QED BY <3>2, <3>3 DEF TypeOK, Files
  <2> QED BY <2>1, <2>2 DEF Damage
<1> QED BY <1>1 DEF Damage, Fault, TypeOK, db

LEMMA TypeStep == TypeOK /\ [Next]_vars => TypeOK'
<1> SUFFICES ASSUME TypeOK, [Next]_vars PROVE TypeOK'
  OBVIOUS
<1>1. CASE OpenCapture
  BY <1>1 DEF OpenCapture, TypeOK, RecordingStatuses
<1>2. ASSUME NEW pcm \in Payloads, AppendDirect(pcm) PROVE TypeOK'
  BY <1>2, StoreType DEF AppendDirect, TypeOK, RowsTyped
<1>3. ASSUME NEW k \in FrameNumbers, NEW start \in Positions, NEW pcm \in Payloads,
             NEW r \in BOOLEAN, AppendFrame(k, start, pcm, r)
      PROVE  TypeOK'
  BY <1>3, AppendFrameType
<1>4. CASE MarkAfterFailure
  BY <1>4 DEF MarkAfterFailure, Fault, TypeOK, RecordingStatuses
<1>5. CASE ForgetAfterFailure
  BY <1>5, ForgottenType DEF ForgetAfterFailure, TypeOK, db
<1>6. CASE CallerMarksIncomplete
  BY <1>6 DEF CallerMarksIncomplete, MarkIncomplete, TypeOK, RecordingStatuses
<1>7. ASSUME NEW a \in Positions, NEW b \in Positions, ReadQuarantines(a, b) PROVE TypeOK'
  <2>1. RowsTyped'
    BY <1>7, FirstInvalidInRange, QuarantineType DEF ReadQuarantines
  <2> QED BY <1>7, <2>1 DEF ReadQuarantines, TypeOK, RowsTyped
<1>8. ASSUME NEW r \in BOOLEAN, Finalize(r) PROVE TypeOK'
  BY <1>8, FinalizeStepType
<1>9. ASSUME NEW r \in BOOLEAN, FinalizeFails(r) PROVE TypeOK'
  BY <1>9, FinalizeType DEF FinalizeFails, Fault, TypeOK, db
<1>10. CASE Crash
  BY <1>10, CrashType DEF Crash, TypeOK
<1>11. ASSUME NEW pcm \in Payloads, CrashInAppend(pcm) PROVE TypeOK'
  BY <1>11, InterruptedType, CrashType DEF CrashInAppend
<1>12. CASE CrashInFinalize
  BY <1>12, FinalizeType, CrashType DEF CrashInFinalize
<1>13. CASE Recover
  BY <1>13, RecoverStepType
<1>14. CASE RecoverFails
  BY <1>14, RecoverType DEF RecoverFails, Fault, TypeOK, RecordingStatuses
<1>15. ASSUME NEW i \in Slots, NEW kind \in DamageKinds, Damage(i, kind) PROVE TypeOK'
  BY <1>15, DamageType
<1>16. CASE UNCHANGED vars
  BY <1>16 DEF vars, db, TypeOK
<1> QED
  BY <1>1, <1>2, <1>3, <1>4, <1>5, <1>6, <1>7, <1>8, <1>9, <1>10, <1>11, <1>12,
     <1>13, <1>14, <1>15, <1>16 DEF Next

LEMMA TypeInit == Init => TypeOK
  BY EnvironmentAssumption, SegmentAssumption, EmptySeq
  DEF Init, TypeOK, RecordingStatuses, NoFile, Files, NoHasher, Hashers

\* Whatever fails, every row, file and cache entry stays in its type; in
\* particular no write ever cuts a file behind its end, and no capture has more
\* segments than slots.
THEOREM TypeCorrectness == Spec => []TypeOK
  BY TypeInit, TypeStep, PTL DEF Spec

--------------------------------------------------------------------------------
(* The segments tile the recording. *)

\* The inductive invariant: tiling is preserved only because COMPLETE captures
\* have final segments, and it speaks about well-typed rows.
IInv == TypeOK /\ SegmentsTile /\ StatusMatchesSegments

\* Segments that verify, or that an append accepts, were not given up.
LEMMA VerifiedIsKept ==
    ASSUME NEW i \in DOMAIN segs, Matches(segs[i], disk[i])
    PROVE  i \in Kept
  BY DEF Matches, Kept

\* Nothing but the status may change, and only towards INCOMPLETE.
LEMMA SameRowsTile ==
    ASSUME IInv, UNCHANGED <<segs, count, frames>>,
           \/ status' = status
           \/ status' = "INCOMPLETE"
           \/ status = "PENDING" /\ status' = "CAPTURING"
    PROVE  SegmentsTile' /\ StatusMatchesSegments'
<1>1. Kept' = Kept /\ HasGap' = HasGap /\ \A i : Cursor(i)' = Cursor(i)
  BY DEF Kept, HasGap, Cursor
<1>2. SegmentsTile'
  BY <1>1 DEF IInv, SegmentsTile
<1>3. StatusMatchesSegments'
  BY DEF IInv, StatusMatchesSegments
<1> QED BY <1>2, <1>3

\* Giving up everything behind a kept prefix.
LEMMA GapFromTile ==
    ASSUME IInv, NEW i \in DOMAIN segs,
           segs' = [k \in DOMAIN segs |-> IF k < i THEN segs[k] ELSE Gap(segs[k])],
           count' = Cursor(i), status' = "INCOMPLETE",
           \A j \in DOMAIN segs : j < i => j \in Kept
    PROVE  SegmentsTile' /\ StatusMatchesSegments'
<1>1. /\ DOMAIN segs = 1..Len(segs) /\ Len(segs) \in Nat
      /\ DOMAIN segs' = DOMAIN segs /\ Len(segs') = Len(segs)
      /\ i \in 1..Len(segs)
  BY RowsType DEF IInv
<1>2. \A k \in DOMAIN segs : segs'[k] = IF k < i THEN segs[k] ELSE Gap(segs[k])
  OBVIOUS
<1>3. Kept' = {k \in DOMAIN segs : k < i}
  <2>1. \A k \in DOMAIN segs : Gap(segs[k]).status = "GAP"
    BY RowsType DEF IInv, Gap, Segments
  <2> QED BY <1>1, <1>2, <2>1 DEF Kept
<1>4. \A k \in 1..i : Cursor(k)' = Cursor(k)
  BY <1>1, <1>2 DEF Cursor
<1>5. ASSUME NEW k \in Kept'
      PROVE  /\ segs'[k].start = Cursor(k)'
             /\ segs'[k].committed \in 1..SegmentSamples
             /\ k < Len(segs') => segs'[k].status = "FINALIZED"
             /\ k + 1 \in Kept' => segs'[k].committed = SegmentSamples
             /\ segs'[k].status = "ACTIVE" => segs'[k].committed < SegmentSamples
  <2>1. k \in Kept /\ k \in 1..i /\ segs'[k] = segs[k]
    BY <1>1, <1>2, <1>3
  <2>2. k + 1 \in Kept' => k + 1 \in Kept
    BY <1>3
  <2> QED BY <1>1, <1>4, <2>1, <2>2 DEF IInv, SegmentsTile
<1>6. IF Kept' = {} THEN count' = 0
      ELSE \E k \in Kept' : SegEnd(segs'[k]) = count' /\ k + 1 \notin Kept'
  <2>1. CASE i = 1
    BY <1>1, <1>3, <2>1 DEF Cursor
  <2>2. CASE i # 1
    <3>1. i - 1 \in Kept' /\ (i - 1) + 1 \notin Kept'
      BY <1>1, <1>3, <2>2
    <3>2. SegEnd(segs'[i - 1]) = count'
      BY <1>1, <1>2, <2>2 DEF Cursor
    <3> QED BY <3>1, <3>2
  <2> QED BY <2>1, <2>2
<1>7. \A k \in Kept' : \A j \in DOMAIN segs' : j < k => j \in Kept'
  BY <1>1, <1>3
<1>8. SegmentsTile'
  BY <1>5, <1>6, <1>7 DEF SegmentsTile
<1> QED BY <1>8 DEF StatusMatchesSegments

LEMMA QuarantineTile ==
    ASSUME IInv, NEW i \in DOMAIN segs, Quarantine(i)
    PROVE  SegmentsTile' /\ StatusMatchesSegments'
<1>1. PICK k \in DOMAIN segs :
         /\ GapFrom(k)
         /\ \A j \in DOMAIN segs :
               j < k => segs[j].start = Cursor(j) /\ Matches(segs[j], disk[j])
  BY QuarantineGaps DEF IInv
<1> QED BY <1>1, VerifiedIsKept, GapFromTile DEF GapFrom

\* The rows an append writes.
LEMMA AppendedRows ==
    ASSUME TypeOK, NEW pcm \in Payloads, LastTarget(pcm) <= MaxSegments, Writable
    PROVE  /\ Row1(pcm).start = IF TailOpen THEN segs[Target].start ELSE count
           /\ Row1(pcm).committed = Used + Len(Head1(pcm))
           /\ Row1(pcm).status = IF Used + Len(Head1(pcm)) = SegmentSamples
                                 THEN "FINALIZED" ELSE "ACTIVE"
           /\ Rest(pcm) # <<>> =>
                 /\ Row2(pcm).start = count + Len(Head1(pcm))
                 /\ Row2(pcm).committed = Len(Rest(pcm))
                 /\ Row2(pcm).status = IF Len(Rest(pcm)) = SegmentSamples
                                       THEN "FINALIZED" ELSE "ACTIVE"
<1>1. Target \in Slots /\ (Rest(pcm) # <<>> => Target + 1 \in Slots)
  BY PiecesType, SegmentAssumption DEF LastTarget, Slots
<1>2. Disk1(pcm)[Target].header = Used + Len(Head1(pcm))
  BY <1>1 DEF Disk1, WriteChunk, TypeOK
<1>3. Rest(pcm) # <<>> => Disk2(pcm)[Target + 1].header = Len(Rest(pcm))
  <2>1. Disk1(pcm) \in [Slots -> Files] /\ Len(Rest(pcm)) \in Nat
    BY AppendType, PiecesType
  <2> QED BY <1>1, <2>1 DEF Disk2, WriteChunk
<1> QED BY <1>2, <1>3 DEF Row1, Row2, WrittenSegment

\* What an append is given to work on: kept segments, tiled, and full but for
\* the one it continues.
LEMMA AppendableRows ==
    ASSUME IInv, Appendable
    PROVE  /\ Kept = DOMAIN segs
           /\ \A i \in DOMAIN segs :
                 /\ segs[i].start = Cursor(i)
                 /\ segs[i].committed \in 1..SegmentSamples
                 /\ i < Len(segs) => /\ segs[i].status = "FINALIZED"
                                     /\ segs[i].committed = SegmentSamples
                 /\ segs[i].status = "FINALIZED" => segs[i].committed = SegmentSamples
                 /\ segs[i].status = "ACTIVE" => segs[i].committed < SegmentSamples
                 /\ segs[i].status \in {"ACTIVE", "FINALIZED"}
           /\ Cursor(Len(segs) + 1) = count
<1>1. Kept = DOMAIN segs
  BY DEF Appendable, Kept
<1>2. DOMAIN segs = 1..Len(segs) /\ Len(segs) \in Nat
  BY RowsType DEF IInv
<1> QED BY <1>1, <1>2 DEF IInv, SegmentsTile, Appendable

\* An append continues the tiling.
LEMMA AppendTile ==
    ASSUME IInv, NEW pcm \in Payloads, NEW receipts, StoreCommits(pcm, receipts),
           status \notin {"PENDING", "COMPLETE"}
    PROVE  SegmentsTile' /\ StatusMatchesSegments'
<1> DEFINE n == Len(segs)
           new == AppendedSegs(pcm)
<1>1. /\ Appendable /\ Writable /\ LastTarget(pcm) <= MaxSegments
      /\ segs' = new /\ count' = count + Len(pcm) /\ status' = status
  BY DEF StoreCommits
<1>2. /\ DOMAIN segs = 1..n /\ n \in Nat /\ segs \in Seq(Segments) /\ count \in Nat
      /\ TypeOK
  BY RowsType DEF IInv, TypeOK
<1>3. /\ new \in Seq(Segments) /\ Len(new) = LastTarget(pcm)
      /\ DOMAIN new = 1..LastTarget(pcm)
  BY <1>1, <1>2, AppendType, LenProperties
<1>4. /\ Used \in Nat /\ Used < SegmentSamples /\ SegmentSamples \in Nat
      /\ Len(pcm) \in Nat \ {0} /\ Len(pcm) <= SegmentSamples
      /\ Len(Head1(pcm)) = Lesser(SegmentSamples - Used, Len(pcm))
      /\ Len(Rest(pcm)) = Len(pcm) - Len(Head1(pcm))
      /\ Len(Head1(pcm)) \in Nat \ {0} /\ Len(Rest(pcm)) \in Nat
      /\ (Rest(pcm) = <<>>) <=> (Len(Rest(pcm)) = 0)
  BY <1>2, PiecesType, PayloadAssumption, SegmentAssumption
<1>5. /\ TailOpen => Target = n /\ n \in DOMAIN segs /\ Used = segs[n].committed
      /\ ~TailOpen => Target = n + 1 /\ Used = 0
      /\ TailOpen => segs[n].status = "ACTIVE"
      /\ ~TailOpen /\ n # 0 => segs[n].status = "FINALIZED" /\ segs[n].committed = SegmentSamples
  <2>1. segs # <<>> <=> n # 0
    BY <1>2, EmptySeq
  <2>2. n # 0 => n \in DOMAIN segs
    BY <1>2
  <2>3. n # 0 => /\ segs[n].committed \in 1..SegmentSamples
                 /\ segs[n].status = "FINALIZED" => segs[n].committed = SegmentSamples
                 /\ segs[n].status = "ACTIVE" => segs[n].committed < SegmentSamples
                 /\ segs[n].status \in {"ACTIVE", "FINALIZED"}
    BY <1>1, <2>2, AppendableRows
  <2> QED BY <2>1, <2>2, <2>3, <1>4 DEF TailOpen, Target, Used
<1>6. Target \in 1..(n + 1) /\ LastTarget(pcm) = IF Rest(pcm) = <<>> THEN Target ELSE Target + 1
  BY <1>2, <1>5 DEF LastTarget
<1>7. /\ \A i \in 1..(Target - 1) : new[i] = segs[i]
      /\ new[Target] = Row1(pcm)
      /\ Rest(pcm) # <<>> => new[Target + 1] = Row2(pcm)
  <2>1. /\ \A i \in 1..(Target - 1) : Segs1(pcm)[i] = segs[i]
        /\ Segs1(pcm)[Target] = Row1(pcm) /\ Len(Segs1(pcm)) = Target
        /\ DOMAIN Segs1(pcm) = 1..Target
    <3>1. CASE TailOpen
      BY <3>1, <1>2, <1>5 DEF Segs1
    <3>2. CASE ~TailOpen
      <4>1. Segs1(pcm) = Append(segs, Row1(pcm)) /\ Target = Len(segs) + 1
        BY <3>2, <1>5 DEF Segs1
      <4>2. Row1(pcm) \in Segments
        BY <1>1, <1>2, AppendType
      <4> QED BY <4>1, <1>2
    <3> QED BY <3>1, <3>2
  <2>2. CASE Rest(pcm) = <<>>
    BY <2>1, <2>2 DEF AppendedSegs
  <2>3. CASE Rest(pcm) # <<>>
    <3>1. new = Append(Segs1(pcm), Row2(pcm))
      BY <2>3 DEF AppendedSegs
    <3> QED BY <3>1, <2>1, <1>6
  <2> QED BY <2>2, <2>3
<1>8. Row1(pcm).start = Cursor(Target)
  <2>1. CASE TailOpen
    BY <2>1, <1>1, <1>2, <1>5, AppendedRows, AppendableRows
  <2>2. CASE ~TailOpen
    BY <2>2, <1>1, <1>2, <1>5, AppendedRows, AppendableRows
  <2> QED BY <2>1, <2>2
<1>9. /\ Row1(pcm).committed = Used + Len(Head1(pcm))
      /\ Row1(pcm).committed \in 1..SegmentSamples
      /\ Row1(pcm).status = IF Row1(pcm).committed = SegmentSamples
                            THEN "FINALIZED" ELSE "ACTIVE"
      /\ Rest(pcm) # <<>> => Row1(pcm).committed = SegmentSamples
  <2>1. /\ Used + Len(Head1(pcm)) \in 1..SegmentSamples
        /\ Rest(pcm) # <<>> => Used + Len(Head1(pcm)) = SegmentSamples
    BY <1>4 DEF Lesser
  <2>2. /\ Row1(pcm).committed = Used + Len(Head1(pcm))
        /\ Row1(pcm).status = IF Used + Len(Head1(pcm)) = SegmentSamples
                              THEN "FINALIZED" ELSE "ACTIVE"
    BY <1>1, <1>2, AppendedRows
  <2> QED BY <2>1, <2>2
<1>10. Rest(pcm) # <<>> =>
          /\ Row2(pcm).start = count + Len(Head1(pcm))
          /\ Row2(pcm).committed = Len(Rest(pcm))
          /\ Row2(pcm).committed \in 1..SegmentSamples
          /\ Row2(pcm).status = IF Row2(pcm).committed = SegmentSamples
                                THEN "FINALIZED" ELSE "ACTIVE"
  <2>1. Rest(pcm) # <<>> => Len(Rest(pcm)) \in 1..SegmentSamples
    BY <1>2, <1>4
  <2>2. Rest(pcm) # <<>> =>
          /\ Row2(pcm).start = count + Len(Head1(pcm))
          /\ Row2(pcm).committed = Len(Rest(pcm))
          /\ Row2(pcm).status = IF Len(Rest(pcm)) = SegmentSamples
                                THEN "FINALIZED" ELSE "ACTIVE"
    BY <1>1, <1>2, AppendedRows
  <2> QED BY <2>1, <2>2
<1>11. SegEnd(Row1(pcm)) = count + Len(Head1(pcm))
  <2>1. CASE TailOpen
    <3>1. SegEnd(segs[n]) = count
      <4>1. Cursor(n + 1) = SegEnd(segs[n])
        BY <1>2, <1>5, <2>1 DEF Cursor
      <4> QED BY <4>1, <1>1, AppendableRows
    <3>2. Row1(pcm).start = segs[n].start /\ segs[n].start \in Nat /\ segs[n].committed \in Nat
      BY <2>1, <1>1, <1>2, <1>5, AppendedRows, RowsType
    <3> QED BY <3>1, <3>2, <1>4, <1>5, <1>9, <2>1 DEF SegEnd
  <2>2. CASE ~TailOpen
    <3>1. Row1(pcm).start = count
      BY <2>2, <1>1, <1>2, AppendedRows
    <3>2. Row1(pcm).committed = Len(Head1(pcm))
      BY <2>2, <1>4, <1>5, <1>9
    <3> QED BY <3>1, <3>2 DEF SegEnd
  <2> QED BY <2>1, <2>2
<1>12. \A i \in DOMAIN new : new[i].status \in {"ACTIVE", "FINALIZED"}
  <2>1. \A i \in 1..(Target - 1) : segs[i].status \in {"ACTIVE", "FINALIZED"}
    BY <1>1, <1>2, <1>6, AppendableRows
  <2> QED BY <2>1, <1>3, <1>6, <1>7, <1>9, <1>10
<1>13. Kept' = DOMAIN new
  BY <1>1, <1>12 DEF Kept
<1>14. \A i \in 1..Target : Cursor(i)' = Cursor(i)
  BY <1>1, <1>6, <1>7 DEF Cursor
<1>15. ASSUME NEW i \in DOMAIN new
       PROVE  /\ new[i].start = Cursor(i)'
              /\ new[i].committed \in 1..SegmentSamples
              /\ i < Len(new) => new[i].status = "FINALIZED"
              /\ i + 1 \in Kept' => new[i].committed = SegmentSamples
              /\ new[i].status = "ACTIVE" => new[i].committed < SegmentSamples
  <2>1. CASE i < Target
    <3>1. i \in 1..(Target - 1) /\ i \in DOMAIN segs
      BY <2>1, <1>2, <1>3, <1>6
    <3>2. segs[i].status = "FINALIZED" /\ segs[i].committed = SegmentSamples
      <4>1. CASE i < n
        BY <4>1, <3>1, <1>1, AppendableRows
      <4>2. CASE ~(i < n)
        BY <4>2, <3>1, <1>2, <1>5, <2>1
      <4> QED BY <4>1, <4>2
    <3>3. segs[i].start = Cursor(i)
      BY <3>1, <1>1, AppendableRows
    <3>4. new[i] = segs[i] /\ Cursor(i)' = Cursor(i)
      BY <3>1, <1>2, <1>6, <1>7, <1>14
    <3> QED BY <3>2, <3>3, <3>4, SegmentAssumption
  <2>2. CASE i = Target
    <3>1. i < Len(new) \/ i + 1 \in Kept' => Rest(pcm) # <<>>
      BY <2>2, <1>3, <1>6, <1>13
    <3> QED BY <2>2, <3>1, <1>4, <1>6, <1>7, <1>8, <1>9, <1>14
  <2>3. CASE i > Target
    <3>1. Rest(pcm) # <<>> /\ i = Target + 1 /\ i = Len(new)
      BY <2>3, <1>3, <1>6
    <3>2. Cursor(i)' = SegEnd(Row1(pcm))
      BY <3>1, <1>1, <1>6, <1>7 DEF Cursor
    <3> QED BY <3>1, <3>2, <1>3, <1>4, <1>7, <1>10, <1>11, <1>13
  <2> QED BY <2>1, <2>2, <2>3, <1>3, <1>6
<1>16. Len(new) \in Kept' /\ Len(new) + 1 \notin Kept' /\ SegEnd(new[Len(new)]) = count'
  <2>1. Len(new) \in Kept' /\ Len(new) + 1 \notin Kept'
    BY <1>2, <1>3, <1>6, <1>13
  <2>2. CASE Rest(pcm) = <<>>
    <3>1. new[Len(new)] = Row1(pcm) /\ Len(pcm) = Len(Head1(pcm))
      BY <2>2, <1>3, <1>4, <1>6, <1>7
    <3> QED BY <2>1, <3>1, <1>1, <1>11
  <2>3. CASE Rest(pcm) # <<>>
    <3>1. new[Len(new)] = Row2(pcm) /\ Len(pcm) = Len(Head1(pcm)) + Len(Rest(pcm))
      BY <2>3, <1>3, <1>4, <1>6, <1>7
    <3>2. SegEnd(Row2(pcm)) = count + Len(pcm)
      BY <2>3, <3>1, <1>2, <1>4, <1>10 DEF SegEnd
    <3> QED BY <2>1, <3>1, <3>2, <1>1
  <2> QED BY <2>1, <2>2, <2>3
<1>17. SegmentsTile'
  <2>1. ~HasGap'
    BY <1>1, <1>13 DEF HasGap
  <2>2. IF Kept' = {} THEN count' = 0
        ELSE \E i \in Kept' : SegEnd(segs'[i]) = count' /\ i + 1 \notin Kept'
    BY <1>1, <1>16
  <2> QED BY <2>1, <2>2, <1>1, <1>13, <1>15 DEF SegmentsTile
<1> QED BY <1>1, <1>17 DEF StatusMatchesSegments

\* Rows that keep their place and length, and stay final once final, still tile.
LEMMA SameTilesTile ==
    ASSUME IInv, DOMAIN segs' = DOMAIN segs, Len(segs') = Len(segs), Kept = DOMAIN segs,
           \A i \in DOMAIN segs : /\ segs'[i].start = segs[i].start
                                  /\ segs'[i].committed = segs[i].committed
                                  /\ segs'[i].status \in {segs[i].status, "FINALIZED"},
           count' = count
    PROVE  SegmentsTile'
<1>1. DOMAIN segs = 1..Len(segs) /\ Len(segs) \in Nat
  BY RowsType DEF IInv
<1>2. Kept' = DOMAIN segs'
  BY DEF Kept
<1>3. \A i \in 1..(Len(segs) + 1) : Cursor(i)' = Cursor(i)
  BY <1>1 DEF Cursor, SegEnd
<1>4. ASSUME NEW i \in DOMAIN segs
      PROVE  /\ segs'[i].start = Cursor(i)'
             /\ segs'[i].committed \in 1..SegmentSamples
             /\ i < Len(segs') => segs'[i].status = "FINALIZED"
             /\ i + 1 \in Kept' => segs'[i].committed = SegmentSamples
             /\ segs'[i].status = "ACTIVE" => segs'[i].committed < SegmentSamples
  <2>1. i \in Kept /\ (i + 1 \in Kept' => i + 1 \in Kept)
    BY <1>2
  <2>2. Cursor(i)' = Cursor(i)
    BY <1>1, <1>3
  <2> QED BY <2>1, <2>2 DEF IInv, SegmentsTile
<1>5. IF Kept' = {} THEN count' = 0
      ELSE \E i \in Kept' : SegEnd(segs'[i]) = count' /\ i + 1 \notin Kept'
  <2>1. \A i \in DOMAIN segs : SegEnd(segs'[i]) = SegEnd(segs[i])
    BY DEF SegEnd
  <2> QED BY <1>2, <2>1 DEF IInv, SegmentsTile
<1>6. ~HasGap'
  BY <1>2 DEF HasGap
<1> QED BY <1>2, <1>4, <1>5, <1>6 DEF SegmentsTile

\* Without a gap the segments reach up to the recorded sample count.
LEMMA NoGapTiled ==
    ASSUME IInv, Kept = DOMAIN segs
    PROVE  Cursor(Len(segs) + 1) = count
<1>1. DOMAIN segs = 1..Len(segs) /\ Len(segs) \in Nat
  BY RowsType DEF IInv
<1>2. CASE segs = <<>>
  <2>1. Len(segs) = 0
    BY <1>2
  <2>2. Kept = {}
    BY <1>1, <2>1
  <2> QED BY <2>1, <2>2 DEF IInv, SegmentsTile, Cursor
<1>3. CASE segs # <<>>
  <2>1. Len(segs) # 0
    BY <1>3, EmptySeq DEF IInv, TypeOK
  <2>2. PICK i \in Kept : SegEnd(segs[i]) = count /\ i + 1 \notin Kept
    BY <1>1, <2>1 DEF IInv, SegmentsTile
  <2>3. i = Len(segs)
    BY <1>1, <2>2
  <2> QED BY <1>1, <2>1, <2>2, <2>3 DEF Cursor
<1> QED BY <1>2, <1>3

\* Finalization.
LEMMA FinalizeTile ==
    ASSUME IInv, NEW r \in BOOLEAN, Finalize(r)
    PROVE  SegmentsTile' /\ StatusMatchesSegments'
<1>1. CASE status = "COMPLETE" /\ Reverify
  <2> DEFINE bad == {i \in DOMAIN segs : \/ segs[i].start # Cursor(i)
                                         \/ segs[i].status # "FINALIZED"
                                         \/ ~Matches(segs[i], disk[i])}
  <2>1. CASE bad # {}
    <3>1. GapFrom(First(bad))
      BY <1>1, <2>1 DEF Reverify
    <3>2. bad \in SUBSET Nat /\ \A i \in DOMAIN segs : i \in Nat
      BY RowsType DEF IInv
    <3>3. PICK m \in bad : GapFrom(m) /\ \A j \in bad : m <= j
      BY <2>1, <3>1, <3>2, FirstExists
    <3>4. \A j \in DOMAIN segs : j < m => j \in Kept
      BY <3>2, <3>3 DEF Kept
    <3> QED BY <3>3, <3>4, GapFromTile DEF GapFrom
  <2>2. CASE bad = {} /\ ~Tiled
    BY <1>1, <2>2, SameRowsTile DEF Reverify, MarkIncomplete
  <2>3. CASE bad = {} /\ Tiled
    BY <1>1, <2>3, SameRowsTile DEF Reverify, db
  <2> QED BY <2>1, <2>2, <2>3
<1>2. CASE status # "COMPLETE" /\ FinalizeRaises(r)
  BY <1>2, SameRowsTile DEF FinalizeRaises, db
<1>3. CASE status # "COMPLETE" /\ FinalizeCommits
  <2>1. Kept = DOMAIN segs
    BY <1>3, VerifiedIsKept DEF FinalizeCommits, Stuck, Kept
  <2>2. segs' = FinalizedSegs /\ count' = count /\ DOMAIN segs' = DOMAIN segs
    BY <1>3 DEF FinalizeCommits, FinalizedSegs
  <2>3. Len(segs') = Len(segs)
    BY <1>3, FinalizeType DEF FinalizeCommits, IInv
  <2>4. \A i \in DOMAIN segs : /\ segs'[i].start = segs[i].start
                               /\ segs'[i].committed = segs[i].committed
                               /\ segs'[i].status = "FINALIZED"
    <3>1. \A i \in DOMAIN segs : segs[i].status \in {"ACTIVE", "FINALIZED"}
      BY <2>1, RowsType DEF IInv, Kept, Segments
    <3> QED BY <2>2, <3>1, RowsType DEF FinalizedSegs, ActiveSegments, IInv, Segments
  <2>5. SegmentsTile'
    BY <2>1, <2>2, <2>3, <2>4, SameTilesTile
  <2>6. status' = "COMPLETE"
    BY <1>3 DEF FinalizeCommits
  <2> QED BY <2>2, <2>4, <2>5, <2>6 DEF StatusMatchesSegments
<1>4. CASE status # "COMPLETE" /\ FinalizeGivesUp
  <2>1. Stuck \in SUBSET Nat /\ Stuck # {} /\ \A i \in DOMAIN segs : i \in Nat
    BY <1>4, RowsType DEF IInv, FinalizeGivesUp, Stuck
  <2>2. PICK m \in Stuck : GapFrom(m) /\ \A j \in Stuck : m <= j
    BY <1>4, <2>1, FirstExists DEF FinalizeGivesUp
  <2>3. m \in DOMAIN segs
    BY DEF Stuck
  <2>4. \A j \in DOMAIN segs : j < m => j \in Kept
    BY <2>1, <2>2, VerifiedIsKept DEF Stuck
  <2> QED BY <2>2, <2>3, <2>4, GapFromTile DEF GapFrom
<1> QED BY <1>1, <1>2, <1>3, <1>4 DEF Finalize

\* Recovery.
LEMMA RecoverTile ==
    ASSUME IInv, Recover
    PROVE  SegmentsTile' /\ StatusMatchesSegments'
<1>1. CASE ~Accepting(TRUE)
  BY <1>1, SameRowsTile DEF Recover, db
<1>2. CASE Accepting(TRUE) /\ Unrecoverable = {}
  <2>1. Kept = DOMAIN segs
    BY <1>2 DEF Unrecoverable, Kept
  <2>2. segs' = RecoveredSegs /\ DOMAIN segs' = DOMAIN segs
    BY <1>2 DEF Recover, RecoveredSegs
  <2>3. Len(segs') = Len(segs) /\ TypeOK
    BY <2>2, RecoverType DEF IInv
  <2>4. count' = count
    BY <1>2, <2>1, NoGapTiled DEF Recover
  <2>5. \A i \in DOMAIN segs : /\ segs'[i].start = segs[i].start
                               /\ segs'[i].committed = segs[i].committed
                               /\ segs'[i].status \in {segs[i].status, "FINALIZED"}
    <3>1. \A i \in DOMAIN segs :
             segs'[i] = IF segs[i].committed = SegmentSamples THEN FinalizedSegs[i]
                        ELSE segs[i]
      BY <1>2, <2>2 DEF RecoveredSegs, Recoverable
    <3>2. \A i \in DOMAIN segs : FinalizedSegs[i].start = segs[i].start
                                 /\ FinalizedSegs[i].committed = segs[i].committed
                                 /\ FinalizedSegs[i].status \in {segs[i].status, "FINALIZED"}
      BY <2>3, RowsType DEF FinalizedSegs, Segments
    <3> QED BY <3>1, <3>2
  <2>6. SegmentsTile'
    BY <2>1, <2>2, <2>3, <2>4, <2>5, SameTilesTile
  <2>7. status' \in {status, "INCOMPLETE"} /\ status \notin {"COMPLETE", "PENDING"}
    BY <1>2 DEF Recover, Accepting
  <2> QED BY <2>6, <2>7 DEF StatusMatchesSegments
<1>3. CASE Accepting(TRUE) /\ Unrecoverable # {}
  <2>1. PICK m \in Unrecoverable : m = First(Unrecoverable) /\ m \in DOMAIN segs
    BY <1>3, RecoverableVerifies DEF IInv
  <2>2. \A i \in DOMAIN segs : Recoverable(i) <=> i < m
    BY <1>3, <2>1 DEF Recoverable
  <2>3. \A i \in DOMAIN segs : i < m => i \in Kept /\ segs[i].status = "FINALIZED"
    <3>1. \A i \in DOMAIN segs : i < m => i \in Kept
      BY <2>2, RecoverableVerifies DEF IInv, Unrecoverable, Kept
    <3>2. \A i \in DOMAIN segs : i < m => i < Len(segs)
      BY <2>1, RowsType DEF IInv
    <3> QED BY <3>1, <3>2 DEF IInv, SegmentsTile
  <2>4. segs' = [k \in DOMAIN segs |-> IF k < m THEN segs[k] ELSE Gap(segs[k])]
    <3>1. segs' = RecoveredSegs
      BY <1>3 DEF Recover
    <3>2. \A i \in DOMAIN segs : i < m => FinalizedSegs[i] = segs[i]
      BY <2>3 DEF FinalizedSegs, ActiveSegments
    <3> QED BY <2>2, <3>1, <3>2 DEF RecoveredSegs
  <2>5. count' = Cursor(m) /\ status' = "INCOMPLETE" /\ frames' = frames
    BY <1>3, <2>1 DEF Recover
  <2> QED BY <2>1, <2>3, <2>4, <2>5, GapFromTile
<1> QED BY <1>1, <1>2, <1>3

\* New audio, or its refusal.
LEMMA StoreTile ==
    ASSUME IInv, NEW pcm \in Payloads, NEW receipts, NEW r \in BOOLEAN,
           Store(pcm, receipts, r)
    PROVE  SegmentsTile' /\ StatusMatchesSegments'
<1>1. status \notin {"PENDING", "COMPLETE"}
  BY DEF Store, Accepting
<1>2. CASE StoreCommits(pcm, receipts)
  BY <1>1, <1>2, AppendTile
<1>3. CASE StoreRejected(pcm) \/ StoreFails(pcm) \/ ReserveReached
  BY <1>3, SameRowsTile DEF StoreRejected, StoreFails, ReserveReached, db
<1> QED BY <1>2, <1>3 DEF Store

LEMMA AppendFrameTile ==
    ASSUME IInv, NEW k \in FrameNumbers, NEW start \in Positions,
           NEW pcm \in Payloads, NEW r \in BOOLEAN, AppendFrame(k, start, pcm, r)
    PROVE  SegmentsTile' /\ StatusMatchesSegments'
<1>1. CASE Conflict
  BY <1>1, SameRowsTile DEF Conflict, MarkIncomplete
<1>2. CASE k \in DOMAIN frames /\ Replay(frames[k], start, pcm) /\ ~Conflict
  <2> DEFINE f == frames[k]
             bad == FirstInvalid(f.start, f.end)
             over == Overlap(f.start, f.end)
  <2>1. CASE UNCHANGED <<db, disk, hashers, cleanup, faults>>
    BY <2>1, SameRowsTile DEF db
  <2>2. CASE bad # 0 /\ Quarantine(bad)
    BY <2>2, FirstInvalidInRange, QuarantineTile DEF IInv
  <2>3. CASE bad = 0 /\ over # {} /\ Quarantine(First(over))
    <3>1. over \in SUBSET Nat /\ over \subseteq DOMAIN segs
      BY RowsType DEF IInv, Overlap
    <3>2. First(over) \in DOMAIN segs
      BY <2>3, <3>1, FirstExists
    <3> QED BY <2>3, <3>2, QuarantineTile
  <2> QED BY <1>2, <2>1, <2>2, <2>3 DEF Replay
<1>3. ASSUME NEW receipts, Store(pcm, receipts, r)
      PROVE  SegmentsTile' /\ StatusMatchesSegments'
  BY <1>3, StoreTile
<1> QED BY <1>1, <1>2, <1>3 DEF AppendFrame

LEMMA IInvStep == IInv /\ [Next]_vars => IInv'
<1> SUFFICES ASSUME IInv, [Next]_vars PROVE SegmentsTile' /\ StatusMatchesSegments'
  BY TypeStep DEF IInv
<1>1. CASE OpenCapture
  BY <1>1, SameRowsTile DEF OpenCapture
<1>2. ASSUME NEW pcm \in Payloads, AppendDirect(pcm)
      PROVE  SegmentsTile' /\ StatusMatchesSegments'
  BY <1>2, StoreTile DEF AppendDirect
<1>3. ASSUME NEW k \in FrameNumbers, NEW start \in Positions, NEW pcm \in Payloads,
             NEW r \in BOOLEAN, AppendFrame(k, start, pcm, r)
      PROVE  SegmentsTile' /\ StatusMatchesSegments'
  BY <1>3, AppendFrameTile
<1>4. CASE MarkAfterFailure
  BY <1>4, SameRowsTile DEF MarkAfterFailure
<1>5. CASE ForgetAfterFailure
  BY <1>5, SameRowsTile DEF ForgetAfterFailure, db
<1>6. CASE CallerMarksIncomplete
  BY <1>6, SameRowsTile DEF CallerMarksIncomplete, MarkIncomplete
<1>7. ASSUME NEW a \in Positions, NEW b \in Positions, ReadQuarantines(a, b)
      PROVE  SegmentsTile' /\ StatusMatchesSegments'
  BY <1>7, FirstInvalidInRange, QuarantineTile DEF ReadQuarantines, IInv
<1>8. ASSUME NEW r \in BOOLEAN, Finalize(r) PROVE SegmentsTile' /\ StatusMatchesSegments'
  BY <1>8, FinalizeTile
<1>9. ASSUME NEW r \in BOOLEAN, FinalizeFails(r)
      PROVE  SegmentsTile' /\ StatusMatchesSegments'
  BY <1>9, SameRowsTile DEF FinalizeFails, db
<1>10. ASSUME NEW d, CrashWith(d) PROVE SegmentsTile' /\ StatusMatchesSegments'
  BY <1>10, SameRowsTile DEF CrashWith, db
<1>11. CASE Crash \/ (\E pcm \in Payloads : CrashInAppend(pcm)) \/ CrashInFinalize
  BY <1>10, <1>11 DEF Crash, CrashInAppend, CrashInFinalize
<1>12. CASE Recover
  BY <1>12, RecoverTile
<1>13. CASE RecoverFails
  BY <1>13, SameRowsTile DEF RecoverFails
<1>14. ASSUME NEW i \in Slots, NEW kind \in DamageKinds, Damage(i, kind)
       PROVE  SegmentsTile' /\ StatusMatchesSegments'
  BY <1>14, SameRowsTile DEF Damage, db
<1>15. CASE UNCHANGED vars
  BY <1>15, SameRowsTile DEF vars, db
<1> QED
  BY <1>1, <1>2, <1>3, <1>4, <1>5, <1>6, <1>7, <1>8, <1>9, <1>11, <1>12, <1>13,
     <1>14, <1>15 DEF Next

LEMMA IInvInit == Init => IInv
<1> SUFFICES ASSUME Init PROVE SegmentsTile /\ StatusMatchesSegments
  BY TypeInit DEF IInv
<1>1. DOMAIN segs = {}
  BY DEF Init
<1> QED BY <1>1 DEF Init, SegmentsTile, StatusMatchesSegments, Kept, HasGap

LEMMA Invariance == Spec => []IInv
  BY IInvInit, IInvStep, PTL DEF Spec

\* However appends, failures, restarts, damage and quarantines interleave, the
\* segments that were not given up tile the recording up to its sample count.
THEOREM SegmentsAlwaysTile == Spec => []SegmentsTile
  BY Invariance, PTL DEF IInv

\* A capture is COMPLETE only while each of its segments is final.
THEOREM CompleteMeansFinal == Spec => []StatusMatchesSegments
  BY Invariance, PTL DEF IInv

--------------------------------------------------------------------------------
(* Final audio is immutable. *)

\* What FinalAudioIsImmutable says of one step.
ImmutableStep ==
    \A i \in DOMAIN segs :
        /\ i \in DOMAIN segs'
        /\ segs[i].status = "GAP" => segs'[i].status = "GAP"
        /\ segs[i].status = "FINALIZED" =>
              /\ segs'[i] = segs[i] \/ segs'[i].status = "GAP"
              /\ disk'[i] = disk[i] \/ i \in damaged'

Final == {i \in DOMAIN segs : segs[i].status = "FINALIZED"}

LEMMA SameRowsImmutable ==
    ASSUME UNCHANGED segs, \A i \in Final : disk'[i] = disk[i] \/ i \in damaged'
    PROVE  ImmutableStep
  BY DEF ImmutableStep, Final

LEMMA GapFromImmutable ==
    ASSUME TypeOK, NEW i \in DOMAIN segs, GapFrom(i), UNCHANGED disk
    PROVE  ImmutableStep
<1>1. \A k \in DOMAIN segs : Gap(segs[k]).status = "GAP"
  BY RowsType DEF Gap, Segments
<1> QED BY <1>1 DEF GapFrom, ImmutableStep

LEMMA QuarantineImmutable ==
    ASSUME TypeOK, NEW i \in DOMAIN segs, Quarantine(i), UNCHANGED disk
    PROVE  ImmutableStep
  BY QuarantineGaps, GapFromImmutable

\* An append writes behind the final segments only.
LEMMA AppendPastFinal ==
    ASSUME TypeOK, Appendable, NEW pcm \in Payloads, LastTarget(pcm) <= MaxSegments,
           Writable, NEW i \in Final
    PROVE  /\ i \in 1..(Target - 1)
           /\ Disk1(pcm)[i] = disk[i] /\ Disk2(pcm)[i] = disk[i]
           /\ \A d \in TornChunk(disk, Target, Used, Head1(pcm)) : d[i] = disk[i]
           /\ \A d \in TornChunk(Disk1(pcm), Target + 1, 0, Rest(pcm)) : d[i] = disk[i]
<1>1. i \in 1..Len(segs) /\ i \in Slots /\ Len(segs) \in Nat
  BY RowsType DEF Final
<1>2. segs[i].committed = SegmentSamples
  BY DEF Final, Appendable
<1>3. i \in 1..(Target - 1)
  <2>1. TailOpen => i # Len(segs)
    BY <1>2, SegmentAssumption DEF TailOpen
  <2> QED BY <1>1, <2>1 DEF Target
<1>4. i # Target /\ i # Target + 1
  BY <1>3, PiecesType
<1>5. disk \in [Slots -> Files]
  BY DEF TypeOK
<1>6. Disk1(pcm)[i] = disk[i]
  BY <1>1, <1>4, <1>5 DEF Disk1, WriteChunk
<1>7. Disk1(pcm) \in [Slots -> Files]
  BY AppendType
<1>8. Disk2(pcm)[i] = disk[i]
  BY <1>1, <1>4, <1>6, <1>7 DEF Disk2, WriteChunk
<1>9. \A d \in TornChunk(disk, Target, Used, Head1(pcm)) : d[i] = disk[i]
  BY <1>1, <1>4, <1>5 DEF TornChunk
<1>10. \A d \in TornChunk(Disk1(pcm), Target + 1, 0, Rest(pcm)) : d[i] = disk[i]
  BY <1>1, <1>4, <1>6, <1>7 DEF TornChunk
<1> QED BY <1>3, <1>6, <1>8, <1>9, <1>10

LEMMA InterruptedPastFinal ==
    ASSUME TypeOK, NEW pcm \in Payloads, LastTarget(pcm) <= MaxSegments,
           NEW o \in Interrupted(pcm), NEW i \in Final
    PROVE  o.disk[i] = disk[i]
<1>1. CASE ~Appendable \/ ~Writable
  BY <1>1 DEF Interrupted
<1>2. CASE Appendable /\ Writable
  BY <1>2, AppendPastFinal DEF Interrupted
<1> QED BY <1>1, <1>2

LEMMA StoreImmutable ==
    ASSUME TypeOK, NEW pcm \in Payloads, NEW receipts, NEW r, Store(pcm, receipts, r)
    PROVE  ImmutableStep
<1>1. CASE StoreCommits(pcm, receipts)
  <2>1. /\ Appendable /\ Writable /\ LastTarget(pcm) <= MaxSegments
        /\ segs' = AppendedSegs(pcm)
        /\ disk' = IF Rest(pcm) = <<>> THEN Disk1(pcm) ELSE Disk2(pcm)
    BY <1>1 DEF StoreCommits
  <2>2. DOMAIN segs = 1..Len(segs) /\ Len(segs) \in Nat
    BY RowsType
  <2>3. Target \in {Len(segs), Len(segs) + 1} /\ LastTarget(pcm) \in {Target, Target + 1}
    BY DEF Target, LastTarget
  <2>4. DOMAIN segs \subseteq DOMAIN segs'
    BY <2>1, <2>2, <2>3, AppendType, LenProperties
  <2>5. \A i \in DOMAIN segs : i < Target => segs'[i] = segs[i]
    <3>1. Row1(pcm) \in Segments /\ segs \in Seq(Segments)
      BY <2>1, AppendType DEF TypeOK
    <3>2. \A i \in DOMAIN segs : i < Target => Segs1(pcm)[i] = segs[i]
      <4>1. CASE TailOpen
        BY <4>1, <2>2 DEF Segs1
      <4>2. CASE ~TailOpen
        BY <4>2, <2>2, <3>1 DEF Segs1
      <4> QED BY <4>1, <4>2
    <3>3. Segs1(pcm) \in Seq(Segments) /\ Len(Segs1(pcm)) = Target
      <4>1. CASE TailOpen
        <5>1. Target = Len(segs) /\ Target \in 1..Len(segs)
          BY <4>1, <2>2, EmptySeq DEF TailOpen, Target, TypeOK
        <5> QED BY <4>1, <5>1, <3>1, ExceptSeq DEF Segs1
      <4>2. CASE ~TailOpen
        BY <4>2, <2>2, <3>1 DEF Segs1, Target
      <4> QED BY <4>1, <4>2
    <3>4. CASE Rest(pcm) = <<>>
      BY <3>2, <3>4, <2>1 DEF AppendedSegs
    <3>5. CASE Rest(pcm) # <<>>
      BY <3>2, <3>3, <3>5, <2>1, <2>2, <2>3 DEF AppendedSegs
    <3> QED BY <3>4, <3>5
  <2>6. \A i \in Final : segs'[i] = segs[i] /\ disk'[i] = disk[i]
    <3>1. \A i \in Final : /\ i \in 1..(Target - 1)
                           /\ Disk1(pcm)[i] = disk[i] /\ Disk2(pcm)[i] = disk[i]
      BY <2>1, AppendPastFinal
    <3>2. \A i \in Final : i < Target /\ i \in DOMAIN segs
      BY <3>1, <2>2, <2>3 DEF Final
    <3> QED BY <2>1, <2>5, <3>1, <3>2
  <2>7. \A i \in DOMAIN segs : segs[i].status # "GAP"
    BY <2>1 DEF Appendable
  <2> QED BY <2>4, <2>6, <2>7 DEF ImmutableStep, Final
<1>2. CASE StoreRejected(pcm)
  BY <1>2, AppendPastFinal, SameRowsImmutable DEF StoreRejected, db
<1>3. CASE StoreFails(pcm)
  BY <1>3, InterruptedPastFinal, SameRowsImmutable DEF StoreFails, db
<1>4. CASE ReserveReached
  BY <1>4, SameRowsImmutable DEF ReserveReached, db
<1> QED BY <1>1, <1>2, <1>3, <1>4 DEF Store

LEMMA ReplayImmutable ==
    ASSUME TypeOK, NEW f, NEW start, NEW pcm, Replay(f, start, pcm)
    PROVE  ImmutableStep
<1> DEFINE bad == FirstInvalid(f.start, f.end)
           over == Overlap(f.start, f.end)
<1>1. CASE Conflict
  BY <1>1, SameRowsImmutable DEF Conflict, MarkIncomplete
<1>2. CASE UNCHANGED <<db, disk, hashers, cleanup, faults>>
  BY <1>2, SameRowsImmutable DEF db
<1>3. CASE /\ bad # 0 \/ over # {}
           /\ Quarantine(IF bad # 0 THEN bad ELSE First(over))
           /\ UNCHANGED <<disk, cleanup, faults>>
  <2>1. CASE bad # 0
    BY <1>3, <2>1, FirstInvalidInRange, QuarantineImmutable
  <2>2. CASE bad = 0
    <3>1. over \in SUBSET Nat /\ over \subseteq DOMAIN segs /\ over # {}
      BY <1>3, <2>2, RowsType DEF Overlap
    <3>2. First(over) \in DOMAIN segs
      BY <3>1, FirstExists
    <3> QED BY <1>3, <2>2, <3>2, QuarantineImmutable
  <2> QED BY <2>1, <2>2
<1> QED BY <1>1, <1>2, <1>3 DEF Replay

LEMMA AppendFrameImmutable ==
    ASSUME TypeOK, NEW k \in FrameNumbers, NEW start \in Positions,
           NEW pcm \in Payloads, NEW r \in BOOLEAN, AppendFrame(k, start, pcm, r)
    PROVE  ImmutableStep
<1> DEFINE receipt == [start |-> start, end |-> start + Len(pcm), payload |-> pcm]
<1>1. \/ Replay(frames[k], start, pcm)
      \/ Store(pcm, Append(frames, receipt), r)
      \/ Conflict
  BY DEF AppendFrame
<1>2. CASE Replay(frames[k], start, pcm)
  BY <1>2, ReplayImmutable
<1>3. CASE Store(pcm, Append(frames, receipt), r)
  BY <1>3, StoreImmutable
<1>4. CASE Conflict
  BY <1>4, SameRowsImmutable DEF Conflict, MarkIncomplete
<1> QED BY <1>1, <1>2, <1>3, <1>4

\* Repairing and finalizing touch ACTIVE segments only.
LEMMA RepairImmutable ==
    ASSUME TypeOK
    PROVE  \A i \in Final : RepairedDisk[i] = disk[i] /\ RecoveredDisk[i] = disk[i]
<1>1. \A i \in Final : i \in Slots /\ i \notin ActiveSegments
  BY RowsType DEF Final, ActiveSegments
<1> QED BY <1>1 DEF RepairedDisk, RecoveredDisk

LEMMA FinalizeImmutable ==
    ASSUME TypeOK, NEW r \in BOOLEAN, Finalize(r)
    PROVE  ImmutableStep
<1>1. CASE Reverify
  <2> DEFINE bad == {i \in DOMAIN segs : \/ segs[i].start # Cursor(i)
                                         \/ segs[i].status # "FINALIZED"
                                         \/ ~Matches(segs[i], disk[i])}
  <2>1. CASE bad # {}
    <3>1. GapFrom(First(bad)) /\ UNCHANGED disk
      BY <1>1, <2>1 DEF Reverify
    <3>2. bad \in SUBSET Nat /\ bad \subseteq DOMAIN segs
      BY RowsType
    <3>3. First(bad) \in DOMAIN segs
      BY <2>1, <3>2, FirstExists
    <3> QED BY <3>1, <3>3, GapFromImmutable
  <2>2. CASE bad = {}
    <3>1. UNCHANGED <<segs, disk>>
      BY <1>1, <2>2 DEF Reverify, MarkIncomplete, db
    <3> QED BY <3>1, SameRowsImmutable
  <2> QED BY <2>1, <2>2
<1>2. CASE FinalizeRaises(r)
  BY <1>2, SameRowsImmutable DEF FinalizeRaises, db
<1>3. CASE FinalizeCommits
  <2>1. segs' = FinalizedSegs /\ disk' = RepairedDisk
    BY <1>3 DEF FinalizeCommits
  <2>2. DOMAIN segs' = DOMAIN segs
    BY <2>1 DEF FinalizedSegs
  <2>3. \A i \in DOMAIN segs : i \notin ActiveSegments => segs'[i] = segs[i]
    BY <2>1 DEF FinalizedSegs
  <2>4. \A i \in DOMAIN segs :
            segs[i].status \in {"GAP", "FINALIZED"} => i \notin ActiveSegments
    BY DEF ActiveSegments
  <2> QED BY <2>1, <2>2, <2>3, <2>4, RepairImmutable DEF ImmutableStep, Final
<1>4. CASE FinalizeGivesUp
  <2>1. Stuck \in SUBSET Nat /\ Stuck \subseteq DOMAIN segs /\ Stuck # {}
    BY <1>4, RowsType DEF Stuck, FinalizeGivesUp
  <2>2. First(Stuck) \in DOMAIN segs
    BY <2>1, FirstExists
  <2> QED BY <1>4, <2>2, GapFromImmutable DEF FinalizeGivesUp
<1> QED BY <1>1, <1>2, <1>3, <1>4 DEF Finalize

LEMMA RecoverImmutable ==
    ASSUME TypeOK, Recover
    PROVE  ImmutableStep
<1>1. CASE ~Accepting(TRUE)
  BY <1>1, SameRowsImmutable DEF Recover, db
<1>2. CASE Accepting(TRUE)
  <2>1. segs' = RecoveredSegs /\ disk' = RecoveredDisk
    BY <1>2 DEF Recover
  <2>2. DOMAIN segs' = DOMAIN segs
    BY <2>1 DEF RecoveredSegs
  <2>3. \A i \in DOMAIN segs : Gap(segs[i]).status = "GAP"
    BY RowsType DEF Gap, Segments
  <2>4. \A i \in DOMAIN segs : ~Recoverable(i) => segs'[i].status = "GAP"
    BY <2>1, <2>3 DEF RecoveredSegs
  <2>5. \A i \in DOMAIN segs : segs[i].status = "GAP" => ~Recoverable(i)
    BY RecoverableVerifies DEF Unrecoverable
  <2>6. \A i \in Final : Recoverable(i) => segs'[i] = segs[i]
    <3>1. \A i \in Final : i \in DOMAIN segs /\ FinalizedSegs[i] = segs[i]
      BY DEF Final, ActiveSegments, FinalizedSegs
    <3> QED BY <2>1, <3>1 DEF RecoveredSegs
  <2> QED BY <2>1, <2>2, <2>4, <2>5, <2>6, RepairImmutable DEF ImmutableStep, Final
<1> QED BY <1>1, <1>2

LEMMA NextImmutable == TypeOK /\ [Next]_vars => ImmutableStep
<1> SUFFICES ASSUME TypeOK, [Next]_vars PROVE ImmutableStep
  OBVIOUS
<1>1. CASE OpenCapture
  BY <1>1, SameRowsImmutable DEF OpenCapture
<1>2. ASSUME NEW pcm \in Payloads, AppendDirect(pcm) PROVE ImmutableStep
  BY <1>2, StoreImmutable DEF AppendDirect
<1>3. ASSUME NEW k \in FrameNumbers, NEW start \in Positions, NEW pcm \in Payloads,
             NEW r \in BOOLEAN, AppendFrame(k, start, pcm, r)
      PROVE  ImmutableStep
  BY <1>3, AppendFrameImmutable
<1>4. CASE MarkAfterFailure
  BY <1>4, SameRowsImmutable DEF MarkAfterFailure
<1>5. CASE ForgetAfterFailure
  BY <1>5, SameRowsImmutable DEF ForgetAfterFailure, db
<1>6. CASE CallerMarksIncomplete
  BY <1>6, SameRowsImmutable DEF CallerMarksIncomplete, MarkIncomplete
<1>7. ASSUME NEW a \in Positions, NEW b \in Positions, ReadQuarantines(a, b)
      PROVE  ImmutableStep
  BY <1>7, FirstInvalidInRange, QuarantineImmutable DEF ReadQuarantines
<1>8. ASSUME NEW r \in BOOLEAN, Finalize(r) PROVE ImmutableStep
  BY <1>8, FinalizeImmutable
<1>9. ASSUME NEW r \in BOOLEAN, FinalizeFails(r) PROVE ImmutableStep
  BY <1>9, RepairImmutable, SameRowsImmutable DEF FinalizeFails, db
<1>10. CASE Crash
  BY <1>10, SameRowsImmutable DEF Crash, CrashWith, db
<1>11. ASSUME NEW pcm \in Payloads, CrashInAppend(pcm) PROVE ImmutableStep
  BY <1>11, InterruptedPastFinal, SameRowsImmutable DEF CrashInAppend, CrashWith, db
<1>12. CASE CrashInFinalize
  BY <1>12, RepairImmutable, SameRowsImmutable DEF CrashInFinalize, CrashWith, db
<1>13. CASE Recover
  BY <1>13, RecoverImmutable
<1>14. CASE RecoverFails
  BY <1>14, RepairImmutable, SameRowsImmutable DEF RecoverFails
<1>15. ASSUME NEW i \in Slots, NEW kind \in DamageKinds, Damage(i, kind)
       PROVE  ImmutableStep
  <2>1. UNCHANGED segs /\ i \in damaged'
    BY <1>15 DEF Damage, db
  <2>2. PICK f : disk' = [disk EXCEPT ![i] = f]
    BY <1>15, Zenon DEF Damage
  <2>3. \A j \in Final : j # i => disk'[j] = disk[j]
    BY <2>2, RowsType DEF Final, TypeOK
  <2> QED BY <2>1, <2>3, SameRowsImmutable
<1>16. CASE UNCHANGED vars
  BY <1>16, SameRowsImmutable DEF vars, db
<1> QED
  BY <1>1, <1>2, <1>3, <1>4, <1>5, <1>6, <1>7, <1>8, <1>9, <1>10, <1>11, <1>12,
     <1>13, <1>14, <1>15, <1>16 DEF Next

\* Once a segment is final, no append, replay, repair, recovery or failed call
\* changes its row or its file: it stays, or it is given up for good.
THEOREM FinalAudioNeverChanges == Spec => FinalAudioIsImmutable
<1>1. TypeOK /\ [Next]_vars => [ImmutableStep]_vars
  BY NextImmutable
<1>2. Spec => [][ImmutableStep]_vars
  BY <1>1, TypeCorrectness, PTL DEF Spec
<1> QED BY <1>2 DEF FinalAudioIsImmutable, ImmutableStep
--------------------------------------------------------------------------------
(* The audio behind the rows: the inductive invariant.                      *)

\* Receipts are the browser's.
FramesOfBrowser == source = "ALSA" => frames = <<>>

\* What was given up lies behind what is left.
GapsBehind == \A i \in DOMAIN segs \ Kept : segs[i].start >= count

RowsInv == IInv /\ ReceiptsTile /\ FramesOfBrowser /\ GapsBehind

\* Unless a failed call has yet to clean up, a cached digest is the one of its row.
CachesHold ==
    cleanup = "none" =>
        \A i \in Slots : hashers[i].live =>
            /\ i \in DOMAIN segs /\ segs[i].status = "ACTIVE"
            /\ hashers[i].pcm = segs[i].sha.pcm

\* A digest covers the committed samples.
DigestsHold == \A i \in Kept : Len(segs[i].sha.pcm) = segs[i].committed

\* A file that does not match its row was changed from outside.
FilesHold ==
    \A i \in Kept :
        \/ Matches(segs[i], disk[i])
        \/ i \in damaged /\ ("altered" \notin DamageKinds => disk[i] = NoFile)

\* What was acknowledged and not given up is what the digests vouch for.
ReceiptsVouched ==
    \A k \in DOMAIN frames : \A p \in 1..Len(frames[k].payload) :
        frames[k].start + p <= count =>
            frames[k].payload[p] = ArchivedLog[frames[k].start + p]

AudioInv ==
    /\ RowsInv /\ CachesHold /\ DigestsHold /\ FilesHold
    /\ "altered" \notin DamageKinds => ReceiptsVouched

--------------------------------------------------------------------------------
(* The order of segments and receipts.                                      *)

\* Segments that were not given up follow each other.
LEMMA TileOrder ==
    ASSUME IInv, NEW i \in Kept
    PROVE  /\ \A j \in Kept : i < j => SegEnd(segs[i]) <= segs[j].start
           /\ SegEnd(segs[i]) <= count
<1>1. /\ DOMAIN segs = 1..Len(segs) /\ Len(segs) \in Nat /\ Kept \subseteq DOMAIN segs
      /\ \A j \in DOMAIN segs : segs[j].start \in Nat /\ segs[j].committed \in Nat
      /\ count \in Nat
  BY RowsType DEF IInv, TypeOK, Kept
<1>2. /\ \A j \in Kept : \A m \in DOMAIN segs : m < j => m \in Kept
      /\ \A j \in Kept : segs[j].start = Cursor(j)
  BY DEF IInv, SegmentsTile
<1>3. \A j \in Kept : i < j => SegEnd(segs[i]) <= segs[j].start
  <2> DEFINE S == {j \in Kept : i < j /\ ~(SegEnd(segs[i]) <= segs[j].start)}
  <2> SUFFICES ASSUME S # {}
               PROVE  FALSE
    OBVIOUS
  <2>1. S \in SUBSET Nat
    BY <1>1
  <2>2. PICK m \in S : \A j \in S : m <= j
    BY <2>1, FirstExists
  <2>3. m \in Kept /\ i < m /\ ~(SegEnd(segs[i]) <= segs[m].start) /\ i \in 1..Len(segs) /\ m \in 1..Len(segs)
    BY <1>1, <2>2
  <2>4. m - 1 \in Kept /\ segs[m].start = SegEnd(segs[m - 1])
    BY <1>1, <1>2, <2>3 DEF Cursor
  <2>5. m - 1 # i
    BY <1>1, <2>3, <2>4 DEF SegEnd
  <2>6. SegEnd(segs[i]) <= segs[m - 1].start
    BY <1>1, <2>2, <2>3, <2>4, <2>5
  <2> QED BY <1>1, <2>3, <2>4, <2>6 DEF SegEnd
<1>4. PICK l \in Kept : SegEnd(segs[l]) = count /\ l + 1 \notin Kept
  BY DEF IInv, SegmentsTile
<1>5. i <= l
  <2> SUFFICES ASSUME l < i
               PROVE  FALSE
    BY <1>1
  <2> QED BY <1>1, <1>2, <1>4
<1>6. i < l => SegEnd(segs[i]) <= count
  <2> SUFFICES ASSUME i < l
               PROVE  SegEnd(segs[i]) <= count
    OBVIOUS
  <2>1. SegEnd(segs[i]) <= segs[l].start
    BY <1>3
  <2> QED BY <1>1, <1>4, <2>1 DEF SegEnd
<1>7. count <= count
  BY <1>1
<1> QED BY <1>1, <1>3, <1>4, <1>5, <1>6, <1>7

\* Every recorded sample lies in a segment.
LEMMA TileCovers ==
    ASSUME IInv, NEW p \in Nat, p < count
    PROVE  \E i \in Kept : segs[i].start <= p /\ p < SegEnd(segs[i])
<1>1. /\ DOMAIN segs = 1..Len(segs) /\ Len(segs) \in Nat /\ Kept \subseteq DOMAIN segs
      /\ \A j \in DOMAIN segs : segs[j].start \in Nat /\ segs[j].committed \in Nat
      /\ count \in Nat
  BY RowsType DEF IInv, TypeOK, Kept
<1>2. /\ \A j \in Kept : \A m \in DOMAIN segs : m < j => m \in Kept
      /\ \A j \in Kept : segs[j].start = Cursor(j)
  BY DEF IInv, SegmentsTile
<1> DEFINE S == {i \in Kept : p < SegEnd(segs[i])}
<1>3. \E l \in Kept : SegEnd(segs[l]) = count
  BY <1>1 DEF IInv, SegmentsTile
<1>4. S \in SUBSET Nat /\ S # {}
  BY <1>1, <1>3
<1>5. PICK m \in S : \A j \in S : m <= j
  BY <1>4, FirstExists
<1>6. m \in Kept /\ m \in 1..Len(segs) /\ p < SegEnd(segs[m])
  BY <1>1
<1>7. segs[m].start <= p
  <2>1. CASE m = 1
    BY <1>2, <1>6, <2>1 DEF Cursor
  <2>2. CASE m # 1
    <3>1. m - 1 \in Kept /\ segs[m].start = SegEnd(segs[m - 1])
      BY <1>1, <1>2, <1>6, <2>2 DEF Cursor
    <3>2. ~(p < SegEnd(segs[m - 1]))
      BY <1>1, <1>5, <1>6, <3>1
    <3>3. SegEnd(segs[m - 1]) \in Nat
      BY <1>1, <3>1 DEF SegEnd
    <3> QED BY <3>1, <3>2, <3>3
  <2> QED BY <2>1, <2>2
<1> QED BY <1>6, <1>7

\* Receipts follow each other.
LEMMA ReceiptOrder ==
    ASSUME frames \in Seq(Receipts), ReceiptsTile, NEW k \in DOMAIN frames
    PROVE  /\ frames[k].start \in Nat /\ frames[k].end \in Nat /\ frames[k].payload \in Seq(Samples)
           /\ frames[k].start < frames[k].end
           /\ frames[k].end <= frames[Len(frames)].end
<1>1. /\ DOMAIN frames = 1..Len(frames) /\ Len(frames) \in Nat
      /\ \A m \in DOMAIN frames : frames[m] \in Receipts
  BY LenProperties, ElementOfSeq
<1>2. \A m \in DOMAIN frames :
          /\ frames[m].start \in Nat /\ frames[m].end \in Nat /\ frames[m].payload \in Seq(Samples)
          /\ frames[m].start < frames[m].end
          /\ m # 1 => frames[m].start = frames[m - 1].end
  <2> TAKE m \in DOMAIN frames
  <2>1. frames[m].start \in Nat /\ frames[m].end \in Nat /\ frames[m].payload \in Seq(Samples)
    BY <1>1 DEF Receipts
  <2>2. frames[m].end = frames[m].start + Len(frames[m].payload) /\ frames[m].payload # <<>>
    BY DEF ReceiptsTile
  <2>3. Len(frames[m].payload) \in Nat \ {0}
    BY <2>1, <2>2, EmptySeq, LenProperties
  <2>4. m # 1 => frames[m].start = frames[m - 1].end
    BY DEF ReceiptsTile
  <2> QED BY <2>1, <2>2, <2>3, <2>4
<1>3. frames[k].end <= frames[Len(frames)].end
  <2> DEFINE S == {m \in DOMAIN frames : k < m /\ frames[m].end < frames[k].end}
  <2>1. S = {}
    <3> SUFFICES ASSUME S # {}
                 PROVE  FALSE
      OBVIOUS
    <3>1. S \in SUBSET Nat
      BY <1>1
    <3>2. PICK m \in S : \A j \in S : m <= j
      BY <3>1, FirstExists
    <3>3. m \in 1..Len(frames) /\ k \in 1..Len(frames) /\ k < m /\ frames[m].end < frames[k].end
      BY <1>1, <3>2
    <3>4. m - 1 \in DOMAIN frames /\ frames[m].start = frames[m - 1].end
      BY <1>1, <1>2, <3>3
    <3>5. CASE m - 1 = k
      BY <1>1, <1>2, <3>3, <3>4, <3>5
    <3>6. CASE m - 1 # k
      <4>1. ~(frames[m - 1].end < frames[k].end)
        BY <1>1, <3>2, <3>3, <3>4, <3>6
      <4> QED BY <1>1, <1>2, <3>3, <3>4, <4>1
    <3> QED BY <3>5, <3>6
  <2>2. Len(frames) \in DOMAIN frames
    BY <1>1
  <2>3. k = Len(frames) \/ k < Len(frames)
    BY <1>1
  <2> QED BY <1>2, <2>1, <2>2, <2>3
<1> QED BY <1>2, <1>3

--------------------------------------------------------------------------------
(* What a step can do to the files. *)

\* Files d of the segments that were not given up still hold what their rows say, and
\* what is lost stays lost.
Untouched(d) ==
    \A i \in Kept : /\ Matches(segs[i], disk[i]) => Matches(segs[i], d[i])
                    /\ disk[i] = NoFile => d[i] = NoFile

\* Cutting a sequence that was cut and extended.
LEMMA CutAgain ==
    ASSUME NEW S, NEW s \in Seq(S), NEW t \in Seq(S), NEW n \in Nat, n <= Len(s)
    PROVE  /\ SubSeq(s, 1, n) \o t \in Seq(S)
           /\ Len(SubSeq(s, 1, n) \o t) = n + Len(t)
           /\ SubSeq(SubSeq(s, 1, n) \o t, 1, n) = SubSeq(s, 1, n)
           /\ \A i \in 1..n : (SubSeq(s, 1, n) \o t)[i] = s[i]
           /\ \A i \in 1..Len(t) : (SubSeq(s, 1, n) \o t)[n + i] = t[i]
<1> DEFINE c == SubSeq(s, 1, n)
           w == c \o t
<1>1. c \in Seq(S) /\ Len(c) = n
  BY PrefixType
<1>2. \A i \in 1..n : c[i] = s[i]
  BY ElementOfSeq, SubSeqProperties, LenProperties
<1>3. w \in Seq(S) /\ Len(w) = n + Len(t) /\ Len(t) \in Nat
  BY <1>1, ConcatProperties, LenProperties
<1>4. /\ \A i \in 1..n : w[i] = c[i]
      /\ \A i \in 1..Len(t) : w[n + i] = t[i]
  <2> HIDE DEF c
  <2>1. \A i \in 1..(Len(c) + Len(t)) : w[i] = IF i <= Len(c) THEN c[i] ELSE t[i - Len(c)]
    BY <1>1, ConcatProperties
  <2> QED BY <1>1, <1>3, <2>1
<1>5. SubSeq(w, 1, n) \in Seq(S) /\ Len(SubSeq(w, 1, n)) = n
  <2> HIDE DEF w
  <2> QED BY <1>3, PrefixType
<1>6. \A i \in 1..n : SubSeq(w, 1, n)[i] = w[i]
  <2> HIDE DEF w
  <2> QED BY <1>3, ElementOfSeq, SubSeqProperties
<1>7. SubSeq(w, 1, n) = c
  <2> HIDE DEF w, c
  <2> QED BY <1>1, <1>4, <1>5, <1>6, SeqEqual
<1> QED BY <1>2, <1>3, <1>4, <1>7

\* A file that is cut to the committed samples of an ACTIVE segment and extended.
LEMMA ExtendedMatches ==
    ASSUME NEW s \in Segments, s.status = "ACTIVE", NEW f \in Files, Len(f.pcm) >= s.committed,
           NEW chunk \in Seq(Samples), NEW g, g.state = "wav",
           g.pcm = SubSeq(f.pcm, 1, s.committed) \o chunk, Matches(s, f)
    PROVE  Matches(s, g)
<1>1. s.committed \in Nat /\ f.pcm \in Seq(Samples) /\ Len(f.pcm) \in Nat
  BY LenProperties DEF Segments, Files
<1>2. /\ SubSeq(g.pcm, 1, s.committed) = SubSeq(f.pcm, 1, s.committed)
      /\ Len(g.pcm) = s.committed + Len(chunk) /\ Len(chunk) \in Nat
  BY <1>1, CutAgain, LenProperties
<1>3. PcmDigest(SubSeq(f.pcm, 1, s.committed)) = s.sha /\ s.committed <= SegmentSamples
  BY DEF Matches
<1>4. PcmDigest(SubSeq(g.pcm, 1, s.committed)) = s.sha /\ Len(g.pcm) >= s.committed
  <2>1. SubSeq(g.pcm, 1, s.committed) = SubSeq(f.pcm, 1, s.committed)
    BY <1>2, Zenon
  <2>2. Len(g.pcm) >= s.committed
    BY <1>1, <1>2
  <2> QED BY <1>3, <2>1, <2>2, Zenon
<1> QED BY <1>3, <1>4 DEF Matches

\* What an append writes, whole or in part, leaves the committed samples alone.
LEMMA AppendUntouched ==
    ASSUME IInv, Appendable, NEW pcm \in Payloads, LastTarget(pcm) <= MaxSegments, Writable
    PROVE  /\ Untouched(Disk1(pcm))
           /\ Rest(pcm) # <<>> => Untouched(Disk2(pcm))
           /\ \A d \in TornChunk(disk, Target, Used, Head1(pcm)) : Untouched(d)
           /\ Rest(pcm) # <<>> =>
                 \A d \in TornChunk(Disk1(pcm), Target + 1, 0, Rest(pcm)) : Untouched(d)
<1>0. /\ TypeOK /\ Len(segs) \in Nat /\ DOMAIN segs = 1..Len(segs) /\ Kept = DOMAIN segs
      /\ disk \in [Slots -> Files]
  BY RowsType, AppendableRows DEF IInv, TypeOK
<1>1. Head1(pcm) \in Seq(Samples) /\ Rest(pcm) \in Seq(Samples) /\ Target \in Nat \ {0}
  BY <1>0, PiecesType
<1>2. Target \in Slots /\ (Rest(pcm) # <<>> => Target + 1 \in Slots)
  BY <1>1, SegmentAssumption DEF LastTarget, Slots
<1>3. ASSUME NEW i \in Kept
      PROVE  /\ i \in Slots /\ i # Target + 1
             /\ i = Target => /\ segs[i].status = "ACTIVE" /\ Used = segs[i].committed
                              /\ disk[i].state = "wav" /\ Len(disk[i].pcm) >= segs[i].committed
                              /\ disk[i] # NoFile
  <2>1. i \in Slots
    BY <1>0, RowsType
  <2>2. i \in 1..Len(segs)
    BY <1>0
  <2>3. Target \in {Len(segs), Len(segs) + 1}
    BY DEF Target
  <2>4. i # Target + 1
    BY <1>0, <2>2, <2>3
  <2>5. ASSUME i = Target PROVE TailOpen /\ Used = segs[i].committed
    <3>1. Target = Len(segs)
      BY <1>0, <2>2, <2>3, <2>5
    <3>2. TailOpen
      <4> SUFFICES ASSUME ~TailOpen PROVE FALSE
        OBVIOUS
      <4>1. Target = Len(segs) + 1
        BY DEF Target
      <4> QED BY <1>0, <3>1, <4>1
    <3> QED BY <2>5, <3>1, <3>2 DEF Used
  <2>6. segs[i].committed \in 1..SegmentSamples
    BY AppendableRows, <1>0
  <2>7. ASSUME i = Target PROVE segs[i].status = "ACTIVE"
    <3>1. segs[i].committed < SegmentSamples
      <4>1. i = Len(segs)
        BY <1>0, <2>2, <2>3, <2>7
      <4> QED BY <2>5, <2>7, <4>1 DEF TailOpen
    <3>2. /\ segs[i].status = "FINALIZED" => segs[i].committed = SegmentSamples
          /\ segs[i].status \in {"ACTIVE", "FINALIZED"}
      BY AppendableRows, <1>0
    <3> QED BY <3>1, <3>2, SegmentAssumption
  <2>8. ASSUME i = Target PROVE disk[i].state = "wav" /\ Len(disk[i].pcm) >= segs[i].committed
    <3>1. Used > 0
      BY <2>5, <2>6, <2>8, SegmentAssumption
    <3> QED BY <2>5, <2>8, <3>1 DEF Writable
  <2> QED BY <2>1, <2>4, <2>5, <2>7, <2>8 DEF NoFile
<1>4. ASSUME NEW d, \A i \in Kept : i # Target => d[i] = disk[i],
             \/ d[Target] = disk[Target]
             \/ /\ d[Target].state = "wav"
                /\ \E chunk \in Seq(Samples) : d[Target].pcm = SubSeq(disk[Target].pcm, 1, Used) \o chunk
             \/ disk[Target] = NoFile
      PROVE  Untouched(d)
  <2> SUFFICES ASSUME NEW i \in Kept
               PROVE  /\ Matches(segs[i], disk[i]) => Matches(segs[i], d[i])
                      /\ disk[i] = NoFile => d[i] = NoFile
    BY DEF Untouched
  <2>1. CASE i # Target
    BY <1>4, <2>1
  <2>2. CASE i = Target /\ d[i] = disk[i]
    BY <2>2
  <2>3. CASE i = Target /\ d[i] # disk[i]
    <3>1. /\ segs[i].status = "ACTIVE" /\ Used = segs[i].committed
          /\ disk[i].state = "wav" /\ Len(disk[i].pcm) >= segs[i].committed /\ disk[i] # NoFile
      BY <1>3, <2>3
    <3>2. PICK chunk \in Seq(Samples) : d[i].pcm = SubSeq(disk[i].pcm, 1, segs[i].committed) \o chunk
      BY <1>4, <2>3, <3>1
    <3>3. d[i].state = "wav"
      BY <1>4, <2>3, <3>1
    <3>4. segs[i] \in Segments /\ disk[i] \in Files
      BY <1>0, <1>3, RowsType
    <3> QED BY <3>1, <3>2, <3>3, <3>4, ExtendedMatches
  <2> QED BY <2>1, <2>2, <2>3
<1>5. Untouched(Disk1(pcm)) /\ \A i \in Kept : i # Target => Disk1(pcm)[i] = disk[i]
  <2>1. \A i \in Kept : i # Target => Disk1(pcm)[i] = disk[i]
    BY <1>0, <1>2, <1>3 DEF Disk1, WriteChunk
  <2>2. /\ Disk1(pcm)[Target].state = "wav"
        /\ Disk1(pcm)[Target].pcm = SubSeq(disk[Target].pcm, 1, Used) \o Head1(pcm)
    BY <1>0, <1>2 DEF Disk1, WriteChunk
  <2> QED BY <1>1, <1>4, <2>1, <2>2
<1>6. ASSUME NEW d \in TornChunk(disk, Target, Used, Head1(pcm)) PROVE Untouched(d)
  <2>1. PICK f \in TornFiles(disk[Target], Used, Head1(pcm)) : d = [disk EXCEPT ![Target] = f]
    BY DEF TornChunk
  <2>2. d[Target] = f /\ \A i \in Kept : i # Target => d[i] = disk[i]
    BY <1>0, <1>2, <1>3, <2>1
  <2>3. \/ f = disk[Target]
        \/ disk[Target] = NoFile
        \/ \E h \in {disk[Target].header, Used + Len(Head1(pcm))}, n \in 0..Len(Head1(pcm)) :
              f = [state |-> "wav", header |-> h,
                   pcm |-> SubSeq(disk[Target].pcm, 1, Used) \o SubSeq(Head1(pcm), 1, n)]
    BY <2>1 DEF TornFiles
  <2>4. CASE f = disk[Target] \/ disk[Target] = NoFile
    BY <1>4, <2>2, <2>4
  <2>5. ASSUME NEW h, NEW n \in 0..Len(Head1(pcm)),
               f = [state |-> "wav", header |-> h,
                    pcm |-> SubSeq(disk[Target].pcm, 1, Used) \o SubSeq(Head1(pcm), 1, n)]
        PROVE  Untouched(d)
    <3>1. n \in Nat /\ n <= Len(Head1(pcm))
      BY <1>1, LenProperties
    <3>2. SubSeq(Head1(pcm), 1, n) \in Seq(Samples)
      BY <1>1, <3>1, PrefixType
    <3>3. d[Target].state = "wav"
          /\ d[Target].pcm = SubSeq(disk[Target].pcm, 1, Used) \o SubSeq(Head1(pcm), 1, n)
      <4>1. f.state = "wav" /\ f.pcm = SubSeq(disk[Target].pcm, 1, Used) \o SubSeq(Head1(pcm), 1, n)
        BY <2>5
      <4> QED BY <2>2, <4>1, Zenon
    <3> QED BY <1>4, <2>2, <3>2, <3>3
  <2> QED BY <2>3, <2>4, <2>5
<1>7. ASSUME NEW d, NEW f, d = [Disk1(pcm) EXCEPT ![Target + 1] = f] PROVE Untouched(d)
  <2>1. Disk1(pcm) \in [Slots -> Files]
    BY <1>0, AppendType
  <2>2. \A i \in Kept : d[i] = Disk1(pcm)[i]
    BY <1>3, <1>7, <2>1
  <2> QED BY <1>5, <2>2 DEF Untouched
<1>8. Untouched(Disk2(pcm))
  BY <1>7 DEF Disk2, WriteChunk
<1>9. \A d \in TornChunk(Disk1(pcm), Target + 1, 0, Rest(pcm)) : Untouched(d)
  BY <1>7 DEF TornChunk
<1> QED BY <1>5, <1>6, <1>8, <1>9

LEMMA InterruptedUntouched ==
    ASSUME IInv, NEW pcm \in Payloads, LastTarget(pcm) <= MaxSegments, NEW o \in Interrupted(pcm)
    PROVE  Untouched(o.disk)
<1>1. CASE ~Appendable \/ ~Writable
  BY <1>1 DEF Interrupted, Untouched
<1>2. CASE Appendable /\ Writable
  BY <1>2, AppendUntouched DEF Interrupted
<1> QED BY <1>1, <1>2

\* A repaired file still holds what its row says.
LEMMA RepairUntouched ==
    ASSUME TypeOK
    PROVE  /\ \A i \in ActiveSegments :
                 Matches(segs[i], disk[i]) =>
                    /\ Matches(segs[i], RepairedFile(i))
                    /\ RepairedFile(i).pcm = segs[i].sha.pcm /\ Len(segs[i].sha.pcm) = segs[i].committed
                    /\ RepairedFile(i).header = segs[i].committed /\ RepairedFile(i).state = "wav"
           /\ (\A i \in DOMAIN segs : Matches(segs[i], disk[i])) => Untouched(RepairedDisk)
           /\ Untouched(RecoveredDisk)
<1>1. ASSUME NEW i \in ActiveSegments, Matches(segs[i], disk[i])
      PROVE  /\ Matches(segs[i], RepairedFile(i))
             /\ RepairedFile(i).pcm = segs[i].sha.pcm /\ Len(segs[i].sha.pcm) = segs[i].committed
             /\ RepairedFile(i).header = segs[i].committed /\ RepairedFile(i).state = "wav"
  <2>1. segs[i] \in Segments /\ disk[i] \in Files /\ segs[i].committed \in Nat /\ i \in DOMAIN segs
    BY RowsType DEF ActiveSegments
  <2>2. /\ disk[i].state = "wav" /\ segs[i].committed <= SegmentSamples
        /\ Len(disk[i].pcm) >= segs[i].committed /\ segs[i].status = "ACTIVE"
        /\ PcmDigest(SubSeq(disk[i].pcm, 1, segs[i].committed)) = segs[i].sha
    BY <1>1 DEF Matches, ActiveSegments
  <2> DEFINE cut == SubSeq(disk[i].pcm, 1, segs[i].committed)
  <2>3. cut \in Seq(Samples) /\ Len(cut) = segs[i].committed
    BY <2>1, <2>2, PrefixType, LenProperties DEF Files
  <2>4. cut = segs[i].sha.pcm
    BY <2>2 DEF PcmDigest
  <2>5. RepairedFile(i).pcm = cut /\ RepairedFile(i).header = segs[i].committed
        /\ RepairedFile(i).state = "wav"
    BY <2>1, <2>2 DEF RepairedFile, Files
  <2>6. SubSeq(cut, 1, segs[i].committed) = cut
    <3> HIDE DEF cut
    <3>1. SubSeq(cut, 1, segs[i].committed) \in Seq(Samples) /\ Len(SubSeq(cut, 1, segs[i].committed)) = segs[i].committed
      BY <2>1, <2>3, PrefixType
    <3>2. \A j \in 1..segs[i].committed : SubSeq(cut, 1, segs[i].committed)[j] = cut[j]
      BY <2>1, <2>3, ElementOfSeq, SubSeqProperties
    <3> QED BY <2>3, <3>1, <3>2, SeqEqual
  <2>7. Matches(segs[i], RepairedFile(i))
    <3> HIDE DEF cut
    <3>1. PcmDigest(SubSeq(RepairedFile(i).pcm, 1, segs[i].committed)) = segs[i].sha
      BY <2>2, <2>5, <2>6 DEF cut
    <3> QED BY <2>1, <2>2, <2>3, <2>5, <3>1 DEF Matches
  <2> QED BY <2>3, <2>4, <2>5, <2>7
<1>2. ASSUME \A i \in DOMAIN segs : Matches(segs[i], disk[i]) PROVE Untouched(RepairedDisk)
  <2>1. \A i \in Kept : i \in Slots /\ i \in DOMAIN segs
    BY RowsType DEF Kept
  <2>2. \A i \in Kept : RepairedDisk[i] = IF i \in ActiveSegments THEN RepairedFile(i) ELSE disk[i]
    BY <2>1 DEF RepairedDisk
  <2>3. \A i \in Kept : disk[i] # NoFile
    BY <1>2, <2>1 DEF Matches, NoFile
  <2> QED BY <1>1, <1>2, <2>1, <2>2, <2>3 DEF Untouched
<1>3. Untouched(RecoveredDisk)
  <2>1. \A i \in Kept : i \in Slots /\ i \in DOMAIN segs
    BY RowsType DEF Kept
  <2>2. \A i \in Kept : RecoveredDisk[i] = IF i \in ActiveSegments /\ Recoverable(i)
                                           THEN RepairedFile(i) ELSE disk[i]
    BY <2>1 DEF RecoveredDisk
  <2>3. \A i \in Kept : Recoverable(i) => Matches(segs[i], disk[i])
    BY <2>1, RecoverableVerifies DEF Unrecoverable
  <2>4. \A i \in Kept : Recoverable(i) => disk[i] # NoFile
    BY <2>3 DEF Matches, NoFile
  <2> QED BY <1>1, <2>1, <2>2, <2>3, <2>4 DEF Untouched
<1> QED BY <1>1, <1>2, <1>3

--------------------------------------------------------------------------------
(* What a step can do. *)

\* The outside changes the file of one segment.
DamageDone ==
    \E i \in Slots : /\ damaged' = damaged \cup {i}
                     /\ \A j \in Slots \ {i} : disk'[j] = disk[j]
                     /\ "altered" \notin DamageKinds => disk'[i] = NoFile

\* When no cleanup is due, a cached digest is the old one, or was read back.
CachesStay ==
    cleanup' = "none" =>
        \A i \in Slots : hashers'[i].live =>
            \/ cleanup = "none" /\ hashers'[i] = hashers[i]
            \/ /\ i \in DOMAIN segs /\ segs[i].status = "ACTIVE"
               /\ hashers'[i].pcm = segs[i].sha.pcm

\* Nothing in the rows changes but the status, towards INCOMPLETE or by opening the capture.
RowsStay ==
    /\ UNCHANGED <<segs, count, frames>>
    /\ \/ status' \in {status, "INCOMPLETE"}
       \/ status = "PENDING" /\ status' = "CAPTURING"
    /\ CachesStay
    /\ (Untouched(disk') /\ damaged' = damaged) \/ DamageDone

\* A segment is given up first of all for what is in its file, as long as the receipts are
\* in order.
Verdict(k) ==
    ReceiptsTile /\ ReceiptReadsBack /\ k \in Kept => ~Matches(segs[k], disk[k])

\* Everything from segment k on is given up, behind segments that are all kept.
LosesFrom(k) ==
    /\ segs' = [j \in DOMAIN segs |-> IF j < k THEN segs[j] ELSE Gap(segs[j])]
    /\ count' = Cursor(k)
    /\ status' = "INCOMPLETE"
    /\ frames' = frames
    /\ \A j \in DOMAIN segs : j < k => j \in Kept
    /\ Verdict(k)
    /\ \A i \in Slots : ~hashers'[i].live
    /\ Untouched(disk')
    /\ damaged' = damaged

\* A piece is stored, with its receipt if it came from a browser.
Adds(pcm) ==
    /\ StoreCommits(pcm, frames')
    /\ status \in {"CAPTURING", "INCOMPLETE"}
    /\ ~OverlappingReplays => cleanup = "none"
    /\ \/ source = "ALSA" /\ frames' = frames
       \/ /\ source = "BROWSER"
          /\ frames' = Append(frames, [start |-> count, end |-> count + Len(pcm),
                                       payload |-> pcm])
    /\ damaged' = damaged

Finalizes ==
    /\ FinalizeCommits
    /\ status \in {"CAPTURING", "INCOMPLETE"}
    /\ damaged' = damaged

StepKind ==
    \/ RowsStay
    \/ \E k \in DOMAIN segs : LosesFrom(k)
    \/ \E pcm \in Payloads : Adds(pcm)
    \/ Finalizes

LEMMA LivePcm == ASSUME NEW p, NEW h, h = [live |-> TRUE, pcm |-> p] PROVE h.pcm = p
  OBVIOUS

LEMMA ForgottenCaches == ForgetHashers => \A i \in Slots : ~hashers'[i].live
  BY DEF ForgetHashers, NoHasher

\* A reader distrusts a kept segment only because its file does not match.
LEMMA InvalidVerdict ==
    ASSUME IInv, NEW a \in Nat, NEW b \in Nat, a < b, b <= count, FirstInvalid(a, b) # 0
    PROVE  FirstInvalid(a, b) \in Kept =>
              ~Matches(segs[FirstInvalid(a, b)], disk[FirstInvalid(a, b)])
<1> DEFINE over == Overlap(a, b)
           joined(i) == segs[i].start <= a \/ \E j \in over : SegEnd(segs[j]) = segs[i].start
           bad == {i \in over : ~joined(i) \/ ~Matches(segs[i], disk[i])}
<1>0. /\ DOMAIN segs = 1..Len(segs) /\ Len(segs) \in Nat /\ Kept \subseteq DOMAIN segs
      /\ \A j \in DOMAIN segs : segs[j].start \in Nat /\ segs[j].committed \in Nat
      /\ count \in Nat
      /\ \A j \in DOMAIN segs : SegEnd(segs[j]) = segs[j].start + segs[j].committed
  BY RowsType DEF IInv, TypeOK, Kept, SegEnd
<1>1. over \subseteq DOMAIN segs /\ over \in SUBSET Nat /\ bad \subseteq over
  BY <1>0 DEF Overlap
<1>2. ASSUME NEW i \in over, i \in Kept PROVE joined(i)
  <2> SUFFICES ASSUME ~(segs[i].start <= a) PROVE \E j \in over : SegEnd(segs[j]) = segs[i].start
    OBVIOUS
  <2>1. segs[i].start = Cursor(i)
    BY <1>2 DEF IInv, SegmentsTile
  <2>2. i # 1
    BY <1>0, <1>2, <2>1 DEF Cursor
  <2>3. i - 1 \in Kept /\ segs[i].start = SegEnd(segs[i - 1])
    BY <1>0, <1>2, <2>1, <2>2 DEF Cursor, IInv, SegmentsTile
  <2>4. segs[i].start < b
    BY <1>2 DEF Overlap
  <2>5. segs[i - 1].start < b /\ a < SegEnd(segs[i - 1])
    BY <1>0, <1>2, <2>3, <2>4
  <2>6. i - 1 \in over
    BY <1>0, <2>3, <2>5 DEF Overlap
  <2> QED BY <2>3, <2>6
<1>3. CASE bad # {}
  <2>1. FirstInvalid(a, b) = First(bad)
    BY <1>3 DEF FirstInvalid
  <2>2. bad \in SUBSET Nat
    BY <1>1
  <2>3. First(bad) \in bad
    BY <1>3, <2>2, FirstExists
  <2>4. ASSUME NEW i \in bad, i \in Kept PROVE ~Matches(segs[i], disk[i])
    BY <1>2, <2>4
  <2> QED BY <2>1, <2>3, <2>4
<1>4. CASE bad = {}
  <2>1. FirstInvalid(a, b) = First(over) /\ ~\E i \in over : b <= SegEnd(segs[i])
    BY <1>4 DEF FirstInvalid
  <2>2. b - 1 \in Nat /\ b - 1 < count
    BY <1>0
  <2>3. PICK i \in Kept : segs[i].start <= b - 1 /\ b - 1 < SegEnd(segs[i])
    BY <2>2, TileCovers
  <2>4. segs[i].start < b /\ a < SegEnd(segs[i]) /\ b <= SegEnd(segs[i])
    BY <1>0, <2>3
  <2>5. i \in over
    BY <1>0, <2>4 DEF Overlap
  <2> QED BY <2>1, <2>4, <2>5
<1> QED BY <1>3, <1>4

LEMMA QuarantineLoses ==
    ASSUME IInv, NEW i \in DOMAIN segs, Quarantine(i), Verdict(i), UNCHANGED <<disk, damaged>>
    PROVE  \E k \in DOMAIN segs : LosesFrom(k)
<1> DEFINE broken == {k \in DOMAIN segs : /\ k < i
                                          /\ \/ segs[k].start # Cursor(k)
                                             \/ ~Matches(segs[k], disk[k])}
<1>0. DOMAIN segs = 1..Len(segs) /\ Len(segs) \in Nat
  BY RowsType DEF IInv
<1>1. ASSUME NEW k \in DOMAIN segs, GapFrom(k), Verdict(k),
             \A j \in DOMAIN segs : j < k => Matches(segs[j], disk[j])
      PROVE  \E m \in DOMAIN segs : LosesFrom(m)
  <2>1. \A j \in DOMAIN segs : j < k => j \in Kept
    BY <1>1, VerifiedIsKept
  <2>2. Untouched(disk') /\ \A j \in Slots : ~hashers'[j].live
    BY <1>1, ForgottenCaches DEF Untouched, GapFrom
  <2>3. LosesFrom(k)
    BY <1>1, <2>1, <2>2 DEF GapFrom, LosesFrom
  <2> QED BY <2>3
<1>2. CASE broken = {}
  <2>1. GapFrom(i)
    BY <1>2 DEF Quarantine
  <2>2. \A j \in DOMAIN segs : j < i => Matches(segs[j], disk[j])
    BY <1>2
  <2> QED BY <1>1, <2>1, <2>2
<1>3. CASE broken # {}
  <2>1. broken \in SUBSET Nat
    BY <1>0
  <2>2. First(broken) \in broken /\ \A j \in broken : First(broken) <= j
    BY <1>3, <2>1, FirstExists
  <2>3. GapFrom(First(broken))
    BY <1>3 DEF Quarantine
  <2>4. PICK k \in broken : GapFrom(k) /\ \A j \in broken : k <= j
    BY <2>2, <2>3
  <2>5. Verdict(k)
    BY <2>4 DEF Verdict, IInv, SegmentsTile
  <2>6. \A j \in DOMAIN segs : j < k => Matches(segs[j], disk[j])
    BY <1>0, <2>4
  <2> QED BY <1>1, <2>4, <2>5, <2>6
<1> QED BY <1>2, <1>3

LEMMA StoreKind ==
    ASSUME IInv, NEW pcm \in Payloads, NEW receipts, NEW r \in BOOLEAN,
           Store(pcm, receipts, r), ~OverlappingReplays => cleanup = "none",
           \/ source = "ALSA" /\ receipts = frames
           \/ /\ source = "BROWSER"
              /\ receipts = Append(frames, [start |-> count, end |-> count + Len(pcm),
                                            payload |-> pcm]),
           damaged' = damaged
    PROVE  StepKind
<1>1. CASE StoreCommits(pcm, receipts)
  <2>1. StoreCommits(pcm, frames') /\ frames' = receipts
    BY <1>1 DEF StoreCommits
  <2>2. status \in {"CAPTURING", "INCOMPLETE"}
    BY DEF Store, Accepting
  <2>3. Adds(pcm)
    BY <2>1, <2>2 DEF Adds
  <2> QED BY <2>3 DEF StepKind
<1>2. CASE StoreRejected(pcm) \/ StoreFails(pcm) \/ ReserveReached
  <2>1. cleanup' = "mark" /\ UNCHANGED db
    BY <1>2 DEF StoreRejected, StoreFails, ReserveReached
  <2>2. Untouched(disk')
    <3>1. CASE disk' = disk
      BY <3>1 DEF Untouched
    <3>2. CASE StoreRejected(pcm) /\ disk' # disk
      BY <3>2, AppendUntouched DEF StoreRejected
    <3>3. CASE StoreFails(pcm)
      BY <3>3, InterruptedUntouched DEF StoreFails
    <3>4. CASE ReserveReached /\ disk' # disk
      BY <3>4 DEF ReserveReached
    <3> QED BY <1>2, <3>1, <3>2, <3>3, <3>4
  <2> QED BY <2>1, <2>2 DEF db, StepKind, RowsStay, CachesStay
<1> QED BY <1>1, <1>2 DEF Store

\* A call that marks the capture or changes nothing, and leaves the files alone.
LEMMA NothingMoved ==
    ASSUME UNCHANGED <<segs, count, frames, disk, damaged, cleanup>>,
           \/ status' \in {status, "INCOMPLETE"}
           \/ status = "PENDING" /\ status' = "CAPTURING",
           UNCHANGED hashers \/ ForgetHashers
    PROVE  StepKind
<1>1. Untouched(disk')
  BY DEF Untouched
<1>2. CachesStay
  BY ForgottenCaches DEF CachesStay
<1> QED BY <1>1, <1>2 DEF StepKind, RowsStay

LEMMA AppendFrameKind ==
    ASSUME IInv, NEW k \in FrameNumbers, NEW start \in Positions,
           NEW pcm \in Payloads, NEW r \in BOOLEAN, AppendFrame(k, start, pcm, r)
    PROVE  StepKind
<1>0. damaged' = damaged
  BY DEF AppendFrame
<1>1. CASE Conflict
  BY <1>0, <1>1, NothingMoved DEF Conflict, MarkIncomplete
<1>2. CASE k \in DOMAIN frames /\ Replay(frames[k], start, pcm) /\ ~Conflict
  <2> DEFINE f == frames[k]
             bad == FirstInvalid(f.start, f.end)
             over == Overlap(f.start, f.end)
  <2>1. CASE UNCHANGED <<db, disk, hashers, cleanup, faults>>
    BY <1>0, <2>1, NothingMoved DEF db
  <2>2. CASE bad # 0 /\ Quarantine(bad) /\ disk' = disk /\ ~(f.end > count)
    <3>1. bad \in DOMAIN segs
      BY <2>2, FirstInvalidInRange DEF IInv
    <3>2. Verdict(bad)
      <4> SUFFICES ASSUME ReceiptsTile, bad \in Kept PROVE ~Matches(segs[bad], disk[bad])
        BY DEF Verdict
      <4>1. f.start \in Nat /\ f.end \in Nat /\ f.start < f.end
        BY <1>2, ReceiptOrder DEF IInv, TypeOK
      <4>2. f.end <= count
        BY <2>2, <4>1 DEF IInv, TypeOK
      <4> QED BY <2>2, <4>1, <4>2, InvalidVerdict
    <3> QED BY <1>0, <2>2, <3>1, <3>2, QuarantineLoses DEF StepKind
  <2>3. CASE /\ bad = 0 /\ over # {} /\ ~StoredEquals(f.start, f.payload)
             /\ Quarantine(First(over)) /\ disk' = disk /\ ~(f.end > count)
    <3>1. over \in SUBSET Nat /\ over \subseteq DOMAIN segs
      BY RowsType DEF IInv, Overlap
    <3>2. First(over) \in DOMAIN segs
      BY <2>3, <3>1, FirstExists
    <3>3. Verdict(First(over))
      <4> SUFFICES ASSUME ReceiptsTile, ReceiptReadsBack PROVE FALSE
        BY DEF Verdict
      <4>1. f.start \in Nat /\ f.end \in Nat /\ f.start < f.end
        BY <1>2, ReceiptOrder DEF IInv, TypeOK
      <4>2. f.end <= count
        BY <2>3, <4>1 DEF IInv, TypeOK
      <4> QED BY <1>2, <2>3, <4>2 DEF ReceiptReadsBack
    <3> QED BY <1>0, <2>3, <3>2, <3>3, QuarantineLoses DEF StepKind
  <2> QED BY <1>2, <2>1, <2>2, <2>3 DEF Replay
<1>3. CASE start = count /\ Store(pcm, Append(frames, [start |-> start, end |-> start + Len(pcm),
                                                       payload |-> pcm]), r)
  <2>1. source = "BROWSER" /\ (~OverlappingReplays => cleanup = "none")
    BY DEF AppendFrame
  <2> QED BY <1>0, <1>3, <2>1, StoreKind
<1> QED BY <1>1, <1>2, <1>3 DEF AppendFrame

LEMMA FinalizeKind ==
    ASSUME IInv, NEW r \in BOOLEAN, Finalize(r)
    PROVE  StepKind
<1>0. damaged' = damaged /\ TypeOK /\ \A i \in DOMAIN segs : i \in Nat
  BY RowsType DEF Finalize, IInv
<1>1. CASE status = "COMPLETE" /\ Reverify
  <2> DEFINE bad == {i \in DOMAIN segs : \/ segs[i].start # Cursor(i)
                                         \/ segs[i].status # "FINALIZED"
                                         \/ ~Matches(segs[i], disk[i])}
  <2>0. disk' = disk /\ cleanup' = cleanup
    BY <1>1 DEF Reverify
  <2>1. CASE bad # {}
    <3>1. GapFrom(First(bad))
      BY <1>1, <2>1 DEF Reverify
    <3>2. bad \in SUBSET Nat
      BY <1>0
    <3>3. PICK m \in bad : GapFrom(m) /\ \A j \in bad : m <= j
      BY <2>1, <3>1, <3>2, FirstExists
    <3>4. \A j \in DOMAIN segs : j < m => j \in Kept
      BY <1>0, <3>2, <3>3 DEF Kept
    <3>5. Verdict(m)
      BY <1>1, <3>3 DEF Verdict, IInv, SegmentsTile, StatusMatchesSegments
    <3>6. Untouched(disk') /\ \A j \in Slots : ~hashers'[j].live
      BY <2>0, <3>3, ForgottenCaches DEF Untouched, GapFrom
    <3>7. m \in DOMAIN segs /\ LosesFrom(m)
      BY <1>0, <3>3, <3>4, <3>5, <3>6 DEF GapFrom, LosesFrom
    <3> QED BY <3>7 DEF StepKind
  <2>2. CASE bad = {} /\ ~Tiled
    BY <1>0, <1>1, <2>0, <2>2, NothingMoved DEF Reverify, MarkIncomplete
  <2>3. CASE bad = {} /\ Tiled
    BY <1>0, <1>1, <2>0, <2>3, NothingMoved DEF Reverify, db
  <2> QED BY <2>1, <2>2, <2>3
<1>2. CASE FinalizeRaises(r)
  <2>1. Untouched(disk') /\ CachesStay
    BY <1>2 DEF FinalizeRaises, Untouched, CachesStay
  <2> QED BY <1>0, <1>2, <2>1 DEF FinalizeRaises, db, StepKind, RowsStay
<1>3. CASE Accepting(r) /\ FinalizeCommits
  BY <1>0, <1>3 DEF Accepting, Finalize, Finalizes, StepKind
<1>4. CASE FinalizeGivesUp
  <2>1. Stuck \in SUBSET Nat /\ Stuck # {} /\ ~Unfinalizable(First(Stuck)) /\ disk' = disk
    BY <1>0, <1>4 DEF FinalizeGivesUp, Stuck
  <2>2. PICK m \in Stuck : GapFrom(m) /\ ~Unfinalizable(m) /\ \A j \in Stuck : m <= j
    BY <1>4, <2>1, FirstExists DEF FinalizeGivesUp
  <2>3. m \in DOMAIN segs /\ ~Matches(segs[m], disk[m])
    BY <2>2 DEF Stuck
  <2>4. \A j \in DOMAIN segs : j < m => j \in Kept
    BY <1>0, <2>1, <2>2, VerifiedIsKept DEF Stuck
  <2>5. Untouched(disk') /\ \A j \in Slots : ~hashers'[j].live
    BY <2>1, <2>2, ForgottenCaches DEF Untouched, GapFrom
  <2>6. LosesFrom(m)
    BY <1>0, <2>2, <2>3, <2>4, <2>5 DEF GapFrom, LosesFrom, Verdict
  <2> QED BY <2>3, <2>6 DEF StepKind
<1> QED BY <1>1, <1>2, <1>3, <1>4 DEF Finalize

\* A recovery that can verify every segment leaves the rows as they are.
LEMMA RecoverKind ==
    ASSUME IInv, Recover
    PROVE  StepKind
<1>0. damaged' = damaged /\ cleanup' = cleanup
  BY DEF Recover
<1>1. CASE ~Accepting(TRUE)
  BY <1>0, <1>1, NothingMoved DEF Recover, db
<1>2. CASE Accepting(TRUE) /\ Unrecoverable = {}
  <2>1. Kept = DOMAIN segs
    BY <1>2 DEF Unrecoverable, Kept
  <2>2. \A i \in DOMAIN segs : RecoveredSegs[i] = segs[i]
    <3>1. \A i \in DOMAIN segs : i \in ActiveSegments => segs[i].committed # SegmentSamples
      BY <2>1, RowsType, SegmentAssumption DEF ActiveSegments, IInv, SegmentsTile
    <3>2. \A i \in DOMAIN segs : i \notin ActiveSegments => FinalizedSegs[i] = segs[i]
      BY DEF FinalizedSegs
    <3> QED BY <1>2, <3>1, <3>2 DEF RecoveredSegs, Recoverable
  <2>3. RecoveredSegs \in Seq(Segments) /\ Len(RecoveredSegs) = Len(segs)
    BY RecoverType DEF IInv
  <2>4. segs \in Seq(Segments)
    BY DEF IInv, TypeOK
  <2>5. RecoveredSegs = segs
    BY <2>2, <2>3, <2>4, SeqEqual, LenProperties
  <2>6. count' = count
    BY <1>2, <2>1, NoGapTiled DEF Recover
  <2>7. Untouched(disk')
    BY <1>2, RepairUntouched DEF Recover, IInv
  <2>8. CachesStay
    <3>1. hashers' = [i \in Slots |-> IF i \in DOMAIN segs /\ Recoverable(i)
                                      THEN RecoveredHasher(i) ELSE NoHasher]
      BY <1>2 DEF Recover
    <3>2. ASSUME NEW i \in Slots, hashers'[i].live
          PROVE  i \in DOMAIN segs /\ segs[i].status = "ACTIVE" /\ hashers'[i].pcm = segs[i].sha.pcm
      <4>1. i \in DOMAIN segs /\ Recoverable(i) /\ hashers'[i] = RecoveredHasher(i)
        BY <3>1, <3>2 DEF NoHasher
      <4>2. i \in ActiveSegments /\ hashers'[i].pcm = SubSeq(disk[i].pcm, 1, segs[i].committed)
        <5>1. RecoveredHasher(i) # NoHasher
          BY <3>2, <4>1 DEF NoHasher
        <5>2. /\ i \in ActiveSegments
              /\ RecoveredHasher(i) = [live |-> TRUE, pcm |-> SubSeq(disk[i].pcm, 1, segs[i].committed)]
          BY <5>1 DEF RecoveredHasher
        <5>3. RecoveredHasher(i).pcm = SubSeq(disk[i].pcm, 1, segs[i].committed)
          BY <5>2, LivePcm
        <5> QED BY <4>1, <5>2, <5>3, Zenon
      <4>3. Matches(segs[i], disk[i]) /\ segs[i].status = "ACTIVE"
        BY <1>2, <4>1, <4>2 DEF Unrecoverable, ActiveSegments
      <4> QED BY <4>1, <4>2, <4>3 DEF Matches, PcmDigest
    <3> QED BY <3>2 DEF CachesStay
  <2>9. count' = count /\ frames' = frames /\ status' \in {status, "INCOMPLETE"} /\ segs' = segs
    BY <1>2, <2>5, <2>6 DEF Recover
  <2> QED BY <1>0, <2>7, <2>8, <2>9 DEF StepKind, RowsStay
<1>3. CASE Accepting(TRUE) /\ Unrecoverable # {}
  <2>1. PICK m \in Unrecoverable : m = First(Unrecoverable) /\ m \in DOMAIN segs
    BY <1>3, RecoverableVerifies DEF IInv
  <2>2. \A i \in DOMAIN segs : Recoverable(i) <=> i < m
    BY <1>3, <2>1 DEF Recoverable
  <2>3. \A i \in DOMAIN segs : i < m => i \in Kept /\ segs[i].status = "FINALIZED"
    <3>1. \A i \in DOMAIN segs : i < m => i \in Kept
      BY <2>2, RecoverableVerifies DEF IInv, Unrecoverable, Kept
    <3>2. \A i \in DOMAIN segs : i < m => i < Len(segs)
      BY <2>1, RowsType DEF IInv
    <3> QED BY <3>1, <3>2 DEF IInv, SegmentsTile
  <2>4. segs' = [k \in DOMAIN segs |-> IF k < m THEN segs[k] ELSE Gap(segs[k])]
    <3>1. segs' = RecoveredSegs
      BY <1>3 DEF Recover
    <3>2. \A i \in DOMAIN segs : i < m => FinalizedSegs[i] = segs[i]
      BY <2>3 DEF FinalizedSegs, ActiveSegments
    <3> QED BY <2>2, <3>1, <3>2 DEF RecoveredSegs
  <2>5. count' = Cursor(m) /\ status' = "INCOMPLETE" /\ frames' = frames
    BY <1>3, <2>1 DEF Recover
  <2>6. \A i \in Slots : ~hashers'[i].live
    <3>1. hashers' = [i \in Slots |-> IF i \in DOMAIN segs /\ Recoverable(i)
                                      THEN RecoveredHasher(i) ELSE NoHasher]
      BY <1>3 DEF Recover
    <3>2. \A i \in DOMAIN segs : Recoverable(i) => RecoveredHasher(i) = NoHasher
      BY <2>2, <2>3 DEF RecoveredHasher, ActiveSegments
    <3> QED BY <3>1, <3>2 DEF NoHasher
  <2>7. Untouched(disk')
    BY <1>3, RepairUntouched DEF Recover, IInv
  <2>8. Verdict(m)
    BY <2>1 DEF Verdict, Unrecoverable, IInv, SegmentsTile, Kept
  <2>9. LosesFrom(m)
    BY <1>0, <2>3, <2>4, <2>5, <2>6, <2>7, <2>8 DEF LosesFrom
  <2> QED BY <2>1, <2>9 DEF StepKind
<1> QED BY <1>1, <1>2, <1>3

LEMMA CrashKind ==
    ASSUME IInv, NEW d, CrashWith(d), Untouched(d)
    PROVE  StepKind /\ source' = source
<1>1. CachesStay
  BY ForgottenCaches DEF CrashWith, CachesStay
<1>2. Untouched(disk')
  BY DEF CrashWith, Untouched
<1> QED BY <1>1, <1>2 DEF CrashWith, db, StepKind, RowsStay

LEMMA StepKinds == IInv /\ [Next]_vars => StepKind /\ source' = source
<1> SUFFICES ASSUME IInv, [Next]_vars PROVE StepKind /\ source' = source
  OBVIOUS
<1>0. TypeOK /\ Untouched(disk)
  BY DEF IInv, Untouched
<1>1. CASE OpenCapture
  BY <1>1, NothingMoved DEF OpenCapture
<1>2. ASSUME NEW pcm \in Payloads, AppendDirect(pcm) PROVE StepKind /\ source' = source
  BY <1>2, StoreKind DEF AppendDirect, Undisturbed
<1>3. ASSUME NEW k \in FrameNumbers, NEW start \in Positions, NEW pcm \in Payloads,
             NEW r \in BOOLEAN, AppendFrame(k, start, pcm, r)
      PROVE  StepKind /\ source' = source
  <2>1. source' = source
    BY <1>3 DEF AppendFrame
  <2> QED BY <1>3, <2>1, AppendFrameKind
<1>4. CASE MarkAfterFailure
  <2>1. Untouched(disk') /\ CachesStay
    BY <1>4 DEF MarkAfterFailure, Untouched, CachesStay
  <2> QED BY <1>4, <2>1 DEF MarkAfterFailure, StepKind, RowsStay
<1>5. CASE ForgetAfterFailure
  <2>1. Untouched(disk') /\ CachesStay
    BY <1>5, ForgottenCaches DEF ForgetAfterFailure, Untouched, CachesStay
  <2> QED BY <1>5, <2>1 DEF ForgetAfterFailure, db, StepKind, RowsStay
<1>6. CASE CallerMarksIncomplete
  BY <1>6, NothingMoved DEF CallerMarksIncomplete, MarkIncomplete
<1>7. ASSUME NEW a \in Positions, NEW b \in Positions, ReadQuarantines(a, b)
      PROVE  StepKind /\ source' = source
  <2>1. a \in Nat /\ b \in Nat
    BY SegmentAssumption DEF Positions
  <2>2. Verdict(FirstInvalid(a, b)) /\ FirstInvalid(a, b) \in DOMAIN segs
    BY <1>0, <1>7, <2>1, InvalidVerdict, FirstInvalidInRange DEF ReadQuarantines, Verdict
  <2> QED BY <1>7, <2>2, QuarantineLoses DEF ReadQuarantines, StepKind
<1>8. ASSUME NEW r \in BOOLEAN, Finalize(r) PROVE StepKind /\ source' = source
  <2>1. source' = source
    BY <1>8 DEF Finalize
  <2> QED BY <1>8, <2>1, FinalizeKind
<1>9. ASSUME NEW r \in BOOLEAN, FinalizeFails(r) PROVE StepKind /\ source' = source
  <2>1. \A i \in DOMAIN segs : Matches(segs[i], disk[i])
    BY <1>9 DEF FinalizeFails, Stuck
  <2>2. disk' = RepairedDisk /\ Untouched(RepairedDisk)
    BY <1>0, <1>9, <2>1, RepairUntouched DEF FinalizeFails
  <2>3. Untouched(disk') /\ CachesStay
    BY <1>9, <2>2 DEF FinalizeFails, CachesStay
  <2> QED BY <1>9, <2>3 DEF FinalizeFails, db, StepKind, RowsStay
<1>10. CASE Crash
  BY <1>0, <1>10, CrashKind DEF Crash
<1>11. ASSUME NEW pcm \in Payloads, CrashInAppend(pcm) PROVE StepKind /\ source' = source
  BY <1>11, InterruptedUntouched, CrashKind DEF CrashInAppend
<1>12. CASE CrashInFinalize
  <2>1. \A i \in DOMAIN segs : Matches(segs[i], disk[i])
    BY <1>12 DEF CrashInFinalize, Stuck
  <2> QED BY <1>0, <1>12, <2>1, RepairUntouched, CrashKind DEF CrashInFinalize
<1>13. CASE Recover
  <2>1. source' = source
    BY <1>13 DEF Recover
  <2> QED BY <1>13, <2>1, RecoverKind
<1>14. CASE RecoverFails
  <2>1. Untouched(disk') /\ CachesStay
    BY <1>0, <1>14, RepairUntouched DEF RecoverFails, CachesStay
  <2> QED BY <1>14, <2>1 DEF RecoverFails, StepKind, RowsStay
<1>15. ASSUME NEW i \in Slots, NEW kind \in DamageKinds, Damage(i, kind)
       PROVE  StepKind /\ source' = source
  <2>1. CachesStay
    BY <1>15 DEF Damage, CachesStay
  <2>2. damaged' = damaged \cup {i} /\ UNCHANGED <<source, db>>
    BY <1>15 DEF Damage
  <2>3. \A j \in Slots \ {i} : disk'[j] = disk[j]
    <3>1. PICK f : disk' = [disk EXCEPT ![i] = f]
      BY <1>15, Zenon DEF Damage
    <3> QED BY <1>0, <3>1 DEF TypeOK
  <2>4. "altered" \notin DamageKinds => disk'[i] = NoFile
    <3> SUFFICES ASSUME "altered" \notin DamageKinds PROVE disk'[i] = NoFile
      OBVIOUS
    <3>1. kind # "altered"
      OBVIOUS
    <3>2. disk' = [disk EXCEPT ![i] = NoFile]
      BY <1>15, <3>1 DEF Damage
    <3> QED BY <1>0, <3>2 DEF TypeOK
  <2>5. DamageDone
    BY <2>2, <2>3, <2>4 DEF DamageDone
  <2> QED BY <2>1, <2>2, <2>5 DEF db, StepKind, RowsStay
<1>16. CASE UNCHANGED vars
  BY <1>16, NothingMoved DEF vars, db
<1> QED
  BY <1>1, <1>2, <1>3, <1>4, <1>5, <1>6, <1>7, <1>8, <1>9, <1>10, <1>11, <1>12, <1>13,
     <1>14, <1>15, <1>16 DEF Next

--------------------------------------------------------------------------------
(* Receipts tile. *)

\* The rows after an append, one by one.
LEMMA AddedRows ==
    ASSUME IInv, NEW pcm \in Payloads, Adds(pcm)
    PROVE  /\ Kept = DOMAIN segs /\ Kept' = DOMAIN segs'
           /\ Len(segs) \in Nat /\ DOMAIN segs = 1..Len(segs) /\ Len(segs') \in Nat
           /\ DOMAIN segs' = 1..Len(segs') /\ Len(segs') = LastTarget(pcm)
           /\ Target \in {Len(segs), Len(segs) + 1} /\ Target \in DOMAIN segs'
           /\ (Target = Len(segs)) <=> TailOpen
           /\ \A i \in 1..(Target - 1) : segs'[i] = segs[i] /\ i \in DOMAIN segs
           /\ segs'[Target] = Row1(pcm)
           /\ Rest(pcm) # <<>> => segs'[Target + 1] = Row2(pcm) /\ Len(segs') = Target + 1
           /\ Rest(pcm) = <<>> => Len(segs') = Target
           /\ count' = count + Len(pcm)
           /\ segs' \in Seq(Segments)
           /\ TailOpen => segs[Target].status = "ACTIVE" /\ Used = segs[Target].committed
<1> DEFINE n == Len(segs)
<1>1. /\ Appendable /\ Writable /\ LastTarget(pcm) <= MaxSegments
      /\ segs' = AppendedSegs(pcm) /\ count' = count + Len(pcm)
  BY DEF Adds, StoreCommits
<1>2. /\ DOMAIN segs = 1..n /\ n \in Nat /\ segs \in Seq(Segments) /\ TypeOK
  BY RowsType DEF IInv, TypeOK
<1>3. /\ segs' \in Seq(Segments) /\ Len(segs') = LastTarget(pcm)
      /\ DOMAIN segs' = 1..LastTarget(pcm) /\ Len(segs') \in Nat
      /\ Row1(pcm) \in Segments
  BY <1>1, <1>2, AppendType, LenProperties
<1>4. /\ TailOpen => Target = n /\ n \in DOMAIN segs /\ Used = segs[n].committed
      /\ ~TailOpen => Target = n + 1
      /\ TailOpen => segs[n].status = "ACTIVE"
  <2>1. segs # <<>> <=> n # 0
    BY <1>2, EmptySeq
  <2>2. n # 0 => n \in DOMAIN segs
    BY <1>2
  <2>3. n # 0 => /\ segs[n].committed \in 1..SegmentSamples
                 /\ segs[n].status = "FINALIZED" => segs[n].committed = SegmentSamples
                 /\ segs[n].status \in {"ACTIVE", "FINALIZED"}
    BY <1>1, <2>2, AppendableRows
  <2> QED BY <2>1, <2>2, <2>3, SegmentAssumption DEF TailOpen, Target, Used
<1>5. Target \in 1..(n + 1) /\ LastTarget(pcm) = IF Rest(pcm) = <<>> THEN Target ELSE Target + 1
  BY <1>2, <1>4 DEF LastTarget
<1>6. /\ \A i \in 1..(Target - 1) : Segs1(pcm)[i] = segs[i]
      /\ Segs1(pcm)[Target] = Row1(pcm) /\ Len(Segs1(pcm)) = Target
      /\ DOMAIN Segs1(pcm) = 1..Target
  <2>1. CASE TailOpen
    BY <2>1, <1>2, <1>4 DEF Segs1
  <2>2. CASE ~TailOpen
    <3>1. Segs1(pcm) = Append(segs, Row1(pcm)) /\ Target = Len(segs) + 1
      BY <2>2, <1>4 DEF Segs1
    <3> QED BY <3>1, <1>2, <1>3
  <2> QED BY <2>1, <2>2
<1>7. /\ \A i \in 1..(Target - 1) : segs'[i] = segs[i]
      /\ segs'[Target] = Row1(pcm)
      /\ Rest(pcm) # <<>> => segs'[Target + 1] = Row2(pcm)
  <2>1. CASE Rest(pcm) = <<>>
    BY <2>1, <1>1, <1>6 DEF AppendedSegs
  <2>2. CASE Rest(pcm) # <<>>
    <3>1. segs' = Append(Segs1(pcm), Row2(pcm))
      BY <2>2, <1>1 DEF AppendedSegs
    <3> QED BY <3>1, <1>5, <1>6
  <2> QED BY <2>1, <2>2
<1>8. Kept = DOMAIN segs /\ \A i \in DOMAIN segs : segs[i].status # "GAP"
  BY <1>1, AppendableRows DEF Kept
<1>9. Kept' = DOMAIN segs'
  <2>1. Row1(pcm).status # "GAP" /\ (Rest(pcm) # <<>> => Row2(pcm).status # "GAP")
    BY <1>1, <1>2, AppendedRows
  <2>2. \A i \in DOMAIN segs' : i \in 1..(Target - 1) \/ i = Target \/ (Rest(pcm) # <<>> /\ i = Target + 1)
    BY <1>3, <1>5
  <2>3. \A i \in 1..(Target - 1) : i \in DOMAIN segs
    BY <1>2, <1>5
  <2> QED BY <1>7, <1>8, <2>1, <2>2, <2>3 DEF Kept
<1>10. Target - 1 <= n /\ (Target = n <=> TailOpen)
  BY <1>2, <1>4
<1>11. /\ Target \in {n, n + 1} /\ Target \in DOMAIN segs'
       /\ Rest(pcm) # <<>> => Len(segs') = Target + 1
       /\ Rest(pcm) = <<>> => Len(segs') = Target
  <2>1. /\ Rest(pcm) # <<>> => LastTarget(pcm) = Target + 1
        /\ Rest(pcm) = <<>> => LastTarget(pcm) = Target
    BY <1>5
  <2>2. Target \in {n, n + 1}
    BY DEF Target
  <2>3. n \in Nat /\ Target \in 1..(n + 1)
    BY <1>2, <1>5
  <2>4. Target \in Nat /\ Target >= 1
    BY <2>3
  <2>5. Target \in 1..LastTarget(pcm)
    BY <2>1, <2>4
  <2> QED BY <1>3, <2>1, <2>2, <2>5
<1>12. \A i \in 1..(Target - 1) : segs'[i] = segs[i] /\ i \in DOMAIN segs
  <2>1. \A i \in 1..(Target - 1) : i \in DOMAIN segs
    BY <1>2, <1>5
  <2> QED BY <2>1, <1>7
<1>13. TailOpen => segs[Target].status = "ACTIVE" /\ Used = segs[Target].committed
  BY <1>4
<1>14. /\ n \in Nat /\ DOMAIN segs = 1..n /\ Len(segs') \in Nat
       /\ DOMAIN segs' = 1..Len(segs') /\ Len(segs') = LastTarget(pcm) /\ segs' \in Seq(Segments)
  BY <1>2, <1>3
<1>15. count' = count + Len(pcm)
  BY <1>1
<1> QED BY <1>7, <1>8, <1>9, <1>10, <1>11, <1>12, <1>13, <1>14, <1>15, Zenon

\* What a step of each kind does to the receipts and what they cover.
LEMMA RowsInvStep == RowsInv /\ [Next]_vars => RowsInv'
<1> SUFFICES ASSUME RowsInv, [Next]_vars PROVE RowsInv'
  OBVIOUS
<1>0. /\ IInv /\ TypeOK /\ ReceiptsTile /\ FramesOfBrowser /\ GapsBehind
      /\ source' = source /\ source \in {"BROWSER", "ALSA"}
      /\ Len(segs) \in Nat /\ DOMAIN segs = 1..Len(segs) /\ count \in Nat
      /\ \A i \in DOMAIN segs : segs[i].start \in Nat /\ segs[i].committed \in Nat
  BY StepKinds, RowsType DEF RowsInv, IInv, TypeOK
<1>1. IInv'
  BY <1>0, IInvStep
<1>2. CASE RowsStay
  <2>1. Kept' = Kept /\ HasGap' = HasGap
    BY <1>2 DEF RowsStay, Kept, HasGap
  <2>2. ReceiptsTile' /\ FramesOfBrowser' /\ GapsBehind'
    BY <1>0, <1>2, <2>1 DEF RowsStay, ReceiptsTile, FramesOfBrowser, GapsBehind
  <2> QED BY <1>1, <2>2 DEF RowsInv
<1>3. ASSUME NEW k \in DOMAIN segs, LosesFrom(k) PROVE RowsInv'
  <2>1. /\ segs' = [j \in DOMAIN segs |-> IF j < k THEN segs[j] ELSE Gap(segs[j])]
        /\ count' = Cursor(k) /\ frames' = frames
        /\ \A j \in DOMAIN segs : j < k => j \in Kept
    BY <1>3 DEF LosesFrom
  <2>2. \A j \in DOMAIN segs : Gap(segs[j]).status = "GAP" /\ Gap(segs[j]).start = segs[j].start
    BY <1>0, RowsType DEF Gap, Segments
  <2>3. Kept' = {j \in DOMAIN segs : j < k} /\ DOMAIN segs' = DOMAIN segs
    BY <1>0, <2>1, <2>2 DEF Kept
  <2>4. HasGap'
    BY <1>0, <2>3 DEF HasGap
  <2>5. ASSUME NEW j \in DOMAIN segs, ~(j < k) PROVE segs[j].start >= count'
    <3>1. CASE k = 1
      BY <1>0, <2>1, <3>1 DEF Cursor
    <3>2. CASE k # 1
      <4>1. k - 1 \in Kept /\ count' = SegEnd(segs[k - 1])
        BY <1>0, <2>1, <3>2 DEF Cursor
      <4>2. /\ \A m \in Kept : k - 1 < m => SegEnd(segs[k - 1]) <= segs[m].start
            /\ SegEnd(segs[k - 1]) <= count
        BY <1>0, <4>1, TileOrder
      <4>3. SegEnd(segs[k - 1]) \in Nat
        BY <1>0, <4>1 DEF SegEnd, Kept
      <4>4. CASE j \in Kept
        BY <1>0, <2>5, <4>1, <4>2, <4>3, <4>4
      <4>5. CASE j \notin Kept
        <5>1. segs[j].start >= count
          BY <1>0, <4>5 DEF GapsBehind
        <5> QED BY <1>0, <4>1, <4>2, <4>3, <5>1
      <4> QED BY <4>4, <4>5
    <3> QED BY <3>1, <3>2
  <2>6. GapsBehind'
    BY <2>1, <2>2, <2>3, <2>5 DEF GapsBehind
  <2>7. ReceiptsTile' /\ FramesOfBrowser'
    BY <1>0, <2>1, <2>4 DEF ReceiptsTile, FramesOfBrowser
  <2> QED BY <1>1, <2>6, <2>7 DEF RowsInv
<1>4. ASSUME NEW pcm \in Payloads, Adds(pcm) PROVE RowsInv'
  <2>1. Kept = DOMAIN segs /\ Kept' = DOMAIN segs' /\ count' = count + Len(pcm)
    BY <1>0, <1>4, AddedRows
  <2>2. GapsBehind'
    BY <2>1 DEF GapsBehind
  <2>3. ~HasGap /\ Len(pcm) \in Nat \ {0}
    BY <2>1, PayloadAssumption DEF HasGap
  <2>4. CASE source = "ALSA" /\ frames' = frames
    BY <1>0, <1>1, <2>2, <2>4 DEF RowsInv, ReceiptsTile, FramesOfBrowser
  <2>5. CASE source = "BROWSER" /\ frames' = Append(frames, [start |-> count, end |-> count + Len(pcm), payload |-> pcm])
    <3> DEFINE m == Len(frames)
               new == [start |-> count, end |-> count + Len(pcm), payload |-> pcm]
    <3>1. frames \in Seq(Receipts) /\ m \in Nat /\ DOMAIN frames = 1..m
      BY <1>0, LenProperties DEF TypeOK
    <3>2. /\ DOMAIN frames' = 1..(m + 1) /\ Len(frames') = m + 1
          /\ \A j \in 1..m : frames'[j] = frames[j]
          /\ frames'[m + 1] = new
      BY <2>5, <3>1
    <3>3. count = IF frames = <<>> THEN 0 ELSE frames[m].end
      BY <1>0, <2>3, <2>5 DEF ReceiptsTile
    <3>4. frames = <<>> <=> m = 0
      BY <3>1, EmptySeq
    <3>5. new.payload # <<>> /\ new.end = new.start + Len(new.payload)
      BY <2>3, PayloadAssumption
    <3>6. ASSUME NEW j \in DOMAIN frames'
          PROVE  /\ frames'[j].start = IF j = 1 THEN 0 ELSE frames'[j - 1].end
                 /\ frames'[j].end = frames'[j].start + Len(frames'[j].payload)
                 /\ frames'[j].payload # <<>>
      <4>1. CASE j \in 1..m
        <5>1. frames'[j] = frames[j] /\ (j # 1 => frames'[j - 1] = frames[j - 1])
          BY <3>1, <3>2, <4>1
        <5> QED BY <1>0, <3>1, <4>1, <5>1 DEF ReceiptsTile
      <4>2. CASE j = m + 1
        <5>1. j # 1 => frames'[j - 1] = frames[m]
          BY <3>1, <3>2, <4>2
        <5>2. j = 1 <=> m = 0
          BY <3>1, <4>2
        <5> QED BY <3>2, <3>3, <3>4, <3>5, <4>2, <5>1, <5>2
      <4> QED BY <3>1, <3>2, <4>1, <4>2
    <3>7. frames' # <<>> /\ frames'[Len(frames')].end = count'
      BY <2>1, <3>1, <3>2, EmptySeq
    <3>8. ReceiptsTile'
      BY <3>6, <3>7 DEF ReceiptsTile
    <3>9. FramesOfBrowser'
      BY <1>0, <2>5 DEF FramesOfBrowser
    <3> QED BY <1>1, <2>2, <3>8, <3>9 DEF RowsInv
  <2> QED BY <1>4, <2>4, <2>5 DEF Adds
<1>5. CASE Finalizes
  <2>1. /\ segs' = FinalizedSegs /\ count' = count /\ frames' = frames /\ Stuck = {}
        /\ status' = "COMPLETE"
    BY <1>5 DEF Finalizes, FinalizeCommits
  <2>2. Kept = DOMAIN segs
    BY <2>1, VerifiedIsKept DEF Stuck, Kept
  <2>3. ~HasGap' /\ Kept' = DOMAIN segs'
    BY <1>1, <2>1 DEF IInv, SegmentsTile, HasGap
  <2>4. GapsBehind' /\ ~HasGap
    BY <2>2, <2>3 DEF GapsBehind, HasGap
  <2>5. ReceiptsTile' /\ FramesOfBrowser'
    BY <1>0, <2>1, <2>4 DEF ReceiptsTile, FramesOfBrowser
  <2> QED BY <1>1, <2>4, <2>5 DEF RowsInv
<1> QED BY <1>0, <1>2, <1>3, <1>4, <1>5, StepKinds DEF StepKind

LEMMA RowsInvInit == Init => RowsInv
<1> SUFFICES ASSUME Init PROVE ReceiptsTile /\ FramesOfBrowser /\ GapsBehind
  BY IInvInit DEF RowsInv
<1>1. DOMAIN segs = {} /\ DOMAIN frames = {} /\ count = 0 /\ frames = <<>>
  BY DEF Init
<1> QED BY <1>1 DEF ReceiptsTile, FramesOfBrowser, GapsBehind

LEMMA RowsInvariance == Spec => []RowsInv
  BY RowsInvInit, RowsInvStep, PTL DEF Spec

\* However frames arrive, repeat, fail and are replayed, the receipts tile the recording in
\* the order of their sequence numbers, up to what was given up.
THEOREM ReceiptsAlwaysTile == Spec => []ReceiptsTile
  BY RowsInvariance, PTL DEF RowsInv

--------------------------------------------------------------------------------
(* The log of the recorded samples. *)

\* Every recorded sample is in the digest of one kept segment, and the log says what is there.
LogIs ==
    /\ DOMAIN ArchivedLog = 1..count
    /\ ArchivedLog = [p \in 1..count |-> ArchivedLog[p]]
    /\ \A i \in Kept : \A q \in 1..segs[i].committed :
          /\ segs[i].start + q \in 1..count
          /\ ArchivedLog[segs[i].start + q] = segs[i].sha.pcm[q]
    /\ \A p \in 1..count : \E i \in Kept : \E q \in 1..segs[i].committed : p = segs[i].start + q

LEMMA LogRead == IInv => LogIs
<1> SUFFICES ASSUME IInv PROVE LogIs
  OBVIOUS
<1>0. /\ DOMAIN segs = 1..Len(segs) /\ Len(segs) \in Nat /\ Kept \subseteq DOMAIN segs
      /\ \A j \in DOMAIN segs : segs[j].start \in Nat /\ segs[j].committed \in Nat
      /\ count \in Nat
      /\ \A j \in DOMAIN segs : SegEnd(segs[j]) = segs[j].start + segs[j].committed
  BY RowsType DEF IInv, TypeOK, Kept, SegEnd
<1>1. DOMAIN ArchivedLog = 1..count /\ ArchivedLog = [p \in 1..count |-> ArchivedLog[p]]
  BY DEF ArchivedLog
<1>2. ASSUME NEW i \in Kept, NEW q \in 1..segs[i].committed
      PROVE  /\ segs[i].start + q \in 1..count
             /\ ArchivedLog[segs[i].start + q] = segs[i].sha.pcm[q]
  <2> DEFINE p == segs[i].start + q
             Holds(j) == segs[j].start < p /\ p <= SegEnd(segs[j])
  <2>1. i \in DOMAIN segs /\ q \in Nat /\ q >= 1 /\ q <= segs[i].committed
        /\ segs[i].start \in Nat /\ SegEnd(segs[i]) \in Nat /\ Holds(i) /\ p \in Nat
    BY <1>0
  <2>2. SegEnd(segs[i]) <= count
    BY TileOrder
  <2>3. p \in 1..count
    BY <1>0, <2>1, <2>2
  <2>4. ASSUME NEW j \in Kept, Holds(j) PROVE j = i
    <3>1. /\ i < j => SegEnd(segs[i]) <= segs[j].start
          /\ j < i => SegEnd(segs[j]) <= segs[i].start
      BY TileOrder
    <3>2. segs[j].start \in Nat /\ SegEnd(segs[j]) \in Nat /\ j \in 1..Len(segs) /\ i \in 1..Len(segs)
      BY <1>0
    <3> QED BY <1>0, <2>1, <2>4, <3>1, <3>2
  <2>5. Holder(p) = i
    BY <2>1, <2>4, Zenon DEF Holder
  <2>6. p - segs[i].start = q
    BY <2>1
  <2> QED BY <2>3, <2>5, <2>6 DEF ArchivedLog
<1>3. ASSUME NEW p \in 1..count
      PROVE  \E i \in Kept : \E q \in 1..segs[i].committed : p = segs[i].start + q
  <2>1. p - 1 \in Nat /\ p - 1 < count
    BY <1>0
  <2>2. PICK i \in Kept : segs[i].start <= p - 1 /\ p - 1 < SegEnd(segs[i])
    BY <2>1, TileCovers
  <2>3. i \in DOMAIN segs
    BY <1>0
  <2> DEFINE q == p - segs[i].start
  <2>4. q \in 1..segs[i].committed /\ p = segs[i].start + q
    BY <1>0, <2>2, <2>3
  <2> QED BY <2>4
<1> QED BY <1>1, <1>2, <1>3 DEF LogIs

LEMMA NextLogRead == IInv' => LogIs'
  BY LogRead, PTL

\* Rows and counts that stay give the same log.
LEMMA SameLog ==
    ASSUME UNCHANGED <<segs, count>>
    PROVE  ArchivedLog' = ArchivedLog /\ Kept' = Kept
<1>1. Kept' = Kept
  BY DEF Kept
<1>2. \A p : Holder(p)' = Holder(p)
  BY <1>1 DEF Holder, SegEnd
<1> QED BY <1>1, <1>2 DEF ArchivedLog

\* A step that keeps the first n samples in the digests of kept segments keeps the log up to n.
LEMMA LogKept ==
    ASSUME IInv, IInv', NEW n \in Nat, n <= count, n <= count',
           \A i \in Kept : segs[i].start < n =>
               /\ i \in Kept' /\ segs'[i].start = segs[i].start
               /\ segs'[i].committed >= segs[i].committed
               /\ \A q \in 1..segs[i].committed : segs'[i].sha.pcm[q] = segs[i].sha.pcm[q]
    PROVE  \A p \in 1..n : ArchivedLog'[p] = ArchivedLog[p]
<1> TAKE p \in 1..n
<1>0. /\ LogIs /\ LogIs' /\ count \in Nat /\ p \in 1..count
      /\ \A i \in DOMAIN segs : segs[i].start \in Nat /\ segs[i].committed \in Nat
      /\ \A i \in DOMAIN segs' : segs'[i].committed \in Nat
      /\ Kept \subseteq DOMAIN segs /\ Kept' \subseteq DOMAIN segs'
  <2>1. LogIs /\ LogIs'
    BY LogRead, NextLogRead
  <2>2. count \in Nat
    BY DEF IInv, TypeOK
  <2>3. TypeOK /\ TypeOK'
    BY DEF IInv
  <2>4. \A i \in DOMAIN segs' : segs'[i].committed \in Nat
    <3>1. segs' \in Seq(Segments)
      BY <2>3 DEF TypeOK
    <3>2. \A i \in DOMAIN segs' : segs'[i] \in Segments
      BY <3>1, ElementOfSeq, LenProperties
    <3> QED BY <3>2 DEF Segments
  <2> QED BY <2>1, <2>2, <2>3, <2>4, RowsType DEF Kept
<1>1. PICK i \in Kept : \E q \in 1..segs[i].committed : p = segs[i].start + q
  BY <1>0 DEF LogIs
<1>2. PICK q \in 1..segs[i].committed : p = segs[i].start + q
  BY <1>1
<1>3. segs[i].start < n /\ q \in Nat
  BY <1>0, <1>2
<1>4. /\ i \in Kept' /\ segs'[i].start = segs[i].start /\ q \in 1..segs'[i].committed
      /\ segs'[i].sha.pcm[q] = segs[i].sha.pcm[q]
  BY <1>0, <1>2, <1>3
<1>5. ArchivedLog[p] = segs[i].sha.pcm[q]
  BY <1>0, <1>2 DEF LogIs
<1>6. ArchivedLog'[p] = segs'[i].sha.pcm[q]
  BY <1>0, <1>2, <1>4 DEF LogIs
<1> QED BY <1>4, <1>5, <1>6

--------------------------------------------------------------------------------
(* What an append writes. *)

LEMMA WavFile ==
    ASSUME NEW h, NEW p, NEW f, f = [state |-> "wav", header |-> h, pcm |-> p]
    PROVE  f.state = "wav" /\ f.header = h /\ f.pcm = p
  OBVIOUS

\* The row and the cached digest of a file that was just written.
LEMMA WrittenRow ==
    ASSUME NEW start, NEW hashed \in Seq(Samples), NEW file \in Files, file.state = "wav",
           Len(file.pcm) = file.header, Len(hashed) = file.header, file.header <= SegmentSamples,
           NEW row, row = WrittenSegment(start, hashed, file),
           NEW cached, cached = WrittenHasher(hashed, file)
    PROVE  /\ Len(row.sha.pcm) = row.committed
           /\ hashed = file.pcm => Matches(row, file) /\ row.sha.pcm = hashed
           /\ cached.live => row.status = "ACTIVE" /\ cached.pcm = row.sha.pcm
<1>1. file.header \in Nat /\ file.pcm \in Seq(Samples)
  BY DEF Files
<1>2. CASE file.header = SegmentSamples
  <2>1. /\ row.status = "FINALIZED" /\ row.committed = file.header
        /\ row.sha = FileDigest(file)
    BY <1>2 DEF WrittenSegment
  <2>2. row.sha.pcm = file.pcm
    BY <2>1 DEF FileDigest
  <2>3. ~cached.live
    BY <1>2 DEF WrittenHasher, NoHasher
  <2>4. Matches(row, file)
    BY <1>2, <2>1 DEF Matches
  <2> QED BY <2>1, <2>2, <2>3, <2>4
<1>3. CASE file.header # SegmentSamples
  <2>1. /\ row.status = "ACTIVE" /\ row.committed = file.header
        /\ row.sha = PcmDigest(hashed)
    BY <1>3 DEF WrittenSegment
  <2>2. row.sha.pcm = hashed
    BY <2>1 DEF PcmDigest
  <2>3. cached.pcm = hashed
    BY <1>3 DEF WrittenHasher
  <2>4. ASSUME hashed = file.pcm PROVE Matches(row, file)
    <3>1. SubSeq(file.pcm, 1, file.header) = file.pcm
      <4>1. SubSeq(file.pcm, 1, file.header) \in Seq(Samples)
            /\ Len(SubSeq(file.pcm, 1, file.header)) = file.header
        BY <1>1, PrefixType
      <4>2. \A j \in 1..file.header : SubSeq(file.pcm, 1, file.header)[j] = file.pcm[j]
        BY <1>1, ElementOfSeq, SubSeqProperties
      <4> QED BY <1>1, <4>1, <4>2, SeqEqual
    <3>2. PcmDigest(SubSeq(file.pcm, 1, row.committed)) = row.sha
      BY <2>1, <2>4, <3>1
    <3> QED BY <1>1, <2>1, <3>2 DEF Matches
  <2> QED BY <2>1, <2>2, <2>3, <2>4
<1> QED BY <1>2, <1>3

\* The digest of the committed samples of the segment an append continues.
Base == IF TailOpen THEN segs[Target].sha.pcm ELSE <<>>
Sound == TailOpen => Matches(segs[Target], disk[Target])

\* The two segments an append may write, their files and the cached digests.
LEMMA AddsAudio ==
    ASSUME AudioInv, ~OverlappingReplays, NEW pcm \in Payloads, Adds(pcm)
    PROVE  /\ \A i \in 1..(Target - 1) : disk'[i] = disk[i]
           /\ Base \in Seq(Samples) /\ Len(Base) = Used
           /\ Len(Row1(pcm).sha.pcm) = Row1(pcm).committed
           /\ Sound => /\ Matches(Row1(pcm), disk'[Target])
                       /\ Row1(pcm).sha.pcm = Base \o Head1(pcm)
           /\ Rest(pcm) # <<>> => /\ Matches(Row2(pcm), disk'[Target + 1])
                                  /\ Row2(pcm).sha.pcm = Rest(pcm)
                                  /\ Len(Row2(pcm).sha.pcm) = Row2(pcm).committed
           /\ \A i \in Slots : hashers'[i].live =>
                 \/ i < Target /\ hashers'[i] = hashers[i]
                 \/ i = Target /\ Row1(pcm).status = "ACTIVE" /\ hashers'[i].pcm = Row1(pcm).sha.pcm
                 \/ /\ Rest(pcm) # <<>> /\ i = Target + 1 /\ Row2(pcm).status = "ACTIVE"
                    /\ hashers'[i].pcm = Row2(pcm).sha.pcm
<1>0. /\ IInv /\ TypeOK /\ cleanup = "none" /\ DigestsHold
      /\ Appendable /\ Writable /\ LastTarget(pcm) <= MaxSegments
      /\ disk \in [Slots -> Files] /\ hashers \in [Slots -> Hashers]
      /\ SegmentSamples \in Nat \ {0}
  BY SegmentAssumption DEF AudioInv, RowsInv, IInv, Adds, StoreCommits, TypeOK
<1>1. /\ disk' = IF Rest(pcm) = <<>> THEN Disk1(pcm) ELSE Disk2(pcm)
      /\ hashers' = IF Rest(pcm) = <<>> THEN Hashers1(pcm) ELSE Hashers2(pcm)
  BY DEF Adds, StoreCommits
<1>2. /\ Used \in Nat /\ Used < SegmentSamples /\ Target \in Nat \ {0}
      /\ Head1(pcm) \in Seq(Samples) /\ Rest(pcm) \in Seq(Samples)
      /\ Len(pcm) \in Nat \ {0}
      /\ Len(Head1(pcm)) = Lesser(SegmentSamples - Used, Len(pcm))
      /\ Len(Rest(pcm)) = Len(pcm) - Len(Head1(pcm))
      /\ Len(Head1(pcm)) \in Nat \ {0} /\ Len(Rest(pcm)) \in Nat
  BY <1>0, PiecesType
<1>3. Target \in Slots /\ (Rest(pcm) # <<>> => Target + 1 \in Slots)
  BY <1>0, <1>2, SegmentAssumption DEF LastTarget, Slots
<1>4. /\ Target \in {Len(segs), Len(segs) + 1} /\ Len(segs) \in Nat /\ DOMAIN segs = 1..Len(segs)
      /\ (Target = Len(segs)) <=> TailOpen
      /\ TailOpen => segs[Target].status = "ACTIVE" /\ Used = segs[Target].committed
      /\ Kept = DOMAIN segs
  BY <1>0, AddedRows
<1>5. TailOpen => Target \in Kept
  BY <1>2, <1>4
<1>6. Used > 0 <=> TailOpen
  <2>1. TailOpen => segs[Target].committed \in 1..SegmentSamples
    BY <1>0, <1>5 DEF IInv, SegmentsTile
  <2>2. ~TailOpen => Used = 0
    BY DEF Used
  <2> QED BY <1>0, <1>4, <2>1, <2>2
<1>7. Base \in Seq(Samples) /\ Len(Base) = Used
  <2>1. CASE TailOpen
    <3>1. segs[Target].sha.pcm \in Seq(Samples) /\ Len(segs[Target].sha.pcm) = segs[Target].committed
      BY <1>0, <1>4, <1>5, <2>1, RowsType DEF DigestsHold
    <3> QED BY <1>4, <2>1, <3>1 DEF Base
  <2>2. CASE ~TailOpen
    BY <1>6, <1>2, <2>2, EmptySeq DEF Base
  <2> QED BY <2>1, <2>2
\* The running digests.
<1>8. HashedSoFar(Target, Used) = Base
  <2>1. CASE hashers[Target].live
    <3>1. Target \in DOMAIN segs /\ hashers[Target].pcm = segs[Target].sha.pcm
      BY <1>0, <1>3, <2>1 DEF AudioInv, CachesHold
    <3>2. TailOpen
      BY <1>4, <3>1
    <3> QED BY <2>1, <3>1, <3>2 DEF HashedSoFar, Base
  <2>2. CASE ~hashers[Target].live
    <3>1. CASE TailOpen
      BY <1>6, <2>2, <3>1 DEF HashedSoFar, Base
    <3>2. CASE ~TailOpen
      <4>1. Used = 0
        BY <3>2 DEF Used
      <4> QED BY <2>2, <3>2, <4>1 DEF HashedSoFar, Base
    <3> QED BY <3>1, <3>2
  <2> QED BY <2>1, <2>2
<1>9. Rest(pcm) # <<>> => HashedSoFar(Target + 1, 0) = <<>>
  <2> SUFFICES ASSUME Rest(pcm) # <<>> PROVE HashedSoFar(Target + 1, 0) = <<>>
    OBVIOUS
  <2>1. ~hashers[Target + 1].live
    <3>1. Target + 1 \notin DOMAIN segs
      BY <1>4
    <3> QED BY <1>0, <1>3, <3>1 DEF AudioInv, CachesHold
  <2> QED BY <2>1 DEF HashedSoFar
\* The files.
<1>10. /\ Disk1(pcm) \in [Slots -> Files]
       /\ Disk1(pcm)[Target] = [state |-> "wav", header |-> Used + Len(Head1(pcm)),
                                pcm |-> SubSeq(disk[Target].pcm, 1, Used) \o Head1(pcm)]
       /\ \A i \in 1..(Target - 1) : Disk1(pcm)[i] = disk[i]
  <2>1. \A i \in 1..(Target - 1) : i \in Slots /\ i # Target
    BY <1>2, <1>3, SegmentAssumption DEF Slots
  <2> QED BY <1>0, <1>3, <2>1, AppendType DEF Disk1, WriteChunk
<1>11. Rest(pcm) # <<>> =>
          /\ Disk2(pcm) \in [Slots -> Files]
          /\ Disk2(pcm)[Target + 1] = [state |-> "wav", header |-> 0 + Len(Rest(pcm)),
                     pcm |-> SubSeq(Disk1(pcm)[Target + 1].pcm, 1, 0) \o Rest(pcm)]
          /\ \A i \in 1..Target : Disk2(pcm)[i] = Disk1(pcm)[i]
  <2>1. \A i \in 1..Target : i \in Slots /\ i # Target + 1
    BY <1>2, <1>3, SegmentAssumption DEF Slots
  <2> QED BY <1>0, <1>3, <1>10, <2>1, AppendType DEF Disk2, WriteChunk
<1>12. disk'[Target] = Disk1(pcm)[Target] /\ \A i \in 1..(Target - 1) : disk'[i] = disk[i]
  <2>1. CASE Rest(pcm) = <<>>
    BY <1>1, <1>10, <2>1
  <2>2. CASE Rest(pcm) # <<>>
    <3>1. Target \in 1..Target /\ \A i \in 1..(Target - 1) : i \in 1..Target
      BY <1>2
    <3> QED BY <1>1, <1>10, <1>11, <2>2, <3>1
  <2> QED BY <2>1, <2>2
\* The first segment.
<1> DEFINE file1 == Disk1(pcm)[Target]
           hashed1 == Hashed1(pcm)
<1>13. hashed1 = Base \o Head1(pcm)
  BY <1>8 DEF Hashed1
<1>14. /\ hashed1 \in Seq(Samples) /\ Len(hashed1) = Used + Len(Head1(pcm))
  BY <1>2, <1>7, <1>13, ConcatProperties
<1>15. Used <= Len(disk[Target].pcm) /\ disk[Target].pcm \in Seq(Samples)
  <2>1. disk[Target].pcm \in Seq(Samples) /\ Len(disk[Target].pcm) \in Nat
    BY <1>0, <1>3, LenProperties DEF Files
  <2> QED BY <1>0, <1>2, <2>1 DEF Writable
<1>16. /\ file1 \in Files /\ file1.state = "wav" /\ file1.header = Used + Len(Head1(pcm))
       /\ file1.pcm = SubSeq(disk[Target].pcm, 1, Used) \o Head1(pcm)
       /\ Len(file1.pcm) = file1.header
  <2>1. /\ file1 \in Files /\ file1.state = "wav" /\ file1.header = Used + Len(Head1(pcm))
        /\ file1.pcm = SubSeq(disk[Target].pcm, 1, Used) \o Head1(pcm)
    <3>1. file1 \in Files
      BY <1>3, <1>10
    <3> DEFINE h == Used + Len(Head1(pcm))
               p == SubSeq(disk[Target].pcm, 1, Used) \o Head1(pcm)
    <3>2. file1 = [state |-> "wav", header |-> h, pcm |-> p]
      BY <1>10
    <3> HIDE DEF file1, h, p
    <3>3. file1.state = "wav" /\ file1.header = h /\ file1.pcm = p
      BY <3>2, WavFile
    <3> QED BY <3>1, <3>3 DEF h, p
  <2>2. Len(SubSeq(disk[Target].pcm, 1, Used) \o Head1(pcm)) = Used + Len(Head1(pcm))
    BY <1>2, <1>15, CutAgain
  <2> QED BY <2>1, <2>2
<1>17. file1.header <= SegmentSamples
  BY <1>0, <1>2, <1>16 DEF Lesser
<1> DEFINE start1 == IF TailOpen THEN segs[Target].start ELSE count
<1>18. Row1(pcm) = WrittenSegment(start1, hashed1, file1)
  BY DEF Row1
<1>19. Hashers1(pcm)[Target] = WrittenHasher(hashed1, file1)
       /\ \A i \in Slots : i # Target => Hashers1(pcm)[i] = hashers[i]
  BY <1>0, <1>3 DEF Hashers1
<1>20. /\ Len(Row1(pcm).sha.pcm) = Row1(pcm).committed
       /\ hashed1 = file1.pcm => Matches(Row1(pcm), file1) /\ Row1(pcm).sha.pcm = hashed1
       /\ Hashers1(pcm)[Target].live =>
             Row1(pcm).status = "ACTIVE" /\ Hashers1(pcm)[Target].pcm = Row1(pcm).sha.pcm
  <2> DEFINE cached == Hashers1(pcm)[Target]
  <2> HIDE DEF file1, hashed1, start1
  <2>1. /\ hashed1 \in Seq(Samples) /\ Len(hashed1) = file1.header
        /\ cached = WrittenHasher(hashed1, file1)
    BY <1>14, <1>16, <1>19
  <2> HIDE DEF cached
  <2>2. /\ Len(Row1(pcm).sha.pcm) = Row1(pcm).committed
        /\ hashed1 = file1.pcm => Matches(Row1(pcm), file1) /\ Row1(pcm).sha.pcm = hashed1
        /\ cached.live => Row1(pcm).status = "ACTIVE" /\ cached.pcm = Row1(pcm).sha.pcm
    <3>1. /\ file1 \in Files /\ file1.state = "wav" /\ Len(file1.pcm) = file1.header
          /\ file1.header <= SegmentSamples
      BY <1>16, <1>17
    <3> QED BY <1>18, <2>1, <3>1, WrittenRow
  <2> QED BY <2>2 DEF cached
<1>21. Sound => hashed1 = file1.pcm
  <2> SUFFICES ASSUME Sound PROVE SubSeq(disk[Target].pcm, 1, Used) = Base
    BY <1>13, <1>16
  <2>1. CASE TailOpen
    <3>1. PcmDigest(SubSeq(disk[Target].pcm, 1, segs[Target].committed)) = segs[Target].sha
      BY <1>4, <2>1 DEF Sound, Matches
    <3> QED BY <1>4, <2>1, <3>1 DEF PcmDigest, Base
  <2>2. CASE ~TailOpen
    <3>1. SubSeq(disk[Target].pcm, 1, Used) \in Seq(Samples) /\ Len(SubSeq(disk[Target].pcm, 1, Used)) = Used
      BY <1>2, <1>15, PrefixType
    <3>2. Used = 0
      BY <2>2 DEF Used
    <3> QED BY <2>2, <3>1, <3>2, EmptySeq DEF Base
  <2> QED BY <2>1, <2>2
\* The second.
<1>22. ASSUME Rest(pcm) # <<>>
       PROVE  /\ Matches(Row2(pcm), Disk2(pcm)[Target + 1])
              /\ Row2(pcm).sha.pcm = Rest(pcm)
              /\ Len(Row2(pcm).sha.pcm) = Row2(pcm).committed
              /\ \A i \in Slots : i # Target + 1 => Hashers2(pcm)[i] = Hashers1(pcm)[i]
              /\ Hashers2(pcm)[Target + 1].live =>
                    Row2(pcm).status = "ACTIVE" /\ Hashers2(pcm)[Target + 1].pcm = Row2(pcm).sha.pcm
  <2> DEFINE file2 == Disk2(pcm)[Target + 1]
             hashed2 == Hashed2(pcm)
             start2 == count + Len(Head1(pcm))
  <2>1. hashed2 = Rest(pcm)
    BY <1>2, <1>9, <1>22, ConcatEmptySeq DEF Hashed2
  <2>2. SubSeq(Disk1(pcm)[Target + 1].pcm, 1, 0) = <<>>
    <3>1. Disk1(pcm)[Target + 1].pcm \in Seq(Samples)
      BY <1>3, <1>10, <1>22 DEF Files
    <3> QED BY <3>1, PrefixType, LenProperties, EmptySeq
  <2>3. /\ file2 \in Files /\ file2.state = "wav" /\ file2.header = Len(Rest(pcm))
        /\ file2.pcm = Rest(pcm)
    <3>1. /\ file2 \in Files /\ file2.state = "wav" /\ file2.header = 0 + Len(Rest(pcm))
          /\ file2.pcm = SubSeq(Disk1(pcm)[Target + 1].pcm, 1, 0) \o Rest(pcm)
      BY <1>3, <1>11, <1>22
    <3> QED BY <1>2, <2>2, <3>1, ConcatEmptySeq
  <2>4. file2.header <= SegmentSamples
    <3>1. Len(pcm) <= SegmentSamples
      BY PayloadAssumption
    <3> QED BY <1>0, <1>2, <2>3, <3>1
  <2>5. Row2(pcm) = WrittenSegment(start2, hashed2, file2)
    BY DEF Row2
  <2>6. Hashers2(pcm)[Target + 1] = WrittenHasher(hashed2, file2)
        /\ \A i \in Slots : i # Target + 1 => Hashers2(pcm)[i] = Hashers1(pcm)[i]
    <3>1. Hashers1(pcm) \in [Slots -> Hashers]
      BY <1>0, AppendType
    <3> QED BY <1>3, <1>22, <3>1 DEF Hashers2
  <2> HIDE DEF file2, hashed2, start2
  <2>7. /\ Len(Row2(pcm).sha.pcm) = Row2(pcm).committed
        /\ hashed2 = file2.pcm => Matches(Row2(pcm), file2) /\ Row2(pcm).sha.pcm = hashed2
        /\ Hashers2(pcm)[Target + 1].live =>
              Row2(pcm).status = "ACTIVE" /\ Hashers2(pcm)[Target + 1].pcm = Row2(pcm).sha.pcm
    BY <1>2, <2>1, <2>3, <2>4, <2>5, <2>6, WrittenRow
  <2> QED BY <2>1, <2>3, <2>6, <2>7 DEF file2
\* The caches.
<1>23. ASSUME NEW i \in Slots, hashers'[i].live
       PROVE  \/ i < Target /\ hashers'[i] = hashers[i]
              \/ i = Target /\ Row1(pcm).status = "ACTIVE" /\ hashers'[i].pcm = Row1(pcm).sha.pcm
              \/ /\ Rest(pcm) # <<>> /\ i = Target + 1 /\ Row2(pcm).status = "ACTIVE"
                 /\ hashers'[i].pcm = Row2(pcm).sha.pcm
  <2>1. CASE Rest(pcm) # <<>> /\ i = Target + 1
    BY <1>1, <1>22, <1>23, <2>1
  <2>2. CASE ~(Rest(pcm) # <<>> /\ i = Target + 1)
    <3>1. hashers'[i] = Hashers1(pcm)[i]
      BY <1>1, <1>22, <2>2
    <3>2. CASE i = Target
      BY <1>20, <1>23, <3>1, <3>2
    <3>3. CASE i # Target
      <4>1. hashers'[i] = hashers[i]
        BY <1>19, <3>1, <3>3
      <4>2. i \in DOMAIN segs
        BY <1>0, <1>23, <4>1 DEF AudioInv, CachesHold
      <4>3. i \in 1..Len(segs) /\ Len(segs) \in Nat
        BY <1>0, <4>2, RowsType
      <4>4. Target \in {Len(segs), Len(segs) + 1}
        BY DEF Target
      <4>5. i < Target
        BY <3>3, <4>3, <4>4
      <4> QED BY <4>1, <4>5
    <3> QED BY <3>2, <3>3
  <2> QED BY <2>1, <2>2
<1>24. Rest(pcm) # <<>> => disk'[Target + 1] = Disk2(pcm)[Target + 1]
  BY <1>1
<1>25. Sound => Matches(Row1(pcm), disk'[Target]) /\ Row1(pcm).sha.pcm = Base \o Head1(pcm)
  BY <1>12, <1>13, <1>20, <1>21
<1> QED BY <1>7, <1>12, <1>20, <1>22, <1>23, <1>24, <1>25

\* The two pieces of a payload, sample by sample.
LEMMA PiecesAt ==
    ASSUME TypeOK, NEW pcm \in Payloads
    PROVE  /\ \A m \in 1..Len(Head1(pcm)) : Head1(pcm)[m] = pcm[m]
           /\ \A m \in 1..Len(Rest(pcm)) : Rest(pcm)[m] = pcm[Len(Head1(pcm)) + m]
<1> DEFINE n == Lesser(SegmentSamples - Used, Len(pcm))
<1>1. /\ pcm \in Seq(Samples) /\ Len(pcm) \in Nat \ {0} /\ Len(Head1(pcm)) = n
      /\ n \in Nat \ {0} /\ Len(Rest(pcm)) = Len(pcm) - n /\ Len(Rest(pcm)) \in Nat
  BY PiecesType
<1>2. n \in 1..Len(pcm)
  BY <1>1
<1> HIDE DEF n
<1>3. Head1(pcm) = SubSeq(pcm, 1, n) /\ Rest(pcm) = SubSeq(pcm, n + 1, Len(pcm))
  BY DEF Head1, Rest, n
<1>4. \A m \in 1..Len(pcm) : pcm[m] \in Samples
  BY <1>1, ElementOfSeq
<1>5. \A m \in 1..n : SubSeq(pcm, 1, n)[m] = pcm[m]
  BY <1>1, <1>2, <1>4, SubSeqProperties
<1>6. \A m \in 1..(Len(pcm) - n) : SubSeq(pcm, n + 1, Len(pcm))[m] = pcm[n + m]
  <2>1. \A m \in 1..(Len(pcm) - (n + 1) + 1) : SubSeq(pcm, n + 1, Len(pcm))[m] = pcm[(n + 1) + m - 1]
    BY <1>1, <1>2, <1>4, SubSeqProperties
  <2>2. Len(pcm) - (n + 1) + 1 = Len(pcm) - n
    BY <1>1, <1>2
  <2>3. \A m \in Nat : (n + 1) + m - 1 = n + m
    BY <1>2
  <2> TAKE m \in 1..(Len(pcm) - n)
  <2>4. m \in Nat /\ m \in 1..(Len(pcm) - (n + 1) + 1)
    BY <2>2
  <2> QED BY <2>1, <2>3, <2>4
<1> QED BY <1>1, <1>3, <1>5, <1>6

\* An append that goes on from a file that matches its row continues the log by the payload.
LEMMA AddsToLog ==
    ASSUME AudioInv, IInv', ~OverlappingReplays, NEW pcm \in Payloads, Adds(pcm), Sound
    PROVE  /\ \A p \in 1..count : ArchivedLog'[p] = ArchivedLog[p]
           /\ \A m \in 1..Len(pcm) : ArchivedLog'[count + m] = pcm[m]
<1>0. /\ IInv /\ TypeOK /\ count \in Nat /\ DigestsHold /\ LogIs'
      /\ Appendable /\ Writable /\ LastTarget(pcm) <= MaxSegments
  BY NextLogRead DEF AudioInv, RowsInv, IInv, TypeOK, Adds, StoreCommits
<1>1. /\ Used \in Nat /\ Target \in Nat \ {0}
      /\ Head1(pcm) \in Seq(Samples) /\ Rest(pcm) \in Seq(Samples) /\ Len(pcm) \in Nat \ {0}
      /\ Len(Rest(pcm)) = Len(pcm) - Len(Head1(pcm))
      /\ Len(Head1(pcm)) \in Nat \ {0} /\ Len(Rest(pcm)) \in Nat
      /\ (Rest(pcm) = <<>>) <=> (Len(Rest(pcm)) = 0)
  BY <1>0, PiecesType
<1>2. /\ Kept = DOMAIN segs /\ Kept' = DOMAIN segs'
      /\ Len(segs) \in Nat /\ DOMAIN segs = 1..Len(segs)
      /\ Target \in DOMAIN segs'
      /\ (Target = Len(segs)) <=> TailOpen
      /\ \A i \in 1..(Target - 1) : segs'[i] = segs[i] /\ i \in DOMAIN segs
      /\ segs'[Target] = Row1(pcm)
      /\ Rest(pcm) # <<>> => segs'[Target + 1] = Row2(pcm) /\ Len(segs') = Target + 1
      /\ DOMAIN segs' = 1..Len(segs')
      /\ count' = count + Len(pcm)
      /\ TailOpen => Used = segs[Target].committed
  BY <1>0, AddedRows
<1>3. /\ Row1(pcm).start = IF TailOpen THEN segs[Target].start ELSE count
      /\ Row1(pcm).committed = Used + Len(Head1(pcm))
      /\ Rest(pcm) # <<>> => /\ Row2(pcm).start = count + Len(Head1(pcm))
                             /\ Row2(pcm).committed = Len(Rest(pcm))
  BY <1>0, AppendedRows
<1>4. /\ Base \in Seq(Samples) /\ Len(Base) = Used
      /\ Row1(pcm).sha.pcm = Base \o Head1(pcm)
      /\ Rest(pcm) # <<>> => Row2(pcm).sha.pcm = Rest(pcm)
  BY AddsAudio
<1>5. /\ \A q \in 1..Used : Row1(pcm).sha.pcm[q] = Base[q]
      /\ \A m \in 1..Len(Head1(pcm)) : Row1(pcm).sha.pcm[Used + m] = Head1(pcm)[m]
  <2>1. \A q \in 1..(Used + Len(Head1(pcm))) :
           (Base \o Head1(pcm))[q] = IF q <= Used THEN Base[q] ELSE Head1(pcm)[q - Used]
    BY <1>1, <1>4, ConcatProperties
  <2> QED BY <1>1, <1>4, <2>1
<1>6. Row1(pcm).start \in Nat /\ Row1(pcm).start + Used = count
  <2>1. CASE TailOpen
    <3>1. Cursor(Len(segs) + 1) = count /\ Target = Len(segs) /\ Target \in DOMAIN segs
      BY <1>0, <1>1, <1>2, <2>1, AppendableRows
    <3>2. segs[Target].start + segs[Target].committed = count
      BY <1>1, <3>1 DEF Cursor, SegEnd
    <3> QED BY <1>0, <1>2, <1>3, <2>1, <3>1, <3>2, RowsType
  <2>2. CASE ~TailOpen
    <3>1. Used = 0
      BY <2>2 DEF Used
    <3> QED BY <1>0, <1>3, <2>2, <3>1
  <2> QED BY <2>1, <2>2
<1>7. ASSUME NEW i \in Kept
      PROVE  /\ i \in Kept' /\ segs'[i].start = segs[i].start
             /\ segs'[i].committed >= segs[i].committed
             /\ \A q \in 1..segs[i].committed : segs'[i].sha.pcm[q] = segs[i].sha.pcm[q]
  <2>1. i \in 1..Len(segs) /\ segs[i].committed \in Nat
    BY <1>0, <1>2, RowsType
  <2>2. Target \in {Len(segs), Len(segs) + 1}
    BY DEF Target
  <2>3. CASE i # Target
    <3>1. i \in 1..(Target - 1)
      BY <1>2, <2>1, <2>2, <2>3
    <3>2. segs'[i] = segs[i]
      BY <1>2, <3>1
    <3>3. i \in DOMAIN segs'
      BY <1>2, <3>1
    <3> QED BY <1>2, <2>1, <3>2, <3>3
  <2>4. CASE i = Target
    <3>1. Target = Len(segs)
      BY <2>1, <2>2, <2>4
    <3>2. TailOpen
      BY <1>2, <3>1
    <3>3. Base = segs[i].sha.pcm /\ Used = segs[i].committed
      BY <1>2, <2>4, <3>2 DEF Base
    <3>4. segs'[i] = Row1(pcm) /\ Row1(pcm).start = segs[i].start
      BY <1>2, <1>3, <2>4, <3>2
    <3>5. Row1(pcm).committed >= segs[i].committed
      BY <1>1, <1>3, <3>3
    <3> QED BY <1>2, <1>5, <2>4, <3>3, <3>4, <3>5
  <2> QED BY <2>3, <2>4
<1>8. \A p \in 1..count : ArchivedLog'[p] = ArchivedLog[p]
  <2>0. count' = count + Len(pcm)
    BY <1>2
  <2>1. count <= count'
    BY <1>0, <1>1, <2>0
  <2>2. count <= count
    BY <1>0
  <2> QED BY <1>0, <1>7, <2>1, <2>2, LogKept
<1>9. ASSUME NEW m \in 1..Len(pcm), m <= Len(Head1(pcm)) PROVE ArchivedLog'[count + m] = pcm[m]
  <2>0. segs'[Target] = Row1(pcm) /\ Target \in Kept'
    BY <1>2
  <2>1. Used + m \in 1..segs'[Target].committed /\ m \in 1..Len(Head1(pcm)) /\ m \in Nat
    <3>1. m \in Nat /\ m >= 1 /\ m <= Len(Head1(pcm))
      BY <1>1, <1>9
    <3>2. segs'[Target].committed = Used + Len(Head1(pcm))
      BY <1>3, <2>0
    <3> QED BY <1>1, <3>1, <3>2
  <2>2. ArchivedLog'[segs'[Target].start + (Used + m)] = segs'[Target].sha.pcm[Used + m]
    BY <1>0, <2>0, <2>1 DEF LogIs
  <2>3. segs'[Target].start + (Used + m) = count + m
    <3>1. segs'[Target].start = Row1(pcm).start
      BY <2>0
    <3> QED BY <1>1, <1>6, <2>1, <3>1
  <2>4. segs'[Target].sha.pcm[Used + m] = pcm[m]
    BY <1>0, <1>2, <1>5, <2>1, PiecesAt
  <2> QED BY <2>2, <2>3, <2>4
<1>10. ASSUME NEW m \in 1..Len(pcm), ~(m <= Len(Head1(pcm))) PROVE ArchivedLog'[count + m] = pcm[m]
  <2> DEFINE h == Len(Head1(pcm))
  <2>1. Len(Rest(pcm)) # 0 /\ m - h \in 1..Len(Rest(pcm)) /\ h + (m - h) = m /\ h \in Nat /\ m \in Nat
    BY <1>1, <1>10
  <2>2. Rest(pcm) # <<>>
    BY <1>1, <2>1
  <2>3. /\ segs'[Target + 1] = Row2(pcm) /\ Target + 1 \in Kept'
        /\ Row2(pcm).start = count + h /\ Row2(pcm).committed = Len(Rest(pcm))
        /\ Row2(pcm).sha.pcm = Rest(pcm)
    <3>1. segs'[Target + 1] = Row2(pcm) /\ Target + 1 \in Kept'
      BY <1>2, <2>2
    <3>2. Row2(pcm).start = count + h /\ Row2(pcm).committed = Len(Rest(pcm))
      BY <1>3, <2>2
    <3>3. Row2(pcm).sha.pcm = Rest(pcm)
      BY <1>4, <2>2
    <3> QED BY <3>1, <3>2, <3>3, Zenon
  <2>4. ArchivedLog'[segs'[Target + 1].start + (m - h)] = segs'[Target + 1].sha.pcm[m - h]
    <3>1. LogIs'
      BY <1>0
    <3>2. \A i \in Kept' : \A q \in 1..segs'[i].committed :
              ArchivedLog'[segs'[i].start + q] = segs'[i].sha.pcm[q]
      BY <3>1 DEF LogIs
    <3>3. Target + 1 \in Kept' /\ m - h \in 1..segs'[Target + 1].committed
      BY <2>1, <2>3
    <3> QED BY <3>2, <3>3
  <2>5. segs'[Target + 1].start + (m - h) = count + m
    <3>1. count \in Nat /\ segs'[Target + 1].start = count + h
      BY <1>0, <2>3
    <3> HIDE DEF h
    <3> QED BY <2>1, <3>1
  <2>6. Rest(pcm)[m - h] = pcm[m]
    BY <1>0, <2>1, PiecesAt
  <2> QED BY <2>3, <2>4, <2>5, <2>6
<1> QED BY <1>8, <1>9, <1>10

\* Unless samples may be altered, an append only ever continues a file that matches its row.
LEMMA AppendIsSound ==
    ASSUME AudioInv, NEW pcm \in Payloads, Adds(pcm)
    PROVE  TailOpen => /\ Target \in Kept
                       /\ \/ Matches(segs[Target], disk[Target])
                          \/ Target \in damaged /\ "altered" \in DamageKinds
<1> SUFFICES ASSUME TailOpen
             PROVE  /\ Target \in Kept
                    /\ \/ Matches(segs[Target], disk[Target])
                       \/ Target \in damaged /\ "altered" \in DamageKinds
  OBVIOUS
<1>0. IInv /\ FilesHold /\ Writable /\ SegmentSamples \in Nat
  BY SegmentAssumption DEF AudioInv, RowsInv, Adds, StoreCommits
<1>1. /\ Kept = DOMAIN segs /\ (Target = Len(segs)) <=> TailOpen
      /\ Len(segs) \in Nat /\ DOMAIN segs = 1..Len(segs)
      /\ TailOpen => Used = segs[Target].committed
  BY <1>0, AddedRows
<1>2. Target = Len(segs) /\ Target \in Nat \ {0}
  BY <1>0, <1>1, PiecesType DEF IInv
<1>3. Target \in Kept
  BY <1>1, <1>2
<1>4. Used > 0
  <2>1. segs[Target].committed \in 1..SegmentSamples
    BY <1>0, <1>3 DEF IInv, SegmentsTile
  <2> QED BY <1>0, <1>1, <2>1
<1>5. disk[Target] # NoFile
  BY <1>0, <1>4 DEF Writable, NoFile
<1> QED BY <1>0, <1>3, <1>5 DEF FilesHold

--------------------------------------------------------------------------------
(* The audio invariant is inductive. *)

\* What is given up is a suffix of the log.
LEMMA LosesToLog ==
    ASSUME IInv, IInv', NEW k \in DOMAIN segs, LosesFrom(k)
    PROVE  /\ count' <= count /\ Kept' = {j \in DOMAIN segs : j < k} /\ Kept' \subseteq Kept
           /\ \A j \in Kept' : segs'[j] = segs[j]
           /\ HasGap'
           /\ \A p \in 1..count' : ArchivedLog'[p] = ArchivedLog[p]
<1>0. /\ DOMAIN segs = 1..Len(segs) /\ Len(segs) \in Nat /\ TypeOK /\ Kept \subseteq DOMAIN segs
      /\ count \in Nat /\ count' \in Nat
      /\ \A i \in DOMAIN segs : segs[i].start \in Nat /\ segs[i].committed \in Nat
      /\ \A i \in DOMAIN segs : SegEnd(segs[i]) = segs[i].start + segs[i].committed
  BY RowsType DEF IInv, TypeOK, Kept, SegEnd
<1>1. /\ segs' = [j \in DOMAIN segs |-> IF j < k THEN segs[j] ELSE Gap(segs[j])]
      /\ count' = Cursor(k)
      /\ \A j \in DOMAIN segs : j < k => j \in Kept
  BY DEF LosesFrom
<1>2. \A j \in DOMAIN segs : Gap(segs[j]).status = "GAP"
  BY <1>0, RowsType DEF Gap, Segments
<1>3. Kept' = {j \in DOMAIN segs : j < k} /\ \A j \in Kept' : segs'[j] = segs[j] /\ j \in Kept
  BY <1>0, <1>1, <1>2 DEF Kept
<1>4. HasGap'
  BY <1>0, <1>1, <1>3 DEF HasGap
<1>5. count' <= count /\ \A i \in Kept : segs[i].start < count' => i < k
  <2>1. CASE k = 1
    BY <1>0, <1>1, <2>1 DEF Cursor
  <2>2. CASE k # 1
    <3>1. k - 1 \in Kept /\ count' = SegEnd(segs[k - 1])
      BY <1>0, <1>1, <2>2 DEF Cursor
    <3>2. /\ \A m \in Kept : k - 1 < m => SegEnd(segs[k - 1]) <= segs[m].start
          /\ SegEnd(segs[k - 1]) <= count
      BY <3>1, TileOrder
    <3>3. ASSUME NEW i \in Kept, segs[i].start < count' PROVE i < k
      <4>1. ~(k - 1 < i)
        BY <1>0, <3>1, <3>2, <3>3
      <4> QED BY <1>0, <4>1
    <3> QED BY <3>1, <3>2, <3>3
  <2> QED BY <2>1, <2>2
<1>6. ASSUME NEW i \in Kept, segs[i].start < count'
      PROVE  /\ i \in Kept' /\ segs'[i].start = segs[i].start
             /\ segs'[i].committed >= segs[i].committed
             /\ \A q \in 1..segs[i].committed : segs'[i].sha.pcm[q] = segs[i].sha.pcm[q]
  <2>1. i \in Kept' /\ segs'[i] = segs[i] /\ segs[i].committed \in Nat
    BY <1>0, <1>3, <1>5, <1>6
  <2> QED BY <2>1
<1>7. \A p \in 1..count' : ArchivedLog'[p] = ArchivedLog[p]
  <2>1. count' <= count'
    BY <1>0
  <2> QED BY <1>0, <1>5, <1>6, <2>1, LogKept
<1> QED BY <1>3, <1>4, <1>5, <1>7

\* A finalization changes no sample.
LEMMA FinalizesToLog ==
    ASSUME IInv, IInv', Finalizes
    PROVE  /\ Kept = DOMAIN segs /\ Kept' = Kept /\ count' = count /\ frames' = frames
           /\ \A i \in Kept : /\ Matches(segs[i], disk[i])
                              /\ segs'[i].committed = segs[i].committed
                              /\ segs'[i].start = segs[i].start
                              /\ segs'[i].status = "FINALIZED"
                              /\ segs'[i].sha.pcm = segs[i].sha.pcm
                              /\ Matches(segs'[i], disk'[i])
           /\ \A p \in 1..count : ArchivedLog'[p] = ArchivedLog[p]
<1>1. /\ segs' = FinalizedSegs /\ count' = count /\ frames' = frames /\ Stuck = {} /\ TypeOK
      /\ disk' = RepairedDisk /\ DOMAIN segs' = DOMAIN segs /\ status' = "COMPLETE"
  BY DEF Finalizes, FinalizeCommits, FinalizedSegs, IInv
<1>2. Kept = DOMAIN segs /\ \A i \in DOMAIN segs : Matches(segs[i], disk[i])
  BY <1>1, VerifiedIsKept DEF Stuck, Kept
<1>3. Kept' = Kept
  BY <1>1, <1>2 DEF IInv, SegmentsTile, HasGap
<1>4. ASSUME NEW i \in Kept
      PROVE  /\ segs'[i].committed = segs[i].committed /\ segs'[i].start = segs[i].start
             /\ segs'[i].status = "FINALIZED"
             /\ segs'[i].sha.pcm = segs[i].sha.pcm
             /\ Matches(segs'[i], disk'[i])
  <2>0. i \in DOMAIN segs /\ i \in Slots /\ segs[i] \in Segments /\ segs'[i] = FinalizedSegs[i]
        /\ disk'[i] = RepairedDisk[i] /\ Matches(segs[i], disk[i])
    BY <1>1, <1>2, RowsType
  <2>1. CASE i \in ActiveSegments
    <3> DEFINE f == RepairedFile(i)
    <3>1. disk'[i] = f
      BY <2>0, <2>1 DEF RepairedDisk
    <3>2. segs'[i] = [segs[i] EXCEPT !.status = "FINALIZED", !.sha = FileDigest(f)]
      BY <2>0, <2>1 DEF FinalizedSegs
    <3>3. /\ Matches(segs[i], f) /\ f.pcm = segs[i].sha.pcm /\ Len(segs[i].sha.pcm) = segs[i].committed
          /\ f.header = segs[i].committed /\ f.state = "wav"
      BY <1>1, <2>0, <2>1, RepairUntouched
    <3> HIDE DEF f
    <3>4. /\ segs'[i].status = "FINALIZED" /\ segs'[i].sha = FileDigest(f)
          /\ segs'[i].committed = segs[i].committed /\ segs'[i].start = segs[i].start
      BY <2>0, <3>2 DEF Segments
    <3>5. FileDigest(f).pcm = f.pcm
      BY DEF FileDigest
    <3>6. segs[i].committed <= SegmentSamples
      BY <2>0 DEF Matches
    <3>7. Matches(segs'[i], f)
      BY <3>3, <3>4, <3>6 DEF Matches
    <3> QED BY <3>1, <3>3, <3>4, <3>5, <3>7
  <2>2. CASE i \notin ActiveSegments
    <3>1. segs'[i] = segs[i] /\ disk'[i] = disk[i]
      BY <2>0, <2>2 DEF FinalizedSegs, RepairedDisk
    <3>2. segs[i].status = "FINALIZED"
      BY <2>0, <2>2 DEF Matches, ActiveSegments
    <3> QED BY <2>0, <3>1, <3>2
  <2> QED BY <2>1, <2>2
<1>5. \A p \in 1..count : ArchivedLog'[p] = ArchivedLog[p]
  <2>1. \A i \in Kept : segs[i].committed \in Nat
    BY <1>1, <1>2, RowsType
  <2>2. count \in Nat /\ count <= count /\ count <= count'
    BY <1>1 DEF TypeOK
  <2>3. \A i \in Kept : segs[i].start < count =>
               /\ i \in Kept' /\ segs'[i].start = segs[i].start
               /\ segs'[i].committed >= segs[i].committed
               /\ \A q \in 1..segs[i].committed : segs'[i].sha.pcm[q] = segs[i].sha.pcm[q]
    BY <1>3, <1>4, <2>1
  <2> QED BY <2>2, <2>3, LogKept
<1> QED BY <1>1, <1>2, <1>3, <1>4, <1>5

LEMMA StayAudio ==
    ASSUME AudioInv, RowsInv', RowsStay
    PROVE  AudioInv'
<1>0. /\ segs' = segs /\ count' = count /\ frames' = frames /\ Kept' = Kept
      /\ ArchivedLog' = ArchivedLog /\ \A i \in Kept : i \in Slots
  BY SameLog, RowsType DEF RowsStay, AudioInv, RowsInv, IInv, Kept
<1>1. DigestsHold'
  BY <1>0 DEF AudioInv, DigestsHold
<1>2. FilesHold'
  <2>1. CASE Untouched(disk') /\ damaged' = damaged
    BY <1>0, <2>1 DEF AudioInv, FilesHold, Untouched
  <2>2. CASE DamageDone
    <3>1. PICK j \in Slots : /\ damaged' = damaged \cup {j}
                             /\ \A i \in Slots \ {j} : disk'[i] = disk[i]
                             /\ "altered" \notin DamageKinds => disk'[j] = NoFile
      BY <2>2 DEF DamageDone
    <3> QED BY <1>0, <3>1 DEF AudioInv, FilesHold
  <2> QED BY <2>1, <2>2 DEF RowsStay
<1>3. CachesHold'
  BY <1>0 DEF AudioInv, CachesHold, CachesStay, RowsStay
<1>4. "altered" \notin DamageKinds => ReceiptsVouched'
  BY <1>0 DEF AudioInv, ReceiptsVouched
<1> QED BY <1>1, <1>2, <1>3, <1>4 DEF AudioInv

LEMMA LosesAudio ==
    ASSUME AudioInv, RowsInv', NEW k \in DOMAIN segs, LosesFrom(k)
    PROVE  AudioInv'
<1>0. /\ IInv /\ IInv' /\ frames' = frames /\ count \in Nat /\ count' \in Nat
      /\ \A i \in Slots : ~hashers'[i].live
      /\ Untouched(disk') /\ damaged' = damaged
  BY DEF AudioInv, RowsInv, LosesFrom, IInv, TypeOK
<1>1. /\ count' <= count /\ Kept' \subseteq Kept /\ \A j \in Kept' : segs'[j] = segs[j]
      /\ \A p \in 1..count' : ArchivedLog'[p] = ArchivedLog[p]
  BY <1>0, LosesToLog
<1>2. DigestsHold' /\ FilesHold' /\ CachesHold'
  <2>1. DigestsHold'
    BY <1>1 DEF AudioInv, DigestsHold
  <2>2. FilesHold'
    BY <1>0, <1>1 DEF AudioInv, FilesHold, Untouched
  <2>3. CachesHold'
    BY <1>0 DEF CachesHold
  <2> QED BY <2>1, <2>2, <2>3
<1>3. ASSUME "altered" \notin DamageKinds PROVE ReceiptsVouched'
  <2> SUFFICES ASSUME NEW m \in DOMAIN frames, NEW p \in 1..Len(frames[m].payload),
                      frames[m].start + p <= count'
               PROVE  frames[m].payload[p] = ArchivedLog'[frames[m].start + p]
    BY <1>0 DEF ReceiptsVouched
  <2>1. frames[m].start \in Nat /\ frames[m].payload \in Seq(Samples)
    BY <1>0, ReceiptOrder DEF AudioInv, RowsInv, IInv, TypeOK
  <2>2. p \in Nat /\ p >= 1
    BY <2>1, LenProperties
  <2>3. frames[m].start + p \in 1..count' /\ frames[m].start + p <= count
    BY <1>0, <1>1, <2>1, <2>2
  <2>4. frames[m].payload[p] = ArchivedLog[frames[m].start + p]
    BY <1>3, <2>3 DEF AudioInv, ReceiptsVouched
  <2> QED BY <1>1, <2>3, <2>4
<1> QED BY <1>2, <1>3 DEF AudioInv

LEMMA FinalizesAudio ==
    ASSUME AudioInv, RowsInv', Finalizes
    PROVE  AudioInv'
<1>0. IInv /\ IInv' /\ TypeOK /\ count \in Nat /\ frames \in Seq(Receipts) /\ ReceiptsTile
  BY DEF AudioInv, RowsInv, IInv, TypeOK
<1>1. /\ Kept = DOMAIN segs /\ Kept' = Kept /\ count' = count /\ frames' = frames
      /\ \A i \in Kept : /\ segs'[i].committed = segs[i].committed
                         /\ segs'[i].sha.pcm = segs[i].sha.pcm
                         /\ Matches(segs'[i], disk'[i])
      /\ \A p \in 1..count : ArchivedLog'[p] = ArchivedLog[p]
  BY <1>0, FinalizesToLog
<1>2. DigestsHold' /\ FilesHold'
  BY <1>1 DEF AudioInv, DigestsHold, FilesHold
<1>3. CachesHold'
  <2>1. hashers' = FinalizedHashers /\ cleanup' = cleanup
    BY DEF Finalizes, FinalizeCommits
  <2>2. ASSUME cleanup = "none" PROVE \A i \in Slots : ~hashers'[i].live
    <3>1. \A i \in Slots : hashers[i].live => i \in ActiveSegments
      BY <2>2 DEF AudioInv, CachesHold, ActiveSegments
    <3> QED BY <2>1, <3>1 DEF FinalizedHashers, NoHasher
  <2> QED BY <2>1, <2>2 DEF CachesHold
<1>4. ASSUME "altered" \notin DamageKinds PROVE ReceiptsVouched'
  <2> SUFFICES ASSUME NEW m \in DOMAIN frames, NEW p \in 1..Len(frames[m].payload),
                      frames[m].start + p <= count
               PROVE  frames[m].payload[p] = ArchivedLog'[frames[m].start + p]
    BY <1>1 DEF ReceiptsVouched
  <2>1. frames[m].start \in Nat /\ frames[m].payload \in Seq(Samples)
    BY <1>0, ReceiptOrder
  <2>2. p \in Nat /\ p >= 1
    BY <2>1, LenProperties
  <2>3. frames[m].start + p \in 1..count
    BY <1>0, <2>1, <2>2
  <2>4. frames[m].payload[p] = ArchivedLog[frames[m].start + p]
    BY <1>4, <2>3 DEF AudioInv, ReceiptsVouched
  <2> QED BY <1>1, <2>3, <2>4
<1> QED BY <1>2, <1>3, <1>4 DEF AudioInv

LEMMA AddsKeepAudio ==
    ASSUME AudioInv, RowsInv', ~OverlappingReplays, NEW pcm \in Payloads, Adds(pcm)
    PROVE  AudioInv'
<1>0. /\ IInv /\ IInv' /\ TypeOK /\ count \in Nat /\ frames \in Seq(Receipts) /\ ReceiptsTile
      /\ damaged' = damaged /\ FilesHold /\ DigestsHold
  BY DEF AudioInv, RowsInv, IInv, TypeOK, Adds
<1>1. /\ Kept = DOMAIN segs /\ Kept' = DOMAIN segs'
      /\ DOMAIN segs' = 1..Len(segs')
      /\ \A i \in 1..(Target - 1) : segs'[i] = segs[i] /\ i \in DOMAIN segs
      /\ segs'[Target] = Row1(pcm)
      /\ Rest(pcm) # <<>> => segs'[Target + 1] = Row2(pcm)
      /\ Len(segs') = LastTarget(pcm) /\ Target \in DOMAIN segs'
  BY <1>0, AddedRows
<1>2. /\ \A i \in 1..(Target - 1) : disk'[i] = disk[i]
      /\ Len(Row1(pcm).sha.pcm) = Row1(pcm).committed
      /\ Sound => Matches(Row1(pcm), disk'[Target])
      /\ Rest(pcm) # <<>> => /\ Matches(Row2(pcm), disk'[Target + 1])
                             /\ Len(Row2(pcm).sha.pcm) = Row2(pcm).committed
      /\ \A i \in Slots : hashers'[i].live =>
            \/ i < Target /\ hashers'[i] = hashers[i]
            \/ i = Target /\ Row1(pcm).status = "ACTIVE" /\ hashers'[i].pcm = Row1(pcm).sha.pcm
            \/ /\ Rest(pcm) # <<>> /\ i = Target + 1 /\ Row2(pcm).status = "ACTIVE"
               /\ hashers'[i].pcm = Row2(pcm).sha.pcm
  BY AddsAudio
<1>3. Target \in Nat \ {0}
  BY <1>0, PiecesType
<1>4. \A i \in DOMAIN segs' : i \in 1..(Target - 1) \/ i = Target \/ (Rest(pcm) # <<>> /\ i = Target + 1)
  BY <1>1, <1>3 DEF LastTarget
<1>5. DigestsHold'
  BY <1>0, <1>1, <1>2, <1>4 DEF DigestsHold
<1>6. ~Sound => Target \in damaged /\ "altered" \in DamageKinds
  BY AppendIsSound DEF Sound
<1>7. FilesHold'
  BY <1>0, <1>1, <1>2, <1>4, <1>6 DEF FilesHold
<1>8. CachesHold'
  <2>1. cleanup' = cleanup
    BY DEF Adds, StoreCommits
  <2>2. Rest(pcm) # <<>> => Target + 1 \in DOMAIN segs'
    BY <1>1, <1>3 DEF LastTarget
  <2>3. \A i \in Slots : i < Target => i \in 1..(Target - 1)
    BY <1>3, SegmentAssumption DEF Slots
  <2>4. Target - 1 \in Nat /\ \A i \in 1..(Target - 1) : i \in DOMAIN segs'
    BY <1>1, <1>3
  <2> QED BY <1>1, <1>2, <2>1, <2>2, <2>3, <2>4 DEF AudioInv, CachesHold
<1>9. ASSUME "altered" \notin DamageKinds PROVE ReceiptsVouched'
  <2>0. Sound
    BY <1>6, <1>9
  <2>1. /\ \A p \in 1..count : ArchivedLog'[p] = ArchivedLog[p]
        /\ \A m \in 1..Len(pcm) : ArchivedLog'[count + m] = pcm[m]
    BY <1>0, <2>0, AddsToLog
  <2>2. ~HasGap /\ Len(pcm) \in Nat
    BY <1>1, PayloadAssumption DEF HasGap
  <2>3. ASSUME NEW m \in DOMAIN frames, NEW p \in 1..Len(frames[m].payload)
        PROVE  frames[m].payload[p] = ArchivedLog'[frames[m].start + p]
    <3>1. /\ frames[m].start \in Nat /\ frames[m].payload \in Seq(Samples) /\ frames[m].end \in Nat
          /\ frames[m].end <= frames[Len(frames)].end
      BY <1>0, ReceiptOrder
    <3>2. frames # <<>> /\ source = "BROWSER"
      BY DEF AudioInv, RowsInv, FramesOfBrowser, IInv, TypeOK
    <3>3. frames[m].end <= count /\ frames[m].end = frames[m].start + Len(frames[m].payload)
      BY <1>0, <2>2, <3>1, <3>2 DEF ReceiptsTile
    <3>4. p \in Nat /\ p >= 1 /\ p <= Len(frames[m].payload) /\ Len(frames[m].payload) \in Nat
      BY <3>1, LenProperties
    <3>5. frames[m].start + p \in 1..count /\ frames[m].start + p <= count
      BY <1>0, <3>1, <3>3, <3>4
    <3>6. frames[m].payload[p] = ArchivedLog[frames[m].start + p]
      BY <1>9, <3>5 DEF AudioInv, ReceiptsVouched
    <3> QED BY <2>1, <3>5, <3>6
  <2>4. CASE frames' = frames
    BY <2>3, <2>4 DEF ReceiptsVouched
  <2>5. CASE frames' = Append(frames, [start |-> count, end |-> count + Len(pcm), payload |-> pcm])
    <3> DEFINE n == Len(frames)
               new == [start |-> count, end |-> count + Len(pcm), payload |-> pcm]
    <3>1. n \in Nat /\ DOMAIN frames = 1..n
      BY <1>0, LenProperties
    <3>2. /\ DOMAIN frames' = 1..(n + 1)
          /\ \A j \in 1..n : frames'[j] = frames[j]
          /\ frames'[n + 1] = new
      BY <1>0, <2>5, <3>1
    <3>3. new.start = count /\ new.payload = pcm
      OBVIOUS
    <3> HIDE DEF new
    <3>4. \A j \in DOMAIN frames' : (j \in DOMAIN frames /\ frames'[j] = frames[j]) \/ frames'[j] = new
      BY <3>1, <3>2
    <3>5. ASSUME NEW j \in DOMAIN frames', NEW p \in 1..Len(frames'[j].payload)
          PROVE  frames'[j].payload[p] = ArchivedLog'[frames'[j].start + p]
      <4>1. CASE j \in DOMAIN frames /\ frames'[j] = frames[j]
        BY <2>3, <3>5, <4>1
      <4>2. CASE frames'[j] = new
        BY <2>1, <3>3, <3>5, <4>2
      <4> QED BY <3>4, <4>1, <4>2
    <3> QED BY <3>5 DEF ReceiptsVouched
  <2> QED BY <2>4, <2>5 DEF Adds
<1> QED BY <1>5, <1>7, <1>8, <1>9 DEF AudioInv

LEMMA AudioInvStep ==
    ASSUME ~OverlappingReplays
    PROVE  AudioInv /\ [Next]_vars => AudioInv'
<1> SUFFICES ASSUME AudioInv, [Next]_vars PROVE AudioInv'
  OBVIOUS
<1>1. RowsInv' /\ StepKind
  BY RowsInvStep, StepKinds DEF AudioInv, RowsInv
<1> QED BY <1>1, StayAudio, LosesAudio, AddsKeepAudio, FinalizesAudio DEF StepKind

LEMMA AudioInvInit == Init => AudioInv
<1> SUFFICES ASSUME Init PROVE CachesHold /\ DigestsHold /\ FilesHold /\ ReceiptsVouched
  BY RowsInvInit DEF AudioInv
<1>1. DOMAIN segs = {} /\ DOMAIN frames = {} /\ Kept = {}
  BY DEF Init, Kept
<1>2. \A i \in Slots : ~hashers[i].live
  BY DEF Init, NoHasher
<1> QED BY <1>1, <1>2 DEF CachesHold, DigestsHold, FilesHold, ReceiptsVouched

LEMMA AudioInvariance == ASSUME ~OverlappingReplays PROVE Spec => []AudioInv
  BY AudioInvInit, AudioInvStep, PTL DEF Spec

--------------------------------------------------------------------------------
(* What a reader gets back. *)

\* What the rows promise is on disk, through crashes, torn writes, failed calls and
\* recoveries, as long as no replay overlaps the cleanup of a failed call.
THEOREM StoredAudioAlwaysVerifies ==
    ASSUME ~OverlappingReplays
    PROVE  Spec => []StoredAudioVerifies
<1>1. AudioInv => StoredAudioVerifies
  BY DEF AudioInv, FilesHold, StoredAudioVerifies
<1> QED BY <1>1, AudioInvariance, PTL

LEMMA DigestPcm == ASSUME NEW p PROVE PcmDigest(p).pcm = p
  BY DEF PcmDigest

\* A file that matches its row holds the samples of the row's digest.
LEMMA MatchedSamples ==
    ASSUME NEW s \in Segments, NEW f \in Files, Matches(s, f)
    PROVE  \A q \in 1..s.committed : f.pcm[q] = s.sha.pcm[q]
<1>1. s.committed \in Nat /\ f.pcm \in Seq(Samples) /\ Len(f.pcm) \in Nat
  BY LenProperties DEF Segments, Files
<1>2. CASE s.status = "ACTIVE"
  <2>1. Len(f.pcm) >= s.committed /\ s.sha = PcmDigest(SubSeq(f.pcm, 1, s.committed))
    BY <1>2 DEF Matches
  <2>2. s.sha.pcm = SubSeq(f.pcm, 1, s.committed)
    BY <2>1, DigestPcm, Zenon
  <2>3. \A q \in 1..s.committed : SubSeq(f.pcm, 1, s.committed)[q] = f.pcm[q]
    BY <1>1, <2>1, ElementOfSeq, SubSeqProperties
  <2> QED BY <2>2, <2>3, Zenon
<1>3. CASE s.status = "FINALIZED"
  <2>1. s.sha = FileDigest(f)
    BY <1>3 DEF Matches
  <2> QED BY <2>1 DEF FileDigest
<1> QED BY <1>2, <1>3 DEF Matches

\* Every segment of a range that passes verification matches its row.
LEMMA VerifiedRange ==
    ASSUME TypeOK, NEW a, NEW b, FirstInvalid(a, b) = 0
    PROVE  \A i \in Overlap(a, b) : Matches(segs[i], disk[i])
<1> DEFINE over == Overlap(a, b)
           joined(i) == segs[i].start <= a \/ \E j \in over : SegEnd(segs[j]) = segs[i].start
           bad == {i \in over : ~joined(i) \/ ~Matches(segs[i], disk[i])}
<1>1. bad \in SUBSET Nat /\ 0 \notin bad
  BY RowsType DEF Overlap
<1>2. bad # {} => FirstInvalid(a, b) = First(bad)
  BY DEF FirstInvalid
<1>3. bad = {}
  <2> SUFFICES ASSUME bad # {} PROVE FALSE
    OBVIOUS
  <2>1. First(bad) \in bad
    BY <1>1, FirstExists
  <2> QED BY <1>1, <1>2, <2>1
<1> QED BY <1>3

LEMMA ReadsBack ==
    ASSUME AudioInv, "altered" \notin DamageKinds
    PROVE  ReceiptReadsBack
<1>0. /\ IInv /\ TypeOK /\ ReceiptsTile /\ ReceiptsVouched /\ count \in Nat
      /\ frames \in Seq(Receipts)
      /\ \A i \in DOMAIN segs : /\ segs[i] \in Segments /\ disk[i] \in Files
                                /\ segs[i].start \in Nat /\ segs[i].committed \in Nat
  BY RowsType DEF AudioInv, RowsInv, IInv, TypeOK
<1> SUFFICES ASSUME NEW k \in DOMAIN frames, frames[k].end <= count,
                    FirstInvalid(frames[k].start, frames[k].end) = 0,
                    NEW m \in DOMAIN frames[k].payload
             PROVE  StoredSample(frames[k].start + m - 1) = frames[k].payload[m]
  BY DEF ReceiptReadsBack, StoredEquals
<1> DEFINE a == frames[k].start
           b == frames[k].end
           p == a + m - 1
<1>1. /\ a \in Nat /\ b \in Nat /\ frames[k].payload \in Seq(Samples)
      /\ b = a + Len(frames[k].payload)
  BY <1>0, ReceiptOrder DEF ReceiptsTile
<1>2. m \in 1..Len(frames[k].payload) /\ Len(frames[k].payload) \in Nat
  BY <1>1, LenProperties
<1>15. count \in Nat /\ b <= count
  BY <1>0
<1> HIDE DEF a, b
<1>3. p \in Nat /\ p < count /\ a <= p /\ p < b /\ p + 1 = a + m /\ a + m <= count
  BY <1>1, <1>2, <1>15
<1> HIDE DEF p
<1>4. \E i \in DOMAIN segs : segs[i].start <= p /\ p < SegEnd(segs[i])
  BY <1>0, <1>3, TileCovers DEF Kept
<1>5. PICK j \in DOMAIN segs : /\ j = CHOOSE i \in DOMAIN segs : segs[i].start <= p /\ p < SegEnd(segs[i])
                               /\ segs[j].start <= p /\ p < SegEnd(segs[j])
  BY <1>4
<1>6. StoredSample(p) = disk[j].pcm[p - segs[j].start + 1]
  BY <1>5 DEF StoredSample
<1>7. Matches(segs[j], disk[j])
  <2>1. j \in Overlap(a, b)
    <3>1. segs[j].start \in Nat /\ SegEnd(segs[j]) \in Nat
      BY <1>0 DEF SegEnd
    <3>2. segs[j].start < b /\ a < SegEnd(segs[j])
      BY <1>1, <1>3, <1>5, <3>1
    <3> QED BY <3>2 DEF Overlap
  <2>2. FirstInvalid(a, b) = 0
    BY DEF a, b
  <2> QED BY <1>0, <2>1, <2>2, VerifiedRange
<1>8. j \in Kept
  BY <1>7, VerifiedIsKept
<1> DEFINE q == p - segs[j].start + 1
<1>9. q \in 1..segs[j].committed /\ segs[j].start + q = a + m
  <2>1. segs[j].start \in Nat /\ segs[j].committed \in Nat
    BY <1>0
  <2>2. segs[j].start <= p /\ p < segs[j].start + segs[j].committed
    BY <1>5 DEF SegEnd
  <2>3. a \in Nat /\ m \in Nat
    BY <1>1, <1>2
  <2> QED BY <1>3, <2>1, <2>2, <2>3
<1> HIDE DEF q
<1>10. disk[j].pcm[q] = segs[j].sha.pcm[q]
  BY <1>0, <1>7, <1>9, MatchedSamples
<1>11. segs[j].sha.pcm[q] = ArchivedLog[a + m]
  BY <1>0, <1>8, <1>9, LogRead DEF LogIs
<1>12. frames[k].payload[m] = ArchivedLog[a + m]
  BY <1>0, <1>2, <1>3 DEF ReceiptsVouched, a
<1>13. StoredSample(p) = disk[j].pcm[q]
  BY <1>6 DEF q
<1>14. StoredSample(p) = frames[k].payload[m]
  BY <1>10, <1>11, <1>12, <1>13
<1> QED BY <1>14 DEF p, a

\* What was acknowledged can be read back until something outside the program takes it
\* away, and no read takes other audio for it; for every segment size and any number of
\* crashes, failed writes and lost files.
THEOREM StoredAudioAlwaysReadsBack ==
    ASSUME ~OverlappingReplays, "altered" \notin DamageKinds
    PROVE  Spec => []StoredAudioReadsBack
<1>1. AudioInv => StoredAudioReadsBack
  BY ReadsBack DEF AudioInv, FilesHold, StoredAudioVerifies, StoredAudioReadsBack
<1> QED BY <1>1, AudioInvariance, PTL

--------------------------------------------------------------------------------
(* What can be lost. *)

\* What OnlyDamageLosesAudio says of one step.
LossStep ==
    \A i \in Kept : (i \in DOMAIN segs' /\ segs'[i].status # "GAP")
                    \/ \E j \in 1..i : j \in damaged

\* A loss begins at a segment whose file was lost.
LEMMA LossIsDamage ==
    ASSUME AudioInv, "altered" \notin DamageKinds, NEW k \in Kept, LosesFrom(k)
    PROVE  k \in damaged
<1>1. ~Matches(segs[k], disk[k])
  BY ReadsBack DEF LosesFrom, Verdict, AudioInv, RowsInv
<1> QED BY <1>1 DEF AudioInv, FilesHold

LEMMA NextLoss ==
    ASSUME ~OverlappingReplays, "altered" \notin DamageKinds
    PROVE  AudioInv /\ AudioInv' /\ [Next]_vars => LossStep
<1> SUFFICES ASSUME AudioInv, AudioInv', [Next]_vars PROVE LossStep
  OBVIOUS
<1>0. /\ IInv /\ IInv' /\ StepKind /\ DOMAIN segs = 1..Len(segs) /\ Len(segs) \in Nat
      /\ Kept \subseteq DOMAIN segs
  BY StepKinds, RowsType DEF AudioInv, RowsInv, IInv, Kept
<1>1. CASE RowsStay
  BY <1>1 DEF RowsStay, LossStep, Kept
<1>2. ASSUME NEW k \in DOMAIN segs, LosesFrom(k) PROVE LossStep
  <2> SUFFICES ASSUME NEW i \in Kept, ~(i \in DOMAIN segs' /\ segs'[i].status # "GAP")
               PROVE  \E j \in 1..i : j \in damaged
    BY DEF LossStep
  <2>1. ~(i < k)
    BY <1>0, <1>2 DEF LosesFrom, Kept
  <2>2. k \in Kept /\ k \in 1..i
    BY <1>0, <2>1 DEF IInv, SegmentsTile
  <2>3. k \in damaged
    BY <1>2, <2>2, LossIsDamage
  <2> QED BY <2>2, <2>3
<1>3. ASSUME NEW pcm \in Payloads, Adds(pcm) PROVE LossStep
  <2>1. /\ Kept = DOMAIN segs /\ Kept' = DOMAIN segs' /\ DOMAIN segs' = 1..Len(segs')
        /\ Len(segs') \in Nat /\ Len(segs') = LastTarget(pcm) /\ Target \in {Len(segs), Len(segs) + 1}
    BY <1>0, <1>3, AddedRows
  <2>2. Len(segs') >= Len(segs)
    BY <1>0, <2>1 DEF LastTarget
  <2> QED BY <1>0, <2>1, <2>2 DEF LossStep, Kept
<1>4. CASE Finalizes
  BY <1>0, <1>4, FinalizesToLog DEF LossStep, Kept
<1> QED BY <1>0, <1>1, <1>2, <1>3, <1>4 DEF StepKind

\* No crash, failed write, replay, finalization, read or recovery costs a committed sample
\* by itself: whatever is given up lies behind a segment whose file was lost.
THEOREM OnlyDamageCostsAudio ==
    ASSUME ~OverlappingReplays, "altered" \notin DamageKinds
    PROVE  Spec => OnlyDamageLosesAudio
<1>1. AudioInv /\ AudioInv' /\ [Next]_vars => [LossStep]_vars
  BY NextLoss
<1>2. Spec => [][LossStep]_vars
  BY <1>1, AudioInvariance, PTL DEF Spec
<1> QED BY <1>2 DEF OnlyDamageLosesAudio, LossStep

--------------------------------------------------------------------------------
(* The archive implements an append-only log.                               *)

LEMMA LogType ==
    ASSUME IInv, DigestsHold
    PROVE  ArchivedLog \in Seq(Samples) /\ Len(ArchivedLog) = count
<1>1. LogIs /\ count \in Nat
  BY LogRead DEF IInv, TypeOK
<1>2. ASSUME NEW p \in 1..count PROVE ArchivedLog[p] \in Samples
  <2>1. PICK i \in Kept : \E q \in 1..segs[i].committed : p = segs[i].start + q
    BY <1>1 DEF LogIs
  <2>2. PICK q \in 1..segs[i].committed : p = segs[i].start + q
    BY <2>1
  <2>3. ArchivedLog[p] = segs[i].sha.pcm[q]
    BY <1>1, <2>2 DEF LogIs
  <2>4. segs[i].sha.pcm \in Seq(Samples)
    BY RowsType DEF IInv, Kept
  <2>5. Len(segs[i].sha.pcm) = segs[i].committed
    BY DEF DigestsHold
  <2>6. segs[i].sha.pcm[q] \in Samples
    BY <2>4, <2>5, ElementOfSeq
  <2> QED BY <2>3, <2>6
<1> DEFINE L == ArchivedLog
<1>3. L = [p \in 1..count |-> L[p]] /\ \A p \in 1..count : L[p] \in Samples
  BY <1>1, <1>2 DEF LogIs
<1> HIDE DEF L
<1>4. L \in Seq(Samples) /\ Len(L) = count
  BY <1>1, <1>3
<1> QED BY <1>4 DEF L

LEMMA NextLogType == IInv' /\ DigestsHold' => (ArchivedLog \in Seq(Samples) /\ Len(ArchivedLog) = count)'
  BY LogType, PTL

\* A log that is a prefix of another one, and one that extends it.
LEMMA PrefixIs ==
    ASSUME NEW S, NEW s \in Seq(S), NEW t \in Seq(S), Len(t) <= Len(s),
           \A p \in 1..Len(t) : t[p] = s[p]
    PROVE  t = SubSeq(s, 1, Len(t))
<1>1. Len(t) \in Nat /\ Len(s) \in Nat
  BY LenProperties
<1>2. SubSeq(s, 1, Len(t)) \in Seq(S) /\ Len(SubSeq(s, 1, Len(t))) = Len(t)
  BY <1>1, PrefixType
<1>3. \A p \in 1..Len(t) : SubSeq(s, 1, Len(t))[p] = s[p]
  BY <1>1, ElementOfSeq, SubSeqProperties
<1> QED BY <1>2, <1>3, SeqEqual

LEMMA ExtensionIs ==
    ASSUME NEW S, NEW s \in Seq(S), NEW e \in Seq(S), NEW t \in Seq(S), Len(t) = Len(s) + Len(e),
           \A p \in 1..Len(s) : t[p] = s[p], \A m \in 1..Len(e) : t[Len(s) + m] = e[m]
    PROVE  t = s \o e
<1>1. Len(e) \in Nat /\ Len(s) \in Nat
  BY LenProperties
<1>2. s \o e \in Seq(S) /\ Len(s \o e) = Len(s) + Len(e)
  BY ConcatProperties
<1>3. \A p \in 1..(Len(s) + Len(e)) : (s \o e)[p] = IF p <= Len(s) THEN s[p] ELSE e[p - Len(s)]
  BY ConcatProperties
<1>4. ASSUME NEW p \in 1..Len(t) PROVE t[p] = (s \o e)[p]
  <2>1. CASE p <= Len(s)
    BY <1>1, <1>3, <2>1
  <2>2. CASE ~(p <= Len(s))
    <3>1. p - Len(s) \in 1..Len(e) /\ Len(s) + (p - Len(s)) = p
      BY <1>1, <2>2
    <3> QED BY <1>1, <1>3, <2>2, <3>1
  <2> QED BY <2>1, <2>2
<1> QED BY <1>2, <1>4, SeqEqual

\* The stage of the log, and how it reads in the rows.
LEMMA Stages ==
    /\ HasGap => ArchivedStage = "broken"
    /\ ~HasGap /\ status = "COMPLETE" => ArchivedStage = "complete"
    /\ ~HasGap /\ status = "INCOMPLETE" => ArchivedStage = "incomplete"
    /\ ~HasGap /\ status \notin {"COMPLETE", "INCOMPLETE"} => ArchivedStage = "open"
  BY DEF ArchivedStage

LEMMA NextStages ==
    /\ HasGap' => ArchivedStage' = "broken"
    /\ ~HasGap' /\ status' = "COMPLETE" => ArchivedStage' = "complete"
    /\ ~HasGap' /\ status' = "INCOMPLETE" => ArchivedStage' = "incomplete"
    /\ ~HasGap' /\ status' \notin {"COMPLETE", "INCOMPLETE"} => ArchivedStage' = "open"
  BY DEF ArchivedStage

LEMMA LogInit == Init => Log!Init
<1> SUFFICES ASSUME Init PROVE Log!Init
  OBVIOUS
<1>1. IInv /\ DigestsHold /\ count = 0 /\ segs = <<>> /\ frames = <<>> /\ status = "PENDING"
  BY IInvInit, AudioInvInit DEF Init, AudioInv
<1>2. ArchivedLog = <<>>
  BY <1>1, LogType, EmptySeq
<1>3. ~HasGap
  BY <1>1 DEF HasGap, Kept
<1> QED BY <1>1, <1>2, <1>3, Stages DEF Log!Init

\* Each kind of step is a step of the log or leaves it alone.
LEMMA LogStep ==
    ASSUME ~OverlappingReplays, "altered" \notin DamageKinds
    PROVE  AudioInv /\ AudioInv' /\ [Next]_vars => [Log!Next]_Log!vars
<1> SUFFICES ASSUME AudioInv, AudioInv', [Next]_vars PROVE Log!Next \/ UNCHANGED Log!vars
  OBVIOUS
<1>0. /\ IInv /\ IInv' /\ StepKind /\ RowsInv /\ DigestsHold /\ DigestsHold' /\ RowsInv'
      /\ count \in Nat /\ count' \in Nat /\ status \in RecordingStatuses
  BY StepKinds DEF AudioInv, RowsInv, IInv, TypeOK
<1>1. /\ ArchivedLog \in Seq(Samples) /\ Len(ArchivedLog) = count
      /\ ArchivedLog' \in Seq(Samples) /\ Len(ArchivedLog') = count'
  BY <1>0, LogType, NextLogType
<1>2. CASE RowsStay
  <2>1. ArchivedLog' = ArchivedLog /\ frames' = frames /\ (HasGap' <=> HasGap)
    BY <1>2, SameLog DEF RowsStay, HasGap, Kept
  <2>2. CASE HasGap
    BY <2>1, <2>2, Stages, NextStages DEF Log!vars
  <2>3. CASE ~HasGap
    <3>1. ArchivedStage # "broken"
      BY <2>3, Stages
    <3>2. ArchivedStage' \in {ArchivedStage, "incomplete"}
      BY <1>2, <2>1, <2>3, Stages, NextStages DEF RowsStay
    <3> QED BY <2>1, <3>1, <3>2 DEF Log!Next, Log!Doubt, Log!vars
  <2> QED BY <2>2, <2>3
<1>3. ASSUME NEW k \in DOMAIN segs, LosesFrom(k) PROVE Log!Next
  <2>1. /\ count' <= count /\ HasGap' /\ frames' = frames
        /\ \A p \in 1..count' : ArchivedLog'[p] = ArchivedLog[p]
    BY <1>0, <1>3, LosesToLog DEF LosesFrom
  <2>2. ArchivedLog' = SubSeq(ArchivedLog, 1, count')
    BY <1>1, <2>1, PrefixIs
  <2>3. count' \in 0..Len(ArchivedLog)
    BY <1>0, <1>1, <2>1
  <2>4. ArchivedStage' = "broken"
    BY <2>1, NextStages
  <2>5. Log!GiveUp(count')
    BY <2>1, <2>2, <2>4 DEF Log!GiveUp
  <2> QED BY <2>3, <2>5 DEF Log!Next
<1>4. ASSUME NEW pcm \in Payloads, Adds(pcm) PROVE Log!Next
  <2>1. /\ ~HasGap /\ ~HasGap' /\ count' = count + Len(pcm)
    BY <1>0, <1>4, AddedRows DEF HasGap
  <2>2. Sound
    <3>1. TailOpen => Target \in Kept /\ Matches(segs[Target], disk[Target])
      BY <1>4, AppendIsSound
    <3> QED BY <3>1 DEF Sound
  <2>3. /\ \A p \in 1..count : ArchivedLog'[p] = ArchivedLog[p]
        /\ \A m \in 1..Len(pcm) : ArchivedLog'[count + m] = pcm[m]
    BY <1>0, <1>4, <2>2, AddsToLog
  <2>4. pcm \in Seq(Samples)
    BY PayloadAssumption
  <2>5. ArchivedLog' = ArchivedLog \o pcm
    <3> DEFINE l == ArchivedLog
               m == ArchivedLog'
    <3>1. l \in Seq(Samples) /\ m \in Seq(Samples) /\ Len(l) = count /\ Len(m) = Len(l) + Len(pcm)
      BY <1>1, <2>1
    <3>2. /\ \A p \in 1..Len(l) : m[p] = l[p]
          /\ \A q \in 1..Len(pcm) : m[Len(l) + q] = pcm[q]
      BY <1>1, <2>3
    <3> HIDE DEF l, m
    <3>3. m = l \o pcm
      BY <2>4, <3>1, <3>2, ExtensionIs
    <3> QED BY <3>3 DEF l, m
  <2>6. status' = status /\ status \in {"CAPTURING", "INCOMPLETE"}
    BY <1>4 DEF Adds, StoreCommits
  <2>7. ArchivedStage \in {"open", "incomplete"} /\ ArchivedStage' = ArchivedStage
    BY <2>1, <2>6, Stages, NextStages
  <2>8. frames' \in {frames, Append(frames, Log!Ack(pcm))}
    BY <1>1, <1>4 DEF Adds, Log!Ack
  <2>9. Log!Record(pcm)
    BY <2>5, <2>7, <2>8 DEF Log!Record
  <2> QED BY <2>9 DEF Log!Next
<1>5. CASE Finalizes
  <2>1. /\ Kept = DOMAIN segs /\ Kept' = Kept /\ count' = count /\ frames' = frames
        /\ \A p \in 1..count : ArchivedLog'[p] = ArchivedLog[p]
    BY <1>0, <1>5, FinalizesToLog
  <2>2. ArchivedLog' = ArchivedLog
    BY <1>1, <2>1, SeqEqual
  <2>3. ~HasGap /\ ~HasGap' /\ status \in {"CAPTURING", "INCOMPLETE"} /\ status' = "COMPLETE"
    <3>1. DOMAIN segs' = DOMAIN segs
      BY <1>5 DEF Finalizes, FinalizeCommits, FinalizedSegs
    <3> QED BY <1>5, <2>1, <3>1 DEF Finalizes, FinalizeCommits, HasGap
  <2>4. ArchivedStage \in {"open", "incomplete"} /\ ArchivedStage' = "complete"
    BY <2>3, Stages, NextStages
  <2>5. Log!Seal
    BY <2>1, <2>2, <2>4 DEF Log!Seal
  <2> QED BY <2>5 DEF Log!Next
<1> QED BY <1>0, <1>2, <1>3, <1>4, <1>5 DEF StepKind

\* The archive of files, rows, caches and restarts implements the append-only log with
\* acknowledgements: a loss is a suffix, visible and final, and nothing else ever changes
\* what was recorded.
THEOREM ArchiveImplementsLog ==
    ASSUME ~OverlappingReplays, "altered" \notin DamageKinds
    PROVE  Spec => ImplementsAudioLog
<1>1. Init => Log!Init
  BY LogInit
<1>2. AudioInv /\ AudioInv' /\ [Next]_vars => [Log!Next]_Log!vars
  BY LogStep
<1>3. Spec => Log!Spec
  BY <1>1, <1>2, AudioInvariance, PTL DEF Spec, Log!Spec
<1> QED BY <1>3 DEF ImplementsAudioLog
================================================================================
