--------------------------- MODULE MicrophoneProofs ---------------------------
(***************************************************************************)
(* Proofs about Microphone: for any number of captures, dictations,        *)
(* enrolments and callers, the recorder has one user, who will stop it,    *)
(* and who records can be found by the request that ends it.               *)
(***************************************************************************)
EXTENDS Microphone, SequenceTheorems, FiniteSetTheorems, TLAPS

--------------------------------------------------------------------------------
(* The inductive invariant: a part for the recorder, one for its users in   *)
(* recognition, one for enrolments.                                         *)

\* Who has a thread in its loop made the recording, and what is queued is of it.
Alone ==
    overlapped = {} /\ ~recorder.error =>
        /\ \A r \in Holders : recorder.running /\ recorder.for = r
        /\ recorder.running => \A i \in DOMAIN recorder.chunks : recorder.chunks[i] = recorder.for
        /\ \A r \in Readers : heard[r] \subseteq {r}

\* A recorder that runs has the thread it was started for.
Runs == recorder.running => recorder.for \in Holders

RecorderInv == RecorderTypeOK /\ Alone /\ Runs /\ party \in Parties

Unasked(r) == thread[r] = "reading" /\ r \notin asked

\* A start has the lock, and there is no dictation while it has.
Locked ==
    \A t \in Callers : asrCall[t].op \in {"start", "record"} => lock = t /\ dictation = Nobody

\* What is registered is not about to be forgotten.
Registered ==
    \A r \in AsrReaders : Unasked(r) /\ r \notin outrun =>
        /\ r \in sources \/ r = dictation
        /\ \A t \in Callers : asrCall[t].op # "clear" /\ asrCall[t] # [op |-> "forget", for |-> r]

AsrInv == AsrTypeOK /\ Locked /\ Registered

Starts(t) == enrolCall[t].op \in {"replace", "open", "record"}

\* A browser's enrolment has no thread.
BrowserIsSilent ==
    /\ \A b \in Browser : thread[b] = "none"
    /\ \A t \in Callers : enrolCall[t].op = "record" => enrolCall[t].for \notin Browser

\* A start is alone, or it is marked.
Rushed ==
    \A t, u \in Callers : Starts(t) /\ Starts(u) /\ t # u => enrolCall[t].for \in rushed

\* No start is under way when an enrolment records that nobody has asked to end.
Current ==
    \A e \in Enrolments : Unasked(e) /\ e \notin rushed =>
        e = current /\ \A t \in Callers : ~Starts(t)

EnrolInv == EnrolTypeOK /\ BrowserIsSilent /\ Rushed /\ Current

\* No start is under way when the recorder runs, unless it has overlapped.
Opened == recorder.running /\ opening # {} => overlapped # {}

\* A recognition that starts to record has the lock of the wrapper ...
AsrOpens ==
    \A r \in opening \cap AsrReaders :
        lock \in Callers /\ asrCall[lock] = [op |-> "record", for |-> r]

\* ... and an enrolment has that of its service.
EnrolOpens ==
    /\ \A t \in Callers : enrolCall[t].op = "record" => enrolLock = t
    /\ \A e \in opening \cap Enrolments :
          /\ enrolLock \in Callers
          /\ enrolCall[enrolLock] = [op |-> "record", for |-> e, old |-> Nobody]

OpenInv == Opened /\ AsrOpens /\ EnrolOpens /\ StartsApart

Inv == RecorderInv /\ AsrInv /\ EnrolInv /\ OpenInv

--------------------------------------------------------------------------------
(* The recorder and its readers.                                            *)

Shape == [running : BOOLEAN, for : Readers \cup {Nobody}, error : BOOLEAN,
          gone : BOOLEAN, restarts : 0..RestartLimit, chunks : Seq(Readers)]

LEMMA ChunksAre ==
  ASSUME NEW r
  PROVE  r \in Recorders <=> r \in Shape /\ Len(r.chunks) <= QueueChunks
<1> DEFINE C == UNION {[1..n -> Readers] : n \in 0..QueueChunks}
<1>1. QueueChunks \in Nat
  BY RecorderAssumption
<1>2. ASSUME NEW c PROVE c \in C <=> c \in Seq(Readers) /\ Len(c) <= QueueChunks
  <2>1. ASSUME c \in C PROVE c \in Seq(Readers) /\ Len(c) <= QueueChunks
    <3>1. PICK n \in 0..QueueChunks : c \in [1..n -> Readers]
      BY <2>1
    <3>2. n \in Nat /\ n <= QueueChunks
      BY <1>1, <3>1
    <3>3. c \in Seq(Readers)
      BY <3>1, <3>2, SeqDef
    <3>4. Len(c) \in Nat /\ DOMAIN c = 1..Len(c) /\ DOMAIN c = 1..n
      BY <3>1, <3>3, LenProperties
    <3>5. Len(c) = n
      <4> DEFINE m == Len(c)
      <4>1. m \in Nat /\ 1..m = 1..n
        BY <3>4
      <4> HIDE DEF m
      <4>2. m = n
        BY <3>2, <4>1
      <4> QED
        BY <4>2 DEF m
    <3> QED
      BY <3>2, <3>3, <3>5
  <2>2. ASSUME c \in Seq(Readers), Len(c) <= QueueChunks PROVE c \in C
    <3>1. Len(c) \in Nat /\ c \in [1..Len(c) -> Readers]
      BY <2>2, LenProperties
    <3>2. Len(c) \in 0..QueueChunks
      BY <1>1, <2>2, <3>1
    <3> QED
      BY <3>1, <3>2
  <2> QED
    BY <2>1, <2>2
<1> HIDE DEF C
<1>3. Recorders = [running : BOOLEAN, for : Readers \cup {Nobody}, error : BOOLEAN,
                   gone : BOOLEAN, restarts : 0..RestartLimit, chunks : C]
  BY DEF Recorders, C
<1> QED
  BY <1>2, <1>3 DEF Shape

\* A step that leaves the recorder, its readers and what they heard alone.
Aside ==
    /\ UNCHANGED <<recorder, thread, heard, overlapped, party>>
    /\ opening' \subseteq Readers /\ asked' \subseteq Readers /\ failed' \subseteq Enrolments
    /\ kept' \in [Enrolments -> 0..MaxChunks]

LEMMA AsideStays == RecorderInv /\ Aside => RecorderInv'
<1> SUFFICES ASSUME RecorderInv, Aside PROVE RecorderInv'
  OBVIOUS
<1>1. RecorderTypeOK'
  BY DEF RecorderInv, RecorderTypeOK, Aside
<1>2. Holders' = Holders
  BY DEF Holders, Aside
<1> QED
  BY <1>1, <1>2 DEF RecorderInv, Alone, Runs, Aside

LEMMA RecordStays ==
  ASSUME RecorderInv, Opened, NEW r \in Readers, Record(r), UNCHANGED party
  PROVE  RecorderInv'
<1>0. recorder \in Recorders /\ thread \in [Readers -> {"none", "reading", "returning", "returned"}]
  BY DEF RecorderInv, RecorderTypeOK
<1>1. /\ recorder' \in Recorders /\ recorder'.running /\ recorder'.for = r
      /\ recorder'.chunks = <<>> /\ recorder'.error = recorder.error
  <2>1. /\ <<>> \in Seq(Readers) /\ Len(<<>>) <= QueueChunks /\ QueueChunks \in Nat
        /\ 0 \in 0..RestartLimit
    BY RecorderAssumption
  <2> DEFINE q == [recorder EXCEPT !.running = TRUE, !.for = r, !.gone = FALSE, !.restarts = 0,
                                   !.chunks = <<>>]
  <2>2. recorder \in Shape
    BY <1>0, ChunksAre
  <2>3. /\ q \in Shape
        /\ q.running /\ q.for = r /\ q.chunks = <<>> /\ q.error = recorder.error
    BY <2>1, <2>2 DEF Shape
  <2>4. recorder' = q
    BY DEF Record
  <2> HIDE DEF q
  <2>5. q \in Recorders
    BY <2>1, <2>3, ChunksAre
  <2> QED
    BY <2>3, <2>4, <2>5
<1>2. /\ thread' \in [Readers -> {"none", "reading", "returning", "returned"}]
      /\ thread'[r] = "reading" /\ \A q \in Readers : q # r => thread'[q] = thread[q]
  BY <1>0 DEF Record
<1>3. RecorderTypeOK'
  <2>1. opening \subseteq Readers /\ overlapped \subseteq SUBSET Readers
    BY DEF RecorderInv, RecorderTypeOK
  <2>2. opening' \subseteq Readers /\ overlapped' \subseteq SUBSET Readers
    BY <2>1 DEF Record
  <2> QED
    BY <1>1, <1>2, <2>2 DEF RecorderInv, RecorderTypeOK, Record
<1>4. Alone'
  <2> SUFFICES ASSUME overlapped' = {}, ~recorder'.error
               PROVE  /\ \A q \in Holders' : q = r
                      /\ \A q \in Readers : heard'[q] \subseteq {q}
    BY <1>1 DEF Alone
  <2>1. overlapped = {} /\ ~recorder.running /\ ~recorder.error
    BY <1>1 DEF Record, Opened
  <2>2. Holders = {}
    BY <2>1 DEF RecorderInv, Alone
  <2>3. \A q \in Holders' : q = r
    BY <1>2, <2>2 DEF Holders
  <2> QED
    BY <2>1, <2>3 DEF RecorderInv, Alone, Record
<1>5. Runs'
  BY <1>1, <1>2 DEF Runs, Holders
<1> QED
  BY <1>3, <1>4, <1>5 DEF RecorderInv

LEMMA AbandonStays ==
  ASSUME RecorderInv, NEW r \in Readers, Abandon(r), UNCHANGED party
  PROVE  RecorderInv'
<1> DEFINE q == [recorder EXCEPT !.error = TRUE]
<1>1. recorder \in Shape /\ Len(recorder.chunks) <= QueueChunks /\ recorder \in Recorders
  BY ChunksAre DEF RecorderInv, RecorderTypeOK
<1>2. /\ q \in Shape /\ q.running = recorder.running /\ q.for = recorder.for /\ q.error
      /\ q.chunks = recorder.chunks
  BY <1>1 DEF Shape
<1>3. recorder' = recorder \/ recorder' = q
  BY DEF Abandon
<1> HIDE DEF q
<1>4. /\ recorder' \in Recorders /\ recorder'.running = recorder.running
      /\ recorder'.for = recorder.for /\ recorder'.chunks = recorder.chunks
      /\ recorder'.error \/ recorder'.error = recorder.error
  BY <1>1, <1>2, <1>3, ChunksAre
<1>5. UNCHANGED <<thread, asked, heard, kept, failed, overlapped>> /\ opening' \subseteq opening
  BY DEF Abandon
<1>6. RecorderTypeOK'
  BY <1>4, <1>5 DEF RecorderInv, RecorderTypeOK
<1>7. Holders' = Holders
  BY <1>5 DEF Holders
<1>8. Alone' /\ Runs'
  BY <1>1, <1>4, <1>5, <1>7 DEF RecorderInv, Alone, Runs
<1> QED
  BY <1>6, <1>8 DEF RecorderInv

LEMMA DeliverStays ==
  ASSUME RecorderInv, Deliver, UNCHANGED party
  PROVE  RecorderInv'
<1> DEFINE c == recorder.chunks
           q == [recorder EXCEPT !.chunks = Append(c, recorder.for)]
<1>1. /\ recorder \in Shape
      /\ recorder.running /\ c \in Seq(Readers) /\ Len(c) < QueueChunks /\ Len(c) \in Nat
  BY ChunksAre, LenProperties DEF RecorderInv, RecorderTypeOK, Deliver, Shape
<1>2. recorder.for \in Holders /\ recorder.for \in Readers
  BY <1>1 DEF RecorderInv, Runs, Holders
<1>3. /\ Append(c, recorder.for) \in Seq(Readers) /\ Len(Append(c, recorder.for)) = Len(c) + 1
      /\ \A i \in DOMAIN Append(c, recorder.for) :
             \/ i \in DOMAIN c /\ Append(c, recorder.for)[i] = c[i]
             \/ Append(c, recorder.for)[i] = recorder.for
  <2>1. /\ Append(c, recorder.for) \in Seq(Readers) /\ Len(Append(c, recorder.for)) = Len(c) + 1
        /\ \A i \in 1..Len(c) : Append(c, recorder.for)[i] = c[i]
        /\ Append(c, recorder.for)[Len(c) + 1] = recorder.for
        /\ DOMAIN c = 1..Len(c) /\ DOMAIN Append(c, recorder.for) = 1..Len(c) + 1
    BY <1>1, <1>2, AppendProperties, LenProperties
  <2>2. 1..Len(c) + 1 = 1..Len(c) \cup {Len(c) + 1}
    BY <1>1
  <2> QED
    BY <2>1, <2>2
<1>4. recorder' = q
  BY DEF Deliver
<1>5. Len(c) + 1 <= QueueChunks
  <2>1. QueueChunks \in Nat
    BY RecorderAssumption
  <2> QED
    BY <1>1, <2>1
<1> HIDE DEF c
<1>6. /\ q \in Shape
      /\ q.chunks = Append(c, recorder.for) /\ q.running = recorder.running
      /\ q.for = recorder.for /\ q.error = recorder.error
  BY <1>1, <1>3 DEF Shape
<1> HIDE DEF q
<1>7. recorder' \in Recorders
  BY <1>3, <1>4, <1>5, <1>6, ChunksAre
<1>8. RecorderTypeOK'
  BY <1>7 DEF RecorderInv, RecorderTypeOK, Deliver
<1>9. Holders' = Holders
  BY DEF Holders, Deliver
<1>10. Alone'
  BY <1>1, <1>3, <1>4, <1>6, <1>9 DEF RecorderInv, Alone, Deliver, c
<1>11. Runs'
  BY <1>4, <1>6, <1>9 DEF RecorderInv, Runs
<1> QED
  BY <1>8, <1>10, <1>11 DEF RecorderInv, Deliver

LEMMA OverIs ==
  ASSUME recorder \in Recorders
  PROVE  /\ Over \in Recorders /\ ~Over.running
         /\ Over.chunks = recorder.chunks /\ Over.error = recorder.error
<1>1. recorder \in Shape /\ Len(recorder.chunks) <= QueueChunks /\ 0 \in 0..RestartLimit
  BY ChunksAre, RecorderAssumption
<1>2. /\ Over \in Shape /\ ~Over.running
      /\ Over.chunks = recorder.chunks /\ Over.error = recorder.error
  BY <1>1 DEF Over, Shape
<1> QED
  BY <1>1, <1>2, ChunksAre

LEMMA GivenUpIs ==
  ASSUME recorder \in Recorders
  PROVE  GivenUp \in Recorders /\ ~GivenUp.running /\ GivenUp.error
<1> DEFINE o == Over
<1>1. o \in Shape /\ ~o.running /\ Len(o.chunks) <= QueueChunks
  BY OverIs, ChunksAre
<1>2. GivenUp = [o EXCEPT !.error = TRUE]
  BY DEF GivenUp
<1> HIDE DEF o
<1>3. /\ GivenUp \in Shape /\ ~GivenUp.running /\ GivenUp.error
      /\ GivenUp.chunks = o.chunks
  BY <1>1, <1>2 DEF Shape
<1> QED
  BY <1>1, <1>3, ChunksAre

\* arecord ends, is started again, or is given up.
LEMMA ExitStays ==
  ASSUME RecorderInv, Exit \/ Restart, UNCHANGED party
  PROVE  RecorderInv'
<1>1. recorder \in Recorders /\ recorder \in Shape /\ Len(recorder.chunks) <= QueueChunks
  BY ChunksAre DEF RecorderInv, RecorderTypeOK
<1>2. UNCHANGED <<opening, thread, asked, heard, kept, failed, overlapped>>
  BY DEF Exit, Restart
<1>3. CASE recorder' = GivenUp
  <2>1. recorder' \in Recorders /\ ~recorder'.running /\ recorder'.error
    BY <1>1, <1>3, GivenUpIs
  <2>2. RecorderTypeOK'
    BY <1>2, <2>1 DEF RecorderInv, RecorderTypeOK
  <2> QED
    BY <2>1, <2>2 DEF RecorderInv, Alone, Runs
<1>4. CASE recorder' # GivenUp
  <2>1. PICK g \in BOOLEAN, n \in 0..RestartLimit :
           recorder' = [recorder EXCEPT !.gone = g, !.restarts = n]
    <3>1. RestartLimit \in Nat /\ recorder.restarts \in 0..RestartLimit
      BY <1>1, RecorderAssumption DEF Shape
    <3>2. CASE Exit
      <4>1. /\ recorder.restarts < RestartLimit
            /\ recorder' = [recorder EXCEPT !.gone = TRUE, !.restarts = recorder.restarts + 1]
        BY <1>4, <3>2 DEF Exit
      <4>2. recorder.restarts + 1 \in 0..RestartLimit
        BY <3>1, <4>1
      <4> QED
        BY <4>1, <4>2
    <3>3. CASE Restart
      <4>1. recorder' = [recorder EXCEPT !.gone = FALSE]
        BY <1>4, <3>3 DEF Restart
      <4>2. recorder' = [recorder EXCEPT !.gone = FALSE, !.restarts = recorder.restarts]
        BY <1>1, <4>1 DEF Shape
      <4> QED
        BY <3>1, <4>2
    <3> QED
      BY <3>2, <3>3
  <2> DEFINE q == [recorder EXCEPT !.gone = g, !.restarts = n]
  <2>2. /\ q \in Shape /\ q.running = recorder.running /\ q.for = recorder.for
        /\ q.error = recorder.error /\ q.chunks = recorder.chunks
    BY <1>1 DEF Shape
  <2>3. recorder' = q
    BY <2>1
  <2> HIDE DEF q
  <2>4. recorder' \in Recorders
    BY <1>1, <2>2, <2>3, ChunksAre
  <2>5. RecorderTypeOK'
    BY <1>2, <2>4 DEF RecorderInv, RecorderTypeOK
  <2>6. Holders' = Holders
    BY <1>2 DEF Holders
  <2> QED
    BY <1>2, <2>2, <2>3, <2>5, <2>6 DEF RecorderInv, Alone, Runs
<1> QED
  BY <1>3, <1>4

LEMMA ReadStays ==
  ASSUME RecorderInv, NEW r \in Readers, Read(r), UNCHANGED party
  PROVE  RecorderInv'
<1> DEFINE c == recorder.chunks
           q == [recorder EXCEPT !.chunks = Tail(c)]
<1>1. /\ recorder \in Shape
      /\ c \in Seq(Readers) /\ c # <<>> /\ Len(c) <= QueueChunks
  BY ChunksAre DEF RecorderInv, RecorderTypeOK, Read, Shape
<1>2. /\ Head(c) = c[1] /\ 1 \in DOMAIN c /\ Head(c) \in Readers
      /\ Tail(c) \in Seq(Readers) /\ Len(Tail(c)) <= QueueChunks
      /\ \A i \in DOMAIN Tail(c) : i + 1 \in DOMAIN c /\ Tail(c)[i] = c[i + 1]
  <2> DEFINE n == Len(c)
             m == Len(Tail(c))
  <2>1. /\ Head(c) = c[1] /\ Tail(c) \in Seq(Readers) /\ m = n - 1
        /\ \A i \in 1..m : Tail(c)[i] = c[i + 1]
        /\ DOMAIN c = 1..n /\ DOMAIN Tail(c) = 1..m /\ n \in Nat /\ m \in Nat
    BY <1>1, HeadTailProperties, LenProperties
  <2>2. n # 0
    BY <1>1, EmptySeq
  <2>3. n <= QueueChunks /\ QueueChunks \in Nat
    BY <1>1, RecorderAssumption
  <2> HIDE DEF n, m
  <2>4. 1 \in 1..n /\ m <= QueueChunks /\ \A i \in 1..m : i + 1 \in 1..n
    BY <2>1, <2>2, <2>3
  <2>5. c[1] \in Readers
    BY <1>1, <2>1, <2>4, ElementOfSeq DEF n
  <2> QED
    BY <2>1, <2>4, <2>5 DEF m
<1>3. recorder' = q
  BY DEF Read
<1> HIDE DEF c
<1>4. /\ q \in Shape
      /\ q.chunks = Tail(c) /\ q.running = recorder.running
      /\ q.for = recorder.for /\ q.error = recorder.error
  BY <1>1, <1>2 DEF Shape
<1> HIDE DEF q
<1>5. recorder' \in Recorders
  BY <1>2, <1>3, <1>4, ChunksAre
<1>6. /\ heard' \in [Readers -> SUBSET Readers] /\ heard'[r] = heard[r] \cup {Head(c)}
      /\ \A p \in Readers : p # r => heard'[p] = heard[p]
  BY <1>2 DEF Read, RecorderInv, RecorderTypeOK, c
<1>7. kept' \in [Enrolments -> 0..MaxChunks]
  <2>1. kept' = [e \in Enrolments |-> IF e = r THEN kept[e] + 1 ELSE kept[e]]
    BY DEF Read
  <2>2. ~(r \in Enrolments /\ kept[r] = MaxChunks)
    BY DEF Read, Looping, Full
  <2>3. MaxChunks \in Nat /\ \A e \in Enrolments : kept[e] \in 0..MaxChunks
    BY RecorderAssumption DEF RecorderInv, RecorderTypeOK
  <2>4. \A e \in Enrolments : kept'[e] \in 0..MaxChunks
    BY <2>1, <2>2, <2>3
  <2> QED
    BY <2>1, <2>4
<1>8. RecorderTypeOK'
  BY <1>5, <1>6, <1>7 DEF Read, RecorderInv, RecorderTypeOK
<1>9. Holders' = Holders /\ r \in Holders
  BY DEF Holders, Read, Looping
<1>10. Alone'
  <2> SUFFICES ASSUME overlapped = {}, ~recorder.error PROVE Alone'
    BY <1>3, <1>4 DEF Alone, Read
  <2>1. /\ \A p \in Holders : recorder.running /\ recorder.for = p
        /\ \A i \in DOMAIN c : c[i] = recorder.for
        /\ \A p \in Readers : heard[p] \subseteq {p}
    BY <1>9 DEF RecorderInv, Alone, c
  <2>2. Head(c) = r
    BY <1>2, <1>9, <2>1
  <2>3. \A i \in DOMAIN Tail(c) : Tail(c)[i] = recorder.for
    BY <1>2, <2>1
  <2>4. \A p \in Readers : heard'[p] \subseteq {p}
    BY <1>6, <2>1, <2>2
  <2> QED
    BY <1>3, <1>4, <1>9, <2>1, <2>3, <2>4 DEF Alone
<1>11. Runs'
  BY <1>3, <1>4, <1>9 DEF RecorderInv, Runs
<1> QED
  BY <1>8, <1>10, <1>11 DEF RecorderInv

LEMMA LeaveStays ==
  ASSUME RecorderInv, NEW r \in Readers, LeaveLoop(r) \/ FailLoop(r), UNCHANGED party
  PROVE  RecorderInv'
<1>1. /\ thread[r] = "reading" /\ thread' = [thread EXCEPT ![r] = "returning"]
      /\ UNCHANGED <<recorder, opening, heard, kept, overlapped>>
      /\ asked' \subseteq asked /\ failed' \subseteq failed \cup Enrolments
  BY DEF LeaveLoop, FailLoop, Looping
<1>2. RecorderTypeOK'
  BY <1>1 DEF RecorderInv, RecorderTypeOK
<1>3. Holders' = Holders
  BY <1>1 DEF Holders, RecorderInv, RecorderTypeOK
<1> QED
  BY <1>1, <1>2, <1>3 DEF RecorderInv, Alone, Runs

LEMMA StopRecordStays ==
  ASSUME RecorderInv, NEW r \in Readers, StopRecord(r), UNCHANGED party
  PROVE  RecorderInv'
<1>1. recorder \in Recorders /\ recorder' = Over
  BY DEF RecorderInv, RecorderTypeOK, StopRecord
<1>2. recorder' \in Recorders /\ ~recorder'.running /\ recorder'.error = recorder.error
  BY <1>1, OverIs
<1>3. RecorderTypeOK'
  BY <1>2 DEF RecorderInv, RecorderTypeOK, StopRecord
<1>4. Holders' = Holders \ {r} /\ r \in Holders
  BY DEF Holders, StopRecord, RecorderInv, RecorderTypeOK
<1>5. Alone'
  BY <1>2, <1>4 DEF RecorderInv, Alone, StopRecord
<1> QED
  BY <1>2, <1>3, <1>5 DEF RecorderInv, Runs

LEMMA EndStays ==
  ASSUME RecorderInv, NEW r \in Readers, EndThread(r), UNCHANGED party
  PROVE  RecorderInv'
<1>1. kept' \in [Enrolments -> 0..MaxChunks]
  <2>1. 0 \in 0..MaxChunks
    BY RecorderAssumption
  <2> QED
    BY <2>1 DEF EndThread, RecorderInv, RecorderTypeOK
<1>2. RecorderTypeOK'
  BY <1>1 DEF RecorderInv, RecorderTypeOK, EndThread
<1>3. Holders' = Holders
  BY DEF Holders, EndThread, RecorderInv, RecorderTypeOK
<1>4. \A p \in Readers : heard'[p] \subseteq heard[p]
  BY DEF EndThread, RecorderInv, RecorderTypeOK
<1>5. UNCHANGED <<recorder, overlapped>>
  BY DEF EndThread
<1>6. Alone'
  BY <1>3, <1>4, <1>5 DEF RecorderInv, Alone
<1> QED
  BY <1>2, <1>3, <1>5, <1>6 DEF RecorderInv, Runs

--------------------------------------------------------------------------------
(* Recognition.                                                             *)

\* Nobody of S begins to read.
Calm(S) ==
    \A r \in S : /\ Unasked(r)' => Unasked(r)
                 /\ thread[r] = "none" => thread'[r] = "none"

AsrCalls == {NoAsrCall} \cup [op : {"start", "record", "forget"}, for : AsrReaders]
            \cup [op : {"clear"}, for : {Nobody}]

\* A call that goes on, or returns.
LEMMA CallOfAsr ==
  ASSUME AsrTypeOK, NEW t \in Callers, NEW c, asrCall' = [asrCall EXCEPT ![t] = c]
  PROVE  /\ asrCall'[t] = c /\ \A u \in Callers : u # t => asrCall'[u] = asrCall[u]
         /\ c \in AsrCalls => asrCall' \in [Callers -> AsrCalls]
BY DEF AsrTypeOK, AsrCalls

LEMMA OpsOfAsr ==
  ASSUME AsrTypeOK, NEW t \in Callers
  PROVE  /\ asrCall[t] \in AsrCalls
         /\ asrCall[t].op \in {"start", "record", "forget"} =>
                asrCall[t].for \in AsrReaders
                /\ asrCall[t] = [op |-> asrCall[t].op, for |-> asrCall[t].for]
         /\ asrCall[t] = NoAsrCall => asrCall[t].op = "idle"
<1>1. asrCall[t] \in AsrCalls
  BY DEF AsrTypeOK, AsrCalls
<1>2. NoAsrCall.op = "idle"
  BY DEF NoAsrCall
<1> QED
  BY <1>1, <1>2 DEF AsrCalls

LEMMA CalmAsr == AsrInv /\ Calm(AsrReaders) /\ UNCHANGED asrVars => AsrInv'
<1> SUFFICES ASSUME AsrInv, Calm(AsrReaders), UNCHANGED asrVars PROVE AsrInv'
  OBVIOUS
<1>1. AsrTypeOK' /\ Locked'
  BY DEF AsrInv, AsrTypeOK, Locked, asrVars
<1>2. Registered'
  BY DEF AsrInv, Registered, Calm, asrVars
<1> QED
  BY <1>1, <1>2 DEF AsrInv

\* A call returns; what is registered stays registered.
LEMMA AsrReturns ==
  ASSUME AsrInv, Calm(AsrReaders), NEW t \in Callers, Returns(t), outrun' = outrun,
         lock' = lock \/ (lock' = Nobody /\ lock = t),
         sources' \subseteq sources, dictation' \in {dictation, Nobody},
         \A r \in AsrReaders : Unasked(r) /\ r \notin outrun /\ (r \in sources \/ r = dictation) =>
             r \in sources' \/ r = dictation'
  PROVE  AsrInv'
<1>1. /\ asrCall'[t] = NoAsrCall /\ \A u \in Callers : u # t => asrCall'[u] = asrCall[u]
      /\ asrCall' \in [Callers -> AsrCalls]
  BY CallOfAsr DEF AsrInv, Returns, AsrCalls
<1>2. NoAsrCall.op = "idle"
  BY DEF NoAsrCall
<1>3. AsrTypeOK'
  BY <1>1 DEF AsrInv, AsrTypeOK, AsrCalls
<1>4. Locked'
  <2> SUFFICES ASSUME NEW u \in Callers, asrCall'[u].op \in {"start", "record"}
               PROVE  lock' = u /\ dictation' = Nobody
    BY DEF Locked
  <2>1. u # t /\ asrCall'[u] = asrCall[u]
    BY <1>1, <1>2
  <2> QED
    BY <2>1 DEF AsrInv, Locked
<1>5. Registered'
  <2> SUFFICES ASSUME NEW r \in AsrReaders, Unasked(r)', r \notin outrun
               PROVE  /\ r \in sources' \/ r = dictation'
                      /\ \A u \in Callers : /\ asrCall'[u].op # "clear"
                                            /\ asrCall'[u] # [op |-> "forget", for |-> r]
    BY DEF Registered
  <2>1. Unasked(r)
    BY DEF Calm
  <2>2. \A u \in Callers : asrCall[u].op # "clear" /\ asrCall[u] # [op |-> "forget", for |-> r]
    BY <2>1 DEF AsrInv, Registered
  <2>3. r \in sources \/ r = dictation
    BY <2>1 DEF AsrInv, Registered
  <2>4. NoAsrCall # [op |-> "forget", for |-> r]
    BY <1>2
  <2> QED
    BY <1>1, <1>2, <2>1, <2>2, <2>3, <2>4
<1> QED
  BY <1>3, <1>4, <1>5 DEF AsrInv

\* A call goes on to its next step, with nobody about to be forgotten who must not be.
LEMMA AsrGoesOn ==
  ASSUME AsrInv, Calm(AsrReaders), NEW t \in Callers,
         NEW op \in {"start", "record", "forget"}, NEW r \in AsrReaders, Calls(t, op, r),
         op \in {"start", "record"} => lock' = t /\ dictation = Nobody,
         lock' = lock \/ (lock = Nobody /\ lock' = t),
         op = "forget" => ~Unasked(r)',
         UNCHANGED <<dictation, outrun>>, sources' \subseteq sources,
         \A c \in Captures : Unasked(c) /\ c \in sources => c \in sources'
  PROVE  AsrInv'
<1> DEFINE c == [op |-> op, for |-> r]
<1>1. c \in AsrCalls /\ c.op = op /\ c.for = r
  BY DEF AsrCalls
<1>2. asrCall' = [asrCall EXCEPT ![t] = c]
  BY DEF Calls
<1> HIDE DEF c
<1>3. /\ asrCall'[t] = c /\ \A u \in Callers : u # t => asrCall'[u] = asrCall[u]
      /\ asrCall' \in [Callers -> AsrCalls]
  BY <1>1, <1>2, CallOfAsr DEF AsrInv
<1>4. AsrTypeOK'
  <2>1. /\ sources' \subseteq Captures /\ dictation' \in Preparations \cup {Nobody}
        /\ lock' \in Callers \cup {Nobody} /\ outrun' \subseteq AsrReaders
    BY DEF AsrInv, AsrTypeOK
  <2> QED
    BY <1>3, <2>1 DEF AsrTypeOK, AsrCalls
<1>5. Locked'
  <2> SUFFICES ASSUME NEW u \in Callers, asrCall'[u].op \in {"start", "record"}
               PROVE  lock' = u /\ dictation = Nobody
    BY DEF Locked
  <2>1. CASE u = t
    BY <1>1, <1>3, <2>1
  <2>2. CASE u # t
    <3>1. asrCall'[u] = asrCall[u]
      BY <1>3, <2>2
    <3>2. lock = u /\ dictation = Nobody
      BY <3>1 DEF AsrInv, Locked
    <3>3. lock # Nobody
      BY <3>2, RecorderAssumption
    <3> QED
      BY <3>2, <3>3
  <2> QED
    BY <2>1, <2>2
<1>6. Registered'
  <2> SUFFICES ASSUME NEW q \in AsrReaders, Unasked(q)', q \notin outrun
               PROVE  /\ q \in sources' \/ q = dictation
                      /\ \A u \in Callers : /\ asrCall'[u].op # "clear"
                                            /\ asrCall'[u] # [op |-> "forget", for |-> q]
    BY DEF Registered
  <2>1. Unasked(q)
    BY DEF Calm
  <2>2. \A u \in Callers : asrCall[u].op # "clear" /\ asrCall[u] # [op |-> "forget", for |-> q]
    BY <2>1 DEF AsrInv, Registered
  <2>3. q \in sources \/ q = dictation
    BY <2>1 DEF AsrInv, Registered
  <2>4. sources \subseteq Captures
    BY DEF AsrInv, AsrTypeOK
  <2>5. c.op # "clear" /\ (c = [op |-> "forget", for |-> q] => FALSE)
    <3>1. c = [op |-> "forget", for |-> q] => op = "forget" /\ q = r
      BY <1>1
    <3> QED
      BY <1>1, <3>1
  <2> QED
    BY <1>3, <2>1, <2>2, <2>3, <2>4, <2>5
<1> QED
  BY <1>4, <1>5, <1>6 DEF AsrInv

\* Nobody begins to read when no thread does and nobody is taken back a request to stop.
LEMMA NoThreadIsCalm ==
  ASSUME NEW S, thread' = thread, asked \subseteq asked'
  PROVE  Calm(S)
BY DEF Calm, Unasked

LEMMA StartKeeps ==
  ASSUME AsrInv, NEW t \in Callers, NEW r \in AsrReaders, Start(t, r)
  PROVE  AsrInv'
<1>1. Calm(AsrReaders)
  <2>1. thread' = thread /\ asked \subseteq asked'
    BY DEF Start, recorderVars
  <2> QED
    BY <2>1, NoThreadIsCalm
<1>2. sources' \subseteq sources
  BY DEF Start, Pruned
<1>3. \A c \in Captures : Unasked(c) /\ c \in sources => c \in sources'
  BY DEF Start, Pruned, Alive, Unasked
<1>4. UNCHANGED <<dictation, outrun>>
  BY DEF Start
<1>5. CASE Busy(r) /\ UNCHANGED <<lock, asrCall>>
  <2>1. AsrTypeOK' /\ Locked'
    BY <1>2, <1>4, <1>5 DEF AsrInv, AsrTypeOK, Locked
  <2>2. Registered'
    <3>1. \A q \in AsrReaders : Unasked(q)' => Unasked(q)
      BY <1>1 DEF Calm
    <3>2. \A q \in AsrReaders : q \in sources => q \in Captures
      BY DEF AsrInv, AsrTypeOK
    <3> QED
      BY <1>3, <1>4, <1>5, <3>1, <3>2 DEF AsrInv, Registered
  <2> QED
    BY <2>1, <2>2 DEF AsrInv
<1>6. CASE ~Busy(r) /\ lock' = t /\ Calls(t, "start", r)
  <2>1. dictation = Nobody /\ lock = Nobody
    BY <1>6 DEF Busy, Start
  <2> QED
    BY <1>1, <1>2, <1>3, <1>4, <1>6, <2>1, AsrGoesOn
<1> QED
  BY <1>5, <1>6 DEF Start

LEMMA OpenRecorderKeeps ==
  ASSUME AsrInv, NEW t \in Callers, OpenRecorder(t)
  PROVE  AsrInv' /\ asrCall[t].for \in AsrReaders
<1> DEFINE r == asrCall[t].for
<1>1. r \in AsrReaders /\ lock = t /\ dictation = Nobody
  BY OpsOfAsr DEF OpenRecorder, AsrInv, Locked
<1>2. thread' = thread /\ asked \subseteq asked'
  BY DEF OpenRecorder, CheckIdle, recorderVars
<1>3. Calm(AsrReaders)
  BY <1>2, NoThreadIsCalm
<1>4. UNCHANGED <<sources, dictation, outrun>>
  BY DEF OpenRecorder
<1>5. CASE Calls(t, "record", r) /\ UNCHANGED lock
  BY <1>1, <1>3, <1>4, <1>5, AsrGoesOn
<1>6. CASE Returns(t) /\ lock' = Nobody
  BY <1>1, <1>3, <1>4, <1>6, AsrReturns
<1> QED
  BY <1>1, <1>5, <1>6 DEF OpenRecorder

LEMMA StartFailsKeeps ==
  ASSUME AsrInv, NEW t \in Callers, StartFails(t)
  PROVE  AsrInv' /\ asrCall[t].for \in AsrReaders
<1>1. asrCall[t].for \in AsrReaders /\ lock = t
  BY OpsOfAsr DEF StartFails, AsrInv, Locked
<1>2. thread' = thread /\ asked \subseteq asked'
  BY DEF StartFails, Abandon, recorderVars
<1>3. Calm(AsrReaders)
  BY <1>2, NoThreadIsCalm
<1>4. UNCHANGED <<sources, dictation, outrun>> /\ Returns(t) /\ lock' = Nobody
  BY DEF StartFails
<1> QED
  BY <1>1, <1>3, <1>4, AsrReturns

LEMMA StopKeeps ==
  ASSUME AsrInv, NEW t \in Callers, NEW r \in AsrReaders, Stop(t, r)
  PROVE  AsrInv'
<1>1. thread' = thread /\ asked \subseteq asked'
  BY DEF Stop, AskToStop
<1>2. Calm(AsrReaders)
  BY <1>1, NoThreadIsCalm
<1>3. ~Unasked(r)'
  BY <1>1 DEF Stop, AskToStop, Unasked
<1>4. UNCHANGED <<sources, dictation, lock, outrun>>
  BY DEF Stop
<1>5. CASE Calls(t, "forget", r)
  BY <1>2, <1>3, <1>4, <1>5, AsrGoesOn
<1>6. CASE UNCHANGED asrCall
  BY <1>2, <1>4, <1>6, CalmAsr DEF asrVars
<1> QED
  BY <1>5, <1>6 DEF Stop

LEMMA PollKeeps ==
  ASSUME AsrInv, NEW t \in Callers, NEW r \in AsrReaders, Poll(t, r)
  PROVE  AsrInv'
<1>1. thread' = thread /\ asked \subseteq asked'
  BY DEF Poll, recorderVars
<1>2. Calm(AsrReaders)
  BY <1>1, NoThreadIsCalm
<1>3. ~Unasked(r)'
  BY <1>1 DEF Poll, Alive, Unasked
<1>4. UNCHANGED <<sources, dictation, lock, outrun>> /\ Calls(t, "forget", r)
  BY DEF Poll
<1> QED
  BY <1>2, <1>3, <1>4, AsrGoesOn

LEMMA ForgetKeeps ==
  ASSUME AsrInv, NEW t \in Callers, Forget(t)
  PROVE  AsrInv'
<1> DEFINE r == asrCall[t].for
<1>1. thread' = thread /\ asked \subseteq asked'
  BY DEF Forget, recorderVars
<1>2. Calm(AsrReaders)
  BY <1>1, NoThreadIsCalm
<1>3. asrCall[t] = [op |-> "forget", for |-> r]
  BY OpsOfAsr DEF AsrInv, Forget
<1>4. \A q \in AsrReaders : Unasked(q) /\ q \notin outrun => q # r
  BY <1>3 DEF AsrInv, Registered
<1>5. /\ sources' = sources \ {r} /\ Returns(t) /\ lock' = lock /\ outrun' = outrun
      /\ dictation' = IF dictation = r THEN Nobody ELSE dictation
  BY DEF Forget
<1> HIDE DEF r
<1> QED
  BY <1>2, <1>4, <1>5, AsrReturns

LEMMA ShutdownKeeps ==
  ASSUME AsrInv, NEW t \in Callers, Shutdown(t)
  PROVE  AsrInv'
<1> DEFINE c == [op |-> "clear", for |-> Nobody]
<1>1. c \in AsrCalls /\ c.op = "clear"
  BY DEF AsrCalls
<1>2. asrCall' = [asrCall EXCEPT ![t] = c] /\ UNCHANGED <<thread, sources, dictation, lock, outrun>>
  BY DEF Shutdown, Calls
<1> HIDE DEF c
<1>3. /\ asrCall'[t] = c /\ \A u \in Callers : u # t => asrCall'[u] = asrCall[u]
      /\ asrCall' \in [Callers -> AsrCalls]
  BY <1>1, <1>2, CallOfAsr DEF AsrInv
<1>4. AsrTypeOK'
  BY <1>2, <1>3 DEF AsrInv, AsrTypeOK, AsrCalls
<1>5. Locked'
  BY <1>1, <1>2, <1>3 DEF AsrInv, Locked
<1>6. \A r \in AsrReaders : ~Unasked(r)'
  BY <1>2 DEF Unasked, Shutdown
<1> QED
  BY <1>4, <1>5, <1>6 DEF AsrInv, Registered

LEMMA ClearKeeps ==
  ASSUME AsrInv, NEW t \in Callers, Clear(t)
  PROVE  AsrInv'
<1>1. thread' = thread /\ asked \subseteq asked'
  BY DEF Clear, recorderVars
<1>2. Calm(AsrReaders)
  BY <1>1, NoThreadIsCalm
<1>3. \A q \in AsrReaders : ~(Unasked(q) /\ q \notin outrun)
  BY DEF AsrInv, Registered, Clear
<1>4. /\ sources' \subseteq sources /\ Returns(t) /\ lock' = lock /\ outrun' = outrun
      /\ dictation' \in {dictation, Nobody}
  BY DEF Clear
<1> QED
  BY <1>2, <1>3, <1>4, AsrReturns

LEMMA StartThreadKeeps ==
  ASSUME AsrInv, RecorderTypeOK, NEW t \in Callers, StartThread(t)
  PROVE  /\ AsrInv' /\ asrCall[t].for \in AsrReaders
<1> DEFINE r == asrCall[t].for
<1>1. r \in AsrReaders /\ lock = t /\ dictation = Nobody /\ Nobody \notin AsrReaders
      /\ Nobody \notin Callers
  BY OpsOfAsr, RecorderAssumption DEF StartThread, AsrInv, Locked, AsrReaders
<1>2. /\ asrCall'[t] = NoAsrCall /\ \A u \in Callers : u # t => asrCall'[u] = asrCall[u]
      /\ asrCall' \in [Callers -> AsrCalls]
  BY CallOfAsr DEF AsrInv, StartThread, Returns, AsrCalls
<1>3. NoAsrCall.op = "idle"
  BY DEF NoAsrCall
<1>4. /\ lock' = Nobody /\ sources' = sources \cup ({r} \cap Captures)
      /\ dictation' = IF r \in Preparations THEN r ELSE dictation
      /\ \/ outrun' = outrun \cup {r}
         \/ /\ outrun' = outrun \ {r}
            /\ ~\E u \in Callers : \/ asrCall[u].op = "clear"
                                   \/ asrCall[u] = [op |-> "forget", for |-> r]
  BY DEF StartThread
<1>5. \A q \in AsrReaders : q # r /\ Unasked(q)' => Unasked(q)
  BY DEF StartThread, Record, Unasked, RecorderTypeOK, AsrReaders, Readers
<1> HIDE DEF r
<1>6. AsrTypeOK'
  <2>1. sources' \subseteq Captures /\ dictation' \in Preparations \cup {Nobody} /\ outrun' \subseteq AsrReaders
    BY <1>1, <1>4 DEF AsrInv, AsrTypeOK
  <2> QED
    BY <1>2, <1>4, <2>1 DEF AsrTypeOK, AsrCalls
<1>7. Locked'
  <2>1. \A u \in Callers : u # t => asrCall[u].op \notin {"start", "record"}
    BY <1>1 DEF AsrInv, Locked
  <2> QED
    BY <1>2, <1>3, <2>1 DEF Locked
<1>8. Registered'
  <2> SUFFICES ASSUME NEW q \in AsrReaders, Unasked(q)', q \notin outrun'
               PROVE  /\ q \in sources' \/ q = dictation'
                      /\ \A u \in Callers : /\ asrCall'[u].op # "clear"
                                            /\ asrCall'[u] # [op |-> "forget", for |-> q]
    BY DEF Registered
  <2>1. NoAsrCall # [op |-> "forget", for |-> q]
    BY <1>3
  <2>2. CASE q = r
    <3>1. q \in sources' \/ q = dictation'
      BY <1>1, <1>4, <2>2 DEF AsrReaders
    <3>2. \A u \in Callers : asrCall[u].op # "clear" /\ asrCall[u] # [op |-> "forget", for |-> q]
      BY <1>4, <2>2
    <3> QED
      BY <1>2, <1>3, <2>1, <3>1, <3>2
  <2>3. CASE q # r
    <3>1. Unasked(q) /\ q \notin outrun
      BY <1>4, <1>5, <2>3
    <3>2. /\ q \in sources
          /\ \A u \in Callers : asrCall[u].op # "clear" /\ asrCall[u] # [op |-> "forget", for |-> q]
      BY <1>1, <3>1 DEF AsrInv, Registered
    <3> QED
      BY <1>2, <1>3, <1>4, <2>1, <3>2
  <2> QED
    BY <2>2, <2>3
<1> QED
  BY <1>1, <1>6, <1>7, <1>8 DEF AsrInv, r

--------------------------------------------------------------------------------
(* Enrolments.                                                              *)

EnrolCalls == {NoEnrolCall} \cup [op : {"replace"}, for : Enrolments, old : Enrolments]
              \cup [op : {"open", "record", "end"}, for : Enrolments, old : {Nobody}]

LEMMA OpsOfEnrol ==
  ASSUME EnrolTypeOK, NEW t \in Callers
  PROVE  /\ enrolCall[t] \in EnrolCalls
         /\ Starts(t) => enrolCall[t].for \in Enrolments
<1>1. enrolCall[t] \in EnrolCalls
  BY DEF EnrolTypeOK, EnrolCalls
<1>2. NoEnrolCall.op = "idle"
  BY DEF NoEnrolCall
<1> QED
  BY <1>1, <1>2 DEF EnrolCalls, Starts

LEMMA CallOfEnrol ==
  ASSUME EnrolTypeOK, NEW t \in Callers, NEW c \in EnrolCalls, enrolCall' = [enrolCall EXCEPT ![t] = c]
  PROVE  /\ enrolCall'[t] = c /\ \A u \in Callers : u # t => enrolCall'[u] = enrolCall[u]
         /\ enrolCall' \in [Callers -> EnrolCalls]
BY DEF EnrolTypeOK, EnrolCalls

LEMMA CalmEnrol == EnrolInv /\ Calm(Enrolments) /\ UNCHANGED enrolVars => EnrolInv'
<1> SUFFICES ASSUME EnrolInv, Calm(Enrolments), UNCHANGED enrolVars PROVE EnrolInv'
  OBVIOUS
<1>1. EnrolTypeOK' /\ Rushed'
  BY DEF EnrolInv, EnrolTypeOK, Rushed, Starts, enrolVars
<1>2. BrowserIsSilent'
  BY BrowserAssumption DEF EnrolInv, BrowserIsSilent, Calm, enrolVars
<1>3. Current'
  BY DEF EnrolInv, Current, Calm, Starts, enrolVars
<1> QED
  BY <1>1, <1>2, <1>3 DEF EnrolInv

\* A call of start goes on, or any call returns, and no start begins.
LEMMA EnrolGoesOn ==
  ASSUME EnrolInv, Calm(Enrolments), NEW t \in Callers,
         NEW c \in EnrolCalls, enrolCall' = [enrolCall EXCEPT ![t] = c],
         c.op \in {"replace", "open", "record"} => Starts(t) /\ c.for = enrolCall[t].for,
         c.op = "record" => c.for \notin Browser,
         rushed' = rushed, enrolLock' \in Callers \cup {Nobody},
         current' \in Enrolments \cup {Nobody},
         Starts(t) \/ \A e \in Enrolments : Unasked(e) /\ e = current => current' = e
  PROVE  EnrolInv'
<1>1. /\ enrolCall'[t] = c /\ \A u \in Callers : u # t => enrolCall'[u] = enrolCall[u]
      /\ enrolCall' \in [Callers -> EnrolCalls]
  BY CallOfEnrol DEF EnrolInv
<1>2. \A u \in Callers : Starts(u)' => Starts(u) /\ enrolCall'[u].for = enrolCall[u].for
  BY <1>1 DEF Starts
<1>3. EnrolTypeOK'
  BY <1>1 DEF EnrolInv, EnrolTypeOK, EnrolCalls
<1>4. BrowserIsSilent'
  <2>1. \A b \in Browser : thread'[b] = "none"
    BY BrowserAssumption DEF EnrolInv, BrowserIsSilent, Calm
  <2>2. \A u \in Callers : enrolCall'[u].op = "record" => enrolCall'[u].for \notin Browser
    BY <1>1 DEF EnrolInv, BrowserIsSilent
  <2> QED
    BY <2>1, <2>2 DEF BrowserIsSilent
<1>5. Rushed'
  BY <1>2 DEF EnrolInv, Rushed
<1>6. Current'
  <2> SUFFICES ASSUME NEW e \in Enrolments, Unasked(e)', e \notin rushed
               PROVE  e = current' /\ \A u \in Callers : ~Starts(u)'
    BY DEF Current
  <2>1. Unasked(e)
    BY DEF Calm
  <2>2. e = current /\ \A u \in Callers : ~Starts(u)
    BY <2>1 DEF EnrolInv, Current
  <2> QED
    BY <1>2, <2>1, <2>2
<1> QED
  BY <1>3, <1>4, <1>5, <1>6 DEF EnrolInv

LEMMA BeginKeeps ==
  ASSUME EnrolInv, NEW t \in Callers, NEW e \in Enrolments, BeginEnrolment(t, e)
  PROVE  EnrolInv' /\ (current # Nobody => current \in Enrolments)
<1>1. thread' = thread /\ asked \subseteq asked'
  BY DEF BeginEnrolment, AskToEnd, recorderVars
<1>2. UNCHANGED <<current, enrolLock>> /\ thread[e] = "none"
  BY DEF BeginEnrolment, Unused
<1>3. PICK c \in EnrolCalls : /\ enrolCall' = [enrolCall EXCEPT ![t] = c]
                              /\ c.op \in {"open", "replace"} /\ c.for = e
  <2>1. CASE Enrols(t, "open", e)
    <3>1. [op |-> "open", for |-> e, old |-> Nobody] \in EnrolCalls
      BY DEF EnrolCalls
    <3> QED
      BY <2>1, <3>1 DEF Enrols
  <2>2. CASE current # Nobody /\ enrolCall' = [enrolCall EXCEPT ![t] = [op |-> "replace", for |-> e, old |-> current]]
    <3>1. [op |-> "replace", for |-> e, old |-> current] \in EnrolCalls
      BY <2>2 DEF EnrolCalls, EnrolInv, EnrolTypeOK
    <3> QED
      BY <2>2, <3>1
  <2> QED
    BY <2>1, <2>2 DEF BeginEnrolment
<1>4. /\ enrolCall'[t] = c /\ \A u \in Callers : u # t => enrolCall'[u] = enrolCall[u]
      /\ enrolCall' \in [Callers -> EnrolCalls]
  BY <1>3, CallOfEnrol DEF EnrolInv
<1>5. \A u \in Callers : u # t => /\ Starts(u)' <=> Starts(u)
                                  /\ Starts(u) => enrolCall[u].for \in Starting
  BY <1>4 DEF Starts, Starting
<1>6. /\ Starting = {} => rushed' = rushed \ {e}
      /\ Starting # {} => rushed' = rushed \cup Starting \cup {e}
  BY DEF BeginEnrolment
<1>7. Starting \subseteq Enrolments
  BY OpsOfEnrol DEF EnrolInv, Starting, Starts
<1>8. EnrolTypeOK'
  BY <1>2, <1>4, <1>6, <1>7 DEF EnrolInv, EnrolTypeOK, EnrolCalls
<1>9. BrowserIsSilent'
  BY <1>1, <1>3, <1>4 DEF EnrolInv, BrowserIsSilent
<1>10. Rushed'
  <2> SUFFICES ASSUME NEW u \in Callers, NEW v \in Callers, Starts(u)', Starts(v)', u # v
               PROVE  enrolCall'[u].for \in rushed'
    BY DEF Rushed
  <2>1. Starting # {}
    BY <1>5
  <2>2. CASE u = t
    BY <1>3, <1>4, <1>6, <2>1, <2>2
  <2>3. CASE u # t
    BY <1>4, <1>5, <1>6, <2>1, <2>3
  <2> QED
    BY <2>2, <2>3
<1>11. Current'
  <2> SUFFICES ASSUME NEW f \in Enrolments, Unasked(f)', f \notin rushed' PROVE FALSE
    BY DEF Current
  <2>1. Unasked(f) /\ f # e
    BY <1>1, <1>2 DEF Unasked
  <2>2. f \notin rushed
    BY <1>6, <2>1
  <2>3. f = current
    BY <2>1, <2>2 DEF EnrolInv, Current
  <2>4. current # Nobody
    BY <2>3, RecorderAssumption
  <2>5. AskToEnd(current)
    BY <2>4 DEF BeginEnrolment
  <2>6. f \in asked'
    BY <2>1, <2>3, <2>5 DEF AskToEnd, Unasked
  <2> QED
    BY <2>6 DEF Unasked
<1> QED
  BY <1>8, <1>9, <1>10, <1>11 DEF EnrolInv, EnrolTypeOK

LEMMA ReplaceKeeps ==
  ASSUME EnrolInv, NEW t \in Callers, Replace(t)
  PROVE  EnrolInv'
<1>1. thread' = thread /\ asked \subseteq asked'
  BY DEF Replace, recorderVars
<1>2. Calm(Enrolments)
  BY <1>1, NoThreadIsCalm
<1>3. Starts(t) /\ enrolCall[t].for \in Enrolments
  BY OpsOfEnrol DEF EnrolInv, Replace, Starts
<1>4. /\ current' \in Enrolments \cup {Nobody} /\ enrolLock' \in Callers \cup {Nobody}
      /\ rushed' = rushed
  BY DEF Replace, EnrolInv, EnrolTypeOK
<1>5. CASE Done(t)
  <2>1. NoEnrolCall \in EnrolCalls /\ NoEnrolCall.op = "idle"
    BY DEF EnrolCalls, NoEnrolCall
  <2> QED
    BY <1>2, <1>3, <1>4, <1>5, <2>1, EnrolGoesOn DEF Done
<1>6. CASE Enrols(t, "open", enrolCall[t].for)
  <2> DEFINE c == [op |-> "open", for |-> enrolCall[t].for, old |-> Nobody]
  <2>1. c \in EnrolCalls /\ c.op = "open" /\ c.for = enrolCall[t].for
    BY <1>3 DEF EnrolCalls
  <2>2. enrolCall' = [enrolCall EXCEPT ![t] = c]
    BY <1>6 DEF Enrols
  <2> HIDE DEF c
  <2> QED
    BY <1>2, <1>3, <1>4, <2>1, <2>2, EnrolGoesOn
<1> QED
  BY <1>5, <1>6 DEF Replace

LEMMA OpenEnrolmentKeeps ==
  ASSUME EnrolInv, NEW t \in Callers, OpenEnrolment(t)
  PROVE  EnrolInv' /\ enrolCall[t].for \in Enrolments
<1> DEFINE e == enrolCall[t].for
<1>1. Starts(t) /\ e \in Enrolments
  BY OpsOfEnrol DEF EnrolInv, OpenEnrolment, Starts
<1>2. Calm(Enrolments)
  <2>1. thread' = thread /\ (asked \subseteq asked' \/ (e \in Browser /\ asked' = asked \ {e}))
    BY DEF OpenEnrolment, CheckIdle, recorderVars
  <2>2. e \in Browser => thread[e] = "none"
    BY DEF EnrolInv, BrowserIsSilent
  <2> QED
    BY <2>1, <2>2 DEF Calm, Unasked
<1>3. /\ current' \in Enrolments \cup {Nobody} /\ enrolLock' \in Callers \cup {Nobody}
      /\ rushed' = rushed
  BY <1>1 DEF OpenEnrolment, EnrolInv, EnrolTypeOK
<1>4. CASE Done(t)
  <2>1. NoEnrolCall \in EnrolCalls /\ NoEnrolCall.op = "idle"
    BY DEF EnrolCalls, NoEnrolCall
  <2> QED
    BY <1>1, <1>2, <1>3, <1>4, <2>1, EnrolGoesOn DEF Done
<1>5. CASE e \notin Browser /\ Enrols(t, "record", e)
  <2> DEFINE c == [op |-> "record", for |-> enrolCall[t].for, old |-> Nobody]
  <2>1. c \in EnrolCalls /\ c.op = "record" /\ c.for = enrolCall[t].for
    BY <1>1 DEF EnrolCalls
  <2>2. enrolCall' = [enrolCall EXCEPT ![t] = c] /\ c.for \notin Browser
    BY <1>5 DEF Enrols
  <2> HIDE DEF c
  <2> QED
    BY <1>1, <1>2, <1>3, <2>1, <2>2, EnrolGoesOn
<1> QED
  BY <1>1, <1>4, <1>5 DEF OpenEnrolment

LEMMA StartCollectorKeeps ==
  ASSUME EnrolInv, RecorderTypeOK, NEW t \in Callers, StartCollector(t)
  PROVE  EnrolInv' /\ enrolCall[t].for \in Enrolments
<1> DEFINE e == enrolCall[t].for
<1>1. Starts(t) /\ e \in Enrolments /\ e \notin Browser
  BY OpsOfEnrol DEF EnrolInv, StartCollector, Starts, BrowserIsSilent
<1>2. NoEnrolCall \in EnrolCalls /\ NoEnrolCall.op = "idle"
  BY DEF EnrolCalls, NoEnrolCall
<1>3. /\ enrolCall'[t] = NoEnrolCall /\ \A u \in Callers : u # t => enrolCall'[u] = enrolCall[u]
      /\ enrolCall' \in [Callers -> EnrolCalls]
  BY <1>2, CallOfEnrol DEF EnrolInv, StartCollector, Done
<1>4. current' = e /\ enrolLock' = Nobody /\ rushed' = rushed
  BY DEF StartCollector
<1>5. \A f \in Enrolments : f # e => thread'[f] = thread[f] /\ (Unasked(f)' => Unasked(f))
  BY DEF StartCollector, Record, Unasked, RecorderTypeOK, Readers
<1>6. EnrolTypeOK'
  BY <1>1, <1>3, <1>4 DEF EnrolInv, EnrolTypeOK, EnrolCalls
<1>7. BrowserIsSilent'
  <2>1. \A b \in Browser : b \in Enrolments /\ b # e
    BY <1>1, BrowserAssumption
  <2> QED
    BY <1>2, <1>3, <1>5, <2>1 DEF EnrolInv, BrowserIsSilent
<1>8. Rushed'
  BY <1>2, <1>3, <1>4 DEF EnrolInv, Rushed, Starts
<1>9. Current'
  <2> SUFFICES ASSUME NEW f \in Enrolments, Unasked(f)', f \notin rushed
               PROVE  f = e /\ \A u \in Callers : ~Starts(u)'
    BY <1>4 DEF Current
  <2>1. f = e
    BY <1>1, <1>5 DEF EnrolInv, Current
  <2>2. \A u \in Callers : u # t => ~Starts(u)
    BY <1>1, <2>1 DEF EnrolInv, Rushed
  <2> QED
    BY <1>2, <1>3, <2>1, <2>2 DEF Starts
<1> QED
  BY <1>1, <1>6, <1>7, <1>8, <1>9 DEF EnrolInv

LEMMA EnrolmentFailsKeeps ==
  ASSUME EnrolInv, NEW t \in Callers, EnrolmentFails(t)
  PROVE  EnrolInv' /\ enrolCall[t].for \in Enrolments
<1>1. thread' = thread /\ asked \subseteq asked'
  BY DEF EnrolmentFails, Abandon, recorderVars
<1>2. Calm(Enrolments)
  BY <1>1, NoThreadIsCalm
<1>3. Starts(t) /\ enrolCall[t].for \in Enrolments
  BY OpsOfEnrol DEF EnrolInv, EnrolmentFails, Starts
<1>4. /\ current' \in Enrolments \cup {Nobody} /\ enrolLock' \in Callers \cup {Nobody}
      /\ rushed' = rushed /\ enrolCall' = [enrolCall EXCEPT ![t] = NoEnrolCall]
  BY DEF EnrolmentFails, EnrolInv, EnrolTypeOK, Done
<1>5. NoEnrolCall \in EnrolCalls /\ NoEnrolCall.op = "idle"
  BY DEF EnrolCalls, NoEnrolCall
<1> QED
  BY <1>2, <1>3, <1>4, <1>5, EnrolGoesOn

LEMMA EndEnrolmentKeeps ==
  ASSUME EnrolInv, NEW t \in Callers, EndEnrolment(t)
  PROVE  EnrolInv' /\ current \in Enrolments
<1> DEFINE c == [op |-> "end", for |-> current, old |-> Nobody]
<1>1. thread' = thread /\ asked \subseteq asked'
  BY DEF EndEnrolment, AskToEnd
<1>2. Calm(Enrolments)
  BY <1>1, NoThreadIsCalm
<1>3. current \in Enrolments
  BY DEF EnrolInv, EnrolTypeOK, EndEnrolment
<1>4. c \in EnrolCalls /\ c.op = "end"
  BY <1>3 DEF EnrolCalls
<1>5. enrolCall' = [enrolCall EXCEPT ![t] = c]
  BY DEF EndEnrolment, Enrols
<1> HIDE DEF c
<1>6. /\ current' = current /\ rushed' = rushed /\ enrolLock' \in Callers \cup {Nobody}
  BY DEF EndEnrolment, EnrolInv, EnrolTypeOK
<1> QED
  BY <1>2, <1>3, <1>4, <1>5, <1>6, EnrolGoesOn

LEMMA EnrolmentEndedKeeps ==
  ASSUME EnrolInv, NEW t \in Callers, EnrolmentEnded(t)
  PROVE  EnrolInv'
<1>1. thread' = thread /\ asked \subseteq asked'
  BY DEF EnrolmentEnded, recorderVars
<1>2. Calm(Enrolments)
  BY <1>1, NoThreadIsCalm
<1>3. /\ current' \in Enrolments \cup {Nobody} /\ enrolLock' \in Callers \cup {Nobody}
      /\ rushed' = rushed /\ enrolCall' = [enrolCall EXCEPT ![t] = NoEnrolCall]
  BY DEF EnrolmentEnded, EnrolInv, EnrolTypeOK, Done
<1>4. \A f \in Enrolments : Unasked(f) /\ f = current => current' = f
  BY DEF EnrolmentEnded, Ended, Unasked
<1>5. NoEnrolCall \in EnrolCalls /\ NoEnrolCall.op = "idle"
  BY DEF EnrolCalls, NoEnrolCall
<1> QED
  BY <1>2, <1>3, <1>4, <1>5, EnrolGoesOn

--------------------------------------------------------------------------------
(* The steps.                                                               *)

LEMMA InitHolds == Init => Inv
<1> SUFFICES ASSUME Init PROVE Inv
  OBVIOUS
<1>1. RecorderInv
  <2>1. /\ <<>> \in Seq(Readers) /\ Len(<<>>) <= QueueChunks /\ 0 \in 0..MaxChunks
        /\ 0 \in 0..RestartLimit
    BY RecorderAssumption
  <2> DEFINE q == [running |-> FALSE, for |-> Nobody, error |-> FALSE,
                   gone |-> FALSE, restarts |-> 0, chunks |-> <<>>]
  <2>2. /\ q \in Shape
        /\ q.chunks = <<>> /\ ~q.running
    BY <2>1 DEF Shape
  <2>3. recorder = q
    BY DEF Init, RecorderInit
  <2> HIDE DEF q
  <2>4. recorder \in Recorders
    BY <2>1, <2>2, <2>3, ChunksAre
  <2>5. RecorderTypeOK
    BY <2>1, <2>4 DEF Init, RecorderInit, RecorderTypeOK
  <2>6. Holders = {} /\ ~recorder.running
    BY <2>2, <2>3 DEF Init, RecorderInit, Holders
  <2>7. \A r \in Readers : heard[r] \subseteq {r}
    BY DEF Init, RecorderInit
  <2> QED
    BY <2>5, <2>6, <2>7 DEF RecorderInv, Alone, Runs, Init
<1>2. \A r \in Readers : ~Unasked(r)
  BY DEF Init, RecorderInit, Unasked
<1>3. AsrInv
  <2>1. NoAsrCall.op = "idle"
    BY DEF NoAsrCall
  <2>2. AsrTypeOK
    BY DEF Init, AsrInit, AsrTypeOK
  <2>3. Locked
    BY <2>1 DEF Init, AsrInit, Locked
  <2> QED
    BY <1>2, <2>2, <2>3 DEF AsrInv, Registered, AsrReaders, Readers
<1>4. EnrolInv
  <2>1. NoEnrolCall.op = "idle"
    BY DEF NoEnrolCall
  <2>2. EnrolTypeOK
    BY DEF Init, EnrolInit, EnrolTypeOK
  <2>3. BrowserIsSilent /\ Rushed
    BY <2>1, BrowserAssumption DEF Init, EnrolInit, RecorderInit, BrowserIsSilent, Rushed, Starts, Readers
  <2> QED
    BY <1>2, <2>2, <2>3 DEF EnrolInv, Current, Readers
<1>5. OpenInv
  <2>1. opening = {} /\ overlapped = {}
    BY DEF Init, RecorderInit
  <2>2. \A t \in Callers : enrolCall[t].op = "idle"
    BY DEF Init, EnrolInit, NoEnrolCall
  <2> QED
    BY <2>1, <2>2 DEF OpenInv, Opened, AsrOpens, EnrolOpens, StartsApart
<1> QED
  BY <1>1, <1>3, <1>4, <1>5 DEF Inv

LEMMA PartyReads ==
  ASSUME RecorderInv, NEW r \in party
  PROVE  r \in Readers
BY PartiesAssumption DEF RecorderInv

\* Those who use the recorder: neither recognition nor enrolment takes a step.
LEMMA ThreadKeeps ==
  ASSUME Inv, UNCHANGED party,
         \/ Deliver \/ Exit \/ Restart
         \/ \E r \in party : ThreadStep(r) \/ FailLoop(r)
         \/ \E e \in Enrolments : EnoughSpeech(e)
  PROVE  RecorderInv' /\ Calm(AsrReaders) /\ Calm(Enrolments)
<1> SUFFICES RecorderInv' /\ Calm(Readers)
  BY DEF Calm, AsrReaders, Readers
<1>0. RecorderInv /\ RecorderTypeOK
  BY DEF Inv, RecorderInv
<1>1. CASE Deliver \/ Exit \/ Restart
  <2>1. thread' = thread /\ asked \subseteq asked'
    BY <1>1 DEF Deliver, Exit, Restart
  <2> QED
    BY <1>0, <1>1, <2>1, NoThreadIsCalm, DeliverStays, ExitStays
<1>2. ASSUME NEW r \in Readers, Read(r) PROVE RecorderInv' /\ Calm(Readers)
  <2>1. thread' = thread /\ asked \subseteq asked'
    BY <1>2 DEF Read
  <2> QED
    BY <1>0, <1>2, <2>1, NoThreadIsCalm, ReadStays
<1>3. ASSUME NEW r \in Readers, LeaveLoop(r) \/ FailLoop(r) PROVE RecorderInv' /\ Calm(Readers)
  <2>1. /\ thread[r] = "reading" /\ thread' = [thread EXCEPT ![r] = "returning"]
        /\ asked' = asked \ {r} \/ asked' = asked
    BY <1>3 DEF LeaveLoop, FailLoop, Looping
  <2>2. Calm(Readers)
    BY <1>0, <2>1 DEF Calm, Unasked, RecorderTypeOK
  <2> QED
    BY <1>0, <1>3, <2>2, LeaveStays
<1>4. ASSUME NEW r \in Readers, StopRecord(r) PROVE RecorderInv' /\ Calm(Readers)
  <2>1. Calm(Readers)
    BY <1>0, <1>4 DEF StopRecord, Calm, Unasked, RecorderTypeOK
  <2> QED
    BY <1>0, <1>4, <2>1, StopRecordStays
<1>5. ASSUME NEW r \in Readers, EndThread(r) PROVE RecorderInv' /\ Calm(Readers)
  <2>1. Calm(Readers)
    BY <1>0, <1>5 DEF EndThread, Calm, Unasked, RecorderTypeOK
  <2> QED
    BY <1>0, <1>5, <2>1, EndStays
<1>6. ASSUME NEW e \in Enrolments, EnoughSpeech(e) PROVE RecorderInv' /\ Calm(Readers)
  <2>1. thread' = thread /\ asked \subseteq asked'
    BY <1>6 DEF EnoughSpeech
  <2>2. Aside
    BY <1>0, <1>6 DEF Aside, EnoughSpeech, RecorderTypeOK, Readers
  <2> QED
    BY <1>0, <2>1, <2>2, NoThreadIsCalm, AsideStays
<1> QED
  BY <1>0, <1>1, <1>2, <1>3, <1>4, <1>5, <1>6, PartyReads DEF ThreadStep

\* Whose loop begins is of the other part.
LEMMA RecordIsCalm ==
  ASSUME RecorderTypeOK, NEW r \in Readers, Record(r), NEW S \in SUBSET Readers, r \notin S
  PROVE  Calm(S)
BY DEF RecorderTypeOK, Record, Calm, Unasked

LEMMA AsrKeeps ==
  ASSUME Inv, UNCHANGED party, NEW t \in Callers,
         \/ \E r \in AsrReaders \cap party : Start(t, r) \/ Stop(t, r) \/ Poll(t, r)
         \/ Shutdown(t) \/ StartFails(t) \/ AsrStep(t)
  PROVE  RecorderInv' /\ AsrInv' /\ Calm(Enrolments)
<1>0. RecorderInv /\ RecorderTypeOK /\ AsrInv /\ AsrReaders \subseteq Readers
  BY DEF Inv, RecorderInv, AsrReaders, Readers
<1>1. ASSUME UNCHANGED <<thread, recorder, heard, kept, failed, overlapped>>,
             asked \subseteq asked', asked' \subseteq Readers, opening' \subseteq Readers
      PROVE  RecorderInv' /\ Calm(Enrolments)
  <2>1. Aside
    BY <1>0, <1>1 DEF Aside, RecorderTypeOK
  <2> QED
    BY <1>0, <1>1, <2>1, AsideStays, NoThreadIsCalm
<1>2. ASSUME NEW r \in AsrReaders, Start(t, r) \/ Stop(t, r) \/ Poll(t, r)
      PROVE  RecorderInv' /\ AsrInv' /\ Calm(Enrolments)
  <2>1. AsrInv'
    BY <1>0, <1>2, StartKeeps, StopKeeps, PollKeeps
  <2>2. /\ UNCHANGED <<thread, recorder, heard, kept, failed, overlapped, opening>>
        /\ asked \subseteq asked' /\ asked' \subseteq asked \cup {r}
    BY <1>2 DEF Start, Stop, Poll, AskToStop, recorderVars
  <2>3. asked' \subseteq Readers /\ opening' \subseteq Readers
    BY <1>0, <2>2 DEF RecorderTypeOK
  <2> QED
    BY <1>1, <2>1, <2>2, <2>3
<1>3. CASE Shutdown(t)
  <2>1. /\ UNCHANGED <<thread, recorder, heard, kept, failed, overlapped, opening>>
        /\ asked \subseteq asked' /\ asked' \subseteq asked \cup AsrReaders
    BY <1>3 DEF Shutdown
  <2>2. asked' \subseteq Readers /\ opening' \subseteq Readers
    BY <1>0, <2>1 DEF RecorderTypeOK
  <2> QED
    BY <1>0, <1>1, <1>3, <2>1, <2>2, ShutdownKeeps
<1>4. CASE Forget(t) \/ Clear(t)
  <2>1. UNCHANGED <<thread, recorder, heard, kept, failed, overlapped, opening, asked>>
    BY <1>4 DEF Forget, Clear, recorderVars
  <2>2. asked' \subseteq Readers /\ opening' \subseteq Readers
    BY <1>0, <2>1 DEF RecorderTypeOK
  <2> QED
    BY <1>0, <1>1, <1>4, <2>1, <2>2, ForgetKeeps, ClearKeeps
<1>5. CASE StartFails(t) \/ OpenRecorder(t)
  <2>1. AsrInv' /\ asrCall[t].for \in Readers
    BY <1>0, <1>5, StartFailsKeeps, OpenRecorderKeeps
  <2>2. CASE Abandon(asrCall[t].for)
    <3>1. thread' = thread /\ asked \subseteq asked'
      BY <2>2 DEF Abandon
    <3> QED
      BY <1>0, <2>1, <2>2, <3>1, AbandonStays, NoThreadIsCalm
  <2>3. CASE ~Abandon(asrCall[t].for)
    <3>1. /\ UNCHANGED <<thread, recorder, heard, kept, failed, overlapped, asked>>
          /\ opening' \subseteq opening \cup {asrCall[t].for}
      BY <1>5, <2>3 DEF StartFails, OpenRecorder, CheckIdle, recorderVars
    <3>2. asked' \subseteq Readers /\ opening' \subseteq Readers
      BY <1>0, <2>1, <3>1 DEF RecorderTypeOK
    <3> QED
      BY <1>1, <2>1, <3>1, <3>2
  <2> QED
    BY <2>2, <2>3
<1>6. CASE StartThread(t)
  <2>1. AsrInv' /\ asrCall[t].for \in AsrReaders
    BY <1>0, <1>6, StartThreadKeeps
  <2>2. Record(asrCall[t].for)
    BY <1>6 DEF StartThread
  <2>3. asrCall[t].for \notin Enrolments /\ Enrolments \subseteq Readers
    BY <2>1, RecorderAssumption DEF AsrReaders, Readers
  <2> QED
    BY <1>0, <2>1, <2>2, <2>3, RecordStays, RecordIsCalm DEF Inv, OpenInv
<1> QED
  BY <1>2, <1>3, <1>4, <1>5, <1>6 DEF AsrStep

LEMMA EnrolKeeps ==
  ASSUME Inv, UNCHANGED party, NEW t \in Callers,
         \/ \E e \in Enrolments \cap party : BeginEnrolment(t, e)
         \/ EndEnrolment(t) \/ EnrolmentFails(t) \/ EnrolStep(t)
  PROVE  RecorderInv' /\ EnrolInv' /\ Calm(AsrReaders)
<1>0. RecorderInv /\ RecorderTypeOK /\ EnrolInv /\ Enrolments \subseteq Readers
  BY DEF Inv, RecorderInv, Readers
<1>1. ASSUME UNCHANGED <<thread, recorder, heard, kept, failed, overlapped>>,
             asked \subseteq asked', asked' \subseteq Readers, opening' \subseteq Readers
      PROVE  RecorderInv' /\ Calm(AsrReaders)
  <2>1. Aside
    BY <1>0, <1>1 DEF Aside, RecorderTypeOK
  <2> QED
    BY <1>0, <1>1, <2>1, AsideStays, NoThreadIsCalm
<1>2. ASSUME NEW e \in Enrolments, BeginEnrolment(t, e)
      PROVE  RecorderInv' /\ EnrolInv' /\ Calm(AsrReaders)
  <2>1. EnrolInv' /\ (current # Nobody => current \in Enrolments)
    BY <1>0, <1>2, BeginKeeps
  <2>2. /\ UNCHANGED <<thread, recorder, heard, kept, failed, overlapped, opening>>
        /\ asked \subseteq asked' /\ asked' \subseteq asked \cup Enrolments
    BY <1>2, <2>1 DEF BeginEnrolment, AskToEnd, recorderVars
  <2>3. asked' \subseteq Readers /\ opening' \subseteq Readers
    BY <1>0, <2>2 DEF RecorderTypeOK
  <2> QED
    BY <1>1, <2>1, <2>2, <2>3
<1>3. CASE EndEnrolment(t)
  <2>1. EnrolInv' /\ current \in Enrolments
    BY <1>0, <1>3, EndEnrolmentKeeps
  <2>2. /\ UNCHANGED <<thread, recorder, heard, kept, failed, overlapped, opening>>
        /\ asked \subseteq asked' /\ asked' \subseteq asked \cup Enrolments
    BY <1>3, <2>1 DEF EndEnrolment, AskToEnd
  <2>3. asked' \subseteq Readers /\ opening' \subseteq Readers
    BY <1>0, <2>2 DEF RecorderTypeOK
  <2> QED
    BY <1>1, <2>1, <2>2, <2>3
<1>4. CASE EnrolmentFails(t)
  <2>1. EnrolInv' /\ enrolCall[t].for \in Readers
    BY <1>0, <1>4, EnrolmentFailsKeeps
  <2>2. CASE Abandon(enrolCall[t].for)
    <3>1. thread' = thread /\ asked \subseteq asked'
      BY <2>2 DEF Abandon
    <3> QED
      BY <1>0, <2>1, <2>2, <3>1, AbandonStays, NoThreadIsCalm
  <2>3. CASE ~Abandon(enrolCall[t].for)
    <3>1. UNCHANGED <<thread, recorder, heard, kept, failed, overlapped, asked, opening>>
      BY <1>4, <2>3 DEF EnrolmentFails, recorderVars
    <3>2. asked' \subseteq Readers /\ opening' \subseteq Readers
      BY <1>0, <3>1 DEF RecorderTypeOK
    <3> QED
      BY <1>1, <2>1, <3>1, <3>2
  <2> QED
    BY <2>2, <2>3
<1>5. CASE Replace(t) \/ EnrolmentEnded(t)
  <2>1. UNCHANGED <<thread, recorder, heard, kept, failed, overlapped, opening, asked>>
    BY <1>5 DEF Replace, EnrolmentEnded, recorderVars
  <2>2. asked' \subseteq Readers /\ opening' \subseteq Readers
    BY <1>0, <2>1 DEF RecorderTypeOK
  <2> QED
    BY <1>0, <1>1, <1>5, <2>1, <2>2, ReplaceKeeps, EnrolmentEndedKeeps
<1>6. CASE OpenEnrolment(t)
  <2> DEFINE e == enrolCall[t].for
  <2>1. EnrolInv' /\ e \in Enrolments
    BY <1>0, <1>6, OpenEnrolmentKeeps
  <2>2. /\ UNCHANGED <<thread, recorder, heard, failed, overlapped>>
        /\ asked' \subseteq asked /\ asked \subseteq asked' \cup {e}
        /\ opening' \subseteq opening \cup {e}
        /\ kept' = kept \/ kept' = [kept EXCEPT ![e] = 0]
    BY <1>6 DEF OpenEnrolment, CheckIdle, recorderVars
  <2> HIDE DEF e
  <2>3. Aside
    <3>1. kept' \in [Enrolments -> 0..MaxChunks]
      <4>1. 0 \in 0..MaxChunks
        BY RecorderAssumption
      <4> QED
        BY <1>0, <2>2, <4>1 DEF RecorderTypeOK
    <3> QED
      BY <1>0, <2>1, <2>2, <3>1 DEF Aside, RecorderTypeOK
  <2>4. e \notin AsrReaders
    BY <2>1, RecorderAssumption DEF AsrReaders
  <2>5. Calm(AsrReaders)
    BY <2>2, <2>4 DEF Calm, Unasked
  <2> QED
    BY <1>0, <2>1, <2>3, <2>5, AsideStays
<1>7. CASE StartCollector(t)
  <2>1. EnrolInv' /\ enrolCall[t].for \in Enrolments
    BY <1>0, <1>7, StartCollectorKeeps
  <2>2. Record(enrolCall[t].for)
    BY <1>7 DEF StartCollector
  <2>3. enrolCall[t].for \notin AsrReaders /\ AsrReaders \subseteq Readers
    BY <2>1, RecorderAssumption DEF AsrReaders, Readers
  <2> QED
    BY <1>0, <2>1, <2>2, <2>3, RecordStays, RecordIsCalm DEF Inv, OpenInv
<1> QED
  BY <1>2, <1>3, <1>4, <1>5, <1>6, <1>7 DEF EnrolStep

LEMMA PushKeeps ==
  ASSUME Inv, UNCHANGED party, NEW e \in Enrolments, PushBrowser(e)
  PROVE  RecorderInv' /\ EnrolInv' /\ Calm(AsrReaders)
<1>0. RecorderInv /\ RecorderTypeOK /\ EnrolInv
  BY DEF Inv, RecorderInv
<1>1. /\ UNCHANGED <<thread, recorder, heard, failed, overlapped, opening, enrolVars>>
      /\ asked \subseteq asked' /\ asked' \subseteq asked \cup {e}
      /\ kept[e] # MaxChunks /\ kept' = [kept EXCEPT ![e] = kept[e] + 1]
  BY DEF PushBrowser, Full
<1>2. kept' \in [Enrolments -> 0..MaxChunks]
  <2>1. MaxChunks \in Nat /\ kept[e] \in 0..MaxChunks
    BY <1>0, RecorderAssumption DEF RecorderTypeOK
  <2>2. kept[e] + 1 \in 0..MaxChunks
    BY <1>1, <2>1
  <2> QED
    BY <1>0, <1>1, <2>2 DEF RecorderTypeOK
<1>3. Aside
  BY <1>0, <1>1, <1>2 DEF Aside, RecorderTypeOK, Readers
<1> QED
  BY <1>0, <1>1, <1>3, AsideStays, NoThreadIsCalm, CalmEnrol

--------------------------------------------------------------------------------
(* Starts that are under way.                                               *)

\* A step that starts nothing.
LEMMA NothingOpens ==
  ASSUME OpenInv, opening' \subseteq opening, overlapped' = overlapped,
         recorder'.running => recorder.running
  PROVE  Opened' /\ StartsApart'
BY DEF OpenInv, Opened, StartsApart

LEMMA AsrWaits ==
  ASSUME AsrOpens, opening' \cap AsrReaders \subseteq opening, UNCHANGED <<lock, asrCall>>
  PROVE  AsrOpens'
BY DEF AsrOpens

LEMMA EnrolWaits ==
  ASSUME EnrolOpens, opening' \cap Enrolments \subseteq opening, UNCHANGED <<enrolLock, enrolCall>>
  PROVE  EnrolOpens'
BY DEF EnrolOpens

\* The check of a start finds the recorder idle.
LEMMA CheckOpens ==
  ASSUME OpenInv, NEW r, CheckIdle(r)
  PROVE  Opened' /\ StartsApart'
<1>1. recorder' = recorder /\ ~recorder.running /\ overlapped' = overlapped
  BY DEF CheckIdle
<1> QED
  BY <1>1 DEF OpenInv, Opened, StartsApart

\* A recording begins while others are starting.
LEMMA RecordOpens ==
  ASSUME OpenInv, NEW r, Record(r),
         \A q \in opening \ {r} : {r, q} \in {{a, e} : a \in AsrReaders, e \in Enrolments}
  PROVE  Opened' /\ StartsApart'
<1>1. /\ opening' = opening \ {r}
      /\ overlapped' = overlapped \cup {{r, q} : q \in opening \ {r}}
  BY DEF Record
<1>2. Opened'
  BY <1>1 DEF Opened
<1>3. StartsApart'
  BY <1>1 DEF OpenInv, StartsApart
<1> QED
  BY <1>2, <1>3

LEMMA AbandonOpens ==
  ASSUME OpenInv, recorder \in Recorders, NEW r, Abandon(r)
  PROVE  Opened' /\ StartsApart'
<1>1. recorder \in Shape
  BY ChunksAre
<1>2. recorder'.running = recorder.running
  <2> DEFINE q == [recorder EXCEPT !.error = TRUE]
  <2>1. q.running = recorder.running
    BY <1>1 DEF Shape
  <2>2. recorder' = recorder \/ recorder' = q
    BY DEF Abandon
  <2> QED
    BY <2>1, <2>2
<1>3. opening' \subseteq opening /\ overlapped' = overlapped
  BY DEF Abandon
<1> QED
  BY <1>2, <1>3, NothingOpens

\* The recorder and its readers start nothing.
LEMMA ThreadOpens ==
  ASSUME Inv, UNCHANGED <<asrVars, enrolVars>>,
         \/ Deliver \/ Exit \/ Restart
         \/ \E r \in party : ThreadStep(r) \/ FailLoop(r)
         \/ \E e \in Enrolments : EnoughSpeech(e)
  PROVE  OpenInv'
<1>1. opening' = opening /\ overlapped' = overlapped
  BY DEF Deliver, Exit, Restart, ThreadStep, FailLoop, EnoughSpeech, Read, LeaveLoop, StopRecord,
         EndThread
<1>2. recorder'.running => recorder.running
  <2>1. recorder \in Recorders /\ recorder \in Shape
    BY ChunksAre DEF Inv, RecorderInv, RecorderTypeOK
  <2>2. CASE Deliver \/ Exit \/ Restart
    <3>1. recorder.running \/ recorder' = GivenUp \/ recorder' = [recorder EXCEPT !.gone = FALSE]
      BY <2>2 DEF Deliver, Exit, Restart
    <3> QED
      BY <2>1, <3>1, GivenUpIs DEF Shape
  <2>3. ASSUME NEW r \in party, Read(r) PROVE recorder'.running => recorder.running
    BY <2>1, <2>3 DEF Read, Shape
  <2>4. ASSUME NEW r \in party, StopRecord(r) PROVE recorder'.running => recorder.running
    BY <2>1, <2>4, OverIs DEF StopRecord
  <2>5. ASSUME NEW r \in party, LeaveLoop(r) \/ EndThread(r) \/ FailLoop(r)
        PROVE  recorder'.running => recorder.running
    BY <2>5 DEF LeaveLoop, EndThread, FailLoop
  <2>6. ASSUME NEW e \in Enrolments, EnoughSpeech(e) PROVE recorder'.running => recorder.running
    BY <2>6 DEF EnoughSpeech
  <2> QED
    BY <2>2, <2>3, <2>4, <2>5, <2>6 DEF ThreadStep
<1> QED
  BY <1>1, <1>2, NothingOpens, AsrWaits, EnrolWaits DEF OpenInv, Inv, asrVars, enrolVars

LEMMA AsrKeepsOpen ==
  ASSUME Inv, NEW t \in Callers, UNCHANGED enrolVars,
         \/ \E r \in AsrReaders \cap party : Start(t, r) \/ Stop(t, r) \/ Poll(t, r)
         \/ Shutdown(t) \/ StartFails(t) \/ AsrStep(t)
  PROVE  OpenInv'
<1> DEFINE r == asrCall[t].for
<1>0. /\ OpenInv /\ AsrOpens /\ EnrolOpens /\ AsrTypeOK /\ Locked /\ recorder \in Recorders
      /\ opening \subseteq Readers
  BY DEF Inv, OpenInv, AsrInv, RecorderInv, RecorderTypeOK
<1>1. Nobody \notin Callers /\ Enrolments \cap AsrReaders = {} /\ Readers = AsrReaders \cup Enrolments
  BY RecorderAssumption DEF AsrReaders, Readers
<1>2. UNCHANGED <<enrolLock, enrolCall>>
  BY DEF enrolVars
<1>3. \A q \in opening \cap AsrReaders : lock \in Callers /\ asrCall[lock] = [op |-> "record", for |-> q]
  BY <1>0 DEF AsrOpens
<1>4. ASSUME NEW u \in Callers, NEW c, asrCall' = [asrCall EXCEPT ![u] = c]
      PROVE  asrCall'[u] = c /\ \A v \in Callers : v # u => asrCall'[v] = asrCall[v]
  BY <1>0, <1>4 DEF AsrTypeOK
<1>5. ASSUME UNCHANGED <<recorder, opening, overlapped>>, AsrOpens' PROVE OpenInv'
  BY <1>0, <1>2, <1>5, NothingOpens, EnrolWaits DEF OpenInv
<1>6. ASSUME opening \cap AsrReaders = {}, UNCHANGED <<recorder, opening, overlapped>>
      PROVE  OpenInv'
  BY <1>5, <1>6 DEF AsrOpens
<1>7. NoAsrCall.op = "idle"
  BY DEF NoAsrCall
<1>8. ASSUME NEW q \in AsrReaders, Start(t, q) \/ Stop(t, q) \/ Poll(t, q)
      PROVE  OpenInv'
  <2>1. lock = Nobody /\ UNCHANGED <<recorder, opening, overlapped>>
    BY <1>8 DEF Start, Stop, Poll, recorderVars
  <2> QED
    BY <1>1, <1>3, <1>6, <2>1
<1>9. CASE Forget(t) \/ Clear(t)
  <2>1. lock = Nobody /\ UNCHANGED <<recorder, opening, overlapped>>
    BY <1>9 DEF Forget, Clear, recorderVars
  <2> QED
    BY <1>1, <1>3, <1>6, <2>1
<1>10. CASE Shutdown(t)
  <2>1. /\ asrCall[t].op = "idle" /\ lock' = lock
        /\ asrCall' = [asrCall EXCEPT ![t] = [op |-> "clear", for |-> Nobody]]
        /\ UNCHANGED <<recorder, opening, overlapped>>
    BY <1>7, <1>10 DEF Shutdown, Idle, Calls
  <2>2. \A v \in Callers : v # t => asrCall'[v] = asrCall[v]
    BY <1>4, <2>1
  <2>3. AsrOpens'
    <3> SUFFICES ASSUME NEW q \in opening \cap AsrReaders
                 PROVE  lock \in Callers /\ asrCall'[lock] = [op |-> "record", for |-> q]
      BY <2>1 DEF AsrOpens
    <3>1. lock \in Callers /\ asrCall[lock] = [op |-> "record", for |-> q]
      BY <1>3
    <3>2. lock # t
      BY <2>1, <3>1
    <3> QED
      BY <2>2, <3>1, <3>2
  <2> QED
    BY <1>5, <2>1, <2>3
<1>11. asrCall[t].op \in {"start", "record"} => lock = t
  BY <1>0 DEF Locked
<1>12. asrCall[t].op = "start" => opening \cap AsrReaders = {}
  <2> SUFFICES ASSUME asrCall[t].op = "start", NEW q \in opening \cap AsrReaders PROVE FALSE
    OBVIOUS
  <2>1. asrCall[t] = [op |-> "record", for |-> q]
    BY <1>3, <1>11
  <2> QED
    BY <2>1
<1>13. asrCall[t].op = "record" => opening \cap AsrReaders \subseteq {r}
  <2> SUFFICES ASSUME asrCall[t].op = "record", NEW q \in opening \cap AsrReaders PROVE q = r
    OBVIOUS
  <2>1. asrCall[t] = [op |-> "record", for |-> q]
    BY <1>3, <1>11
  <2> QED
    BY <2>1
<1>14. asrCall[t].op \in {"start", "record"} => r \in AsrReaders
  BY <1>0, OpsOfAsr
<1>15. CASE OpenRecorder(t)
  <2>1. CASE CheckIdle(r) /\ Calls(t, "record", r) /\ UNCHANGED lock
    <3>1. asrCall[t].op = "start" /\ lock = t /\ r \in AsrReaders /\ opening' = opening \cup {r}
      BY <1>11, <1>14, <1>15, <2>1 DEF OpenRecorder, CheckIdle
    <3>2. asrCall'[t] = [op |-> "record", for |-> r]
      BY <1>4, <2>1 DEF Calls
    <3>3. opening' \cap AsrReaders \subseteq {r}
      BY <1>12, <3>1
    <3>4. AsrOpens'
      BY <2>1, <3>1, <3>2, <3>3 DEF AsrOpens
    <3>5. EnrolOpens'
      BY <1>0, <1>1, <1>2, <3>1, EnrolWaits
    <3> QED
      BY <1>0, <2>1, <3>4, <3>5, CheckOpens DEF OpenInv
  <2>2. CASE UNCHANGED recorderVars
    BY <1>6, <1>12, <1>15, <2>2 DEF OpenRecorder, recorderVars
  <2> QED
    BY <1>15, <2>1, <2>2 DEF OpenRecorder
<1>16. CASE StartFails(t)
  <2>1. CASE asrCall[t].op = "start" /\ UNCHANGED recorderVars
    BY <1>6, <1>12, <2>1 DEF recorderVars
  <2>2. CASE asrCall[t].op = "record" /\ Abandon(r)
    <3>1. opening' \cap AsrReaders = {} /\ opening' \subseteq opening
      BY <1>13, <2>2 DEF Abandon
    <3>2. AsrOpens' /\ EnrolOpens'
      BY <1>0, <1>2, <3>1, EnrolWaits DEF AsrOpens
    <3> QED
      BY <1>0, <2>2, <3>2, AbandonOpens DEF OpenInv
  <2> QED
    BY <1>16, <2>1, <2>2 DEF StartFails
<1>17. CASE StartThread(t)
  <2>1. asrCall[t].op = "record" /\ Record(r) /\ r \in AsrReaders
    BY <1>14, <1>17 DEF StartThread
  <2>2. opening' \cap AsrReaders = {} /\ opening' \subseteq opening
    BY <1>13, <2>1 DEF Record
  <2>3. AsrOpens' /\ EnrolOpens'
    BY <1>0, <1>2, <2>2, EnrolWaits DEF AsrOpens
  <2>4. \A q \in opening \ {r} : q \in Enrolments
    BY <1>0, <1>1, <1>13, <2>1
  <2>5. \A q \in opening \ {r} : {r, q} \in {{a, e} : a \in AsrReaders, e \in Enrolments}
    BY <2>1, <2>4
  <2> QED
    BY <1>0, <2>1, <2>3, <2>5, RecordOpens DEF OpenInv
<1> QED
  BY <1>8, <1>9, <1>10, <1>15, <1>16, <1>17 DEF AsrStep

LEMMA EnrolKeepsOpen ==
  ASSUME Inv, NEW t \in Callers, UNCHANGED asrVars,
         \/ \E e \in Enrolments \cap party : BeginEnrolment(t, e)
         \/ EndEnrolment(t) \/ EnrolmentFails(t) \/ EnrolStep(t)
  PROVE  OpenInv'
<1> DEFINE e == enrolCall[t].for
<1>0. /\ OpenInv /\ AsrOpens /\ EnrolOpens /\ EnrolTypeOK /\ recorder \in Recorders
      /\ opening \subseteq Readers
  BY DEF Inv, OpenInv, EnrolInv, RecorderInv, RecorderTypeOK
<1>1. Nobody \notin Callers /\ Enrolments \cap AsrReaders = {} /\ Readers = AsrReaders \cup Enrolments
  BY RecorderAssumption DEF AsrReaders, Readers
<1>2. UNCHANGED <<lock, asrCall>>
  BY DEF asrVars
<1>3. /\ \A u \in Callers : enrolCall[u].op = "record" => enrolLock = u
      /\ \A f \in opening \cap Enrolments :
            /\ enrolLock \in Callers
            /\ enrolCall[enrolLock] = [op |-> "record", for |-> f, old |-> Nobody]
  BY <1>0 DEF EnrolOpens
<1>4. ASSUME NEW c, enrolCall' = [enrolCall EXCEPT ![t] = c]
      PROVE  enrolCall'[t] = c /\ \A v \in Callers : v # t => enrolCall'[v] = enrolCall[v]
  BY <1>0, <1>4 DEF EnrolTypeOK
<1>5. NoEnrolCall.op = "idle"
  BY DEF NoEnrolCall
<1>6. enrolLock = Nobody => /\ opening \cap Enrolments = {}
                            /\ \A u \in Callers : enrolCall[u].op # "record"
  BY <1>1, <1>3
\* A step that leaves the starts alone while the lock is free.
<1>7. ASSUME enrolLock = Nobody, UNCHANGED <<recorder, opening, overlapped>>,
             \A v \in Callers : v # t => enrolCall'[v] = enrolCall[v],
             enrolCall'[t].op # "record"
      PROVE  OpenInv'
  <2>1. \A u \in Callers : enrolCall'[u].op # "record"
    BY <1>6, <1>7
  <2>2. EnrolOpens'
    BY <1>6, <1>7, <2>1 DEF EnrolOpens
  <2>3. AsrOpens'
    BY <1>0, <1>2, <1>7, AsrWaits
  <2>4. Opened' /\ StartsApart'
    BY <1>0, <1>7, NothingOpens
  <2> QED
    BY <2>2, <2>3, <2>4 DEF OpenInv
<1>8. ASSUME NEW f \in Enrolments, BeginEnrolment(t, f) PROVE OpenInv'
  <2>1. enrolLock = Nobody /\ UNCHANGED <<recorder, opening, overlapped>>
    BY <1>8 DEF BeginEnrolment, AskToEnd, recorderVars
  <2>2. CASE Enrols(t, "open", f)
    <3>1. enrolCall'[t].op = "open" /\ \A v \in Callers : v # t => enrolCall'[v] = enrolCall[v]
      BY <1>4, <2>2 DEF Enrols
    <3> QED
      BY <1>7, <2>1, <3>1
  <2>3. CASE enrolCall' = [enrolCall EXCEPT ![t] = [op |-> "replace", for |-> f, old |-> current]]
    <3>1. enrolCall'[t].op = "replace" /\ \A v \in Callers : v # t => enrolCall'[v] = enrolCall[v]
      BY <1>4, <2>3
    <3> QED
      BY <1>7, <2>1, <3>1
  <2> QED
    BY <1>8, <2>2, <2>3 DEF BeginEnrolment
<1>9. CASE EndEnrolment(t)
  <2>1. enrolLock = Nobody /\ UNCHANGED <<recorder, opening, overlapped>> /\ Enrols(t, "end", current)
    BY <1>9 DEF EndEnrolment, AskToEnd
  <2>2. enrolCall'[t].op = "end" /\ \A v \in Callers : v # t => enrolCall'[v] = enrolCall[v]
    BY <1>4, <2>1 DEF Enrols
  <2> QED
    BY <1>7, <2>1, <2>2
\* A call returns.
<1>20. ASSUME Done(t)
       PROVE  enrolCall'[t].op = "idle" /\ \A v \in Callers : v # t => enrolCall'[v] = enrolCall[v]
  BY <1>4, <1>5, <1>20 DEF Done
<1>10. CASE Replace(t)
  <2>1. /\ enrolLock = Nobody /\ UNCHANGED <<recorder, opening, overlapped>>
        /\ Done(t) \/ Enrols(t, "open", e)
    BY <1>10 DEF Replace, recorderVars
  <2>2. CASE Enrols(t, "open", e)
    <3>1. enrolCall'[t].op = "open" /\ \A v \in Callers : v # t => enrolCall'[v] = enrolCall[v]
      BY <1>4, <2>2 DEF Enrols
    <3> QED
      BY <1>7, <2>1, <3>1
  <2> QED
    BY <1>7, <1>20, <2>1, <2>2
<1>11. CASE EnrolmentEnded(t)
  <2>1. enrolLock = Nobody /\ UNCHANGED <<recorder, opening, overlapped>> /\ Done(t)
    BY <1>11 DEF EnrolmentEnded, recorderVars
  <2> QED
    BY <1>7, <1>20, <2>1
<1>12. enrolCall[t].op = "record" => opening \cap Enrolments \subseteq {e} /\ enrolLock = t
  <2> SUFFICES ASSUME enrolCall[t].op = "record", NEW q \in opening \cap Enrolments PROVE q = e
    BY <1>3
  <2>1. enrolCall[t] = [op |-> "record", for |-> q, old |-> Nobody]
    BY <1>3
  <2> QED
    BY <2>1
\* The start of t is over, and with it the only one.
<1>13. ASSUME enrolCall[t].op = "record", opening' = opening \ {e}, Done(t)
       PROVE  EnrolOpens'
  <2>1. enrolCall'[t] = NoEnrolCall /\ \A v \in Callers : v # t => enrolCall'[v] = enrolCall[v]
    BY <1>4, <1>13 DEF Done
  <2>2. \A v \in Callers : enrolCall'[v].op # "record"
    BY <1>3, <1>5, <1>13, <2>1
  <2> QED
    BY <1>12, <1>13, <2>2 DEF EnrolOpens
<1>14. Starts(t) => e \in Enrolments
  BY <1>0, OpsOfEnrol
<1>15. CASE OpenEnrolment(t)
  <2>1. CASE Done(t) /\ UNCHANGED <<recorder, opening, overlapped>>
    BY <1>7, <1>15, <1>20, <2>1 DEF OpenEnrolment
  <2>2. CASE CheckIdle(e) /\ enrolLock' = t /\ Enrols(t, "record", e)
    <3>1. enrolLock = Nobody /\ e \in Enrolments /\ opening' = opening \cup {e}
      BY <1>14, <1>15, <2>2 DEF OpenEnrolment, Starts, CheckIdle
    <3>2. /\ enrolCall'[t] = [op |-> "record", for |-> e, old |-> Nobody]
          /\ \A v \in Callers : v # t => enrolCall'[v] = enrolCall[v]
      BY <1>4, <2>2 DEF Enrols
    <3>3. \A v \in Callers : v # t => enrolCall'[v].op # "record"
      BY <1>6, <3>1, <3>2
    <3>4. opening' \cap Enrolments \subseteq {e}
      BY <1>6, <3>1
    <3>5. EnrolOpens'
      BY <2>2, <3>2, <3>3, <3>4 DEF EnrolOpens
    <3>6. AsrOpens'
      BY <1>0, <1>1, <1>2, <3>1, AsrWaits
    <3> QED
      BY <1>0, <2>2, <3>5, <3>6, CheckOpens DEF OpenInv
  <2> QED
    BY <1>15, <2>1, <2>2 DEF OpenEnrolment, recorderVars
<1>16. CASE EnrolmentFails(t)
  <2>1. CASE enrolCall[t].op \in {"open", "replace"} /\ UNCHANGED <<recorderVars, enrolLock>>
    <3>1. enrolCall' = [enrolCall EXCEPT ![t] = NoEnrolCall]
      BY <1>16 DEF EnrolmentFails, Done
    <3>2. enrolCall'[t] = NoEnrolCall /\ \A v \in Callers : v # t => enrolCall'[v] = enrolCall[v]
      BY <1>4, <3>1
    <3>3. UNCHANGED <<recorder, opening, overlapped>>
      BY <2>1 DEF recorderVars
    <3>4. EnrolOpens'
      <4>1. \A u \in Callers : enrolCall'[u].op = "record" => enrolLock' = u
        BY <1>3, <1>5, <2>1, <3>2
      <4>2. ASSUME NEW f \in opening \cap Enrolments
            PROVE  /\ enrolLock \in Callers
                   /\ enrolCall'[enrolLock] = [op |-> "record", for |-> f, old |-> Nobody]
        <5>1. /\ enrolLock \in Callers
              /\ enrolCall[enrolLock] = [op |-> "record", for |-> f, old |-> Nobody]
          BY <1>3
        <5>2. enrolLock # t
          BY <2>1, <5>1
        <5> QED
          BY <3>2, <5>1, <5>2
      <4> QED
        BY <2>1, <3>3, <4>1, <4>2 DEF EnrolOpens
    <3> QED
      BY <1>0, <1>2, <3>3, <3>4, NothingOpens, AsrWaits DEF OpenInv
  <2>2. CASE enrolCall[t].op = "record" /\ Abandon(e)
    <3>1. opening' = opening \ {e} /\ Done(t)
      BY <1>16, <2>2 DEF EnrolmentFails, Abandon
    <3>2. EnrolOpens' /\ AsrOpens'
      BY <1>0, <1>2, <1>13, <2>2, <3>1, AsrWaits
    <3> QED
      BY <1>0, <2>2, <3>2, AbandonOpens DEF OpenInv
  <2> QED
    BY <1>16, <2>1, <2>2 DEF EnrolmentFails
<1>17. CASE StartCollector(t)
  <2>1. enrolCall[t].op = "record" /\ Record(e) /\ Done(t) /\ e \in Enrolments
    BY <1>14, <1>17 DEF StartCollector, Starts
  <2>2. opening' = opening \ {e}
    BY <2>1 DEF Record
  <2>3. EnrolOpens' /\ AsrOpens'
    BY <1>0, <1>2, <1>13, <2>1, <2>2, AsrWaits
  <2>4. \A q \in opening \ {e} : q \in AsrReaders
    BY <1>0, <1>1, <1>12, <2>1
  <2>5. \A q \in opening \ {e} : {e, q} \in {{a, f} : a \in AsrReaders, f \in Enrolments}
    <3> SUFFICES ASSUME NEW q \in opening \ {e}
                 PROVE  {e, q} \in {{a, f} : a \in AsrReaders, f \in Enrolments}
      OBVIOUS
    <3>1. {e, q} = {q, e}
      OBVIOUS
    <3> QED
      BY <2>1, <2>4, <3>1
  <2> QED
    BY <1>0, <2>1, <2>3, <2>5, RecordOpens DEF OpenInv
<1> QED
  BY <1>8, <1>9, <1>10, <1>11, <1>15, <1>16, <1>17 DEF EnrolStep

LEMMA OpenKeeps == Inv /\ [Next]_vars => OpenInv'
<1> SUFFICES ASSUME Inv, [Next]_vars PROVE OpenInv'
  OBVIOUS
<1>0. OpenInv /\ AsrOpens /\ EnrolOpens
  BY DEF Inv, OpenInv
<1>1. CASE UNCHANGED vars
  BY <1>0, <1>1 DEF vars, recorderVars, asrVars, enrolVars, OpenInv, Opened, StartsApart, AsrOpens,
                    EnrolOpens
<1> SUFFICES ASSUME Step PROVE OpenInv'
  BY <1>1 DEF Next
<1>2. CASE /\ \/ Deliver \/ Exit \/ Restart
              \/ \E r \in party : ThreadStep(r) \/ FailLoop(r)
              \/ \E e \in Enrolments : EnoughSpeech(e)
           /\ UNCHANGED <<asrVars, enrolVars>>
  BY <1>2, ThreadOpens
<1>3. ASSUME NEW t \in Callers, UNCHANGED enrolVars,
             \/ \E r \in AsrReaders \cap party : Start(t, r) \/ Stop(t, r) \/ Poll(t, r)
             \/ Shutdown(t) \/ StartFails(t) \/ AsrStep(t)
      PROVE  OpenInv'
  BY <1>3, AsrKeepsOpen
<1>4. ASSUME NEW t \in Callers, UNCHANGED asrVars,
             \/ \E e \in Enrolments \cap party : BeginEnrolment(t, e)
             \/ EndEnrolment(t) \/ EnrolmentFails(t) \/ EnrolStep(t)
      PROVE  OpenInv'
  BY <1>4, EnrolKeepsOpen
<1>5. ASSUME NEW e \in Enrolments, PushBrowser(e), UNCHANGED asrVars PROVE OpenInv'
  <2>1. UNCHANGED <<recorder, opening, overlapped, enrolVars>>
    BY <1>5 DEF PushBrowser
  <2> QED
    BY <1>0, <1>5, <2>1, NothingOpens, AsrWaits, EnrolWaits DEF OpenInv, asrVars, enrolVars
<1> QED
  BY <1>2, <1>3, <1>4, <1>5 DEF Step

LEMMA NextKeeps == Inv /\ [Next]_vars => Inv'
<1> SUFFICES ASSUME Inv, [Next]_vars PROVE Inv'
  OBVIOUS
<1>0. RecorderInv /\ AsrInv /\ EnrolInv
  BY DEF Inv
<1>01. OpenInv'
  BY OpenKeeps
<1>1. CASE UNCHANGED vars
  <2>1. RecorderInv'
    BY <1>0, <1>1, AsideStays DEF vars, recorderVars, Aside, RecorderInv, RecorderTypeOK
  <2>2. thread' = thread /\ asked \subseteq asked' /\ UNCHANGED asrVars /\ UNCHANGED enrolVars
    BY <1>1 DEF vars, recorderVars
  <2> QED
    BY <1>0, <1>01, <2>1, <2>2, NoThreadIsCalm, CalmAsr, CalmEnrol DEF Inv
<1> SUFFICES ASSUME Step, UNCHANGED party PROVE Inv'
  BY <1>1 DEF Next
<1>2. CASE /\ \/ Deliver \/ Exit \/ Restart
              \/ \E r \in party : ThreadStep(r) \/ FailLoop(r)
              \/ \E e \in Enrolments : EnoughSpeech(e)
           /\ UNCHANGED <<asrVars, enrolVars>>
  <2>1. RecorderInv' /\ Calm(AsrReaders) /\ Calm(Enrolments)
    BY <1>2, ThreadKeeps
  <2>2. UNCHANGED asrVars /\ UNCHANGED enrolVars
    BY <1>2
  <2> QED
    BY <1>0, <1>01, <2>1, <2>2, CalmAsr, CalmEnrol DEF Inv
<1>3. ASSUME NEW t \in Callers, UNCHANGED enrolVars,
             \/ \E r \in AsrReaders \cap party : Start(t, r) \/ Stop(t, r) \/ Poll(t, r)
             \/ Shutdown(t) \/ StartFails(t) \/ AsrStep(t)
      PROVE  Inv'
  <2>1. RecorderInv' /\ AsrInv' /\ Calm(Enrolments)
    BY <1>3, AsrKeeps
  <2> QED
    BY <1>0, <1>01, <1>3, <2>1, CalmEnrol DEF Inv
<1>4. ASSUME NEW t \in Callers, UNCHANGED asrVars,
             \/ \E e \in Enrolments \cap party : BeginEnrolment(t, e)
             \/ EndEnrolment(t) \/ EnrolmentFails(t) \/ EnrolStep(t)
      PROVE  Inv'
  <2>1. RecorderInv' /\ EnrolInv' /\ Calm(AsrReaders)
    BY <1>4, EnrolKeeps
  <2> QED
    BY <1>0, <1>01, <1>4, <2>1, CalmAsr DEF Inv
<1>5. ASSUME NEW e \in Enrolments, PushBrowser(e), UNCHANGED asrVars PROVE Inv'
  <2>1. RecorderInv' /\ EnrolInv' /\ Calm(AsrReaders)
    BY <1>5, PushKeeps
  <2> QED
    BY <1>0, <1>01, <1>5, <2>1, CalmAsr DEF Inv
<1> QED
  BY <1>2, <1>3, <1>4, <1>5 DEF Step

--------------------------------------------------------------------------------
(* What the invariant says.                                                 *)

LEMMA AtMostOneHolds ==
  ASSUME NEW p, Holders \subseteq {p}
  PROVE  Cardinality(Holders) <= 1
<1>1. Holders = {} \/ Holders = {p}
  OBVIOUS
<1>2. Cardinality({}) = 0 /\ Cardinality({p}) = 1
  BY FS_EmptySet, FS_Singleton
<1> QED
  BY <1>1, <1>2

LEMMA InvSaysOneUser == Inv => OneUserAtATime
<1> SUFFICES ASSUME Inv PROVE OneUserAtATime
  OBVIOUS
<1>1. OneUser
  <2> SUFFICES ASSUME overlapped = {}, ~recorder.error
               PROVE  /\ Cardinality(Holders) <= 1
                      /\ \A r \in Readers : heard[r] \subseteq {r}
    BY DEF OneUser
  <2>1. Holders \subseteq {recorder.for}
    BY DEF Inv, RecorderInv, Alone
  <2>2. \A r \in Readers : heard[r] \subseteq {r}
    BY DEF Inv, RecorderInv, Alone
  <2> QED
    BY <2>1, <2>2, AtMostOneHolds
<1>2. SomeoneStops
  <2>1. \A r \in Readers : thread[r] = "returning" => r \in Holders
    BY DEF Holders
  <2>2. SUFFICES ASSUME NEW r \in Holders, ~recorder.gone, ~recorder.error, overlapped = {}
                 PROVE  Missed = {}
    BY <2>1 DEF SomeoneStops, Inv, RecorderInv, Runs
  <2>3. recorder.running
    BY <2>2 DEF Inv, RecorderInv, Alone
  <2> QED
    BY <2>2, <2>3 DEF Inv, OpenInv, Opened, Missed
<1> QED
  BY <1>1, <1>2 DEF OneUserAtATime, TypeOK, Inv, RecorderInv, AsrInv, EnrolInv, OpenInv

LEMMA InvSaysFound == Inv => UserIsFound
<1> SUFFICES ASSUME Inv PROVE UserIsFound
  OBVIOUS
<1>1. Stoppable
  BY DEF Inv, AsrInv, Registered, Unasked, Stoppable
<1>2. Endable
  BY DEF Inv, EnrolInv, Current, Unasked, Endable
<1> QED
  BY <1>1, <1>2 DEF UserIsFound

\* For any number of captures, dictations, enrolments and callers, and queues and
\* buffers of any size: starts overlap only between a recognition and an enrolment;
\* unless they did or the recorder has given up, two threads never read it at once, none
\* is given another's words, and a stop misses no arecord but one that has ended by
\* itself and is being started again; and a recorder that runs always has the thread that
\* will call stop (ALSARecorder.start, _handle_process_exit, read_frames, stop).
THEOREM MicrophoneHasOneUser == Spec => []OneUserAtATime
<1>1. Spec => []Inv
  BY InitHolds, NextKeeps, PTL DEF Spec
<1> QED
  BY <1>1, InvSaysOneUser, PTL

\* For any number of callers, a capture, a dictation or an enrolment that nobody has
\* asked to stop is one the request that ends it finds, also after starts that failed,
\* stops that timed out and shutdowns that were under way (SourceAwareAsrCaptureService
\* .start, stop and shutdown, AudioCaptureService.start, stop and cancel).
THEOREM UserIsAlwaysFound == Spec => []UserIsFound
<1>1. Spec => []Inv
  BY InitHolds, NextKeeps, PTL DEF Spec
<1> QED
  BY <1>1, InvSaysFound, PTL
================================================================================
