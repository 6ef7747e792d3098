---------------------------- MODULE LiveSpeechProofs ----------------------------
(***************************************************************************)
(* What LiveSpeech promises of the worker's session and of the recording   *)
(* of a device holds for every recording, kind of capture, window, cap,    *)
(* piece and bound on crashes and faults.                                  *)
(*                                                                         *)
(* The invariant has four layers: the state is well formed (BaseInv); the  *)
(* ranges reach the worker in order, or not at all (ControlInv); while     *)
(* nothing crashes or fails no two fragments overlap (OnceInv); and what   *)
(* would be heard again after a restart of a device's recording, together  *)
(* with the transcript, is all of its speech (DeviceInv).                  *)
(***************************************************************************)
EXTENDS LiveSpeech, SequenceTheorems, WellFoundedInduction, TLAPS

--------------------------------------------------------------------------------
(* The state is well formed.                                                *)

\* A range of audio is some stored audio.
Stored(t) == t.end <= count /\ (t.kind = "range" => t.start < t.end)

\* What is handed around is stored, and a task in hand is at one of its stages.
Shape ==
    /\ cursor <= count /\ session.pos <= count
    /\ task.kind = "none" => task = Idle
    /\ task.kind = "range" => task.stage \in {"taken", "heard"}
    /\ task.kind = "finish" => task.stage \in {"taken", "begun", "heard"}
    /\ task.stage # "heard" => task.finals = {} /\ task.open = {}
    /\ Stored(task)
    /\ \A i \in DOMAIN queue : Stored(queue[i])
    /\ feed.at \in {"stored", "restored"} => feed.start < feed.end /\ feed.end <= count

BaseInv == TypeOK /\ Shape
--------------------------------------------------------------------------------
(* The worker is in step with the ranges it is sent.                        *)

\* Nothing runs in a backend that is down or booting.
Quiet ==
    up # "up" => /\ queue = <<>> /\ task = Idle /\ session = Closed /\ feed = NoCall
                 /\ loop = "stopped" /\ ~recovering

\* A recovery is of a browser's capture whose loop has ended.
Recovery == {"recover", "drained", "rebased", "restored", "completing",
             "unblocked", "finalizing", "completed"}

InRecovery ==
    /\ rec = "CAPTURING" /\ up = "up" => loop \in {"recording", "stopping", "begun", "sealing"}
    /\ storageError \/ up = "sealed" => rec # "CAPTURING"
    /\ recovering => kind = "browser" /\ up = "up" /\ loop = "stopped"
                     /\ feed.at \notin {"live", "stored"}
    /\ feed.at \in Recovery => kind = "browser" /\ up = "up" /\ loop = "stopped"
    /\ feed.at \in Recovery \ {"completed"} => rec = "INCOMPLETE"
    /\ feed.at \in {"recover", "drained", "rebased", "restored"} => recovering
    /\ feed.at = "drained" => Drained
    /\ feed.at = "stored" /\ rec = "INCOMPLETE" => blocked
    /\ feed.at = "live" => loop = "recording" \/ kind = "browser"

FinishAhead == task.kind = "finish" \/ \E i \in DOMAIN queue : queue[i].kind = "finish"

FinishIsLast ==
    IF queue = <<>> THEN task.kind = "finish" ELSE queue[Len(queue)].kind = "finish"

\* Before a capture is recovered, its session has been closed or will be.
ClosesFirst ==
    /\ up = "up" /\ loop = "stopped" /\ kind = "browser"
    /\ ~recovering \/ feed.at \in {"recover", "drained"}
    /\ rec = "INCOMPLETE" \/ feed.at = "live"
    => \/ FinishIsLast
       \/ Drained /\ ~session.open
       \/ blocked /\ (session.open => FinishAhead)

\* No range that is on its way begins at a.
NoneFrom(a) ==
    /\ task.kind = "range" => task.start # a
    /\ \A i \in DOMAIN queue : queue[i].kind = "range" => queue[i].start # a
    /\ feed.at \in {"stored", "restored"} => feed.start # a

\* A session that lost the place will not hear another range.
InStep ==
    /\ session.base <= session.pos
    /\ task.kind = "range" /\ task.stage = "heard" =>
          session.open /\ session.pos = task.end /\ asrCursor = {task.start}
    /\ session.open /\ task.stage # "heard" =>
          \E a \in Positions :
             /\ asrCursor = {a}
             /\ a = session.pos \/ (a < count /\ (blocked \/ NoneFrom(a)))

ControlInv == Quiet /\ InRecovery /\ ClosesFirst /\ InStep

--------------------------------------------------------------------------------
(* While nothing crashes or fails, no sound is heard twice.                 *)

\* The texts that are written, or about to be.
Heard == fragments \cup task.finals

\* No two of them overlap.
Apart(S) == \A u, w \in S : u # w => u[2] <= w[1] \/ w[2] <= u[1]

\* An utterance that a session from base did not hear, or heard to its end.
HeardOf(V, base, p, f) ==
    \/ f[2] <= base
    \/ \E s \in Starts(V, base, p) : Done(V, s, p) /\ f = <<s, EndOf(V, s)>>

OfSession(f) == HeardOf(voice, session.base, session.pos, f)

FinishHeard == task.kind = "finish" /\ task.stage = "heard"
RangeHeard == task.kind = "range" /\ task.stage = "heard"

\* The worker is where the cursor is, and what the open session has not heard ends
\* before it began; without an open session everything heard ends before the cursor.
Once ==
    /\ up = "up" /\ asrCursor = {cursor}
    /\ session.open /\ task.stage # "heard" => cursor = session.pos
    /\ FinishHeard => session.open /\ \A f \in Heard : f[2] <= task.end
    /\ ~session.open => \A f \in fragments : f[2] <= cursor
    /\ session.open /\ ~FinishHeard => \A f \in Heard : OfSession(f)
    /\ Apart(Heard)

OnceInv == crashes = 0 /\ faults = 0 => Once

--------------------------------------------------------------------------------
(* The recording of a device.                                               *)

\* Ranges that follow each other from one position to another.
Chained(from, q, to) ==
    /\ \A i \in 1..Len(q) : /\ q[i].kind = "range" /\ q[i].start < q[i].end
                            /\ q[i].start = IF i = 1 THEN from ELSE q[i - 1].end
    /\ to = IF q = <<>> THEN from ELSE q[Len(q)].end

\* A capture that is complete has nothing left to do.
Settled ==
    asr = "COMPLETE" =>
        /\ cursor = count /\ unfinished = {} /\ checkpoint = {} /\ rec # "CAPTURING"
        /\ ~session.open /\ Drained /\ loop = "stopped" /\ up \in {"down", "up"}

\* The loop has ended and so has all recognition.
Stopped == up = "up" /\ loop = "stopped" /\ Drained

\* Audio comes from the capture loop, one chunk after the other.
FeedOfLoop ==
    /\ feed.at \in {"idle", "live", "stored"}
    /\ feed.at # "idle" => loop = "recording"
    /\ feed.at = "stored" => feed.end = count

\* Before the loop ends nothing has finished, and recognition has not gone back.
FirstTime ==
    loop # "stopped" =>
        /\ up = "up" /\ task.kind # "finish" /\ asrCursor = {cursor}
        /\ IF session.open THEN session.base = 0 ELSE cursor = 0 /\ unfinished = {}
        /\ \A i \in DOMAIN queue : queue[i].kind = "range"

\* A finish in progress is not disturbed; a storage error blocks the finish.
Ending ==
    /\ task.stage = "begun" => ~blocked /\ ~storageError /\ asr = "FINALIZING"
    /\ storageError => loop \in {"recording", "stopping"} \/ blocked

DeviceControl == FeedOfLoop /\ FirstTime /\ Ending

\* Unless recognition is blocked, the ranges on their way follow each other from where
\* it has come to up to the end of the recording, and the finish follows them.
Ahead(a) == IF task.kind = "range" THEN task.end ELSE a

Target == IF feed.at = "stored" THEN feed.start ELSE count

Chain ==
    up = "up" /\ ~blocked /\ ~Stopped =>
        \E a \in Positions :
            /\ asrCursor = {a}
            /\ task.kind = "range" => task.start = a
            /\ task.kind = "finish" => a = count /\ queue = <<>>
            /\ task.kind # "finish" => \E q \in Seq(Tasks) :
                  /\ Chained(Ahead(a), q, Target)
                  /\ queue = IF loop = "stopped" THEN Append(q, Finish) ELSE q

\* A backend that boots will begin where the one that died would have begun.
Booting == up \in {"begun", "sealed"} /\ ~blocked =>
              /\ asr = "FINALIZING"
              /\ RestartPoint = NextRestart
              /\ unfinished # {} => NextRestart \in checkpoint

\* Recognition goes on where its session is, or begins where a restart would.
Begins == up = "up" /\ ~blocked /\ ~Stopped =>
             IF session.open THEN (task.stage # "heard" => asrCursor = {session.pos})
             ELSE asrCursor = {NextRestart} /\ (unfinished # {} => NextRestart \in checkpoint)

\* What the session has heard has been told, as long as no answer of it was lost.
Trusted == session.open /\ ~FinishHeard /\ (~blocked \/ loop # "stopped" \/ RangeHeard)

\* What is done has its fragment, what is open is marked ...
KnownTo(V, base, p, frags, marker) ==
    /\ \A u \in Starts(V, base, p) : Done(V, u, p) => <<u, EndOf(V, u)>> \in frags
    /\ \A u \in Open(V, base, p) : marker = {ReplayStart(u)}

\* ... and a marker is that of the open utterance, or an old one of a session
\* that has heard nothing yet.
HonestTo(V, base, p, behind, marker) ==
    \A m \in marker :
       \/ \E u \in Open(V, base, p) : m = ReplayStart(u)
       \/ /\ base <= m
          /\ \E c \in behind : c <= base
          /\ \A u \in Starts(V, base, p) : ~Reported(u, p)

Known(p, frags, marker) == KnownTo(voice, session.base, p, frags, marker)
Honest(p, marker) == HonestTo(voice, session.base, p, checkpoint, marker)

\* Speech that the sessions that began at S could not know of.
HiddenBy(S, s) == \E b \in S : b - StartLag <= s /\ s < b

\* The speech before a session began is in the transcript.
Before(base) == \A s \in voice : s < base => Transcribed(s) \/ HiddenBy(reopened, s)

\* So a restart at the marker, or at the cursor when nothing is open, loses nothing.
Told ==
    /\ asr # "COMPLETE" /\ session.base <= cursor
    /\ Before(session.base)
    /\ Known(cursor, fragments, unfinished)
    /\ Honest(cursor, unfinished)
    /\ ~RangeHeard /\ ~blocked => session.pos = cursor
    /\ RangeHeard => /\ cursor = task.start
                     /\ Known(task.end, Heard, task.open)
                     /\ Honest(task.end, task.open)

Trust == Trusted => Told

\* A marker comes with a place to begin that is not past the cursor, and with speech.
Markers ==
    /\ unfinished # {} => \E n \in unfinished \cup checkpoint : n <= cursor
    /\ \A m \in unfinished \cup task.open : \E s \in voice : m <= s /\ s < count

\* The flush that ends a capture has brought all the speech there is.
LastWords ==
    FinishHeard => /\ task.end = count /\ task.open = {} /\ asr # "COMPLETE" /\ loop = "stopped" /\ queue = <<>>
                   /\ \A s \in voice : s < count =>
                        \/ \E u \in Heard : u[1] <= s /\ s < u[2]
                        \/ HiddenBy(reopened \cup {r \in {count} : BacklogHides(r)}, s)

DeviceInv ==
    kind = "device" => /\ Settled /\ DeviceControl /\ Chain /\ Booting /\ Begins
                       /\ Trust /\ Markers /\ LastWords /\ NothingLeftBehind
--------------------------------------------------------------------------------
(* What a session of the worker hears.                                      *)

\* Multiples of P are at least P apart.
LEMMA Multiples ==
  ASSUME NEW P \in Nat \ {0}, NEW a \in Nat, NEW b \in Nat, a % P = 0, b % P = 0, a < b
  PROVE  b - a >= P
<1> DEFINE k == a \div P
           m == b \div P
<1>1. k \in Nat /\ m \in Nat /\ a = k * P /\ b = m * P
  OBVIOUS
<1> HIDE DEF k, m
<1>2. k < m
  BY <1>1
<1>3. PICK d \in Nat : d > 0 /\ m = k + d
  <2>1. m - k \in Nat /\ m - k > 0 /\ m = k + (m - k)
    BY <1>1, <1>2
  <2> QED
    BY <2>1
<1>4. b = k * P + d * P
  BY <1>1, <1>3
<1>5. d * P >= P
  BY <1>3
<1>6. k * P \in Nat /\ d * P \in Nat
  BY <1>1, <1>3
<1> QED
  BY <1>1, <1>4, <1>5, <1>6

\* Division with a remainder.
LEMMA Quotient ==
  ASSUME NEW P \in Nat \ {0}, NEW a \in Nat
  PROVE  a \div P \in Nat /\ a % P \in 0..(P - 1) /\ a = (a \div P) * P + (a % P)
OBVIOUS

\* A product is a multiple.
LEMMA MultipleOf ==
  ASSUME NEW P \in Nat \ {0}, NEW k \in Nat
  PROVE  k * P \in Nat /\ (k * P) % P = 0
<1> DEFINE x == k * P
           j == x \div P
           e == x % P
<1>1. x \in Nat /\ x = k * P
  OBVIOUS
<1> HIDE DEF x
<1>2. j \in Nat /\ x = j * P + e /\ e \in 0..(P - 1)
  BY <1>1, Quotient
<1> HIDE DEF j
<1>3. (x % P) = e
  OBVIOUS
<1> HIDE DEF e
<1>4. e = (k - j) * P
  BY <1>1, <1>2
<1>5. k - j > 0 => (k - j) * P >= P
  <2> SUFFICES ASSUME k - j > 0 PROVE (k - j) * P >= P
    OBVIOUS
  <2>1. PICK d \in Nat : d > 0 /\ d = k - j
    BY <1>2
  <2>2. d * P >= P
    BY <2>1
  <2> QED
    BY <2>1, <2>2
<1>6. k - j < 0 => (k - j) * P < 0
  <2> SUFFICES ASSUME k - j < 0 PROVE (k - j) * P < 0
    OBVIOUS
  <2>1. PICK d \in Nat : d > 0 /\ k - j = 0 - d
    <3>1. j - k \in Nat /\ j - k > 0 /\ k - j = 0 - (j - k)
      BY <1>2
    <3> QED
      BY <3>1
  <2>2. (k - j) * P = 0 - (d * P)
    BY <2>1
  <2>3. d * P > 0
    BY <2>1
  <2> QED
    BY <2>2, <2>3
<1>7. k - j = 0
  BY <1>2, <1>4, <1>5, <1>6
<1>8. e = 0
  BY <1>4, <1>7
<1> QED
  BY <1>1, <1>3, <1>8

\* What is left without the remainder is a multiple.
LEMMA Aligned ==
  ASSUME NEW P \in Nat \ {0}, NEW a \in Nat
  PROVE  /\ a % P \in 0..(P - 1) /\ a - (a % P) \in Nat
         /\ (a - (a % P)) % P = 0
<1> DEFINE k == a \div P
           c == a % P
<1>1. k \in Nat /\ a = k * P + c /\ c \in 0..(P - 1)
  BY Quotient
<1>2. k * P \in Nat /\ (k * P) % P = 0
  BY <1>1, MultipleOf
<1> HIDE DEF k
<1>3. c = a % P
  OBVIOUS
<1> HIDE DEF c
<1>4. a - c = k * P
  BY <1>1, <1>2
<1> QED
  BY <1>1, <1>2, <1>3, <1>4

\* LeastOf is the least element ...
LEMMA Least ==
  ASSUME NEW S \in SUBSET Nat, S # {}
  PROVE  LeastOf(S) \in S /\ \A n \in S : LeastOf(S) <= n
<1> DEFINE Less == OpToRel(<, Nat)
<1>1. IsWellFoundedOn(Less, Nat)
  BY NatLessThanWellFounded
<1>2. \A x, y \in Nat : x < y => <<x, y>> \in Less
  BY DEF OpToRel
<1> HIDE DEF Less
<1>3. PICK n \in S : \A m \in S : ~ (<<m, n>> \in Less)
  BY <1>1, WFMin
<1>4. ASSUME NEW m \in S PROVE n <= m
  <2>1. n \in Nat /\ m \in Nat /\ ~(m < n)
    BY <1>2, <1>3
  <2> QED
    BY <2>1
<1> QED
  BY <1>4 DEF LeastOf

\* ... and the only one.
LEMMA LeastIs ==
  ASSUME NEW S \in SUBSET Nat, NEW m \in S, \A n \in S : m <= n
  PROVE  LeastOf(S) = m
<1>1. LeastOf(S) \in S /\ \A n \in S : LeastOf(S) <= n
  BY Least
<1>2. LeastOf(S) \in Nat /\ m \in Nat /\ LeastOf(S) <= m /\ m <= LeastOf(S)
  BY <1>1
<1> QED
  BY <1>2

\* The run of voiced samples that s belongs to.
LEMMA RunOf ==
  ASSUME NEW V \in SUBSET Nat, NEW base \in Nat, NEW s \in Nat, base <= s, s \in V
  PROVE  /\ RunStart(V, base, s) \in base..s
         /\ RunStart(V, base, s)..s \subseteq V
         /\ \A r \in base..s : r..s \subseteq V => RunStart(V, base, s) <= r
<1> DEFINE R == {r \in base..s : r..s \subseteq V}
<1>1. R \in SUBSET Nat
  OBVIOUS
<1>2. s..s \subseteq V /\ s \in base..s
  OBVIOUS
<1>3. R # {}
  BY <1>2
<1>4. LeastOf(R) \in R /\ \A n \in R : LeastOf(R) <= n
  BY <1>1, <1>3, Least
<1> QED
  BY <1>4 DEF RunStart

\* The samples from the start of a run are of the same run.
LEMMA SameRun ==
  ASSUME NEW V \in SUBSET Nat, NEW base \in Nat, NEW s \in Nat, base <= s, s \in V,
         NEW u \in RunStart(V, base, s)..s
  PROVE  u \in V /\ base <= u /\ u \in Nat /\ RunStart(V, base, u) = RunStart(V, base, s)
<1> DEFINE r == RunStart(V, base, s)
           q == RunStart(V, base, u)
<1>1. r \in base..s /\ r..s \subseteq V /\ \A n \in base..s : n..s \subseteq V => r <= n
  BY RunOf
<1> HIDE DEF r
<1>2. u \in r..s
  BY DEF r
<1>3. u \in V /\ base <= u /\ u \in Nat /\ u <= s /\ r <= u
  BY <1>1, <1>2
<1>4. q \in base..u /\ q..u \subseteq V /\ \A n \in base..u : n..u \subseteq V => q <= n
  BY <1>3, RunOf
<1> HIDE DEF q
<1>5. r..u \subseteq V /\ r \in base..u
  BY <1>1, <1>3
<1>6. q <= r
  BY <1>4, <1>5
<1>7. q..s \subseteq V /\ q \in base..s
  BY <1>1, <1>3, <1>4
<1>8. r <= q
  BY <1>1, <1>7
<1>9. q = r
  BY <1>1, <1>4, <1>6, <1>8
<1> QED
  BY <1>3, <1>9 DEF q, r

\* Every voiced sample is in an utterance that its session hears.
LEMMA StartFor ==
  ASSUME NEW V \in SUBSET Nat, NEW base \in Nat, NEW p \in Nat,
         NEW s \in V, base <= s, s < p
  PROVE  \E u \in Starts(V, base, p) : /\ u \in Nat /\ u <= s /\ u..s \subseteq V
                                           /\ s < u + MaxUtterance
<1>0. s \in Nat /\ MaxUtterance \in Nat \ {0}
  BY WorkerAssumption
<1> DEFINE r == RunStart(V, base, s)
           a == s - r
           u == r + (a - (a % MaxUtterance))
<1>1. r \in base..s /\ r..s \subseteq V
  BY <1>0, RunOf
<1>2. a \in Nat /\ s = r + a
  BY <1>0, <1>1
<1>3. ASSUME NEW v \in r..s PROVE v \in V /\ RunStart(V, base, v) = r
  BY <1>0, <1>3, SameRun
<1> HIDE DEF r
<1> HIDE DEF a
<1>4. /\ a % MaxUtterance \in 0..(MaxUtterance - 1) /\ a - (a % MaxUtterance) \in Nat
      /\ (a - (a % MaxUtterance)) % MaxUtterance = 0
  BY <1>0, <1>2, Aligned
<1> DEFINE c == a % MaxUtterance
<1>5. c \in 0..(MaxUtterance - 1) /\ a - c \in Nat /\ (a - c) % MaxUtterance = 0 /\ u = r + (a - c)
  BY <1>4
<1> HIDE DEF c, u
<1>6. u \in Nat /\ u \in r..s /\ s < u + MaxUtterance /\ u - r = a - c /\ base <= u
  BY <1>0, <1>1, <1>2, <1>5
<1>7. u \in V /\ RunStart(V, base, u) = r
  BY <1>3, <1>6
<1>8. (u - RunStart(V, base, u)) % MaxUtterance = 0
  BY <1>5, <1>6, <1>7
<1>9. u \in base..(p - 1)
  BY <1>0, <1>1, <1>6
<1>10. u \in Starts(V, base, p)
  BY <1>7, <1>8, <1>9 DEF Starts
<1>11. u <= s /\ u..s \subseteq V
  BY <1>0, <1>1, <1>6
<1> QED
  BY <1>6, <1>10, <1>11

\* An utterance ends at a silent sample or at the detector's cap.
LEMMA EndsAt ==
  ASSUME NEW V \in SUBSET Nat, NEW u \in Nat
  PROVE  /\ EndOf(V, u) \in u..(u + MaxUtterance) /\ EndOf(V, u) \in Nat
         /\ EndOf(V, u) \notin V \/ EndOf(V, u) = u + MaxUtterance
         /\ \A t \in u..(EndOf(V, u) - 1) : t \in V
         /\ u \in V => u < EndOf(V, u)
<1>0. MaxUtterance \in Nat \ {0}
  BY WorkerAssumption
<1> DEFINE T == {t \in u..(u + MaxUtterance) : t \notin V \/ t = u + MaxUtterance}
           e == LeastOf(T)
<1>1. T \in SUBSET Nat /\ u + MaxUtterance \in T
  BY <1>0
<1>2. e \in T /\ \A n \in T : e <= n
  BY <1>1, Least
<1>3. e = EndOf(V, u)
  BY DEF EndOf
<1> HIDE DEF e
<1>4. \A t \in u..(e - 1) : t \in V
  BY <1>0, <1>2
<1>5. e \in u..(u + MaxUtterance) /\ e \in Nat /\ (e \notin V \/ e = u + MaxUtterance)
  BY <1>0, <1>2
<1>6. u \in V => u < e
  BY <1>0, <1>5
<1> QED
  BY <1>3, <1>4, <1>5, <1>6

\* An utterance reaches over the voiced samples up to its cap.
LEMMA Covers ==
  ASSUME NEW V \in SUBSET Nat, NEW u \in Nat, NEW s \in Nat, u <= s, u..s \subseteq V,
         s < u + MaxUtterance
  PROVE  s < EndOf(V, u)
<1> DEFINE e == EndOf(V, u)
<1>0. MaxUtterance \in Nat \ {0}
  BY WorkerAssumption
<1>1. e \in u..(u + MaxUtterance) /\ (e \notin V \/ e = u + MaxUtterance)
  BY EndsAt
<1> HIDE DEF e
<1>2. e <= s => e \in u..s
  BY <1>0, <1>1
<1>3. s < e
  BY <1>0, <1>1, <1>2
<1> QED
  BY <1>3 DEF e

\* Where an utterance begins and ends.
LEMMA StartIs ==
  ASSUME NEW V \in SUBSET Nat, NEW base \in Nat, NEW p \in Nat, NEW u \in Starts(V, base, p)
  PROVE  /\ u \in Nat /\ base <= u /\ u < p /\ u \in V
         /\ EndOf(V, u) \in Nat /\ u < EndOf(V, u)
<1>1. u \in Nat /\ base <= u /\ u < p /\ u \in V
  BY DEF Starts
<1> QED
  BY <1>1, EndsAt

\* Utterances that have begun are not taken back.
LEMMA StartsGrow ==
  ASSUME NEW V \in SUBSET Nat, NEW base \in Nat, NEW p \in Nat, NEW q \in Nat
  PROVE  /\ p <= q => Starts(V, base, p) \subseteq Starts(V, base, q)
         /\ \A u \in Starts(V, base, q) : u < p => u \in Starts(V, base, p)
         /\ p <= base => Starts(V, base, p) = {}
<1>1. p <= q => Starts(V, base, p) \subseteq Starts(V, base, q)
  <2> SUFFICES ASSUME p <= q, NEW u \in Starts(V, base, p) PROVE u \in Starts(V, base, q)
    OBVIOUS
  <2>1. u \in base..(p - 1) /\ u \in V /\ (u - RunStart(V, base, u)) % MaxUtterance = 0
    BY DEF Starts
  <2>2. u \in base..(q - 1)
    BY <2>1
  <2> QED
    BY <2>1, <2>2 DEF Starts
<1>2. ASSUME NEW u \in Starts(V, base, q), u < p PROVE u \in Starts(V, base, p)
  <2>1. u \in base..(q - 1) /\ u \in V /\ (u - RunStart(V, base, u)) % MaxUtterance = 0
    BY DEF Starts
  <2>2. u \in base..(p - 1)
    BY <1>2, <2>1
  <2> QED
    BY <2>1, <2>2 DEF Starts
<1>3. p <= base => Starts(V, base, p) = {}
  <2> SUFFICES ASSUME p <= base, NEW u \in Starts(V, base, p) PROVE FALSE
    OBVIOUS
  <2>1. u \in Nat /\ base <= u /\ u < p
    BY StartIs
  <2> QED
    BY <2>1
<1> QED
  BY <1>1, <1>2, <1>3

\* An utterance ends before the next one begins.
LEMMA StartsApart ==
  ASSUME NEW V \in SUBSET Nat, NEW base \in Nat, NEW p \in Nat,
         NEW u \in Starts(V, base, p), NEW w \in Starts(V, base, p), u < w
  PROVE  EndOf(V, u) <= w
<1>0. MaxUtterance \in Nat \ {0}
  BY WorkerAssumption
<1> DEFINE e == EndOf(V, u)
           r == RunStart(V, base, w)
<1>1. /\ u \in Nat /\ base <= u /\ u \in V /\ w \in Nat /\ base <= w /\ w \in V
      /\ (u - RunStart(V, base, u)) % MaxUtterance = 0
      /\ (w - RunStart(V, base, w)) % MaxUtterance = 0
  BY DEF Starts
<1>2. e \in Nat /\ e <= u + MaxUtterance /\ \A t \in u..(e - 1) : t \in V
  BY <1>0, <1>1, EndsAt
<1> HIDE DEF e
<1> SUFFICES ASSUME w < e PROVE FALSE
  BY <1>1, <1>2 DEF e
<1>3. u..w \subseteq V
  BY <1>1, <1>2
<1>4. r \in base..w /\ r..w \subseteq V /\ \A n \in base..w : n..w \subseteq V => r <= n
  BY <1>1, RunOf
<1>5. r <= u
  BY <1>1, <1>3, <1>4
<1>6. u \in r..w
  BY <1>1, <1>4, <1>5
<1>7. RunStart(V, base, u) = r
  BY <1>1, <1>6, SameRun
<1> HIDE DEF r
<1>8. u - r \in Nat /\ w - r \in Nat /\ (u - r) % MaxUtterance = 0 /\ (w - r) % MaxUtterance = 0 /\ u - r < w - r
  BY <1>1, <1>4, <1>5, <1>7 DEF r
<1>9. (w - r) - (u - r) >= MaxUtterance
  BY <1>0, <1>8, Multiples
<1> QED
  BY <1>0, <1>1, <1>2, <1>4, <1>9

\* Nor is what was reported, or has ended.
LEMMA LaterKnowsMore ==
  ASSUME NEW V \in SUBSET Nat, NEW p \in Nat, NEW q \in Nat, p <= q, NEW u \in Nat
  PROVE  /\ Reported(u, p) => Reported(u, q) /\ u < p
         /\ Ended(V, u, p) => Ended(V, u, q) /\ EndOf(V, u) <= p
         /\ Done(V, u, p) => Done(V, u, q) /\ EndOf(V, u) <= p
<1>0. MaxUtterance \in Nat \ {0} /\ StartLag \in Nat
  BY WorkerAssumption
<1>1. EndOf(V, u) \in u..(u + MaxUtterance) /\ EndOf(V, u) \in Nat
  BY EndsAt
<1>2. Reported(u, p) => Reported(u, q) /\ u < p
  BY <1>0 DEF Reported
<1>3. Ended(V, u, p) => Ended(V, u, q) /\ EndOf(V, u) <= p
  BY <1>0, <1>1 DEF Ended
<1> QED
  BY <1>2, <1>3 DEF Done

\* What is before the start of an utterance that was reported is done.
LEMMA EarlierIsDone ==
  ASSUME NEW V \in SUBSET Nat, NEW base \in Nat, NEW p \in Nat, NEW q \in Nat,
         NEW u \in Starts(V, base, q), NEW w \in Starts(V, base, q), u < w, Reported(w, p)
  PROVE  Done(V, u, p) /\ u < p /\ Reported(u, p)
<1>0. MaxUtterance \in Nat \ {0} /\ StartLag \in Nat
  BY WorkerAssumption
<1>1. u \in Nat /\ w \in Nat /\ EndOf(V, u) \in Nat
  BY StartIs
<1>2. EndOf(V, u) <= w
  BY StartsApart
<1> QED
  BY <1>0, <1>1, <1>2 DEF Reported, Ended, Done

\* Nothing begins after an utterance that has not ended.
LEMMA OpenIsLast ==
  ASSUME NEW V \in SUBSET Nat, NEW base \in Nat, NEW q \in Nat,
         NEW u \in Open(V, base, q), NEW w \in Starts(V, base, q)
  PROVE  w <= u /\ u \in Starts(V, base, q) /\ u \in Nat /\ w \in Nat
<1>1. u \in Starts(V, base, q) /\ Reported(u, q) /\ ~Ended(V, u, q)
  BY DEF Open
<1>2. u \in Nat /\ w \in Nat /\ w < q /\ EndOf(V, u) \in Nat
  BY <1>1, StartIs
<1>3. u < w => EndOf(V, u) <= w
  BY <1>1, StartsApart
<1> QED
  BY <1>1, <1>2, <1>3 DEF Ended

--------------------------------------------------------------------------------
(* What a push and a flush leave known.                                     *)

NewMarker(V, base, p, q, marker) ==
    IF Finals(V, base, p, q) = {} /\ NewStarts(V, base, p, q) = {} THEN marker
    ELSE {ReplayStart(u) : u \in NewStarts(V, base, p, q) \cap Open(V, base, q)}

\* A push leaves every utterance that is done in a fragment, and the open one marked.
LEMMA PushKeepsKnown ==
  ASSUME NEW V \in SUBSET Nat, NEW base \in Nat, NEW p \in Nat, NEW q \in Nat, p <= q,
         NEW frags, NEW marker, KnownTo(V, base, p, frags, marker)
  PROVE  KnownTo(V, base, q, frags \cup Finals(V, base, p, q), NewMarker(V, base, p, q, marker))
<1>1. ASSUME NEW u \in Starts(V, base, q), Done(V, u, q)
      PROVE  <<u, EndOf(V, u)>> \in frags \cup Finals(V, base, p, q)
  <2>1. CASE Done(V, u, p)
    <3>1. u < p
      BY <2>1, StartIs, LaterKnowsMore DEF Done
    <3>2. u \in Starts(V, base, p)
      BY <3>1, StartsGrow
    <3> QED
      BY <2>1, <3>2 DEF KnownTo
  <2>2. CASE ~Done(V, u, p)
    BY <1>1, <2>2 DEF Finals
  <2> QED
    BY <2>1, <2>2
<1>2. ASSUME NEW u \in Open(V, base, q)
      PROVE  NewMarker(V, base, p, q, marker) = {ReplayStart(u)}
  <2>1. u \in Starts(V, base, q) /\ Reported(u, q) /\ ~Ended(V, u, q) /\ u \in Nat
    BY StartIs DEF Open
  <2>2. \A w \in Open(V, base, q) : w = u
    <3> SUFFICES ASSUME NEW w \in Open(V, base, q) PROVE w = u
      OBVIOUS
    <3>1. w <= u /\ u <= w /\ u \in Nat /\ w \in Nat
      BY <2>1, OpenIsLast DEF Open
    <3> QED
      BY <3>1
  <2>3. CASE u \in NewStarts(V, base, p, q)
    BY <1>2, <2>2, <2>3 DEF NewMarker
  <2>4. CASE u \notin NewStarts(V, base, p, q)
    <3>1. Reported(u, p)
      BY <2>1, <2>4 DEF NewStarts
    <3>2. u < p /\ u \in Starts(V, base, p)
      BY <2>1, <3>1, LaterKnowsMore, StartsGrow
    <3>3. ~Ended(V, u, p)
      BY <2>1, LaterKnowsMore
    <3>4. u \in Open(V, base, p)
      BY <3>1, <3>2, <3>3 DEF Open
    <3>5. marker = {ReplayStart(u)}
      BY <3>4 DEF KnownTo
    <3>6. ASSUME NEW w \in Starts(V, base, q), w # u PROVE Done(V, w, p) /\ Reported(w, p)
      <4>1. w <= u /\ w \in Nat
        BY <1>2, OpenIsLast
      <4>2. w < u
        BY <2>1, <3>6, <4>1
      <4> QED
        BY <2>1, <3>1, <4>2, EarlierIsDone
    <3>7. Finals(V, base, p, q) = {}
      BY <2>1, <3>6 DEF Finals, Done
    <3>8. NewStarts(V, base, p, q) = {}
      BY <3>1, <3>6 DEF NewStarts
    <3> QED
      BY <3>5, <3>7, <3>8 DEF NewMarker
  <2> QED
    BY <2>3, <2>4
<1> QED
  BY <1>1, <1>2 DEF KnownTo

\* After a push the marker is that of the open utterance, or still the old one.
LEMMA PushKeepsHonest ==
  ASSUME NEW V \in SUBSET Nat, NEW base \in Nat, NEW p \in Nat, NEW q \in Nat, p <= q,
         NEW behind, NEW marker, HonestTo(V, base, p, behind, marker)
  PROVE  HonestTo(V, base, q, behind, NewMarker(V, base, p, q, marker))
<1>1. CASE Finals(V, base, p, q) = {} /\ NewStarts(V, base, p, q) = {}
  <2>1. NewMarker(V, base, p, q, marker) = marker
    BY <1>1 DEF NewMarker
  <2> SUFFICES ASSUME NEW m \in marker
               PROVE  \/ \E u \in Open(V, base, q) : m = ReplayStart(u)
                      \/ /\ base <= m /\ \E c \in behind : c <= base
                         /\ \A u \in Starts(V, base, q) : ~Reported(u, q)
    BY <2>1 DEF HonestTo
  <2>2. CASE \E u \in Open(V, base, p) : m = ReplayStart(u)
    <3>1. PICK u \in Open(V, base, p) : m = ReplayStart(u)
      BY <2>2
    <3>2. u \in Starts(V, base, p) /\ Reported(u, p) /\ ~Ended(V, u, p)
      BY DEF Open
    <3>3. u \in Starts(V, base, q) /\ u \in Nat
      BY <3>2, StartsGrow, StartIs
    <3>4. Reported(u, q)
      BY <3>2, <3>3, LaterKnowsMore
    <3>5. ~Done(V, u, q)
      BY <1>1, <3>2, <3>3 DEF Finals, Done
    <3>6. u \in Open(V, base, q)
      BY <3>3, <3>4, <3>5 DEF Open, Done
    <3> QED
      BY <3>1, <3>6
  <2>3. CASE /\ base <= m /\ \E c \in behind : c <= base
             /\ \A u \in Starts(V, base, p) : ~Reported(u, p)
    <3>1. ASSUME NEW u \in Starts(V, base, q), Reported(u, q) PROVE FALSE
      <4>1. Reported(u, p)
        BY <1>1, <3>1 DEF NewStarts
      <4>2. u < p
        BY <4>1, StartIs, LaterKnowsMore
      <4>3. u \in Starts(V, base, p)
        BY <4>2, StartsGrow
      <4> QED
        BY <2>3, <4>1, <4>3
    <3> QED
      BY <2>3, <3>1
  <2> QED
    BY <2>2, <2>3 DEF HonestTo
<1>2. CASE ~(Finals(V, base, p, q) = {} /\ NewStarts(V, base, p, q) = {})
  BY <1>2 DEF NewMarker, HonestTo
<1> QED
  BY <1>1, <1>2

\* A flush leaves nothing unheard.
LEMMA FlushTellsAll ==
  ASSUME NEW V \in SUBSET Nat, NEW base \in Nat, NEW q \in Nat,
         NEW frags, NEW marker, NEW behind,
         KnownTo(V, base, q, frags, marker), HonestTo(V, base, q, behind, marker),
         marker \subseteq Nat, \A m \in marker : \E s \in V : m <= s /\ s < q
  PROVE  /\ \A s \in V : base <= s /\ s < q =>
               \E u \in frags \cup Flush(V, base, q) : u[1] <= s /\ s < u[2]
         /\ Flush(V, base, q) = {} => marker = {}
<1>1. ASSUME NEW s \in V, base <= s, s < q
      PROVE  \E u \in frags \cup Flush(V, base, q) : u[1] <= s /\ s < u[2]
  <2>0. s \in Nat
    OBVIOUS
  <2>1. PICK u \in Starts(V, base, q) : /\ u \in Nat /\ u <= s /\ u..s \subseteq V
                                            /\ s < u + MaxUtterance
    BY <1>1, StartFor
  <2>2. s < EndOf(V, u) /\ EndOf(V, u) \in Nat
    BY <2>0, <2>1, Covers, EndsAt
  <2>3. CASE Done(V, u, q)
    <3>1. <<u, EndOf(V, u)>> \in frags
      BY <2>3 DEF KnownTo
    <3> DEFINE f == <<u, EndOf(V, u)>>
    <3>2. f[1] = u /\ f[2] = EndOf(V, u) /\ f \in frags
      BY <3>1
    <3> HIDE DEF f
    <3> QED
      BY <2>1, <2>2, <3>2
  <2>4. CASE ~Done(V, u, q)
    <3> DEFINE e == LeastOf({EndOf(V, u), q})
               f == <<u, e>>
    <3>1. f \in Flush(V, base, q)
      BY <2>4 DEF Flush
    <3>2. e \in {EndOf(V, u), q}
      <4>1. {EndOf(V, u), q} \in SUBSET Nat /\ {EndOf(V, u), q} # {}
        BY <2>2
      <4> QED
        BY <4>1, Least
    <3>3. s < e
      BY <1>1, <2>2, <3>2
    <3> HIDE DEF e
    <3>4. f[1] = u /\ f[2] = e
      OBVIOUS
    <3> HIDE DEF f
    <3> QED
      BY <2>1, <3>1, <3>3, <3>4
  <2> QED
    BY <2>3, <2>4
<1>2. ASSUME Flush(V, base, q) = {}, NEW m \in marker PROVE FALSE
  <2>1. \A u \in Starts(V, base, q) : Done(V, u, q)
    BY <1>2 DEF Flush
  <2>2. CASE \E u \in Open(V, base, q) : m = ReplayStart(u)
    BY <2>1, <2>2 DEF Open, Done
  <2>3. CASE base <= m /\ \A u \in Starts(V, base, q) : ~Reported(u, q)
    <3>1. PICK s \in V : m <= s /\ s < q
      OBVIOUS
    <3>2. base <= s
      BY <2>3, <3>1
    <3>3. PICK u \in Starts(V, base, q) : u \in Nat
      BY <3>1, <3>2, StartFor
    <3> QED
      BY <2>1, <2>3, <3>3 DEF Done
  <2> QED
    BY <2>2, <2>3 DEF HonestTo
<1> QED
  BY <1>1, <1>2

--------------------------------------------------------------------------------
(* What is kept, and where recognition would begin again.                   *)

WindowStart(samples) == IF samples > ReplayWindow THEN samples - ReplayWindow ELSE 0

LowPoint(at, behind, marker, samples) ==
    LeastOf({at} \cup behind \cup (IF marker # {} THEN marker ELSE {WindowStart(samples)}))

Backlog(samples, r) == {b \in {r} : b > 0 /\ samples - ReplayWindow > b - StartLag}

KeptTo(V, frags, opened, samples, r) ==
    \A s \in V : s < r => \/ \E u \in frags : u[1] <= s /\ s < u[2]
                          \/ HiddenBy(opened \cup Backlog(samples, r), s)

\* The low point is the least of the cursor, the checkpoint and the marker.
LEMMA LowPointIs ==
  ASSUME NEW at \in Nat, NEW behind \in SUBSET Nat, NEW marker \in SUBSET Nat, NEW samples \in Nat
  PROVE  /\ LowPoint(at, behind, marker, samples) \in Nat
         /\ LowPoint(at, behind, marker, samples) <= at
         /\ \A n \in behind : LowPoint(at, behind, marker, samples) <= n
         /\ \A n \in marker : LowPoint(at, behind, marker, samples) <= n
         /\ marker = {} => LowPoint(at, behind, marker, samples) <= WindowStart(samples)
         /\ \/ LowPoint(at, behind, marker, samples) = at
            \/ LowPoint(at, behind, marker, samples) \in behind
            \/ LowPoint(at, behind, marker, samples) \in marker
            \/ marker = {} /\ LowPoint(at, behind, marker, samples) = WindowStart(samples)
         /\ WindowStart(samples) \in Nat /\ WindowStart(samples) <= samples
<1>1. WindowStart(samples) \in Nat /\ WindowStart(samples) <= samples
  BY WindowAssumption DEF WindowStart
<1> DEFINE S == {at} \cup behind \cup (IF marker # {} THEN marker ELSE {WindowStart(samples)})
<1>2. S \in SUBSET Nat /\ S # {}
  BY <1>1
<1>3. LeastOf(S) \in S /\ \A n \in S : LeastOf(S) <= n
  BY <1>2, Least
<1>4. LowPoint(at, behind, marker, samples) = LeastOf(S)
  BY DEF LowPoint
<1> DEFINE r == LowPoint(at, behind, marker, samples)
<1>5. r \in S /\ \A n \in S : r <= n
  BY <1>3, <1>4
<1>6. r \in Nat
  BY <1>2, <1>5
<1> HIDE DEF r
<1>7. (marker = {} => r <= WindowStart(samples)) /\ r <= at
  BY <1>5
<1> QED
  BY <1>1, <1>5, <1>6, <1>7 DEF r

\* What is kept up to a point is kept up to an earlier one, with more fragments and audio.
LEMMA KeptLower ==
  ASSUME NEW V \in SUBSET Nat, NEW frags, NEW frags2, frags \subseteq frags2,
         NEW opened \in SUBSET Nat, NEW opened2 \in SUBSET Nat, opened \subseteq opened2,
         NEW samples \in Nat, NEW samples2 \in Nat, samples <= samples2,
         NEW r \in Nat, NEW r2 \in Nat, r2 <= r, KeptTo(V, frags, opened, samples, r)
  PROVE  KeptTo(V, frags2, opened2, samples2, r2)
<1>0. StartLag \in Nat /\ ReplayWindow \in Nat
  BY WorkerAssumption, WindowAssumption
<1> SUFFICES ASSUME NEW s \in V, s < r2, ~ \E u \in frags2 : u[1] <= s /\ s < u[2]
             PROVE  HiddenBy(opened2 \cup Backlog(samples2, r2), s)
  BY DEF KeptTo
<1>1. s \in Nat /\ s < r
  OBVIOUS
<1>2. HiddenBy(opened \cup Backlog(samples, r), s)
  BY <1>1 DEF KeptTo
<1>3. PICK b \in opened \cup Backlog(samples, r) : b - StartLag <= s /\ s < b
  BY <1>2 DEF HiddenBy
<1>4. CASE b \in opened
  BY <1>3, <1>4 DEF HiddenBy
<1>5. CASE b \in Backlog(samples, r)
  <2>1. b = r /\ samples - ReplayWindow > r - StartLag
    BY <1>5 DEF Backlog
  <2>2. r2 > 0 /\ samples2 - ReplayWindow > r2 - StartLag /\ r2 - StartLag <= s
    BY <1>0, <1>1, <1>3, <2>1
  <2>3. r2 \in Backlog(samples2, r2)
    BY <2>2 DEF Backlog
  <2> QED
    BY <2>2, <2>3 DEF HiddenBy
<1> QED
  BY <1>3, <1>4, <1>5

\* What a session knows and what was known when it began are enough.
LEMMA KnownIsKept ==
  ASSUME NEW V \in SUBSET Nat, NEW base \in Nat, NEW at \in Nat, base <= at,
         NEW frags, NEW behind \in SUBSET Nat, NEW marker \in SUBSET Nat,
         NEW samples \in Nat, NEW opened,
         KnownTo(V, base, at, frags, marker), HonestTo(V, base, at, behind, marker),
         \A s \in V : s < base => \/ \E u \in frags : u[1] <= s /\ s < u[2]
                                  \/ HiddenBy(opened, s)
  PROVE  KeptTo(V, frags, opened, samples, LowPoint(at, behind, marker, samples))
<1>0. StartLag \in Nat /\ ReplayWindow \in Nat
  BY WorkerAssumption, WindowAssumption
<1> DEFINE r == LowPoint(at, behind, marker, samples)
<1>1. /\ r \in Nat /\ r <= at
      /\ \A n \in behind : r <= n
      /\ \A n \in marker : r <= n
      /\ marker = {} => r <= WindowStart(samples)
  BY LowPointIs
<1> HIDE DEF r
<1> SUFFICES ASSUME NEW s \in V, s < r, ~ \E u \in frags : u[1] <= s /\ s < u[2]
             PROVE  HiddenBy(opened \cup Backlog(samples, r), s)
  BY DEF KeptTo, r
<1>2. CASE s < base
  BY <1>2 DEF HiddenBy
<1>3. CASE ~(s < base)
  <2>0. s \in Nat /\ base <= s /\ s < at
    BY <1>1, <1>3
  <2>1. PICK u \in Starts(V, base, at) : /\ u \in Nat /\ u <= s /\ u..s \subseteq V
                                         /\ s < u + MaxUtterance
    BY <2>0, StartFor
  <2>2. s < EndOf(V, u) /\ EndOf(V, u) \in Nat
    BY <2>0, <2>1, Covers, EndsAt
  <2>3. ~Done(V, u, at)
    <3> SUFFICES ASSUME Done(V, u, at) PROVE FALSE
      OBVIOUS
    <3> DEFINE f == <<u, EndOf(V, u)>>
    <3>1. f \in frags
      BY DEF KnownTo
    <3>2. f[1] = u /\ f[2] = EndOf(V, u)
      OBVIOUS
    <3> HIDE DEF f
    <3> QED
      BY <2>1, <2>2, <3>1, <3>2
  <2>4. u \notin Open(V, base, at)
    <3> SUFFICES ASSUME u \in Open(V, base, at) PROVE FALSE
      OBVIOUS
    <3>1. marker = {ReplayStart(u)}
      BY DEF KnownTo
    <3>2. r <= ReplayStart(u)
      BY <1>1, <3>1
    <3>3. ReplayStart(u) \in Nat /\ ReplayStart(u) <= u
      BY <2>1, WorkerAssumption DEF ReplayStart
    <3> QED
      BY <1>1, <2>0, <2>1, <3>2, <3>3
  <2>5. ~Reported(u, at)
    BY <2>3, <2>4 DEF Open, Done
  <2>6. at <= u + StartLag
    BY <1>0, <2>1, <2>5 DEF Reported
  <2>7. marker = {}
    <3> SUFFICES ASSUME NEW m \in marker PROVE FALSE
      OBVIOUS
    <3>1. CASE \E w \in Open(V, base, at) : m = ReplayStart(w)
      <4>1. PICK w \in Open(V, base, at) : m = ReplayStart(w)
        BY <3>1
      <4>2. u <= w /\ w \in Starts(V, base, at) /\ w \in Nat
        BY OpenIsLast
      <4>3. Reported(w, at)
        BY DEF Open
      <4> QED
        BY <1>0, <2>1, <2>6, <4>2, <4>3 DEF Reported
    <3>2. CASE \E c \in behind : c <= base
      <4>1. PICK c \in behind : c <= base
        BY <3>2
      <4>2. r <= c /\ c \in Nat
        BY <1>1
      <4> QED
        BY <1>1, <2>0, <4>1, <4>2
    <3> QED
      BY <3>1, <3>2 DEF HonestTo
  <2>8. r > 0 /\ samples - ReplayWindow > r - StartLag /\ r - StartLag <= s
    <3>1. r <= WindowStart(samples) /\ r > 0
      BY <1>1, <2>0, <2>7
    <3>2. r <= samples - ReplayWindow
      BY <1>0, <1>1, <3>1 DEF WindowStart
    <3> QED
      BY <1>0, <1>1, <2>0, <2>1, <2>6, <3>1, <3>2
  <2>9. r \in Backlog(samples, r)
    BY <2>8 DEF Backlog
  <2> QED
    BY <2>8, <2>9 DEF HiddenBy
<1> QED
  BY <1>2, <1>3

--------------------------------------------------------------------------------
(* Ranges of audio in the queue.                                            *)

\* Positions are natural numbers.
LEMMA Room ==
  Positions \subseteq Nat /\ 0 \in Positions /\ MaxSamples \in Nat /\ MaxPiece \in Nat \ {0}
BY EnvironmentAssumption, WindowAssumption DEF Positions

\* A range is a task.
LEMMA RangeIs ==
  ASSUME NEW a \in Positions, NEW b \in Positions
  PROVE  /\ RangeOf(a, b) \in Tasks /\ RangeOf(a, b).kind = "range"
         /\ RangeOf(a, b).start = a /\ RangeOf(a, b).end = b
BY DEF RangeOf, Tasks

\* So is a finish.
LEMMA FinishIs == Finish \in Tasks /\ Finish.kind = "finish" /\ Finish.start = 0 /\ Finish.end = 0
BY Room DEF Finish, Tasks, Positions

\* How many pieces cover d samples.
LEMMA CutIn ==
  ASSUME NEW P \in Nat \ {0}, NEW d \in Nat, NEW n, n = (d + P - 1) \div P
  PROVE  n \in Nat /\ d <= n * P /\ (d > 0 => (n - 1) * P < d /\ n > 0) /\ (d = 0 => n = 0)
OBVIOUS

\* The bounds of a piece ...
LEMMA TimesIs ==
  ASSUME NEW P \in Nat \ {0}, NEW i \in Nat
  PROVE  i * P \in Nat /\ (i - 1) * P = i * P - P
OBVIOUS

\* ... grow with its number.
LEMMA TimesGrow ==
  ASSUME NEW P \in Nat \ {0}, NEW i \in Nat, NEW j \in Nat, i <= j
  PROVE  i * P <= j * P
<1>1. PICK k \in Nat : j = i + k
  <2>1. j - i \in Nat /\ j = i + (j - i)
    OBVIOUS
  <2> QED
    BY <2>1
<1>2. j * P = i * P + k * P
  BY <1>1
<1>3. i * P \in Nat /\ k * P \in Nat
  BY <1>1
<1> QED
  BY <1>2, <1>3

\* The pieces of some audio are ranges that follow each other from its start to its end.
LEMMA PiecesAre ==
  ASSUME NEW from \in Positions, NEW to \in Positions, from <= to
  PROVE  /\ Pieces(from, to) \in Seq(Tasks) /\ Chained(from, Pieces(from, to), to)
         /\ \A i \in DOMAIN Pieces(from, to) :
              /\ Pieces(from, to)[i].kind = "range" /\ Pieces(from, to)[i].end <= to
              /\ Pieces(from, to)[i].start < Pieces(from, to)[i].end
<1>0. from \in Nat /\ to \in Nat /\ MaxPiece \in Nat \ {0}
  BY Room
<1> DEFINE d == to - from
           n == (d + MaxPiece - 1) \div MaxPiece
           last(i) == LeastOf({to, from + i * MaxPiece})
           q == Pieces(from, to)
<1>1. d \in Nat /\ to = from + d
  BY <1>0
<1> HIDE DEF d
<1>2. n \in Nat /\ d <= n * MaxPiece /\ (d > 0 => (n - 1) * MaxPiece < d /\ n > 0) /\ (d = 0 => n = 0)
  BY <1>0, <1>1, CutIn
<1>3. q = [i \in 1..n |-> RangeOf(from + (i - 1) * MaxPiece, last(i))]
  BY DEF Pieces, d
<1> HIDE DEF n, q
<1>4. ASSUME NEW i \in Nat
      PROVE  i * MaxPiece \in Nat /\ (i - 1) * MaxPiece = i * MaxPiece - MaxPiece
  BY <1>0, TimesIs
<1>5. ASSUME NEW i \in 1..n
      PROVE  /\ from + (i - 1) * MaxPiece \in Nat /\ from + (i - 1) * MaxPiece < to
             /\ last(i) \in Nat /\ last(i) <= to /\ from + (i - 1) * MaxPiece < last(i)
             /\ i < n => last(i) = from + i * MaxPiece
             /\ i = n => last(i) = to
  <2>1. i \in Nat /\ i - 1 \in Nat /\ n > 0 /\ d > 0 /\ (n - 1) \in Nat /\ i - 1 <= n - 1
    BY <1>1, <1>2
  <2>2. (i - 1) * MaxPiece <= (n - 1) * MaxPiece
    BY <1>0, <2>1, TimesGrow
  <2>3. (i - 1) * MaxPiece \in Nat /\ i * MaxPiece \in Nat /\ (n - 1) * MaxPiece \in Nat
        /\ i * MaxPiece = (i - 1) * MaxPiece + MaxPiece
    BY <1>0, <1>4, <2>1
  <2>4. (i - 1) * MaxPiece < d
    BY <1>1, <1>2, <2>1, <2>2, <2>3
  <2>5. {to, from + i * MaxPiece} \in SUBSET Nat
    BY <1>0, <2>3
  <2>6. last(i) \in {to, from + i * MaxPiece} /\ last(i) <= to /\ last(i) <= from + i * MaxPiece
    BY <2>5, Least
  <2>7. i < n => from + i * MaxPiece <= to
    <3> SUFFICES ASSUME i < n PROVE from + i * MaxPiece <= to
      OBVIOUS
    <3>1. i <= n - 1
      BY <1>2, <2>1
    <3>2. i * MaxPiece <= (n - 1) * MaxPiece
      BY <1>0, <2>1, <3>1, TimesGrow
    <3> QED
      BY <1>0, <1>1, <1>2, <2>1, <2>3, <3>2
  <2>8. i = n => d <= i * MaxPiece
    BY <1>2
  <2>9. (i < n => last(i) = from + i * MaxPiece) /\ (i = n => last(i) = to)
    <3> DEFINE x == last(i)
               y == i * MaxPiece
    <3>1. /\ y \in Nat /\ x \in {to, from + y} /\ x <= to /\ x <= from + y
          /\ i < n => from + y <= to
          /\ i = n => d <= y
      BY <2>3, <2>6, <2>7, <2>8
    <3> HIDE DEF x, y
    <3>2. x \in Nat
      BY <1>0, <3>1
    <3>3. (i < n => x = from + y) /\ (i = n => x = to)
      BY <1>0, <1>1, <3>1, <3>2
    <3> QED
      BY <3>3 DEF x, y
  <2>10. from + (i - 1) * MaxPiece < last(i) /\ from + (i - 1) * MaxPiece \in Nat /\ from + (i - 1) * MaxPiece < to
    BY <1>0, <1>1, <2>3, <2>4, <2>6
  <2> QED
    BY <1>0, <2>6, <2>9, <2>10
<1> HIDE DEF last
<1>6. ASSUME NEW i \in 1..n
      PROVE  /\ q[i] = RangeOf(from + (i - 1) * MaxPiece, last(i)) /\ q[i] \in Tasks
             /\ q[i].kind = "range" /\ q[i].start = from + (i - 1) * MaxPiece
             /\ q[i].end = last(i)
  <2>1. q[i] = RangeOf(from + (i - 1) * MaxPiece, last(i))
    BY <1>3
  <2>2. from + (i - 1) * MaxPiece \in Positions /\ last(i) \in Positions
    <3>1. to <= MaxSamples
      BY DEF Positions
    <3>2. from + (i - 1) * MaxPiece \in Nat /\ last(i) \in Nat /\ last(i) <= to /\ from + (i - 1) * MaxPiece < to
      BY <1>5
    <3> QED
      BY <1>0, <3>1, <3>2, Room DEF Positions
  <2> QED
    BY <2>1, <2>2, RangeIs
<1>7. q = [i \in 1..n |-> q[i]] /\ DOMAIN q = 1..n
  BY <1>3
<1>8. q \in [1..n -> Tasks]
  BY <1>6, <1>7
<1>9. q \in Seq(Tasks) /\ Len(q) = n
  <2>1. q \in Seq(Tasks)
    BY <1>2, <1>8, SeqDef
  <2>2. DOMAIN q = 1..Len(q) /\ Len(q) \in Nat
    BY <2>1, LenProperties
  <2> DEFINE k == Len(q)
  <2>3. k \in Nat /\ 1..k = 1..n
    BY <1>7, <2>2
  <2> HIDE DEF k
  <2>4. k = n
    <3>1. k <= n
      BY <1>2, <2>3
    <3>2. n <= k
      <4>1. CASE n = 0
        BY <2>3, <4>1
      <4>2. CASE n > 0
        <5>1. n \in 1..n
          BY <1>2, <4>2
        <5>2. n \in 1..k
          BY <2>3, <5>1
        <5> QED
          BY <5>2
      <4> QED
        BY <1>2, <4>1, <4>2
    <3> QED
      BY <1>2, <2>3, <3>1, <3>2
  <2> QED
    BY <2>1, <2>4 DEF k
<1>10. ASSUME NEW i \in 1..n
       PROVE  q[i].start = IF i = 1 THEN from ELSE q[i - 1].end
  <2>1. CASE i = 1
    <3>1. (i - 1) * MaxPiece = 0
      BY <1>0, <2>1
    <3> QED
      BY <1>0, <1>6, <2>1, <3>1
  <2>2. CASE i # 1
    <3>1. i - 1 \in 1..n /\ i - 1 < n
      BY <1>2, <2>2
    <3> DEFINE j == i - 1
    <3>2. j \in 1..n /\ j < n /\ j = i - 1
      BY <3>1
    <3> HIDE DEF j
    <3>3. q[j].end = from + j * MaxPiece
      BY <1>5, <1>6, <3>2
    <3> QED
      BY <1>6, <2>2, <3>2, <3>3
  <2> QED
    BY <2>1, <2>2
<1>11. to = IF q = <<>> THEN from ELSE q[Len(q)].end
  <2>1. CASE n = 0
    <3>1. q = <<>>
      BY <1>9, <2>1, EmptySeq
    <3>2. d = 0
      BY <1>1, <1>2, <2>1
    <3> QED
      BY <1>0, <1>1, <3>1, <3>2
  <2>2. CASE n # 0
    <3>1. n \in 1..n
      BY <1>2, <2>2
    <3>2. q # <<>>
      BY <1>9, <2>2, EmptySeq
    <3>3. q[n].end = to
      BY <1>5, <1>6, <3>1
    <3> QED
      BY <1>9, <3>2, <3>3
  <2> QED
    BY <2>1, <2>2
<1>12. Chained(from, q, to)
  <2>1. \A i \in 1..n : q[i].kind = "range" /\ q[i].start < q[i].end
    BY <1>5, <1>6
  <2> QED
    BY <1>9, <1>10, <1>11, <2>1 DEF Chained
<1>13. \A i \in 1..n : q[i].kind = "range" /\ q[i].end <= to /\ q[i].start < q[i].end
  BY <1>5, <1>6
<1> QED
  BY <1>7, <1>9, <1>12, <1>13 DEF q

\* The elements of two sequences, one after the other.
LEMMA JoinedAre ==
  ASSUME NEW S, NEW p \in Seq(S), NEW q \in Seq(S)
  PROVE  /\ p \o q \in Seq(S) /\ Len(p \o q) = Len(p) + Len(q)
         /\ \A i \in DOMAIN (p \o q) : \/ i \in DOMAIN p /\ (p \o q)[i] = p[i]
                                       \/ i - Len(p) \in DOMAIN q /\ (p \o q)[i] = q[i - Len(p)]
         /\ \A i \in DOMAIN p : i \in DOMAIN (p \o q) /\ (p \o q)[i] = p[i]
         /\ \A i \in DOMAIN q : Len(p) + i \in DOMAIN (p \o q) /\ (p \o q)[Len(p) + i] = q[i]
<1> DEFINE m == Len(p)
           n == Len(q)
           z == p \o q
<1>1. m \in Nat /\ n \in Nat /\ DOMAIN p = 1..m /\ DOMAIN q = 1..n
  BY LenProperties
<1>2. /\ z \in Seq(S) /\ Len(z) = m + n
      /\ \A i \in 1..(m + n) : z[i] = IF i <= m THEN p[i] ELSE q[i - m]
  BY ConcatProperties
<1>3. DOMAIN z = 1..(m + n)
  BY <1>2, LenProperties
<1> HIDE DEF m, n, z
<1>4. ASSUME NEW i \in DOMAIN z
      PROVE  \/ i \in DOMAIN p /\ z[i] = p[i]
             \/ i - m \in DOMAIN q /\ z[i] = q[i - m]
  <2>1. i \in Nat /\ 1 <= i /\ i <= m + n
    BY <1>1, <1>3
  <2>2. i <= m \/ i - m \in 1..n
    BY <1>1, <2>1
  <2>3. z[i] = IF i <= m THEN p[i] ELSE q[i - m]
    BY <1>2, <1>3
  <2>4. CASE i <= m
    BY <1>1, <2>1, <2>3, <2>4
  <2>5. CASE ~(i <= m)
    BY <1>1, <2>2, <2>3, <2>5
  <2> QED
    BY <2>4, <2>5
<1>5. ASSUME NEW i \in DOMAIN p PROVE i \in DOMAIN z /\ z[i] = p[i]
  <2>1. i \in 1..m /\ i \in 1..(m + n) /\ i <= m
    BY <1>1
  <2> QED
    BY <1>2, <1>3, <2>1
<1>6. ASSUME NEW i \in DOMAIN q PROVE m + i \in DOMAIN z /\ z[m + i] = q[i]
  <2>1. m + i \in 1..(m + n) /\ ~(m + i <= m) /\ (m + i) - m = i
    BY <1>1
  <2> QED
    BY <1>2, <1>3, <2>1
<1> QED
  BY <1>2, <1>4, <1>5, <1>6 DEF m, n, z

\* A queue with one task more ...
LEMMA OneMore ==
  ASSUME NEW S, NEW p \in Seq(S), NEW e \in S
  PROVE  /\ Append(p, e) \in Seq(S) /\ Len(Append(p, e)) = Len(p) + 1
         /\ Append(p, e) # <<>>
         /\ \A i \in DOMAIN Append(p, e) :
              \/ i \in DOMAIN p /\ Append(p, e)[i] = p[i]
              \/ i = Len(p) + 1 /\ Append(p, e)[i] = e
         /\ \A i \in DOMAIN p : i \in DOMAIN Append(p, e) /\ Append(p, e)[i] = p[i]
         /\ Len(p) + 1 \in DOMAIN Append(p, e)
         /\ Append(p, e)[Len(p) + 1] = e
         /\ p \o <<e>> = Append(p, e)
<1> DEFINE m == Len(p)
           z == Append(p, e)
<1>1. m \in Nat /\ DOMAIN p = 1..m
  BY LenProperties
<1>2. /\ z \in Seq(S) /\ Len(z) = m + 1
      /\ \A i \in 1..m : z[i] = p[i]
      /\ z[m + 1] = e
  BY AppendProperties
<1>3. DOMAIN z = 1..(m + 1)
  BY <1>2, LenProperties
<1>4. p \o <<e>> = z
  BY AppendIsConcat
<1>5. z # <<>>
  BY <1>1, <1>2, EmptySeq
<1> HIDE DEF m, z
<1>6. \A i \in DOMAIN z : i \in DOMAIN p \/ i = m + 1
  BY <1>1, <1>3
<1>7. m + 1 \in DOMAIN z /\ \A i \in DOMAIN p : i \in DOMAIN z
  BY <1>1, <1>3
<1>8. \A i \in DOMAIN p : z[i] = p[i]
  BY <1>1, <1>2
<1> QED
  BY <1>2, <1>4, <1>5, <1>6, <1>7, <1>8 DEF m, z

\* ... and one without the first.
LEMMA OneLess ==
  ASSUME NEW S, NEW s \in Seq(S), s # <<>>
  PROVE  /\ Head(s) \in S /\ Head(s) = s[1] /\ 1 \in DOMAIN s
         /\ Tail(s) \in Seq(S) /\ Len(Tail(s)) = Len(s) - 1
         /\ \A i \in DOMAIN Tail(s) : i + 1 \in DOMAIN s /\ Tail(s)[i] = s[i + 1]
         /\ \A i \in DOMAIN s : i = 1 \/ (i - 1 \in DOMAIN Tail(s) /\ s[i] = Tail(s)[i - 1])
         /\ Tail(s) # <<>> => Tail(s)[Len(Tail(s))] = s[Len(s)]
         /\ Tail(s) = <<>> => Len(s) = 1
<1> DEFINE n == Len(s)
           t == Tail(s)
<1>1. n \in Nat \ {0} /\ DOMAIN s = 1..n
  BY LenProperties, EmptySeq
<1>2. /\ Head(s) \in S /\ t \in Seq(S) /\ Len(t) = n - 1
      /\ \A i \in 1..Len(t) : t[i] = s[i + 1]
  BY HeadTailProperties
<1>3. DOMAIN t = 1..(n - 1)
  BY <1>2, LenProperties
<1>4. Head(s) = s[1]
  OBVIOUS
<1>5. (t # <<>>) <=> (n - 1 # 0)
  BY <1>2, EmptySeq
<1> HIDE DEF n, t
<1>6. \A i \in DOMAIN t : i + 1 \in DOMAIN s /\ t[i] = s[i + 1]
  BY <1>1, <1>2, <1>3
<1>7. ASSUME NEW i \in DOMAIN s, i # 1 PROVE i - 1 \in DOMAIN t /\ s[i] = t[i - 1]
  <2>1. i - 1 \in 1..(n - 1) /\ (i - 1) + 1 = i
    BY <1>1, <1>7
  <2> QED
    BY <1>2, <1>3, <2>1
<1>8. t # <<>> => t[n - 1] = s[n]
  <2> SUFFICES ASSUME t # <<>> PROVE t[n - 1] = s[n]
    OBVIOUS
  <2>1. n - 1 \in 1..(n - 1) /\ (n - 1) + 1 = n
    BY <1>1, <1>5
  <2> QED
    BY <1>2, <2>1
<1>9. t = <<>> => n = 1
  BY <1>1, <1>5
<1>10. 1 \in DOMAIN s
  BY <1>1
<1> QED
  BY <1>2, <1>4, <1>6, <1>7, <1>8, <1>9, <1>10 DEF n, t

\* An empty queue is a chain.
LEMMA ChainEmpty ==
  ASSUME NEW a \in Positions
  PROVE  Chained(a, <<>>, a) /\ <<>> \in Seq(Tasks)
BY EmptySeq DEF Chained

\* A range from where a chain ends makes it longer.
LEMMA ChainGrows ==
  ASSUME NEW a, NEW b \in Positions, NEW c \in Positions, b < c,
         NEW q \in Seq(Tasks), Chained(a, q, b)
  PROVE  Chained(a, Append(q, RangeOf(b, c)), c) /\ Append(q, RangeOf(b, c)) \in Seq(Tasks)
<1> DEFINE e == RangeOf(b, c)
           z == Append(q, e)
           n == Len(q)
<1>1. e \in Tasks /\ e.kind = "range" /\ e.start = b /\ e.end = c
  BY RangeIs
<1> HIDE DEF e
<1>2. /\ z \in Seq(Tasks) /\ Len(z) = n + 1 /\ z # <<>>
      /\ \A i \in DOMAIN q : z[i] = q[i]
      /\ z[n + 1] = e
  BY <1>1, OneMore
<1>3. n \in Nat /\ DOMAIN q = 1..n /\ (q = <<>> <=> n = 0)
  BY LenProperties, EmptySeq
<1>4. /\ \A i \in 1..n : /\ q[i].kind = "range" /\ q[i].start < q[i].end
                         /\ q[i].start = IF i = 1 THEN a ELSE q[i - 1].end
      /\ b = IF n = 0 THEN a ELSE q[n].end
  BY <1>3 DEF Chained
<1>5. z[Len(z)].end = c /\ Len(z) = n + 1
  BY <1>1, <1>2
<1> HIDE DEF z, n
<1>6. ASSUME NEW i \in 1..(n + 1)
      PROVE  /\ z[i].kind = "range" /\ z[i].start < z[i].end
             /\ z[i].start = IF i = 1 THEN a ELSE z[i - 1].end
  <2>1. CASE i = n + 1
    <3>1. z[i] = e
      BY <1>2, <2>1
    <3>2. CASE n = 0
      BY <1>1, <1>4, <2>1, <3>1, <3>2
    <3>3. CASE n # 0
      <4>1. i # 1 /\ i - 1 = n /\ n \in DOMAIN q
        BY <1>3, <2>1, <3>3
      <4>2. z[i - 1] = q[n]
        BY <1>2, <4>1
      <4> QED
        BY <1>1, <1>4, <3>1, <3>3, <4>1, <4>2
    <3> QED
      BY <3>2, <3>3
  <2>2. CASE i # n + 1
    <3>1. i \in 1..n /\ i \in DOMAIN q
      BY <1>3, <2>2
    <3>2. z[i] = q[i]
      BY <1>2, <3>1
    <3>3. CASE i = 1
      BY <1>4, <3>1, <3>2, <3>3
    <3>4. CASE i # 1
      <4>1. i - 1 \in DOMAIN q
        BY <1>3, <3>1, <3>4
      <4>2. z[i - 1] = q[i - 1]
        BY <1>2, <4>1
      <4> QED
        BY <1>4, <3>1, <3>2, <3>4, <4>2
    <3> QED
      BY <3>3, <3>4
  <2> QED
    BY <2>1, <2>2
<1>7. Chained(a, z, c)
  <2>1. \A i \in 1..Len(z) : /\ z[i].kind = "range" /\ z[i].start < z[i].end
                             /\ z[i].start = IF i = 1 THEN a ELSE z[i - 1].end
    BY <1>5, <1>6
  <2>2. c = IF z = <<>> THEN a ELSE z[Len(z)].end
    BY <1>2, <1>5
  <2> QED
    BY <2>1, <2>2 DEF Chained
<1> QED
  BY <1>2, <1>7 DEF z, e

\* A chain without its first range begins where that one ends.
LEMMA ChainShrinks ==
  ASSUME NEW a \in Positions, NEW b \in Positions, NEW q \in Seq(Tasks), q # <<>>, Chained(a, q, b)
  PROVE  /\ Head(q).kind = "range" /\ Head(q).start = a /\ a < Head(q).end
         /\ Chained(Head(q).end, Tail(q), b) /\ Tail(q) \in Seq(Tasks)
<1> DEFINE n == Len(q)
           t == Tail(q)
<1>1. n \in Nat \ {0}
  BY LenProperties, EmptySeq
<1>2. /\ \A i \in 1..n : /\ q[i].kind = "range" /\ q[i].start < q[i].end
                         /\ q[i].start = IF i = 1 THEN a ELSE q[i - 1].end
      /\ b = q[n].end
  BY DEF Chained
<1>3. /\ Head(q) = q[1] /\ t \in Seq(Tasks) /\ Len(t) = n - 1
      /\ \A i \in DOMAIN t : t[i] = q[i + 1]
      /\ t # <<>> => t[Len(t)] = q[n]
      /\ t = <<>> => n = 1
  BY OneLess
<1>4. DOMAIN t = 1..(n - 1)
  BY <1>3, LenProperties
<1> HIDE DEF n
<1>5. ASSUME NEW i \in 1..(n - 1)
      PROVE  /\ t[i].kind = "range" /\ t[i].start < t[i].end
             /\ t[i].start = IF i = 1 THEN q[1].end ELSE t[i - 1].end
  <2>1. i + 1 \in 1..n /\ i + 1 # 1 /\ (i + 1) - 1 = i /\ i \in DOMAIN t
    BY <1>1, <1>4
  <2>2. t[i] = q[i + 1]
    BY <1>3, <2>1
  <2>3. t[i].kind = "range" /\ t[i].start < t[i].end /\ t[i].start = q[i].end
    BY <1>2, <2>1, <2>2
  <2>4. CASE i = 1
    BY <2>3, <2>4
  <2>5. CASE i # 1
    <3>1. i - 1 \in DOMAIN t /\ (i - 1) + 1 = i
      BY <1>1, <1>4, <2>5
    <3>2. t[i - 1] = q[i]
      BY <1>3, <3>1
    <3> QED
      BY <2>3, <2>5, <3>2
  <2> QED
    BY <2>4, <2>5
<1>6. b = IF t = <<>> THEN q[1].end ELSE t[Len(t)].end
  BY <1>2, <1>3
<1>7. Chained(q[1].end, t, b)
  <2>1. \A i \in 1..Len(t) : /\ t[i].kind = "range" /\ t[i].start < t[i].end
                             /\ t[i].start = IF i = 1 THEN q[1].end ELSE t[i - 1].end
    BY <1>3, <1>5
  <2> QED
    BY <1>6, <2>1 DEF Chained
<1>8. q[1].kind = "range" /\ q[1].start = a /\ a < q[1].end
  <2>1. 1 \in 1..n
    BY <1>1
  <2>2. q[1].kind = "range" /\ q[1].start < q[1].end /\ q[1].start = a
    BY <1>2, <2>1
  <2> QED
    BY <2>2
<1> QED
  BY <1>3, <1>7, <1>8

--------------------------------------------------------------------------------
(* The state is well formed.                                                *)

\* A value that may be absent.
LEMMA OptionalIs ==
  /\ {} \in Optional
  /\ \A n \in Positions : {n} \in Optional
  /\ \A S \in Optional : S \subseteq Positions /\ (S = {} \/ \E n \in Positions : S = {n})
BY DEF Optional

\* Where the replay window begins.
LEMMA WindowStartIs ==
  ASSUME NEW n \in Positions
  PROVE  WindowStart(n) \in Positions
BY Room, WindowAssumption DEF WindowStart, Positions

\* What _begin_asr_finalization leaves.
LEMMA BeginIs ==
  ASSUME count \in Positions, unfinished \in Optional, checkpoint \in Optional, BeginFinalization
  PROVE  /\ asr' = "FINALIZING" /\ cursor' = cursor /\ unfinished' = unfinished
         /\ \E c \in Positions :
              /\ checkpoint' = {c}
              /\ \A n \in checkpoint : c <= n
              /\ \A n \in unfinished : c <= n
              /\ unfinished = {} => c <= WindowStart(count)
              /\ \/ c \in checkpoint \/ c \in unfinished
                 \/ unfinished = {} /\ c = WindowStart(count)
<1> DEFINE marker == IF unfinished # {} THEN unfinished ELSE {WindowStart(count)}
           S == marker \cup checkpoint
           c == LeastOf(S)
<1>1. marker \subseteq Positions /\ marker # {}
  BY OptionalIs, WindowStartIs
<1>2. S \in SUBSET Nat /\ S # {} /\ S \subseteq Positions
  BY <1>1, OptionalIs, Room
<1>3. c \in S /\ \A n \in S : c <= n
  BY <1>2, Least
<1>4. checkpoint' = {c} /\ asr' = "FINALIZING" /\ cursor' = cursor /\ unfinished' = unfinished
  BY DEF BeginFinalization, WindowStart
<1> HIDE DEF c
<1>5. c \in Positions
  BY <1>2, <1>3
<1>6. /\ \A n \in checkpoint : c <= n
      /\ \A n \in unfinished : c <= n
      /\ unfinished = {} => c <= WindowStart(count)
  BY <1>3
<1>7. c \in checkpoint \/ c \in unfinished \/ (unfinished = {} /\ c = WindowStart(count))
  BY <1>3
<1> QED
  BY <1>4, <1>5, <1>6, <1>7

\* At first the state is well formed.
LEMMA BaseInit == Init => BaseInv
<1> SUFFICES ASSUME Init PROVE BaseInv
  OBVIOUS
<1> USE DEF Init
<1>1. 0 \in Positions /\ MaxCrashes \in Nat /\ MaxFaults \in Nat
  BY Room, EnvironmentAssumption DEF Positions
<1>2. NoCall.at = "idle" /\ NoCall.start = 0 /\ NoCall.end = 0
  BY DEF NoCall
<1>3. TypeOK
  <2>1. unfinished \in Optional /\ checkpoint \in Optional /\ asrCursor \in Optional
    BY <1>1, OptionalIs
  <2>2. feed \in [at : {"idle", "live", "stored", "recover", "drained", "rebased",
                        "restored", "completing", "unblocked", "finalizing",
                        "completed"}, start : Positions, end : Positions]
    BY <1>1 DEF NoCall
  <2>3. task \in [kind : {"none", "range", "finish"},
                  stage : {"none", "taken", "begun", "heard"},
                  start : Positions, end : Positions,
                  finals : SUBSET Utterances, open : Optional]
    BY <1>1, OptionalIs DEF Idle
  <2>4. session \in [open : BOOLEAN, base : Positions, pos : Positions]
    BY <1>1 DEF Closed
  <2>5. queue \in Seq(Tasks)
    BY EmptySeq
  <2>6. {blocked, storageError, recovering} \subseteq BOOLEAN
    OBVIOUS
  <2>7. crashes \in 0..MaxCrashes /\ faults \in 0..MaxFaults
    BY <1>1
  <2>8. /\ kind \in Kinds /\ voice \in Recordings
        /\ rec \in {"CAPTURING", "INCOMPLETE", "COMPLETE"}
        /\ asr \in {"PENDING", "FINALIZING", "COMPLETE"}
        /\ count \in Positions /\ cursor \in Positions
        /\ fragments \subseteq Utterances
        /\ up \in {"down", "begun", "sealed", "up"}
        /\ loop \in {"recording", "stopping", "begun", "sealing", "finished", "stopped"}
        /\ reopened \subseteq Positions
    BY <1>1
  <2> HIDE DEF Init
  <2> QED
    BY <2>1, <2>2, <2>3, <2>4, <2>5, <2>6, <2>7, <2>8 DEF TypeOK
<1>4. Shape
  BY <1>2 DEF Shape, Idle, Closed, Stored
<1> QED
  BY <1>3, <1>4 DEF BaseInv

\* The recording with a frame more.
LEMMA GrownIs ==
  ASSUME count \in Positions, NEW n \in 1..MaxPiece, count + n <= MaxSamples
  PROVE  count + n \in Positions /\ count < count + n /\ count <= count + n
BY Room DEF Positions

\* A fault is counted up to its bound.
LEMMA FaultIs == ASSUME faults \in 0..MaxFaults, Fault PROVE faults' \in 0..MaxFaults
BY EnvironmentAssumption DEF Fault

\* A frame is stored.
LEMMA GrowingKeepsBase ==
  ASSUME BaseInv, NEW a \in {"stored", "restored"},
         \E n \in 1..MaxPiece :
            /\ count + n <= MaxSamples
            /\ count' = count + n
            /\ feed' = [at |-> a, start |-> count, end |-> count + n],
         UNCHANGED <<env, rec, progress, fragments, up, loop, queue, task, memory, worker>>
  PROVE  BaseInv'
<1> USE Room DEF BaseInv, TypeOK, Shape, Stored, env, capture, progress, memory, worker
<1>1. PICK n \in 1..MaxPiece : /\ count + n <= MaxSamples /\ count' = count + n
                               /\ feed' = [at |-> a, start |-> count, end |-> count + n]
  OBVIOUS
<1>2. count' \in Positions /\ count < count' /\ count <= count'
  BY <1>1, GrownIs
<1>3. feed' = [at |-> a, start |-> count, end |-> count']
  BY <1>1
<1>4. TypeOK'
  BY <1>2, <1>3
<1>5. \A i \in DOMAIN queue : queue[i].end <= count'
  <2> SUFFICES ASSUME NEW i \in DOMAIN queue PROVE queue[i].end <= count'
    OBVIOUS
  <2>1. queue[i] \in Tasks
    BY LenProperties, ElementOfSeq
  <2>2. queue[i].end \in Positions /\ queue[i].end <= count
    BY <2>1 DEF Tasks
  <2> DEFINE e == queue[i].end
  <2>3. e \in Nat /\ e <= count /\ count \in Nat /\ count' \in Nat
    BY <1>2, <2>2
  <2> HIDE DEF e
  <2>4. e <= count'
    BY <1>2, <2>3
  <2> QED
    BY <2>4 DEF e
<1>6. cursor <= count' /\ session.pos <= count' /\ task.end <= count'
  <2>1. cursor \in Nat /\ session.pos \in Nat /\ task.end \in Nat /\ count \in Nat /\ count' \in Nat
    BY <1>2
  <2> DEFINE x == cursor
             y == session.pos
             z == task.end
  <2>2. x <= count /\ y <= count /\ z <= count /\ x \in Nat /\ y \in Nat /\ z \in Nat
    BY <2>1
  <2> HIDE DEF x, y, z
  <2>3. x <= count' /\ y <= count' /\ z <= count'
    BY <1>2, <2>1, <2>2
  <2> QED
    BY <2>3 DEF x, y, z
<1>7. Shape'
  BY <1>2, <1>3, <1>5, <1>6
<1> QED
  BY <1>4, <1>7

\* What was stored is queued.
LEMMA QueueingKeepsBase ==
  ASSUME BaseInv, feed.at \in {"stored", "restored"},
         Put(<<RangeOf(feed.start, feed.end)>>), feed' = NoCall,
         UNCHANGED <<env, capture, progress, fragments, up, loop, task, memory, worker>>
  PROVE  BaseInv'
<1>1. feed.start \in Positions /\ feed.end \in Positions /\ feed.start < feed.end /\ feed.end <= count
  BY DEF BaseInv, TypeOK, Shape
<1> DEFINE t == RangeOf(feed.start, feed.end)
<1>2. t \in Tasks /\ t.kind = "range" /\ t.start = feed.start /\ t.end = feed.end
  BY <1>1, RangeIs
<1> HIDE DEF t
<1> USE Room DEF BaseInv, TypeOK, Shape, Stored, env, capture, progress, memory, worker, NoCall
<1>3. queue' = Append(queue, t)
  BY <1>2, OneMore DEF Put, t
<1>4. queue' \in Seq(Tasks) /\ \A i \in DOMAIN queue' : Stored(queue'[i])
  <2>1. \A i \in DOMAIN queue' : (i \in DOMAIN queue /\ queue'[i] = queue[i]) \/ queue'[i] = t
    BY <1>2, <1>3, OneMore
  <2> QED
    BY <1>1, <1>2, <1>3, <2>1, OneMore
<1>5. TypeOK'
  BY <1>4
<1>6. Shape'
  BY <1>4
<1> QED
  BY <1>5, <1>6

\* Audio arrives.
LEMMA ArrivingKeepsBase ==
  ASSUME BaseInv, FrameArrives \/ Store \/ QueueStored \/ StoreFails \/ BrowserGivesUp
  PROVE  BaseInv'
<1> USE Room DEF BaseInv, TypeOK, Shape, Stored, env, capture, progress, memory, worker, NoCall
<1>1. CASE FrameArrives
  BY <1>1 DEF FrameArrives
<1>2. CASE Store
  BY <1>2, GrowingKeepsBase DEF Store
<1>3. CASE QueueStored
  BY <1>3, QueueingKeepsBase DEF QueueStored
<1>4. CASE StoreFails
  <2>1. faults' \in 0..MaxFaults
    BY <1>4, FaultIs DEF StoreFails
  <2>2. /\ UNCHANGED <<kind, voice, crashes, count, progress, fragments, up, queue,
                   task, asrCursor, blocked, recovering, worker>>
        /\ feed' = NoCall /\ storageError' = TRUE /\ rec' = "INCOMPLETE"
        /\ loop' \in {loop, "stopping"}
    BY <1>4 DEF StoreFails, MarkStorageError
  <2> QED
    BY <2>1, <2>2
<1>5. CASE BrowserGivesUp
  BY <1>5 DEF BrowserGivesUp
<1> QED
  BY <1>1, <1>2, <1>3, <1>4, <1>5

\* The capture loop ends.
LEMMA FinishingKeepsBase ==
  ASSUME BaseInv, \/ Stop \/ FinishBlocked \/ FinishBegins \/ FinishReads \/ FinishSeals
                  \/ FinishFails \/ FinishQueued
  PROVE  BaseInv'
<1> USE Room DEF BaseInv, TypeOK, Shape, Stored, env, capture, progress, memory, worker
<1>1. CASE Stop
  BY <1>1 DEF Stop
<1>2. CASE FinishBlocked
  BY <1>2 DEF FinishBlocked
<1>3. CASE FinishBegins
  <2>1. asr' = "FINALIZING" /\ cursor' = cursor /\ unfinished' = unfinished /\ checkpoint' \in Optional
    BY <1>3, BeginIs, OptionalIs DEF FinishBegins
  <2> QED
    BY <1>3, <2>1 DEF FinishBegins
<1>4. CASE FinishReads
  BY <1>4 DEF FinishReads
<1>5. CASE FinishSeals
  BY <1>5 DEF FinishSeals
<1>6. CASE FinishFails
  <2>1. faults' \in 0..MaxFaults
    BY <1>6, FaultIs DEF FinishFails
  <2> QED
    BY <1>6, <2>1 DEF FinishFails, MarkStorageError
<1>7. CASE FinishQueued
  <2>1. queue' = Append(queue, Finish) /\ Finish \in Tasks
    BY <1>7, FinishIs, OneMore DEF FinishQueued, Put
  <2>2. queue' \in Seq(Tasks) /\ \A i \in DOMAIN queue' : Stored(queue'[i])
    <3>1. \A i \in DOMAIN queue' : (i \in DOMAIN queue /\ queue'[i] = queue[i]) \/ queue'[i] = Finish
      BY <2>1, OneMore
    <3>2. 0 <= count
      BY Room
    <3> QED
      BY <2>1, <3>1, <3>2, OneMore, FinishIs
  <2>3. TypeOK'
    BY <1>7, <2>2 DEF FinishQueued
  <2>4. Shape'
    BY <1>7, <2>2 DEF FinishQueued
  <2> QED
    BY <2>3, <2>4
<1> QED
  BY <1>1, <1>2, <1>3, <1>4, <1>5, <1>6, <1>7

\* A browser recovers its capture.
LEMMA RecoveringKeepsBase ==
  ASSUME BaseInv,
         \/ ReplayArrives \/ ReplayDrains \/ ReplayRebases \/ ReplayStores \/ ReplayQueued
         \/ CompletionArrives \/ CompletionDrains \/ CompletionBegins \/ CompletionSeals
         \/ CompletionQueued \/ RecoveryFails
  PROVE  BaseInv'
<1> USE Room DEF BaseInv, TypeOK, Shape, Stored, env, capture, progress, memory, worker, NoCall
<1>1. CASE ReplayArrives
  BY <1>1 DEF ReplayArrives
<1>2. CASE ReplayDrains
  BY <1>2 DEF ReplayDrains
<1>3. CASE ReplayRebases
  <2>1. cursor \in Positions /\ count \in Positions /\ cursor <= count
    OBVIOUS
  <2> DEFINE q == Pieces(cursor, count)
  <2>2. /\ q \in Seq(Tasks)
        /\ \A i \in DOMAIN q : q[i].end <= count /\ q[i].start < q[i].end
    BY <2>1, PiecesAre
  <2> HIDE DEF q
  <2>3. queue' = queue \o q /\ asrCursor' = {cursor} /\ blocked' = FALSE /\ storageError' = FALSE
    BY <1>3 DEF ReplayRebases, Put, q
  <2>4. queue' \in Seq(Tasks) /\ \A i \in DOMAIN queue' : Stored(queue'[i])
    <3>1. queue' \in Seq(Tasks)
      BY <2>2, <2>3, JoinedAre
    <3>2. ASSUME NEW i \in DOMAIN queue' PROVE Stored(queue'[i])
      <4>1. (i \in DOMAIN queue /\ queue'[i] = queue[i])
            \/ (i - Len(queue) \in DOMAIN q /\ queue'[i] = q[i - Len(queue)])
        BY <2>2, <2>3, JoinedAre
      <4> QED
        BY <2>2, <4>1
    <3> QED
      BY <3>1, <3>2
  <2>5. asrCursor' \in Optional
    BY <2>1, <2>3, OptionalIs
  <2>6. /\ UNCHANGED <<env, capture, progress, fragments, up, loop, task, recovering, worker>>
        /\ feed' = [feed EXCEPT !.at = "rebased"]
    BY <1>3 DEF ReplayRebases
  <2>7. TypeOK'
    <3>1. queue' \in Seq(Tasks)
      BY <2>4
    <3>2. {blocked, storageError, recovering}' \subseteq BOOLEAN
      BY <2>3, <2>6
    <3>3. feed' \in [at : {"idle", "live", "stored", "recover", "drained", "rebased",
                          "restored", "completing", "unblocked", "finalizing",
                          "completed"}, start : Positions, end : Positions]
      BY <2>6
    <3>4. UNCHANGED <<kind, voice, rec, asr, count, cursor, unfinished, checkpoint, fragments,
                      up, loop, task, session, reopened, crashes, faults>>
      BY <2>6
    <3> QED
      BY <2>5, <3>1, <3>2, <3>3, <3>4
  <2>8. Shape'
    <3>1. \A i \in DOMAIN queue' : Stored(queue'[i])
      BY <2>4
    <3>2. UNCHANGED <<count, cursor, session, task>> /\ feed'.at = "rebased"
      BY <2>6
    <3>3. Stored(task)'
      BY <3>2
    <3> QED
      BY <3>1, <3>2, <3>3
  <2> QED
    BY <2>7, <2>8
<1>4. CASE ReplayStores
  BY <1>4, GrowingKeepsBase DEF ReplayStores
<1>5. CASE ReplayQueued
  BY <1>5, QueueingKeepsBase DEF ReplayQueued
<1>6. CASE CompletionArrives
  BY <1>6 DEF CompletionArrives
<1>7. CASE CompletionDrains
  <2>1. asrCursor' \in Optional
    BY <1>7, OptionalIs DEF CompletionDrains
  <2>2. UNCHANGED <<env, capture, progress, fragments, up, loop, queue, task, recovering, worker>>
    BY <1>7 DEF CompletionDrains
  <2>3. {blocked, storageError, recovering}' \subseteq BOOLEAN
    BY <1>7, <2>2 DEF CompletionDrains
  <2>4. feed' = [feed EXCEPT !.at = "unblocked"]
    BY <1>7 DEF CompletionDrains
  <2>5. TypeOK'
    BY <2>1, <2>2, <2>3, <2>4
  <2>6. Shape'
    BY <2>2, <2>4
  <2> QED
    BY <2>5, <2>6
<1>8. CASE CompletionBegins
  <2>1. asr' = "FINALIZING" /\ cursor' = cursor /\ unfinished' = unfinished /\ checkpoint' \in Optional
    BY <1>8, BeginIs, OptionalIs DEF CompletionBegins
  <2> QED
    BY <1>8, <2>1 DEF CompletionBegins
<1>9. CASE CompletionSeals
  BY <1>9 DEF CompletionSeals
<1>10. CASE CompletionQueued
  <2>1. queue' = Append(queue, Finish) /\ Finish \in Tasks
    BY <1>10, FinishIs, OneMore DEF CompletionQueued, Put
  <2>2. queue' \in Seq(Tasks) /\ \A i \in DOMAIN queue' : Stored(queue'[i])
    BY <2>1, OneMore, FinishIs
  <2>3. /\ UNCHANGED <<env, capture, progress, fragments, up, loop, task, asrCursor,
                        blocked, storageError, worker>>
        /\ recovering' = FALSE /\ feed' = NoCall
    BY <1>10 DEF CompletionQueued
  <2>4. TypeOK'
    <3>1. queue' \in Seq(Tasks)
      BY <2>2
    <3>2. {blocked, storageError, recovering}' \subseteq BOOLEAN
      BY <2>3
    <3> QED
      BY <2>3, <3>1, <3>2
  <2>5. Shape'
    BY <2>2, <2>3
  <2> QED
    BY <2>4, <2>5
<1>11. CASE RecoveryFails
  <2>1. faults' \in 0..MaxFaults
    BY <1>11, FaultIs DEF RecoveryFails
  <2> QED
    BY <1>11, <2>1 DEF RecoveryFails
<1> QED
  BY <1>1, <1>2, <1>3, <1>4, <1>5, <1>6, <1>7, <1>8, <1>9, <1>10, <1>11

\* The backend dies and starts again.
LEMMA BootingKeepsBase ==
  ASSUME BaseInv, \/ Crash \/ NothingToRecover \/ BootBegins \/ BootSeals \/ BootFails \/ BootQueues
                  \/ BootResumes \/ ResumeFails \/ RebindFails
  PROVE  BaseInv'
<1> DEFINE r == RestartPoint
           q == Pieces(r, count)
<1>a. r \in Positions /\ r <= cursor /\ r <= count
  <2> DEFINE S == {cursor} \cup unfinished \cup checkpoint
  <2>1. S \in SUBSET Nat /\ S # {} /\ S \subseteq Positions /\ cursor \in S
    BY Room, OptionalIs DEF BaseInv, TypeOK
  <2>2. LeastOf(S) \in S /\ \A n \in S : LeastOf(S) <= n
    BY <2>1, Least
  <2>3. r = LeastOf(S)
    BY DEF RestartPoint
  <2> HIDE DEF S, r
  <2>4. r \in Positions /\ r <= cursor
    BY <2>1, <2>2, <2>3
  <2> QED
    BY <2>4, Room DEF BaseInv, TypeOK, Shape
<1> HIDE DEF r
<1>b. /\ q \in Seq(Tasks)
      /\ \A i \in DOMAIN q : q[i].end <= count /\ q[i].start < q[i].end
  BY <1>a, PiecesAre DEF BaseInv, TypeOK
<1> HIDE DEF q
<1>c. /\ Append(q, Finish) \in Seq(Tasks)
      /\ \A i \in DOMAIN Append(q, Finish) : Stored(Append(q, Finish)[i])
  BY <1>b, OneMore, FinishIs, Room DEF Stored, BaseInv, TypeOK
<1>d. {r} \in Optional
  BY <1>a, OptionalIs
<1> USE Room DEF BaseInv, TypeOK, Shape, Stored, env, capture, progress, memory, worker, NoCall
<1>1. CASE Crash
  <2>1. crashes' \in 0..MaxCrashes
    BY <1>1, EnvironmentAssumption DEF Crash
  <2>2. queue' = <<>> /\ queue' \in Seq(Tasks) /\ DOMAIN queue' = {}
    BY <1>1, EmptySeq DEF Crash
  <2>3. asrCursor' \in Optional
    BY <1>1, OptionalIs DEF Crash
  <2>4. /\ task' \in [kind : {"none", "range", "finish"},
                      stage : {"none", "taken", "begun", "heard"},
                      start : Positions, end : Positions,
                      finals : SUBSET Utterances, open : Optional]
        /\ session' \in [open : BOOLEAN, base : Positions, pos : Positions]
        /\ task' = Idle /\ session' = Closed
    BY <1>1, OptionalIs DEF Crash, Idle, Closed
  <2>5. TypeOK'
    BY <1>1, <2>1, <2>2, <2>3, <2>4 DEF Crash
  <2>6. Shape'
    BY <1>1, <2>2, <2>4 DEF Crash, Idle, Closed
  <2> QED
    BY <2>5, <2>6
<1>2. CASE NothingToRecover
  BY <1>2 DEF NothingToRecover
<1>3. CASE BootBegins
  <2>1. asr' = "FINALIZING" /\ cursor' = cursor /\ unfinished' = unfinished /\ checkpoint' \in Optional
    BY <1>3, BeginIs, OptionalIs DEF BootBegins
  <2> QED
    BY <1>3, <2>1 DEF BootBegins
<1>4. CASE BootSeals
  BY <1>4 DEF BootSeals
<1>5. CASE BootFails
  <2>1. faults' \in 0..MaxFaults
    BY <1>5, FaultIs DEF BootFails
  <2> QED
    BY <1>5, <2>1 DEF BootFails, MarkStorageError
<1>6. CASE BootQueues
  <2>1. queue' = Append(q, Finish) /\ asrCursor' = {r} /\ up' = "up"
    BY <1>6 DEF BootQueues, q, r
  <2>2. UNCHANGED <<env, capture, progress, fragments, loop, feed, task, blocked,
                    storageError, recovering, worker>>
    BY <1>6 DEF BootQueues
  <2>3. TypeOK'
    BY <1>c, <1>d, <2>1, <2>2
  <2>4. Shape'
    BY <1>c, <2>1, <2>2
  <2> QED
    BY <2>3, <2>4
<1>7. CASE BootResumes
  <2>1. queue' = q /\ asrCursor' = {r} /\ up' = "up" /\ loop' = "recording"
    BY <1>7 DEF BootResumes, q, r, Rebound
  <2>2. UNCHANGED <<env, capture, progress, fragments, feed, task, blocked,
                    storageError, recovering, worker>>
    BY <1>7 DEF BootResumes
  <2>3. TypeOK'
    BY <1>b, <1>d, <2>1, <2>2
  <2>4. Shape'
    BY <1>b, <2>1, <2>2
  <2> QED
    BY <2>3, <2>4
<1>8. CASE ResumeFails
  <2>1. faults' \in 0..MaxFaults
    BY <1>8, FaultIs DEF ResumeFails
  <2> QED
    BY <1>8, <2>1 DEF ResumeFails
<1>9. CASE RebindFails
  <2>1. asr' = "FINALIZING" /\ cursor' = cursor /\ unfinished' = unfinished /\ checkpoint' \in Optional
    BY <1>9, BeginIs, OptionalIs DEF RebindFails
  <2>2. queue' = Append(q, Finish) /\ asrCursor' = {r} /\ up' = "up" /\ faults' \in 0..MaxFaults
    BY <1>9, FaultIs DEF RebindFails, q, r
  <2>3. /\ UNCHANGED <<kind, voice, crashes, count, fragments, loop, feed, task,
                        blocked, storageError, recovering, worker>>
        /\ rec' = "INCOMPLETE"
    BY <1>9 DEF RebindFails
  <2>4. TypeOK'
    BY <1>c, <1>d, <2>1, <2>2, <2>3
  <2>5. Shape'
    BY <1>c, <2>1, <2>2, <2>3
  <2> QED
    BY <2>4, <2>5
<1> QED
  BY <1>1, <1>2, <1>3, <1>4, <1>5, <1>6, <1>7, <1>8, <1>9

\* What the worker answers is well formed.
LEMMA EventsType ==
  ASSUME NEW V \in SUBSET Nat, NEW base \in Nat, NEW p \in Nat, NEW q \in Positions,
         NEW marker \in Optional
  PROVE  /\ Finals(V, base, p, q) \subseteq Utterances
         /\ Flush(V, base, q) \subseteq Utterances
         /\ NewMarker(V, base, p, q, marker) \in Optional
<1>0. q \in Nat /\ q <= MaxSamples
  BY Room DEF Positions
<1>1. ASSUME NEW u \in Starts(V, base, q)
      PROVE  u \in Positions /\ u < q /\ EndOf(V, u) \in Nat /\ ReplayStart(u) \in Positions
  <2>1. u \in Nat /\ u < q /\ EndOf(V, u) \in Nat
    BY <1>0, StartIs
  <2>2. u \in Positions
    BY <1>0, <2>1, Room DEF Positions
  <2>3. ReplayStart(u) \in Positions
    BY <2>1, <2>2, Room, WorkerAssumption DEF ReplayStart, Positions
  <2> QED
    BY <2>1, <2>2, <2>3
<1>2. ASSUME NEW u \in Starts(V, base, q), Done(V, u, q) PROVE <<u, EndOf(V, u)>> \in Utterances
  <2>1. EndOf(V, u) <= q
    BY <1>0, <1>1, <1>2, LaterKnowsMore, Room
  <2>2. EndOf(V, u) \in Positions
    BY <1>0, <1>1, <2>1, Room DEF Positions
  <2> QED
    BY <1>1, <2>2 DEF Utterances
<1>3. ASSUME NEW u \in Starts(V, base, q) PROVE <<u, LeastOf({EndOf(V, u), q})>> \in Utterances
  <2> DEFINE e == LeastOf({EndOf(V, u), q})
  <2>1. {EndOf(V, u), q} \in SUBSET Nat
    BY <1>0, <1>1
  <2>2. e \in {EndOf(V, u), q} /\ e <= q
    BY <2>1, Least
  <2> HIDE DEF e
  <2>3. e \in Positions
    BY <1>0, <1>1, <2>2, Room DEF Positions
  <2> QED
    BY <1>1, <2>3 DEF Utterances, e
<1>4. Finals(V, base, p, q) \subseteq Utterances
  BY <1>2 DEF Finals
<1>5. Flush(V, base, q) \subseteq Utterances
  BY <1>3 DEF Flush
<1>6. NewMarker(V, base, p, q, marker) \in Optional
  <2> DEFINE O == NewStarts(V, base, p, q) \cap Open(V, base, q)
  <2>1. ASSUME NEW u \in O, NEW w \in O PROVE u = w
    <3>1. u \in Open(V, base, q) /\ w \in Open(V, base, q) /\ u \in Starts(V, base, q) /\ w \in Starts(V, base, q)
      BY DEF Open
    <3>2. u <= w /\ w <= u /\ u \in Nat /\ w \in Nat
      BY <1>0, <3>1, OpenIsLast
    <3> QED
      BY <3>2
  <2>2. CASE O = {}
    <3>1. {ReplayStart(u) : u \in O} = {}
      BY <2>2
    <3> QED
      BY <3>1, OptionalIs DEF NewMarker
  <2>3. CASE O # {}
    <3>1. PICK u \in O : TRUE
      BY <2>3
    <3>2. {ReplayStart(w) : w \in O} = {ReplayStart(u)}
      BY <2>1, <3>1
    <3>3. ReplayStart(u) \in Positions
      BY <1>1, <3>1 DEF Open
    <3>4. {ReplayStart(w) : w \in O} \in Optional
      BY <3>2, <3>3, OptionalIs
    <3> QED
      BY <3>4 DEF NewMarker
  <2> QED
    BY <2>2, <2>3
<1> QED
  BY <1>4, <1>5, <1>6

\* The next final text is one of those to commit.
LEMMA NextFinalIs ==
  ASSUME task.finals \subseteq Utterances, task.finals # {}
  PROVE  NextFinal \in task.finals
<1> DEFINE S == {u[1] : u \in task.finals}
<1>1. \A u \in task.finals : u[1] \in Nat
  BY Room DEF Utterances
<1>2. S \in SUBSET Nat /\ S # {}
  BY <1>1
<1>3. LeastOf(S) \in S /\ \A n \in S : LeastOf(S) <= n
  BY <1>2, Least
<1>4. PICK u \in task.finals : u[1] = LeastOf(S)
  BY <1>3
<1>5. \A w \in task.finals : u[1] <= w[1]
  BY <1>3, <1>4
<1> QED
  BY <1>5 DEF NextFinal

\* What the worker answers to a range, as a marker.
LEMMA MarkerIs ==
  ASSUME NEW s
  PROVE  MarkerAfter(s, Finals(voice, s.base, s.pos, task.end), NewStarts(voice, s.base, s.pos, task.end))
           = NewMarker(voice, s.base, s.pos, task.end, unfinished)
BY DEF MarkerAfter, NewMarker

\* The session that a range is sent to, and the cursor that goes back to it.
LEMMA HearingIs ==
  ASSUME BaseInv
  PROVE  /\ Hearing \in [open : BOOLEAN, base : Positions, pos : Positions]
         /\ Hearing.open = TRUE
         /\ session.open => Hearing = session
         /\ ~session.open => Hearing.base = task.start /\ Hearing.pos = task.start
         /\ Rewound \in Positions /\ Rewound <= cursor /\ Rewound <= task.start
         /\ Rewound \in {cursor, task.start}
<1>1. Hearing \in [open : BOOLEAN, base : Positions, pos : Positions] /\ Hearing.open = TRUE
  BY DEF Hearing, BaseInv, TypeOK
<1>2. /\ session.open => Hearing = session
      /\ ~session.open => Hearing.base = task.start /\ Hearing.pos = task.start
  BY DEF Hearing
<1>3. {cursor, task.start} \in SUBSET Nat /\ {cursor, task.start} \subseteq Positions
  BY Room DEF BaseInv, TypeOK
<1>4. Rewound \in {cursor, task.start} /\ Rewound <= cursor /\ Rewound <= task.start
  BY <1>3, Least DEF Rewound
<1> QED
  BY <1>1, <1>2, <1>3, <1>4

\* What Hear does, in the terms of the proofs.
LEMMA HearIs ==
  ASSUME BaseInv, Hear
  PROVE  /\ CanHear
         /\ session' = [open |-> TRUE, base |-> Hearing.base, pos |-> task.end]
         /\ task' = [kind |-> "range", stage |-> "heard", start |-> task.start, end |-> task.end,
                     finals |-> Finals(voice, Hearing.base, Hearing.pos, task.end),
                     open |-> NewMarker(voice, Hearing.base, Hearing.pos, task.end, unfinished)]
         /\ cursor' = Rewound /\ asrCursor' = {task.start}
         /\ reopened' = IF ~session.open /\ BacklogHides(task.start)
                        THEN reopened \cup {task.start} ELSE reopened
         /\ UNCHANGED <<env, capture, asr, unfinished, checkpoint, fragments, up, loop,
                        feed, queue, blocked, storageError, recovering>>
<1> DEFINE s == Hearing
           F == Finals(voice, s.base, s.pos, task.end)
           m == NewMarker(voice, s.base, s.pos, task.end, unfinished)
<1>1. s \in [open : BOOLEAN, base : Positions, pos : Positions] /\ s.open = TRUE
  BY HearingIs
<1>2. /\ task \in [kind : {"none", "range", "finish"}, stage : {"none", "taken", "begun", "heard"},
                   start : Positions, end : Positions, finals : SUBSET Utterances, open : Optional]
      /\ task.kind = "range"
  BY DEF BaseInv, TypeOK, Hear, CanHear, RangeTaken
<1>3. session' = [s EXCEPT !.pos = task.end] /\ task' = [task EXCEPT !.stage = "heard", !.finals = F, !.open = m]
  BY MarkerIs DEF Hear
<1>4. /\ CanHear /\ cursor' = Rewound /\ asrCursor' = {task.start}
      /\ reopened' = IF ~session.open /\ BacklogHides(task.start)
                     THEN reopened \cup {task.start} ELSE reopened
      /\ UNCHANGED <<env, capture, asr, unfinished, checkpoint, fragments, up, loop,
                     feed, queue, blocked, storageError, recovering>>
  BY DEF Hear
<1> HIDE DEF s, F, m
<1>5. session' = [open |-> TRUE, base |-> s.base, pos |-> task.end]
  BY <1>1, <1>3
<1>6. task' = [kind |-> "range", stage |-> "heard", start |-> task.start, end |-> task.end,
               finals |-> F, open |-> m]
  BY <1>2, <1>3
<1> QED
  BY <1>4, <1>5, <1>6 DEF s, F, m

\* What FlushSession does, in the terms of the proofs.
LEMMA FlushIs ==
  ASSUME BaseInv, FlushSession
  PROVE  \E base \in Positions, pos \in Positions :
         /\ IF session.open THEN base = session.base /\ pos = session.pos
            ELSE base = LeastOf({cursor} \cup unfinished) /\ pos = base
         /\ pos <= count /\ (base <= count \/ session.open)
         /\ session' = [open |-> TRUE, base |-> base, pos |-> pos]
         /\ task' = [kind |-> "finish", stage |-> "heard", start |-> task.start, end |-> count,
                     finals |-> Flush(voice, base, pos),
                     open |-> IF Flush(voice, base, pos) = {} THEN unfinished ELSE {}]
         /\ UNCHANGED <<env, capture, progress, fragments, up, loop, feed, queue,
                        memory, reopened>>
<1> DEFINE b0 == LeastOf({cursor} \cup unfinished)
           s == IF session.open THEN session ELSE [open |-> TRUE, base |-> b0, pos |-> b0]
           F == Flush(voice, s.base, s.pos)
<1>1. b0 \in Positions /\ b0 <= cursor /\ b0 \in Nat /\ b0 <= count
  <2> DEFINE S == {cursor} \cup unfinished
  <2>1. S \in SUBSET Nat /\ S # {} /\ S \subseteq Positions /\ cursor \in S
    BY Room, OptionalIs DEF BaseInv, TypeOK
  <2>2. LeastOf(S) \in S /\ \A n \in S : LeastOf(S) <= n
    BY <2>1, Least
  <2> HIDE DEF S
  <2>3. LeastOf(S) \in Positions /\ LeastOf(S) <= cursor /\ LeastOf(S) \in Nat
    BY <2>1, <2>2
  <2>4. cursor <= count /\ cursor \in Nat /\ count \in Nat
    BY Room DEF BaseInv, TypeOK, Shape
  <2> QED
    BY <2>3, <2>4 DEF S
<1> HIDE DEF b0
<1>2. /\ task \in [kind : {"none", "range", "finish"}, stage : {"none", "taken", "begun", "heard"},
                   start : Positions, end : Positions, finals : SUBSET Utterances, open : Optional]
      /\ task.kind = "finish"
      /\ session \in [open : BOOLEAN, base : Positions, pos : Positions]
      /\ session.pos <= count
  BY DEF BaseInv, TypeOK, Shape, FlushSession
<1>3. /\ session' = s
      /\ task' = [task EXCEPT !.stage = "heard", !.end = count, !.finals = F,
                              !.open = IF F = {} THEN unfinished ELSE {}]
      /\ UNCHANGED <<env, capture, progress, fragments, up, loop, feed, queue, memory, reopened>>
  BY DEF FlushSession, b0
<1>4. s \in [open : BOOLEAN, base : Positions, pos : Positions] /\ s.open = TRUE
  BY <1>1, <1>2
<1>5. /\ IF session.open THEN s.base = session.base /\ s.pos = session.pos
         ELSE s.base = b0 /\ s.pos = s.base
      /\ s.pos <= count
      /\ s.base <= count \/ session.open
  BY <1>1, <1>2
<1>6. s.base \in Positions /\ s.pos \in Positions /\ s = [open |-> TRUE, base |-> s.base, pos |-> s.pos]
  BY <1>4
<1> DEFINE b == s.base
           p == s.pos
<1>7. F = Flush(voice, b, p)
  OBVIOUS
<1>8. session' = [open |-> TRUE, base |-> b, pos |-> p] /\ b \in Positions /\ p \in Positions
  BY <1>3, <1>6
<1>9. /\ IF session.open THEN b = session.base /\ p = session.pos
         ELSE b = LeastOf({cursor} \cup unfinished) /\ p = b
      /\ p <= count
      /\ b <= count \/ session.open
  BY <1>5 DEF b0
<1> HIDE DEF s
<1> HIDE DEF b, p
<1>10. task' = [kind |-> "finish", stage |-> "heard", start |-> task.start, end |-> count,
                finals |-> Flush(voice, b, p),
                open |-> IF Flush(voice, b, p) = {} THEN unfinished ELSE {}]
  BY <1>2, <1>3, <1>7
<1>11. b \in Nat
  BY <1>8, Room
<1> QED
  BY <1>3, <1>8, <1>9, <1>10, <1>11

\* The voiced positions are natural numbers.
LEMMA VoiceIs == ASSUME TypeOK PROVE voice \in SUBSET Nat
BY EnvironmentAssumption DEF TypeOK

\* A range is heard.
LEMMA HearingKeepsBase ==
  ASSUME BaseInv, Hear \/ HearFails
  PROVE  BaseInv'
<1>0. voice \in SUBSET Nat /\ Positions \subseteq Nat /\ 0 \in Positions
  BY VoiceIs, Room DEF BaseInv
<1>1. /\ Hearing \in [open : BOOLEAN, base : Positions, pos : Positions]
      /\ Rewound \in Positions /\ Rewound <= cursor
      /\ ~session.open => Hearing.pos = task.start
      /\ session.open => Hearing = session
  BY HearingIs
<1>2. /\ task.start \in Positions /\ task.end \in Positions /\ task.end <= count
      /\ cursor \in Positions /\ cursor <= count /\ count \in Positions /\ unfinished \in Optional
      /\ session.pos <= count /\ session \in [open : BOOLEAN, base : Positions, pos : Positions]
  BY DEF BaseInv, TypeOK, Shape, Stored
<1>3. Rewound <= count
  <2> DEFINE x == Rewound
  <2>1. x \in Nat /\ cursor \in Nat /\ count \in Nat /\ x <= cursor /\ cursor <= count
    BY <1>0, <1>1, <1>2
  <2> HIDE DEF x
  <2>2. x <= count
    BY <2>1
  <2> QED
    BY <2>2 DEF x
<1>4. task.start <= count /\ Hearing.pos <= count
  <2>1. CanHear
    BY DEF Hear, HearFails
  <2>2. task.kind = "range" /\ task.start < task.end
    BY <2>1 DEF CanHear, RangeTaken, BaseInv, Shape, Stored
  <2> DEFINE x == task.start
             y == task.end
  <2>3. x \in Nat /\ y \in Nat /\ x < y /\ y <= count /\ count \in Nat
    BY <1>0, <1>2, <2>2
  <2> HIDE DEF x, y
  <2>4. x <= count
    BY <2>3
  <2> QED
    BY <1>1, <1>2, <2>4 DEF x
<1>5. CASE Hear
  <2> DEFINE F == Finals(voice, Hearing.base, Hearing.pos, task.end)
             m == NewMarker(voice, Hearing.base, Hearing.pos, task.end, unfinished)
  <2>1. /\ CanHear
        /\ session' = [open |-> TRUE, base |-> Hearing.base, pos |-> task.end]
        /\ task' = [kind |-> "range", stage |-> "heard", start |-> task.start, end |-> task.end,
                    finals |-> F, open |-> m]
        /\ cursor' = Rewound /\ asrCursor' = {task.start}
        /\ reopened' = IF ~session.open /\ BacklogHides(task.start)
                       THEN reopened \cup {task.start} ELSE reopened
        /\ UNCHANGED <<env, capture, asr, unfinished, checkpoint, fragments, up, loop,
                       feed, queue, blocked, storageError, recovering>>
    BY <1>5, HearIs
  <2>2. F \subseteq Utterances /\ m \in Optional
    BY <1>0, <1>1, <1>2, EventsType
  <2> HIDE DEF F, m
  <2>3. asrCursor' \in Optional /\ reopened' \subseteq Positions /\ cursor' \in Positions /\ cursor' <= count
    BY <1>1, <1>2, <1>3, <2>1, OptionalIs DEF BaseInv, TypeOK
  <2>4. task.kind = "range" /\ task.start < task.end
    BY <2>1 DEF CanHear, RangeTaken, BaseInv, Shape, Stored
  <2>5. TypeOK'
    <3>1. session' \in [open : BOOLEAN, base : Positions, pos : Positions]
      BY <1>1, <1>2, <2>1
    <3>2. task' \in [kind : {"none", "range", "finish"}, stage : {"none", "taken", "begun", "heard"},
                     start : Positions, end : Positions, finals : SUBSET Utterances, open : Optional]
      BY <1>2, <2>1, <2>2
    <3>3. UNCHANGED <<env, capture, asr, unfinished, checkpoint, fragments, up, loop,
                      feed, queue, blocked, storageError, recovering>>
      BY <2>1
    <3> QED
      BY <2>3, <3>1, <3>2, <3>3 DEF BaseInv, TypeOK, env, capture
  <2>6. Shape'
    <3>1. /\ cursor' <= count' /\ session'.pos <= count' /\ Stored(task)'
          /\ task'.kind = "range" /\ task'.stage = "heard"
      BY <1>2, <2>1, <2>3, <2>4 DEF capture, Stored
    <3>2. UNCHANGED <<count, queue, feed>>
      BY <2>1 DEF capture
    <3> QED
      BY <3>1, <3>2 DEF BaseInv, Shape, Stored
  <2> QED
    BY <2>5, <2>6 DEF BaseInv
<1>6. CASE HearFails
  <2>1. session' \in [open : BOOLEAN, base : Positions, pos : Positions] /\ session'.pos <= count
    <3>1. session' \in {session, Hearing, [Hearing EXCEPT !.pos = task.end]}
      BY <1>6 DEF HearFails
    <3>2. /\ [Hearing EXCEPT !.pos = task.end] \in [open : BOOLEAN, base : Positions, pos : Positions]
          /\ [Hearing EXCEPT !.pos = task.end].pos = task.end
      BY <1>1, <1>2
    <3> QED
      BY <1>1, <1>2, <1>4, <3>1, <3>2
  <2>2. cursor' \in Positions /\ cursor' <= count /\ asrCursor' \in Optional /\ faults' \in 0..MaxFaults
    BY <1>1, <1>2, <1>3, <1>6, OptionalIs, FaultIs DEF HearFails, BaseInv, TypeOK
  <2>3. /\ UNCHANGED <<kind, voice, crashes, capture, asr, unfinished, checkpoint,
                       fragments, up, loop, feed, queue, storageError, recovering, reopened>>
        /\ blocked' = TRUE /\ task' = Idle
    BY <1>6 DEF HearFails
  <2>4. task' \in [kind : {"none", "range", "finish"}, stage : {"none", "taken", "begun", "heard"},
                   start : Positions, end : Positions, finals : SUBSET Utterances, open : Optional]
    BY <1>0, <2>3, OptionalIs DEF Idle
  <2>5. {blocked, storageError, recovering}' \subseteq BOOLEAN
    BY <2>3 DEF BaseInv, TypeOK
  <2>6. TypeOK'
    BY <2>1, <2>2, <2>3, <2>4, <2>5 DEF BaseInv, TypeOK, capture
  <2>7. Shape'
    BY <1>0, <1>2, <2>1, <2>2, <2>3 DEF BaseInv, Shape, Stored, Idle, capture
  <2> QED
    BY <2>6, <2>7 DEF BaseInv
<1> QED
  BY <1>5, <1>6

\* The recognition thread goes on.
LEMMA RecognizingKeepsBase ==
  ASSUME BaseInv,
         \/ TakeTask \/ SkipRange \/ RefuseRange \/ Hear \/ HearFails \/ CommitFinal \/ Advance
         \/ RangeFails \/ SkipFinish \/ EnsureFinalizing \/ FlushSession \/ CompleteAsr \/ FinishErrs
  PROVE  BaseInv'
<1>0. /\ voice \in SUBSET Nat /\ Positions \subseteq Nat /\ 0 \in Positions
      /\ {} \in Optional /\ \A n \in Positions : {n} \in Optional
  BY VoiceIs, Room, OptionalIs DEF BaseInv
<1>i. /\ Idle \in [kind : {"none", "range", "finish"}, stage : {"none", "taken", "begun", "heard"},
                   start : Positions, end : Positions, finals : SUBSET Utterances, open : Optional]
      /\ Idle.kind = "none" /\ Idle.end = 0 /\ Idle.finals = {} /\ Idle.open = {} /\ Idle.stage = "none"
  BY <1>0 DEF Idle
<1>c. Closed \in [open : BOOLEAN, base : Positions, pos : Positions] /\ Closed.pos = 0
  BY <1>0 DEF Closed
<1> USE DEF BaseInv, TypeOK, Shape, Stored, env, capture, progress, memory, worker
<1>1. CASE TakeTask
  <2> DEFINE t == Head(queue)
  <2>1. queue # <<>> /\ queue \in Seq(Tasks)
    BY <1>1 DEF TakeTask
  <2>2. /\ t \in Tasks /\ t = queue[1] /\ 1 \in DOMAIN queue /\ Tail(queue) \in Seq(Tasks)
        /\ \A i \in DOMAIN Tail(queue) : i + 1 \in DOMAIN queue /\ Tail(queue)[i] = queue[i + 1]
    BY <2>1, OneLess
  <2>3. Stored(t)
    BY <2>2
  <2> HIDE DEF t
  <2>4. /\ t.kind \in {"range", "finish"} /\ t.start \in Positions /\ t.end \in Positions
        /\ t.end <= count /\ (t.kind = "range" => t.start < t.end)
    BY <2>2, <2>3 DEF Tasks
  <2>5. /\ task' = [kind |-> t.kind, stage |-> "taken", start |-> t.start,
                    end |-> t.end, finals |-> {}, open |-> {}]
        /\ queue' = Tail(queue)
        /\ UNCHANGED <<env, capture, progress, fragments, up, loop, feed, memory, worker>>
    BY <1>1 DEF TakeTask, InHand, t
  <2>6. queue' \in Seq(Tasks) /\ \A i \in DOMAIN queue' : Stored(queue'[i])
    BY <2>2, <2>5
  <2>7. task' \in [kind : {"none", "range", "finish"}, stage : {"none", "taken", "begun", "heard"},
                   start : Positions, end : Positions, finals : SUBSET Utterances, open : Optional]
    BY <1>0, <2>4, <2>5
  <2>8. TypeOK'
    BY <2>5, <2>6, <2>7
  <2>9. Shape'
    BY <2>4, <2>5, <2>6
  <2> QED
    BY <2>8, <2>9
<1>2. CASE SkipRange
  BY <1>0, <1>2, <1>i DEF SkipRange
<1>3. CASE RefuseRange
  <2>1. {blocked, storageError, recovering}' \subseteq BOOLEAN
    BY <1>3 DEF RefuseRange
  <2>2. /\ UNCHANGED <<env, capture, progress, fragments, up, loop, feed, queue,
                       asrCursor, storageError, recovering, worker>>
        /\ task' = Idle
    BY <1>3 DEF RefuseRange
  <2> QED
    BY <1>0, <1>i, <2>1, <2>2
<1>4. CASE Hear \/ HearFails
  BY <1>4, HearingKeepsBase
<1>5. CASE CommitFinal
  <2>1. NextFinal \in task.finals
    BY <1>5, NextFinalIs DEF CommitFinal
  <2> DEFINE f == NextFinal
  <2>2. f \in task.finals /\ f \in Utterances
    BY <2>1
  <2>3. /\ fragments' = fragments \cup {f}
        /\ task' = [task EXCEPT !.finals = task.finals \ {f}]
        /\ UNCHANGED <<env, capture, progress, up, loop, feed, queue, memory, worker>>
        /\ task.stage = "heard"
    BY <1>5 DEF CommitFinal
  <2> HIDE DEF f
  <2>4. TypeOK'
    BY <2>2, <2>3
  <2>5. Shape'
    BY <2>2, <2>3 DEF Idle
  <2> QED
    BY <2>4, <2>5
<1>6. CASE Advance
  <2>1. /\ task.end \in Positions /\ task.end <= count /\ task.open \in Optional
        /\ cursor' \in {cursor, task.end} /\ unfinished' = task.open
        /\ asrCursor' = {task.end} /\ task' = Idle
        /\ UNCHANGED <<env, capture, asr, checkpoint, fragments, up, loop, feed, queue,
                       blocked, storageError, recovering, worker>>
    BY <1>6 DEF Advance
  <2>2. cursor' \in Positions /\ asrCursor' \in Optional /\ cursor' <= count
    BY <1>0, <2>1
  <2>3. TypeOK'
    BY <1>i, <2>1, <2>2
  <2>4. Shape'
    BY <1>0, <1>i, <2>1, <2>2
  <2> QED
    BY <2>3, <2>4
<1>7. CASE RangeFails
  <2>1. /\ UNCHANGED <<kind, voice, crashes, capture, progress, fragments, up, loop,
                       feed, queue, asrCursor, storageError, recovering, worker>>
        /\ task' = Idle /\ faults' \in 0..MaxFaults
    BY <1>7, FaultIs DEF RangeFails
  <2>2. {blocked, storageError, recovering}' \subseteq BOOLEAN
    BY <1>7, <2>1 DEF RangeFails
  <2> QED
    BY <1>0, <1>i, <2>1, <2>2
<1>8. CASE SkipFinish
  BY <1>0, <1>8, <1>i, <1>c DEF SkipFinish, EndFinish
<1>9. CASE EnsureFinalizing
  <2>1. asr' \in {"PENDING", "FINALIZING", "COMPLETE"} /\ cursor' = cursor /\ unfinished' = unfinished
        /\ checkpoint' \in Optional
    BY <1>9, BeginIs, <1>0 DEF EnsureFinalizing
  <2>2. /\ task' = [task EXCEPT !.stage = "begun"] /\ task.kind = "finish" /\ task.stage = "taken"
        /\ UNCHANGED <<env, capture, fragments, up, loop, feed, queue, memory, worker>>
    BY <1>9 DEF EnsureFinalizing, FinishTaken
  <2>3. TypeOK'
    BY <2>1, <2>2
  <2>4. Shape'
    BY <2>1, <2>2
  <2> QED
    BY <2>3, <2>4
<1>10. CASE FlushSession
  <2>1. PICK base \in Positions, pos \in Positions :
         /\ pos <= count
         /\ session' = [open |-> TRUE, base |-> base, pos |-> pos]
         /\ task' = [kind |-> "finish", stage |-> "heard", start |-> task.start, end |-> count,
                     finals |-> Flush(voice, base, pos),
                     open |-> IF Flush(voice, base, pos) = {} THEN unfinished ELSE {}]
         /\ UNCHANGED <<env, capture, progress, fragments, up, loop, feed, queue,
                        memory, reopened>>
    BY <1>10, FlushIs
  <2> DEFINE F == Flush(voice, base, pos)
  <2>2. F \subseteq Utterances
    BY <1>0, EventsType
  <2> HIDE DEF F
  <2>3. task' \in [kind : {"none", "range", "finish"}, stage : {"none", "taken", "begun", "heard"},
                   start : Positions, end : Positions, finals : SUBSET Utterances, open : Optional]
    BY <1>0, <2>1, <2>2 DEF F
  <2>4. TypeOK'
    BY <2>1, <2>3
  <2>5. Shape'
    <3>1. count \in Nat /\ count <= count
      BY <1>0
    <3> QED
      BY <2>1, <3>1
  <2> QED
    BY <2>4, <2>5
<1>11. CASE CompleteAsr
  <2>1. /\ task.end \in Positions /\ task.end <= count /\ task.open \in Optional
        /\ asr' = "COMPLETE" /\ cursor' = task.end
        /\ unfinished' = task.open /\ checkpoint' = {}
        /\ asrCursor' = {task.end} /\ task' = Idle /\ session' = Closed
        /\ UNCHANGED <<env, capture, fragments, up, loop, feed, queue, blocked,
                       storageError, recovering, reopened>>
    BY <1>11 DEF CompleteAsr, EndFinish
  <2>2. cursor' \in Positions /\ asrCursor' \in Optional /\ cursor' <= count
    BY <1>0, <2>1
  <2>3. TypeOK'
    BY <1>0, <1>i, <1>c, <2>1, <2>2
  <2>4. Shape'
    BY <1>0, <1>i, <1>c, <2>1, <2>2
  <2> QED
    BY <2>3, <2>4
<1>12. CASE FinishErrs
  <2>1. /\ UNCHANGED <<kind, voice, crashes, capture, progress, fragments, up, loop,
                       feed, queue, asrCursor, storageError, recovering, reopened>>
        /\ task' = Idle /\ session' = Closed /\ faults' \in 0..MaxFaults
    BY <1>12, FaultIs DEF FinishErrs, EndFinish
  <2>2. {blocked, storageError, recovering}' \subseteq BOOLEAN
    BY <1>12, <2>1 DEF FinishErrs
  <2> QED
    BY <1>0, <1>i, <1>c, <2>1, <2>2
<1> QED
  BY <1>1, <1>2, <1>3, <1>4, <1>5, <1>6, <1>7, <1>8, <1>9, <1>10, <1>11, <1>12

--------------------------------------------------------------------------------
(* The backend, the recovery of a capture, and the worker in step.          *)

\* A task is only worked on while the backend is up.
LEMMA Working ==
  ASSUME BaseInv
  PROVE  /\ task.kind # "none" => task # Idle
         /\ task.stage # "none" => task # Idle
         /\ task.kind # "none" /\ Quiet => up = "up"
         /\ kind \in {"device", "browser"}
         /\ (task = Idle) <=> (task.kind = "none")
BY EnvironmentAssumption DEF Idle, Quiet, BaseInv, TypeOK, Shape

\* No step wakes anything in a backend that is down.
LEMMA QuietStep ==
  ASSUME BaseInv, Quiet, Next
  PROVE  Quiet'
<1> USE DEF BaseInv, TypeOK, Quiet, env, capture, progress, memory, worker, NoCall, Drained
<1>1. CASE FrameArrives
  BY <1>1 DEF FrameArrives
<1>2. CASE Store
  BY <1>2 DEF Store
<1>3. CASE QueueStored
  BY <1>3 DEF QueueStored, Put
<1>4. CASE StoreFails
  BY <1>4 DEF StoreFails, MarkStorageError
<1>5. CASE BrowserGivesUp
  BY <1>5 DEF BrowserGivesUp
<1>6. CASE Stop
  BY <1>6 DEF Stop
<1>7. CASE FinishBlocked
  BY <1>7 DEF FinishBlocked
<1>8. CASE FinishBegins
  BY <1>8 DEF FinishBegins, BeginFinalization
<1>9. CASE FinishReads
  BY <1>9 DEF FinishReads
<1>10. CASE FinishSeals
  BY <1>10 DEF FinishSeals
<1>11. CASE FinishFails
  BY <1>11 DEF FinishFails, MarkStorageError
<1>12. CASE FinishQueued
  BY <1>12 DEF FinishQueued, Put
<1>13. CASE ReplayArrives
  BY <1>13 DEF ReplayArrives, CanRecover
<1>14. CASE ReplayDrains
  BY <1>14 DEF ReplayDrains
<1>15. CASE ReplayRebases
  BY <1>15 DEF ReplayRebases, Put
<1>16. CASE ReplayStores
  BY <1>16 DEF ReplayStores
<1>17. CASE ReplayQueued
  BY <1>17 DEF ReplayQueued, Put
<1>18. CASE CompletionArrives
  BY <1>18 DEF CompletionArrives, CanRecover
<1>19. CASE CompletionDrains
  BY <1>19 DEF CompletionDrains
<1>20. CASE CompletionBegins
  BY <1>20 DEF CompletionBegins, BeginFinalization
<1>21. CASE CompletionSeals
  BY <1>21 DEF CompletionSeals
<1>22. CASE CompletionQueued
  BY <1>22 DEF CompletionQueued, Put
<1>23. CASE RecoveryFails
  BY <1>23 DEF RecoveryFails
<1>24. CASE TakeTask
  BY <1>24 DEF TakeTask, InHand
<1>25. CASE SkipRange
  BY <1>25 DEF SkipRange, RangeTaken
<1>26. CASE RefuseRange
  BY <1>26 DEF RefuseRange, RangeTaken
<1>27. CASE Hear
  <2>1. task.kind # "none" /\ up' = up
    BY <1>27 DEF Hear, CanHear, RangeTaken
  <2> QED
    BY <2>1, Working
<1>28. CASE HearFails
  <2>1. task.kind # "none" /\ up' = up
    BY <1>28 DEF HearFails, CanHear, RangeTaken
  <2> QED
    BY <2>1, Working
<1>29. CASE CommitFinal
  <2>1. task.kind # "none" /\ up' = up
    BY <1>29, Working DEF CommitFinal
  <2> QED
    BY <2>1, Working
<1>30. CASE Advance
  BY <1>30 DEF Advance
<1>31. CASE RangeFails
  BY <1>31 DEF RangeFails
<1>32. CASE SkipFinish
  BY <1>32 DEF SkipFinish, FinishTaken, EndFinish
<1>33. CASE EnsureFinalizing
  <2>1. task.kind # "none" /\ up' = up
    BY <1>33 DEF EnsureFinalizing, FinishTaken
  <2> QED
    BY <2>1, Working
<1>34. CASE FlushSession
  <2>1. task.kind # "none" /\ up' = up
    BY <1>34 DEF FlushSession
  <2> QED
    BY <2>1, Working
<1>35. CASE CompleteAsr
  BY <1>35 DEF CompleteAsr, EndFinish
<1>36. CASE FinishErrs
  BY <1>36 DEF FinishErrs, FinishTaken, EndFinish
<1>37. CASE Crash
  BY <1>37 DEF Crash
<1>38. CASE NothingToRecover
  BY <1>38 DEF NothingToRecover
<1>39. CASE BootBegins
  BY <1>39 DEF BootBegins, BeginFinalization
<1>40. CASE BootSeals
  BY <1>40 DEF BootSeals
<1>41. CASE BootFails
  BY <1>41 DEF BootFails, MarkStorageError
<1>42. CASE BootQueues
  BY <1>42 DEF BootQueues
<1>43. CASE BootResumes
  BY <1>43 DEF BootResumes, Rebound
<1>44. CASE ResumeFails
  BY <1>44 DEF ResumeFails
<1>45. CASE RebindFails
  BY <1>45 DEF RebindFails, BeginFinalization
<1> QED
  BY <1>1, <1>2, <1>3, <1>4, <1>5, <1>6, <1>7, <1>8, <1>9, <1>10, <1>11, <1>12, <1>13, <1>14, <1>15, <1>16, <1>17, <1>18, <1>19, <1>20, <1>21, <1>22, <1>23, <1>24, <1>25, <1>26, <1>27, <1>28, <1>29, <1>30, <1>31, <1>32, <1>33, <1>34, <1>35, <1>36, <1>37, <1>38, <1>39, <1>40, <1>41, <1>42, <1>43, <1>44, <1>45 DEF Next, CaptureLoop, FeedCall, Recognition, Boot, Environment, Failure

\* A recovery stays one of a browser's capture whose loop has ended.
LEMMA InRecoveryStep ==
  ASSUME BaseInv, Quiet, InRecovery, Next
  PROVE  InRecovery'
<1> USE DEF BaseInv, TypeOK, Quiet, InRecovery, Recovery, env, capture, progress, memory, worker, NoCall, Drained
<1>1. CASE FrameArrives
  BY <1>1 DEF FrameArrives
<1>2. CASE Store
  BY <1>2 DEF Store
<1>3. CASE QueueStored
  BY <1>3 DEF QueueStored, Put
<1>4. CASE StoreFails
  BY <1>4 DEF StoreFails, MarkStorageError
<1>5. CASE BrowserGivesUp
  BY <1>5 DEF BrowserGivesUp
<1>6. CASE Stop
  <2>1. kind = "browser" \/ feed = NoCall
    BY <1>6, Working DEF Stop
  <2>2. /\ UNCHANGED <<rec, up, kind, recovering, feed, storageError, blocked, queue, task>>
        /\ loop' = "stopping" /\ loop = "recording" /\ up = "up"
    BY <1>6 DEF Stop
  <2> QED
    BY <2>1, <2>2
<1>7. CASE FinishBlocked
  BY <1>7 DEF FinishBlocked
<1>8. CASE FinishBegins
  BY <1>8 DEF FinishBegins, BeginFinalization
<1>9. CASE FinishReads
  BY <1>9 DEF FinishReads
<1>10. CASE FinishSeals
  BY <1>10 DEF FinishSeals
<1>11. CASE FinishFails
  BY <1>11 DEF FinishFails, MarkStorageError
<1>12. CASE FinishQueued
  BY <1>12 DEF FinishQueued, Put
<1>13. CASE ReplayArrives
  BY <1>13 DEF ReplayArrives, CanRecover
<1>14. CASE ReplayDrains
  BY <1>14 DEF ReplayDrains
<1>15. CASE ReplayRebases
  BY <1>15 DEF ReplayRebases, Put
<1>16. CASE ReplayStores
  BY <1>16 DEF ReplayStores
<1>17. CASE ReplayQueued
  BY <1>17 DEF ReplayQueued, Put
<1>18. CASE CompletionArrives
  BY <1>18 DEF CompletionArrives, CanRecover
<1>19. CASE CompletionDrains
  BY <1>19 DEF CompletionDrains
<1>20. CASE CompletionBegins
  BY <1>20 DEF CompletionBegins, BeginFinalization
<1>21. CASE CompletionSeals
  BY <1>21 DEF CompletionSeals
<1>22. CASE CompletionQueued
  BY <1>22 DEF CompletionQueued, Put
<1>23. CASE RecoveryFails
  BY <1>23 DEF RecoveryFails
<1>24. CASE TakeTask
  BY <1>24 DEF TakeTask, InHand
<1>25. CASE SkipRange
  BY <1>25 DEF SkipRange, RangeTaken
<1>26. CASE RefuseRange
  BY <1>26 DEF RefuseRange, RangeTaken
<1>27. CASE Hear
  <2>1. task.kind # "none" /\ UNCHANGED <<rec, up, loop, kind, recovering, feed, storageError, queue>>
        /\ (blocked => blocked')
    BY <1>27 DEF Hear, CanHear, RangeTaken
  <2>2. feed.at # "drained"
    BY <2>1, Working
  <2> QED
    BY <2>1, <2>2
<1>28. CASE HearFails
  <2>1. task.kind # "none" /\ UNCHANGED <<rec, up, loop, kind, recovering, feed, storageError, queue>>
        /\ (blocked => blocked')
    BY <1>28 DEF HearFails, CanHear, RangeTaken
  <2>2. feed.at # "drained"
    BY <2>1, Working
  <2> QED
    BY <2>1, <2>2
<1>29. CASE CommitFinal
  <2>1. task.kind # "none" /\ UNCHANGED <<rec, up, loop, kind, recovering, feed, storageError, queue>>
        /\ (blocked => blocked')
    BY <1>29, Working DEF CommitFinal
  <2>2. feed.at # "drained"
    BY <2>1, Working
  <2> QED
    BY <2>1, <2>2
<1>30. CASE Advance
  BY <1>30 DEF Advance
<1>31. CASE RangeFails
  BY <1>31 DEF RangeFails
<1>32. CASE SkipFinish
  BY <1>32 DEF SkipFinish, FinishTaken, EndFinish
<1>33. CASE EnsureFinalizing
  <2>1. task.kind # "none" /\ UNCHANGED <<rec, up, loop, kind, recovering, feed, storageError, queue>>
        /\ (blocked => blocked')
    BY <1>33 DEF EnsureFinalizing, FinishTaken
  <2>2. feed.at # "drained"
    BY <2>1, Working
  <2> QED
    BY <2>1, <2>2
<1>34. CASE FlushSession
  <2>1. task.kind # "none" /\ UNCHANGED <<rec, up, loop, kind, recovering, feed, storageError, queue>>
        /\ (blocked => blocked')
    BY <1>34 DEF FlushSession
  <2>2. feed.at # "drained"
    BY <2>1, Working
  <2> QED
    BY <2>1, <2>2
<1>35. CASE CompleteAsr
  BY <1>35 DEF CompleteAsr, EndFinish
<1>36. CASE FinishErrs
  BY <1>36 DEF FinishErrs, FinishTaken, EndFinish
<1>37. CASE Crash
  BY <1>37 DEF Crash
<1>38. CASE NothingToRecover
  <2>1. rec # "CAPTURING" /\ up' = "up" /\ up = "down"
        /\ UNCHANGED <<rec, loop, kind, recovering, feed, storageError, blocked, queue, task>>
    BY <1>38 DEF NothingToRecover, NeedsAsr
  <2> QED
    BY <2>1
<1>39. CASE BootBegins
  BY <1>39 DEF BootBegins, BeginFinalization
<1>40. CASE BootSeals
  BY <1>40 DEF BootSeals
<1>41. CASE BootFails
  BY <1>41 DEF BootFails, MarkStorageError
<1>42. CASE BootQueues
  <2>1. up = "sealed" /\ up' = "up"
        /\ UNCHANGED <<rec, loop, kind, recovering, feed, storageError, blocked, task>>
    BY <1>42 DEF BootQueues
  <2> QED
    BY <2>1
<1>43. CASE BootResumes
  BY <1>43 DEF BootResumes, Rebound
<1>44. CASE ResumeFails
  BY <1>44 DEF ResumeFails
<1>45. CASE RebindFails
  BY <1>45 DEF RebindFails, BeginFinalization
<1> QED
  BY <1>1, <1>2, <1>3, <1>4, <1>5, <1>6, <1>7, <1>8, <1>9, <1>10, <1>11, <1>12, <1>13, <1>14, <1>15, <1>16, <1>17, <1>18, <1>19, <1>20, <1>21, <1>22, <1>23, <1>24, <1>25, <1>26, <1>27, <1>28, <1>29, <1>30, <1>31, <1>32, <1>33, <1>34, <1>35, <1>36, <1>37, <1>38, <1>39, <1>40, <1>41, <1>42, <1>43, <1>44, <1>45 DEF Next, CaptureLoop, FeedCall, Recognition, Boot, Environment, Failure

\* The records that stand for nothing.
LEMMA EmptyHanded ==
  ASSUME BaseInv
  PROVE  /\ task = Idle => task.kind = "none" /\ task.stage = "none" /\ task.finals = {}
         /\ Idle.kind = "none" /\ Idle.stage = "none" /\ Idle.finals = {} /\ Idle.start = 0 /\ Idle.end = 0
         /\ ~Closed.open /\ Closed.base = 0 /\ Closed.pos = 0
         /\ NoCall.at = "idle"
         /\ Drained => ~FinishAhead /\ ~FinishIsLast
         /\ FinishIsLast => FinishAhead
<1>1. Drained => ~FinishAhead /\ ~FinishIsLast
  BY EmptySeq DEF Drained, FinishAhead, FinishIsLast, Idle
<1>2. FinishIsLast => FinishAhead
  <2> SUFFICES ASSUME FinishIsLast, queue # <<>> PROVE \E i \in DOMAIN queue : queue[i].kind = "finish"
    BY DEF FinishIsLast, FinishAhead
  <2>1. queue \in Seq(Tasks)
    BY DEF BaseInv, TypeOK
  <2> DEFINE n == Len(queue)
  <2>2. n \in Nat \ {0} /\ DOMAIN queue = 1..n
    BY <2>1, LenProperties, EmptySeq
  <2>3. queue[n].kind = "finish"
    BY DEF FinishIsLast
  <2> HIDE DEF n
  <2> QED
    BY <2>2, <2>3
<1> QED
  BY <1>1, <1>2 DEF Idle, Closed, NoCall

\* What TakeTask does, in the terms of the proofs.
LEMMA TakeIs ==
  ASSUME BaseInv, TakeTask
  PROVE  /\ queue # <<>> /\ task = Idle
         /\ Head(queue) \in Tasks /\ Head(queue) = queue[1] /\ 1 \in DOMAIN queue
         /\ Stored(Head(queue))
         /\ task' = [kind |-> Head(queue).kind, stage |-> "taken", start |-> Head(queue).start,
                     end |-> Head(queue).end, finals |-> {}, open |-> {}]
         /\ \A i \in DOMAIN queue' : i + 1 \in DOMAIN queue /\ queue'[i] = queue[i + 1]
         /\ \A i \in DOMAIN queue : i = 1 \/ (i - 1 \in DOMAIN queue' /\ queue[i] = queue'[i - 1])
         /\ queue' = Tail(queue)
         /\ queue' # <<>> => queue'[Len(queue')] = queue[Len(queue)]
         /\ queue' = <<>> => Len(queue) = 1
         /\ up = "up"
         /\ UNCHANGED <<env, capture, progress, fragments, up, loop, feed, memory, worker>>
<1>1. queue # <<>> /\ queue \in Seq(Tasks) /\ task = Idle /\ queue' = Tail(queue) /\ up = "up"
      /\ task' = InHand(Head(queue))
      /\ UNCHANGED <<env, capture, progress, fragments, up, loop, feed, memory, worker>>
  BY DEF TakeTask, BaseInv, TypeOK
<1>2. /\ Head(queue) \in Tasks /\ Head(queue) = queue[1] /\ 1 \in DOMAIN queue
      /\ \A i \in DOMAIN Tail(queue) : i + 1 \in DOMAIN queue /\ Tail(queue)[i] = queue[i + 1]
      /\ \A i \in DOMAIN queue : i = 1 \/ (i - 1 \in DOMAIN Tail(queue) /\ queue[i] = Tail(queue)[i - 1])
      /\ Tail(queue) # <<>> => Tail(queue)[Len(Tail(queue))] = queue[Len(queue)]
      /\ Tail(queue) = <<>> => Len(queue) = 1
  BY <1>1, OneLess
<1>3. Stored(Head(queue))
  BY <1>2 DEF BaseInv, Shape
<1> QED
  BY <1>1, <1>2, <1>3 DEF InHand

\* Recognition leaves a range.
LEMMA RangeLeaves ==
  ASSUME BaseInv, task.kind = "range", task'.kind # "finish", queue' = queue
  PROVE  /\ FinishIsLast => FinishIsLast'
         /\ FinishAhead => FinishAhead'
         /\ ~Drained
BY EmptyHanded DEF FinishIsLast, FinishAhead, Drained

\* The restart point is the least of the cursor, the marker and the checkpoint.
LEMMA RestartIs ==
  ASSUME BaseInv
  PROVE  /\ RestartPoint \in Positions /\ RestartPoint <= cursor /\ RestartPoint <= count
         /\ \A n \in unfinished : RestartPoint <= n
         /\ \A n \in checkpoint : RestartPoint <= n
         /\ RestartPoint = cursor \/ RestartPoint \in unfinished \/ RestartPoint \in checkpoint
<1> DEFINE S == {cursor} \cup unfinished \cup checkpoint
           r == RestartPoint
<1>1. S \in SUBSET Nat /\ S # {} /\ S \subseteq Positions /\ cursor \in S
  BY Room, OptionalIs DEF BaseInv, TypeOK
<1>2. LeastOf(S) \in S /\ \A n \in S : LeastOf(S) <= n
  BY <1>1, Least
<1>3. r \in S /\ \A n \in S : r <= n
  BY <1>2 DEF RestartPoint
<1> HIDE DEF r
<1>4. r \in Positions /\ r <= cursor /\ r \in Nat
  BY <1>1, <1>3
<1>5. r <= count
  <2>1. cursor <= count /\ cursor \in Nat /\ count \in Nat
    BY Room DEF BaseInv, TypeOK, Shape
  <2> QED
    BY <1>4, <2>1
<1> QED
  BY <1>3, <1>4, <1>5 DEF r

\* The session of a capture that may be recovered stays closed, or about to be.
LEMMA ClosesFirstStep ==
  ASSUME BaseInv, Quiet, InRecovery, ClosesFirst, Next
  PROVE  ClosesFirst'
<1>1. CASE FrameArrives
  BY <1>1 DEF FrameArrives, BaseInv, TypeOK, InRecovery, ClosesFirst, Recovery, FinishIsLast, FinishAhead, Drained, env, capture, progress, memory, worker, NoCall
<1>2. CASE Store
  BY <1>2 DEF Store, BaseInv, TypeOK, InRecovery, ClosesFirst, Recovery, FinishIsLast, FinishAhead, Drained, env, capture, progress, memory, worker, NoCall
<1>3. CASE QueueStored
  <2> DEFINE t == RangeOf(feed.start, feed.end)
  <2>1. t \in Tasks /\ queue \in Seq(Tasks)
    BY RangeIs DEF BaseInv, TypeOK, t
  <2>2. queue' = Append(queue, t)
    BY <1>3, <2>1, OneMore DEF QueueStored, Put
  <2>3. FinishAhead => FinishAhead'
    <3>1. task' = task /\ \A i \in DOMAIN queue : i \in DOMAIN queue' /\ queue'[i] = queue[i]
      BY <1>3, <2>1, <2>2, OneMore DEF QueueStored
    <3> QED
      BY <3>1 DEF FinishAhead
  <2>4. /\ UNCHANGED <<up, loop, kind, recovering, rec, task, session, blocked>>
        /\ feed.at = "stored" /\ feed' = NoCall
    BY <1>3 DEF QueueStored, memory, worker, env, capture
  <2>5. rec = "INCOMPLETE" => blocked /\ ~recovering
    BY <2>4, Working DEF InRecovery
  <2>6. rec = "INCOMPLETE" /\ up = "up" /\ loop = "stopped" /\ kind = "browser" =>
          FinishIsLast \/ (Drained /\ ~session.open) \/ (blocked /\ (session.open => FinishAhead))
    BY <2>5 DEF ClosesFirst
  <2>7. feed'.at # "live" /\ feed'.at \notin {"recover", "drained"}
    BY <2>4 DEF NoCall
  <2> QED
    BY <2>3, <2>4, <2>5, <2>6, <2>7, EmptyHanded DEF ClosesFirst
<1>4. CASE StoreFails
  BY <1>4 DEF StoreFails, MarkStorageError, BaseInv, TypeOK, InRecovery, ClosesFirst, Recovery, FinishIsLast, FinishAhead, Drained, env, capture, progress, memory, worker, NoCall
<1>5. CASE BrowserGivesUp
  BY <1>5 DEF BrowserGivesUp, BaseInv, TypeOK, InRecovery, ClosesFirst, Recovery, FinishIsLast, FinishAhead, Drained, env, capture, progress, memory, worker, NoCall
<1>6. CASE Stop
  BY <1>6 DEF Stop, ClosesFirst
<1>7. CASE FinishBlocked
  BY <1>7 DEF FinishBlocked, BaseInv, TypeOK, InRecovery, ClosesFirst, Recovery, FinishIsLast, FinishAhead, Drained, env, capture, progress, memory, worker, NoCall
<1>8. CASE FinishBegins
  BY <1>8 DEF FinishBegins, BeginFinalization, BaseInv, TypeOK, InRecovery, ClosesFirst, Recovery, FinishIsLast, FinishAhead, Drained, env, capture, progress, memory, worker, NoCall
<1>9. CASE FinishReads
  BY <1>9 DEF FinishReads, BaseInv, TypeOK, InRecovery, ClosesFirst, Recovery, FinishIsLast, FinishAhead, Drained, env, capture, progress, memory, worker, NoCall
<1>10. CASE FinishSeals
  BY <1>10 DEF FinishSeals, BaseInv, TypeOK, InRecovery, ClosesFirst, Recovery, FinishIsLast, FinishAhead, Drained, env, capture, progress, memory, worker, NoCall
<1>11. CASE FinishFails
  BY <1>11 DEF FinishFails, MarkStorageError, BaseInv, TypeOK, InRecovery, ClosesFirst, Recovery, FinishIsLast, FinishAhead, Drained, env, capture, progress, memory, worker, NoCall
<1>12. CASE FinishQueued
  <2>1. queue' = Append(queue, Finish) /\ queue \in Seq(Tasks)
    BY <1>12, FinishIs, OneMore DEF FinishQueued, CompletionQueued, Put, BaseInv, TypeOK
  <2>2. queue' # <<>> /\ queue'[Len(queue')].kind = "finish"
    BY <2>1, FinishIs, OneMore
  <2> QED
    BY <2>2 DEF ClosesFirst, FinishIsLast
<1>13. CASE ReplayArrives
  BY <1>13 DEF ReplayArrives, CanRecover, BaseInv, TypeOK, InRecovery, ClosesFirst, Recovery, FinishIsLast, FinishAhead, Drained, env, capture, progress, memory, worker, NoCall
<1>14. CASE ReplayDrains
  BY <1>14 DEF ReplayDrains, BaseInv, TypeOK, InRecovery, ClosesFirst, Recovery, FinishIsLast, FinishAhead, Drained, env, capture, progress, memory, worker, NoCall
<1>15. CASE ReplayRebases
  <2>1. recovering' = recovering /\ recovering /\ feed'.at = "rebased"
    BY <1>15 DEF ReplayRebases, InRecovery, BaseInv, TypeOK
  <2> QED
    BY <2>1 DEF ClosesFirst
<1>16. CASE ReplayStores
  BY <1>16 DEF ReplayStores, BaseInv, TypeOK, InRecovery, ClosesFirst, Recovery, FinishIsLast, FinishAhead, Drained, env, capture, progress, memory, worker, NoCall
<1>17. CASE ReplayQueued
  BY <1>17 DEF ReplayQueued, Put, BaseInv, TypeOK, InRecovery, ClosesFirst, Recovery, FinishIsLast, FinishAhead, Drained, env, capture, progress, memory, worker, NoCall
<1>18. CASE CompletionArrives
  BY <1>18 DEF CompletionArrives, CanRecover, BaseInv, TypeOK, InRecovery, ClosesFirst, Recovery, FinishIsLast, FinishAhead, Drained, env, capture, progress, memory, worker, NoCall
<1>19. CASE CompletionDrains
  <2>1. /\ Drained /\ feed.at = "completing" /\ feed'.at = "unblocked" /\ blocked' = FALSE
        /\ UNCHANGED <<up, loop, kind, recovering, rec, queue, task, session>>
    BY <1>19 DEF CompletionDrains, worker, env, capture, BaseInv, TypeOK
  <2>2. ~FinishAhead /\ ~FinishIsLast
    BY <2>1, EmptyHanded
  <2> QED
    BY <2>1, <2>2 DEF ClosesFirst, Drained
<1>20. CASE CompletionBegins
  BY <1>20 DEF CompletionBegins, BeginFinalization, BaseInv, TypeOK, InRecovery, ClosesFirst, Recovery, FinishIsLast, FinishAhead, Drained, env, capture, progress, memory, worker, NoCall
<1>21. CASE CompletionSeals
  BY <1>21 DEF CompletionSeals, BaseInv, TypeOK, InRecovery, ClosesFirst, Recovery, FinishIsLast, FinishAhead, Drained, env, capture, progress, memory, worker, NoCall
<1>22. CASE CompletionQueued
  <2>1. queue' = Append(queue, Finish) /\ queue \in Seq(Tasks)
    BY <1>22, FinishIs, OneMore DEF FinishQueued, CompletionQueued, Put, BaseInv, TypeOK
  <2>2. queue' # <<>> /\ queue'[Len(queue')].kind = "finish"
    BY <2>1, FinishIs, OneMore
  <2> QED
    BY <2>2 DEF ClosesFirst, FinishIsLast
<1>23. CASE RecoveryFails
  BY <1>23 DEF RecoveryFails, BaseInv, TypeOK, InRecovery, ClosesFirst, Recovery, FinishIsLast, FinishAhead, Drained, env, capture, progress, memory, worker, NoCall
<1>24. CASE TakeTask
  <2>1. /\ UNCHANGED <<up, loop, kind, recovering, feed, rec, session, blocked>>
        /\ queue # <<>> /\ task = Idle
    BY <1>24, TakeIs DEF memory, worker, env, capture
  <2>2. FinishIsLast => FinishIsLast'
    <3> SUFFICES ASSUME FinishIsLast PROVE FinishIsLast'
      OBVIOUS
    <3>1. queue[Len(queue)].kind = "finish"
      BY <2>1 DEF FinishIsLast
    <3>2. CASE queue' = <<>>
      <4>1. Len(queue) = 1
        BY <1>24, <3>2, TakeIs
      <4>2. task'.kind = "finish"
        BY <1>24, <3>1, <4>1, TakeIs
      <4> QED
        BY <3>2, <4>2 DEF FinishIsLast
    <3>3. CASE queue' # <<>>
      <4>1. queue'[Len(queue')].kind = "finish"
        BY <1>24, <3>1, <3>3, TakeIs
      <4> QED
        BY <3>3, <4>1 DEF FinishIsLast
    <3> QED
      BY <3>2, <3>3
  <2>3. FinishAhead => FinishAhead'
    <3> SUFFICES ASSUME FinishAhead PROVE FinishAhead'
      OBVIOUS
    <3>1. PICK i \in DOMAIN queue : queue[i].kind = "finish"
      BY <2>1, EmptyHanded DEF FinishAhead
    <3>2. CASE i = 1
      <4>1. task'.kind = "finish"
        BY <1>24, <3>1, <3>2, TakeIs
      <4> QED
        BY <4>1 DEF FinishAhead
    <3>3. CASE i # 1
      <4>1. i - 1 \in DOMAIN queue' /\ queue'[i - 1].kind = "finish"
        BY <1>24, <3>1, <3>3, TakeIs
      <4> QED
        BY <4>1 DEF FinishAhead
    <3> QED
      BY <3>2, <3>3
  <2> QED
    BY <2>1, <2>2, <2>3 DEF ClosesFirst, Drained
<1>25. CASE SkipRange
  <2>1. /\ task.kind = "range" /\ task' = Idle
        /\ UNCHANGED <<up, loop, kind, recovering, feed, rec, queue, session>>
        /\ (blocked => blocked')
    BY <1>25 DEF SkipRange, RangeTaken, memory, worker, env, capture
  <2>2. task'.kind # "finish"
    BY <2>1, EmptyHanded
  <2> QED
    BY <2>1, <2>2, RangeLeaves DEF ClosesFirst
<1>26. CASE RefuseRange
  <2>1. /\ task.kind = "range" /\ task' = Idle
        /\ UNCHANGED <<up, loop, kind, recovering, feed, rec, queue, session>>
        /\ (blocked => blocked')
    BY <1>26 DEF RefuseRange, RangeTaken, memory, worker, env, capture
  <2>2. task'.kind # "finish"
    BY <2>1, EmptyHanded
  <2> QED
    BY <2>1, <2>2, RangeLeaves DEF ClosesFirst
<1>27. CASE Hear
  <2>1. /\ task.kind = "range" /\ task'.kind # "finish" /\ ~blocked
        /\ UNCHANGED <<up, loop, kind, recovering, feed, rec, queue>>
    BY <1>27, HearIs, EmptyHanded DEF Hear, CanHear, RangeTaken, memory, worker, env, capture
  <2> QED
    BY <2>1, RangeLeaves DEF ClosesFirst
<1>28. CASE HearFails
  <2>1. /\ task.kind = "range" /\ task'.kind # "finish" /\ ~blocked
        /\ UNCHANGED <<up, loop, kind, recovering, feed, rec, queue>>
    BY <1>28, HearIs, EmptyHanded DEF HearFails, CanHear, RangeTaken, memory, worker, env, capture
  <2> QED
    BY <2>1, RangeLeaves DEF ClosesFirst
<1>29. CASE CommitFinal
  <2>1. /\ task'.kind = task.kind /\ task.stage = "heard"
        /\ UNCHANGED <<up, loop, kind, recovering, feed, rec, queue, session, blocked>>
    BY <1>29 DEF CommitFinal, memory, worker, env, capture, BaseInv, TypeOK
  <2>2. task # Idle /\ (FinishIsLast => FinishIsLast') /\ (FinishAhead => FinishAhead')
    BY <2>1, EmptyHanded DEF FinishIsLast, FinishAhead
  <2> QED
    BY <2>1, <2>2 DEF ClosesFirst, Drained
<1>30. CASE Advance
  <2>1. /\ task.kind = "range" /\ task' = Idle
        /\ UNCHANGED <<up, loop, kind, recovering, feed, rec, queue, session>>
        /\ (blocked => blocked')
    BY <1>30 DEF Advance, memory, worker, env, capture
  <2>2. task'.kind # "finish"
    BY <2>1, EmptyHanded
  <2> QED
    BY <2>1, <2>2, RangeLeaves DEF ClosesFirst
<1>31. CASE RangeFails
  <2>1. /\ task.kind = "range" /\ task' = Idle
        /\ UNCHANGED <<up, loop, kind, recovering, feed, rec, queue, session>>
        /\ (blocked => blocked')
    BY <1>31 DEF RangeFails, memory, worker, env, capture
  <2>2. task'.kind # "finish"
    BY <2>1, EmptyHanded
  <2> QED
    BY <2>1, <2>2, RangeLeaves DEF ClosesFirst
<1>32. CASE SkipFinish
  <2>1. /\ task.kind = "finish" /\ task' = Idle /\ session' = Closed
        /\ UNCHANGED <<up, loop, kind, recovering, feed, rec, queue>>
        /\ (blocked => blocked')
    BY <1>32 DEF SkipFinish, EndFinish, FinishTaken, memory, worker, env, capture
  <2>2. task # Idle /\ ~session'.open
    BY <2>1, EmptyHanded
  <2>3. FinishIsLast /\ queue # <<>> => FinishIsLast'
    BY <2>1 DEF FinishIsLast
  <2> QED
    BY <2>1, <2>2, <2>3 DEF ClosesFirst, Drained
<1>33. CASE EnsureFinalizing
  <2>1. /\ task'.kind = "finish" /\ task.kind = "finish"
        /\ UNCHANGED <<up, loop, kind, recovering, feed, rec, queue, blocked>>
    BY <1>33, FlushIs DEF EnsureFinalizing, FinishTaken, memory, worker, env, capture, BaseInv, TypeOK
  <2>2. task # Idle /\ (FinishIsLast => FinishIsLast') /\ FinishAhead'
    BY <2>1, EmptyHanded DEF FinishIsLast, FinishAhead
  <2> QED
    BY <2>1, <2>2 DEF ClosesFirst, Drained
<1>34. CASE FlushSession
  <2>1. /\ task'.kind = "finish" /\ task.kind = "finish"
        /\ UNCHANGED <<up, loop, kind, recovering, feed, rec, queue, blocked>>
    BY <1>34, FlushIs DEF FlushSession, FinishTaken, memory, worker, env, capture, BaseInv, TypeOK
  <2>2. task # Idle /\ (FinishIsLast => FinishIsLast') /\ FinishAhead'
    BY <2>1, EmptyHanded DEF FinishIsLast, FinishAhead
  <2> QED
    BY <2>1, <2>2 DEF ClosesFirst, Drained
<1>35. CASE CompleteAsr
  <2>1. /\ task.kind = "finish" /\ task' = Idle /\ session' = Closed
        /\ UNCHANGED <<up, loop, kind, recovering, feed, rec, queue>>
        /\ (blocked => blocked')
    BY <1>35 DEF CompleteAsr, EndFinish, memory, worker, env, capture
  <2>2. task # Idle /\ ~session'.open
    BY <2>1, EmptyHanded
  <2>3. FinishIsLast /\ queue # <<>> => FinishIsLast'
    BY <2>1 DEF FinishIsLast
  <2> QED
    BY <2>1, <2>2, <2>3 DEF ClosesFirst, Drained
<1>36. CASE FinishErrs
  <2>1. /\ task.kind = "finish" /\ task' = Idle /\ session' = Closed
        /\ UNCHANGED <<up, loop, kind, recovering, feed, rec, queue>>
        /\ (blocked => blocked')
    BY <1>36 DEF FinishErrs, EndFinish, FinishTaken, memory, worker, env, capture
  <2>2. task # Idle /\ ~session'.open
    BY <2>1, EmptyHanded
  <2>3. FinishIsLast /\ queue # <<>> => FinishIsLast'
    BY <2>1 DEF FinishIsLast
  <2> QED
    BY <2>1, <2>2, <2>3 DEF ClosesFirst, Drained
<1>37. CASE Crash
  BY <1>37 DEF Crash, BaseInv, TypeOK, InRecovery, ClosesFirst, Recovery, FinishIsLast, FinishAhead, Drained, env, capture, progress, memory, worker, NoCall
<1>38. CASE NothingToRecover
  <2>1. Drained' /\ session' = Closed
    BY <1>38 DEF NothingToRecover, Quiet, Drained, worker
  <2> QED
    BY <2>1, EmptyHanded DEF ClosesFirst
<1>39. CASE BootBegins
  BY <1>39 DEF BootBegins, BeginFinalization, BaseInv, TypeOK, InRecovery, ClosesFirst, Recovery, FinishIsLast, FinishAhead, Drained, env, capture, progress, memory, worker, NoCall
<1>40. CASE BootSeals
  BY <1>40 DEF BootSeals, BaseInv, TypeOK, InRecovery, ClosesFirst, Recovery, FinishIsLast, FinishAhead, Drained, env, capture, progress, memory, worker, NoCall
<1>41. CASE BootFails
  BY <1>41 DEF BootFails, MarkStorageError, BaseInv, TypeOK, InRecovery, ClosesFirst, Recovery, FinishIsLast, FinishAhead, Drained, env, capture, progress, memory, worker, NoCall
<1>42. CASE BootQueues
  <2> DEFINE q == Pieces(RestartPoint, count)
  <2>0. RestartPoint \in Positions /\ RestartPoint <= count /\ count \in Positions
    BY RestartIs DEF BaseInv, TypeOK
  <2>1. queue' = Append(q, Finish) /\ q \in Seq(Tasks)
    BY <1>42, <2>0, PiecesAre DEF BootQueues, RebindFails
  <2> HIDE DEF q
  <2>2. queue' # <<>> /\ queue'[Len(queue')].kind = "finish"
    BY <2>1, FinishIs, OneMore
  <2> QED
    BY <2>2 DEF ClosesFirst, FinishIsLast
<1>43. CASE BootResumes
  BY <1>43 DEF BootResumes, Rebound, BaseInv, TypeOK, InRecovery, ClosesFirst, Recovery, FinishIsLast, FinishAhead, Drained, env, capture, progress, memory, worker, NoCall
<1>44. CASE ResumeFails
  BY <1>44 DEF ResumeFails, BaseInv, TypeOK, InRecovery, ClosesFirst, Recovery, FinishIsLast, FinishAhead, Drained, env, capture, progress, memory, worker, NoCall
<1>45. CASE RebindFails
  <2> DEFINE q == Pieces(RestartPoint, count)
  <2>0. RestartPoint \in Positions /\ RestartPoint <= count /\ count \in Positions
    BY RestartIs DEF BaseInv, TypeOK
  <2>1. queue' = Append(q, Finish) /\ q \in Seq(Tasks)
    BY <1>45, <2>0, PiecesAre DEF BootQueues, RebindFails
  <2> HIDE DEF q
  <2>2. queue' # <<>> /\ queue'[Len(queue')].kind = "finish"
    BY <2>1, FinishIs, OneMore
  <2> QED
    BY <2>2 DEF ClosesFirst, FinishIsLast
<1> QED
  BY <1>1, <1>2, <1>3, <1>4, <1>5, <1>6, <1>7, <1>8, <1>9, <1>10, <1>11, <1>12, <1>13, <1>14, <1>15, <1>16, <1>17, <1>18, <1>19, <1>20, <1>21, <1>22, <1>23, <1>24, <1>25, <1>26, <1>27, <1>28, <1>29, <1>30, <1>31, <1>32, <1>33, <1>34, <1>35, <1>36, <1>37, <1>38, <1>39, <1>40, <1>41, <1>42, <1>43, <1>44, <1>45 DEF Next, CaptureLoop, FeedCall, Recognition, Boot, Environment, Failure

\* The recognition thread and the way to it are left alone.
LEMMA StaysInStep ==
  ASSUME InStep, UNCHANGED <<task, session, asrCursor, queue, count>>,
         blocked => blocked', feed' = feed \/ feed'.at \notin {"stored", "restored"}
  PROVE  InStep'
<1>1. ASSUME NEW a \in Positions, NoneFrom(a) PROVE NoneFrom(a)'
  BY <1>1 DEF NoneFrom
<1> QED
  BY <1>1 DEF InStep

\* A session that is closed is in step.
LEMMA ClosedIsInStep ==
  ASSUME BaseInv, session' = Closed, task'.kind # "range"
  PROVE  InStep'
BY EmptyHanded, Room DEF InStep

\* New ranges begin where the recorded audio ends.
LEMMA StoringKeepsStep ==
  ASSUME BaseInv, InStep, count' \in Positions, count < count', feed'.start = count,
         UNCHANGED <<task, session, asrCursor, queue, blocked>>
  PROVE  InStep'
<1>1. count \in Nat /\ count' \in Nat /\ Positions \subseteq Nat
  BY Room DEF BaseInv, TypeOK
<1>2. ASSUME NEW a \in Positions, NoneFrom(a), a < count PROVE NoneFrom(a)'
  BY <1>1, <1>2 DEF NoneFrom
<1>3. ASSUME NEW a \in Positions, a < count PROVE a < count'
  BY <1>1, <1>3
<1> QED
  BY <1>2, <1>3 DEF InStep

\* A task that is queued begins where its call said, or is the end.
LEMMA QueueingKeepsStep ==
  ASSUME BaseInv, InStep, NEW t \in Tasks, queue' = Append(queue, t),
         t.kind = "range" => feed.at \in {"stored", "restored"} /\ t.start = feed.start,
         feed' = feed \/ feed'.at \notin {"stored", "restored"},
         UNCHANGED <<task, session, asrCursor, blocked, count>>
  PROVE  InStep'
<1>1. queue \in Seq(Tasks)
  BY DEF BaseInv, TypeOK
<1>2. ASSUME NEW a \in Positions, NoneFrom(a) PROVE NoneFrom(a)'
  <2>1. \A i \in DOMAIN queue' : (i \in DOMAIN queue /\ queue'[i] = queue[i]) \/ queue'[i] = t
    BY <1>1, OneMore
  <2>2. \A i \in DOMAIN queue' : queue'[i].kind = "range" => queue'[i].start # a
    BY <1>2, <2>1 DEF NoneFrom
  <2> QED
    BY <1>2, <2>2 DEF NoneFrom
<1> QED
  BY <1>2 DEF InStep

\* A task is taken.
LEMMA TakingKeepsStep ==
  ASSUME BaseInv, InStep, TakeTask
  PROVE  InStep'
<1>1. /\ task'.kind = Head(queue).kind /\ task'.stage = "taken" /\ task'.start = Head(queue).start
      /\ Head(queue) = queue[1] /\ 1 \in DOMAIN queue /\ task = Idle
      /\ \A i \in DOMAIN queue' : i + 1 \in DOMAIN queue /\ queue'[i] = queue[i + 1]
      /\ UNCHANGED <<count, feed, asrCursor, blocked, session>>
  BY TakeIs DEF capture, memory, worker
<1>2. ASSUME NEW a \in Positions, NoneFrom(a) PROVE NoneFrom(a)'
  <2>1. task'.kind = "range" => task'.start # a
    BY <1>1, <1>2 DEF NoneFrom
  <2>2. \A i \in DOMAIN queue' : queue'[i].kind = "range" => queue'[i].start # a
    BY <1>1, <1>2 DEF NoneFrom
  <2> QED
    BY <1>1, <1>2, <2>1, <2>2 DEF NoneFrom
<1>3. task.stage # "heard"
  BY <1>1, EmptyHanded
<1> QED
  BY <1>1, <1>2, <1>3 DEF InStep

\* The worker hears a range that follows what it heard.
LEMMA HearingKeepsStep ==
  ASSUME BaseInv, InStep, Hear \/ HearFails
  PROVE  InStep'
<1>0. /\ CanHear /\ RangeTaken /\ task.start \in Positions /\ task.end \in Positions
      /\ task.start < task.end /\ task.end <= count /\ asrCursor' = {task.start} /\ count' = count
  BY DEF Hear, HearFails, CanHear, RangeTaken, BaseInv, TypeOK, Shape, Stored, capture
<1>1. Hearing.base <= Hearing.pos /\ Hearing.pos = task.start
  <2>1. CASE session.open
    <3>1. PICK a \in Positions : asrCursor = {a} /\ (a = session.pos \/ (blocked \/ NoneFrom(a)))
      BY <1>0, <2>1 DEF InStep, RangeTaken
    <3>2. a = task.start
      BY <1>0, <3>1 DEF CanHear
    <3>3. ~blocked /\ ~NoneFrom(a)
      BY <1>0, <3>2 DEF CanHear, NoneFrom, RangeTaken
    <3> QED
      BY <2>1, <3>1, <3>2, <3>3, HearingIs DEF InStep
  <2>2. CASE ~session.open
    <3>1. Hearing.base = task.start /\ Hearing.pos = task.start
      BY <2>2, HearingIs
    <3>2. task.start \in Nat
      BY <1>0, Room
    <3>3. task.start <= task.start
      BY <3>2
    <3> QED
      BY <3>1, <3>3
  <2> QED
    BY <2>1, <2>2
<1>2. Hearing.base <= task.end
  <2>1. Hearing.base \in Nat /\ Hearing.pos \in Nat /\ task.start \in Nat /\ task.end \in Nat
    BY <1>0, HearingIs, Room
  <2> QED
    BY <1>0, <1>1, <2>1
<1>3. CASE Hear
  BY <1>0, <1>2, <1>3, HearIs DEF InStep
<1>4. CASE HearFails
  <2>1. session' \in {session, Hearing, [Hearing EXCEPT !.pos = task.end]} /\ blocked' /\ task' = Idle
    BY <1>4 DEF HearFails
  <2>2. session'.base <= session'.pos
    BY <1>1, <1>2, <2>1, HearingIs DEF InStep
  <2>3. task.start < count'
    <3>1. task.start \in Nat /\ task.end \in Nat /\ count \in Nat
      BY <1>0, Room DEF BaseInv, TypeOK
    <3> QED
      BY <1>0, <3>1
  <2> QED
    BY <1>0, <2>1, <2>2, <2>3, EmptyHanded DEF InStep
<1> QED
  BY <1>3, <1>4

\* A range is given up, or heard to its end.
LEMMA LeavingKeepsStep ==
  ASSUME BaseInv, InStep, SkipRange \/ RefuseRange \/ Advance \/ RangeFails
  PROVE  InStep'
<1>0. /\ task.kind = "range" /\ task' = Idle /\ session' = session /\ count' = count
      /\ task.start < task.end /\ task.end <= count /\ task.start \in Positions /\ task.end \in Positions
  BY DEF SkipRange, RefuseRange, Advance, RangeFails, RangeTaken, BaseInv, TypeOK, Shape, Stored,
         capture, worker
<1>1. task'.kind = "none" /\ task'.stage # "heard"
  BY <1>0, EmptyHanded
<1>2. task.start < count
  <2>1. task.start \in Nat /\ task.end \in Nat /\ count \in Nat
    BY <1>0, Room DEF BaseInv, TypeOK
  <2> QED
    BY <1>0, <2>1
<1>3. CASE SkipRange \/ RefuseRange
  <2>1. task.stage # "heard" /\ blocked' /\ asrCursor' = asrCursor
        /\ (blocked \/ \A a \in Positions : a = task.start => asrCursor # {a})
    BY <1>3 DEF SkipRange, RefuseRange, RangeTaken, memory
  <2>2. session.open => \E a \in Positions : asrCursor = {a} /\ (a = session.pos \/ a < count)
    BY <2>1 DEF InStep
  <2> QED
    BY <1>0, <1>1, <2>1, <2>2 DEF InStep
<1>4. CASE Advance
  <2>1. task.stage = "heard" /\ asrCursor' = {task.end}
    BY <1>4 DEF Advance
  <2> QED
    BY <1>0, <1>1, <2>1 DEF InStep
<1>5. CASE RangeFails
  <2>1. task.stage = "heard" /\ asrCursor' = asrCursor /\ blocked'
    BY <1>5 DEF RangeFails
  <2> QED
    BY <1>0, <1>1, <1>2, <2>1 DEF InStep
<1> QED
  BY <1>3, <1>4, <1>5

\* A recovery begins at the cursor, with the session closed.
LEMMA RecoveringKeepsStep ==
  ASSUME BaseInv, InRecovery, ClosesFirst, InStep, ReplayRebases \/ CompletionDrains
  PROVE  InStep'
<1>1. /\ Drained /\ session' = session /\ task' = task /\ count' = count /\ task = Idle
      /\ task.stage # "heard" /\ task.kind = "none"
  BY EmptyHanded DEF ReplayRebases, CompletionDrains, InRecovery, worker, capture, Drained
<1>2. CASE ReplayRebases
  <2>1. feed.at = "drained"
    BY <1>2 DEF ReplayRebases
  <2>2. kind = "browser" /\ up = "up" /\ loop = "stopped" /\ rec = "INCOMPLETE"
    BY <2>1 DEF InRecovery, Recovery
  <2>3. ~session.open
    BY <1>1, <2>1, <2>2, EmptyHanded DEF ClosesFirst
  <2> QED
    BY <1>1, <2>3 DEF InStep
<1>3. CASE CompletionDrains
  <2>1. /\ feed'.at = "unblocked" /\ queue' = queue /\ queue = <<>>
        /\ asrCursor # {} => asrCursor' = asrCursor
    BY <1>1, <1>3 DEF CompletionDrains, Drained, BaseInv, TypeOK
  <2>2. \A a \in Positions : NoneFrom(a)'
    BY <1>1, <2>1, EmptySeq DEF NoneFrom
  <2>3. session.open => \E a \in Positions : asrCursor = {a} /\ (a = session.pos \/ a < count)
    BY <1>1 DEF InStep
  <2> QED
    BY <1>1, <2>1, <2>2, <2>3 DEF InStep
<1> QED
  BY <1>2, <1>3

\* The worker stays in step with the ranges.
LEMMA InStepStep ==
  ASSUME BaseInv, Quiet, InRecovery, ClosesFirst, InStep, Next
  PROVE  InStep'
<1>1. CASE FrameArrives
  <2>1. /\ UNCHANGED <<task, session, asrCursor, queue, count>>
        /\ blocked => blocked'
        /\ feed' = feed \/ feed'.at \notin {"stored", "restored"}
    BY <1>1 DEF FrameArrives, BaseInv, TypeOK, env, capture, progress, memory, worker, NoCall
  <2> QED
    BY <2>1, StaysInStep
<1>2. CASE Store
  <2>1. PICK n \in 1..MaxPiece : count + n <= MaxSamples /\ count' = count + n
                                 /\ feed'.start = count
    BY <1>2 DEF Store
  <2>2. count' \in Positions /\ count < count'
    BY <2>1, GrownIs DEF BaseInv, TypeOK
  <2>3. UNCHANGED <<task, session, asrCursor, queue, blocked>>
    BY <1>2 DEF Store, memory, worker
  <2> QED
    BY <2>1, <2>2, <2>3, StoringKeepsStep
<1>3. CASE QueueStored
  <2>1. /\ feed.at \in {"stored", "restored"} /\ feed' = NoCall
        /\ queue' = queue \o <<RangeOf(feed.start, feed.end)>>
        /\ UNCHANGED <<task, session, asrCursor, blocked, count>>
    BY <1>3 DEF QueueStored, Put, memory, worker, capture
  <2>2. RangeOf(feed.start, feed.end) \in Tasks /\ RangeOf(feed.start, feed.end).start = feed.start
        /\ queue \in Seq(Tasks)
    BY RangeIs DEF BaseInv, TypeOK
  <2>3. queue' = Append(queue, RangeOf(feed.start, feed.end))
    BY <2>1, <2>2, OneMore
  <2>4. feed'.at \notin {"stored", "restored"}
    BY <2>1, EmptyHanded
  <2> QED
    BY <2>1, <2>2, <2>3, <2>4, QueueingKeepsStep
<1>4. CASE StoreFails
  <2>1. /\ UNCHANGED <<task, session, asrCursor, queue, count>>
        /\ blocked => blocked'
        /\ feed' = feed \/ feed'.at \notin {"stored", "restored"}
    BY <1>4 DEF StoreFails, MarkStorageError, BaseInv, TypeOK, env, capture, progress, memory, worker, NoCall
  <2> QED
    BY <2>1, StaysInStep
<1>5. CASE BrowserGivesUp
  <2>1. /\ UNCHANGED <<task, session, asrCursor, queue, count>>
        /\ blocked => blocked'
        /\ feed' = feed \/ feed'.at \notin {"stored", "restored"}
    BY <1>5 DEF BrowserGivesUp, BaseInv, TypeOK, env, capture, progress, memory, worker, NoCall
  <2> QED
    BY <2>1, StaysInStep
<1>6. CASE Stop
  <2>1. /\ UNCHANGED <<task, session, asrCursor, queue, count>>
        /\ blocked => blocked'
        /\ feed' = feed \/ feed'.at \notin {"stored", "restored"}
    BY <1>6 DEF Stop, BaseInv, TypeOK, env, capture, progress, memory, worker, NoCall
  <2> QED
    BY <2>1, StaysInStep
<1>7. CASE FinishBlocked
  <2>1. /\ UNCHANGED <<task, session, asrCursor, queue, count>>
        /\ blocked => blocked'
        /\ feed' = feed \/ feed'.at \notin {"stored", "restored"}
    BY <1>7 DEF FinishBlocked, BaseInv, TypeOK, env, capture, progress, memory, worker, NoCall
  <2> QED
    BY <2>1, StaysInStep
<1>8. CASE FinishBegins
  <2>1. /\ UNCHANGED <<task, session, asrCursor, queue, count>>
        /\ blocked => blocked'
        /\ feed' = feed \/ feed'.at \notin {"stored", "restored"}
    BY <1>8 DEF FinishBegins, BeginFinalization, BaseInv, TypeOK, env, capture, progress, memory, worker, NoCall
  <2> QED
    BY <2>1, StaysInStep
<1>9. CASE FinishReads
  <2>1. /\ UNCHANGED <<task, session, asrCursor, queue, count>>
        /\ blocked => blocked'
        /\ feed' = feed \/ feed'.at \notin {"stored", "restored"}
    BY <1>9 DEF FinishReads, BaseInv, TypeOK, env, capture, progress, memory, worker, NoCall
  <2> QED
    BY <2>1, StaysInStep
<1>10. CASE FinishSeals
  <2>1. /\ UNCHANGED <<task, session, asrCursor, queue, count>>
        /\ blocked => blocked'
        /\ feed' = feed \/ feed'.at \notin {"stored", "restored"}
    BY <1>10 DEF FinishSeals, BaseInv, TypeOK, env, capture, progress, memory, worker, NoCall
  <2> QED
    BY <2>1, StaysInStep
<1>11. CASE FinishFails
  <2>1. /\ UNCHANGED <<task, session, asrCursor, queue, count>>
        /\ blocked => blocked'
        /\ feed' = feed \/ feed'.at \notin {"stored", "restored"}
    BY <1>11 DEF FinishFails, MarkStorageError, BaseInv, TypeOK, env, capture, progress, memory, worker, NoCall
  <2> QED
    BY <2>1, StaysInStep
<1>12. CASE FinishQueued
  <2>1. /\ queue' = queue \o <<Finish>> /\ queue \in Seq(Tasks)
        /\ UNCHANGED <<task, session, asrCursor, blocked, count>>
        /\ feed' = feed \/ feed'.at \notin {"stored", "restored"}
    BY <1>12 DEF FinishQueued, Put, memory, worker, capture, BaseInv, TypeOK, NoCall
  <2>2. queue' = Append(queue, Finish)
    BY <2>1, FinishIs, OneMore
  <2> QED
    BY <2>1, <2>2, FinishIs, QueueingKeepsStep
<1>13. CASE ReplayArrives
  <2>1. /\ UNCHANGED <<task, session, asrCursor, queue, count>>
        /\ blocked => blocked'
        /\ feed' = feed \/ feed'.at \notin {"stored", "restored"}
    BY <1>13 DEF ReplayArrives, CanRecover, BaseInv, TypeOK, env, capture, progress, memory, worker, NoCall
  <2> QED
    BY <2>1, StaysInStep
<1>14. CASE ReplayDrains
  <2>1. /\ UNCHANGED <<task, session, asrCursor, queue, count>>
        /\ blocked => blocked'
        /\ feed' = feed \/ feed'.at \notin {"stored", "restored"}
    BY <1>14 DEF ReplayDrains, BaseInv, TypeOK, env, capture, progress, memory, worker, NoCall
  <2> QED
    BY <2>1, StaysInStep
<1>15. CASE ReplayRebases
  BY <1>15, RecoveringKeepsStep
<1>16. CASE ReplayStores
  <2>1. PICK n \in 1..MaxPiece : count + n <= MaxSamples /\ count' = count + n
                                 /\ feed'.start = count
    BY <1>16 DEF ReplayStores
  <2>2. count' \in Positions /\ count < count'
    BY <2>1, GrownIs DEF BaseInv, TypeOK
  <2>3. UNCHANGED <<task, session, asrCursor, queue, blocked>>
    BY <1>16 DEF ReplayStores, memory, worker
  <2> QED
    BY <2>1, <2>2, <2>3, StoringKeepsStep
<1>17. CASE ReplayQueued
  <2>1. /\ feed.at \in {"stored", "restored"} /\ feed' = NoCall
        /\ queue' = queue \o <<RangeOf(feed.start, feed.end)>>
        /\ UNCHANGED <<task, session, asrCursor, blocked, count>>
    BY <1>17 DEF ReplayQueued, Put, memory, worker, capture
  <2>2. RangeOf(feed.start, feed.end) \in Tasks /\ RangeOf(feed.start, feed.end).start = feed.start
        /\ queue \in Seq(Tasks)
    BY RangeIs DEF BaseInv, TypeOK
  <2>3. queue' = Append(queue, RangeOf(feed.start, feed.end))
    BY <2>1, <2>2, OneMore
  <2>4. feed'.at \notin {"stored", "restored"}
    BY <2>1, EmptyHanded
  <2> QED
    BY <2>1, <2>2, <2>3, <2>4, QueueingKeepsStep
<1>18. CASE CompletionArrives
  <2>1. /\ UNCHANGED <<task, session, asrCursor, queue, count>>
        /\ blocked => blocked'
        /\ feed' = feed \/ feed'.at \notin {"stored", "restored"}
    BY <1>18 DEF CompletionArrives, CanRecover, BaseInv, TypeOK, env, capture, progress, memory, worker, NoCall
  <2> QED
    BY <2>1, StaysInStep
<1>19. CASE CompletionDrains
  BY <1>19, RecoveringKeepsStep
<1>20. CASE CompletionBegins
  <2>1. /\ UNCHANGED <<task, session, asrCursor, queue, count>>
        /\ blocked => blocked'
        /\ feed' = feed \/ feed'.at \notin {"stored", "restored"}
    BY <1>20 DEF CompletionBegins, BeginFinalization, BaseInv, TypeOK, env, capture, progress, memory, worker, NoCall
  <2> QED
    BY <2>1, StaysInStep
<1>21. CASE CompletionSeals
  <2>1. /\ UNCHANGED <<task, session, asrCursor, queue, count>>
        /\ blocked => blocked'
        /\ feed' = feed \/ feed'.at \notin {"stored", "restored"}
    BY <1>21 DEF CompletionSeals, BaseInv, TypeOK, env, capture, progress, memory, worker, NoCall
  <2> QED
    BY <2>1, StaysInStep
<1>22. CASE CompletionQueued
  <2>1. /\ queue' = queue \o <<Finish>> /\ queue \in Seq(Tasks)
        /\ UNCHANGED <<task, session, asrCursor, blocked, count>>
        /\ feed' = feed \/ feed'.at \notin {"stored", "restored"}
    BY <1>22 DEF CompletionQueued, Put, memory, worker, capture, BaseInv, TypeOK, NoCall
  <2>2. queue' = Append(queue, Finish)
    BY <2>1, FinishIs, OneMore
  <2> QED
    BY <2>1, <2>2, FinishIs, QueueingKeepsStep
<1>23. CASE RecoveryFails
  <2>1. /\ UNCHANGED <<task, session, asrCursor, queue, count>>
        /\ blocked => blocked'
        /\ feed' = feed \/ feed'.at \notin {"stored", "restored"}
    BY <1>23 DEF RecoveryFails, BaseInv, TypeOK, env, capture, progress, memory, worker, NoCall
  <2> QED
    BY <2>1, StaysInStep
<1>24. CASE TakeTask
  BY <1>24, TakingKeepsStep
<1>25. CASE SkipRange
  BY <1>25, LeavingKeepsStep
<1>26. CASE RefuseRange
  BY <1>26, LeavingKeepsStep
<1>27. CASE Hear
  BY <1>27, HearingKeepsStep
<1>28. CASE HearFails
  BY <1>28, HearingKeepsStep
<1>29. CASE CommitFinal
  <2>1. /\ task'.kind = task.kind /\ task'.stage = task.stage /\ task'.start = task.start
        /\ task'.end = task.end
        /\ UNCHANGED <<session, asrCursor, queue, blocked, count, feed>>
    BY <1>29 DEF CommitFinal, BaseInv, TypeOK, env, capture, progress, memory, worker, NoCall
  <2>2. ASSUME NEW a \in Positions, NoneFrom(a) PROVE NoneFrom(a)'
    BY <2>1, <2>2 DEF NoneFrom
  <2> QED
    BY <2>1, <2>2 DEF InStep
<1>30. CASE Advance
  BY <1>30, LeavingKeepsStep
<1>31. CASE RangeFails
  BY <1>31, LeavingKeepsStep
<1>32. CASE SkipFinish
  <2>1. session' = Closed /\ task' = Idle
    BY <1>32 DEF SkipFinish, FinishTaken, EndFinish
  <2> QED
    BY <2>1, EmptyHanded, ClosedIsInStep
<1>33. CASE EnsureFinalizing
  <2>1. /\ task'.kind = "finish" /\ task'.stage = "begun" /\ task.kind = "finish"
        /\ task.stage = "taken"
        /\ UNCHANGED <<session, asrCursor, queue, blocked, count, feed>>
    BY <1>33 DEF EnsureFinalizing, FinishTaken, BaseInv, TypeOK, env, capture, progress, memory, worker, NoCall
  <2>2. ASSUME NEW a \in Positions, NoneFrom(a) PROVE NoneFrom(a)'
    BY <2>1, <2>2 DEF NoneFrom
  <2> QED
    BY <2>1, <2>2 DEF InStep
<1>34. CASE FlushSession
  <2>1. PICK base \in Positions, pos \in Positions :
         /\ IF session.open THEN base = session.base /\ pos = session.pos
            ELSE pos = base
         /\ session' = [open |-> TRUE, base |-> base, pos |-> pos]
         /\ task'.kind = "finish" /\ task'.stage = "heard"
    BY <1>34, FlushIs
  <2>2. base <= pos
    BY <2>1, Room DEF InStep
  <2> QED
    BY <2>1, <2>2 DEF InStep
<1>35. CASE CompleteAsr
  <2>1. session' = Closed /\ task' = Idle
    BY <1>35 DEF CompleteAsr, EndFinish
  <2> QED
    BY <2>1, EmptyHanded, ClosedIsInStep
<1>36. CASE FinishErrs
  <2>1. session' = Closed /\ task' = Idle
    BY <1>36 DEF FinishErrs, FinishTaken, EndFinish
  <2> QED
    BY <2>1, EmptyHanded, ClosedIsInStep
<1>37. CASE Crash
  <2>1. session' = Closed /\ task' = Idle
    BY <1>37 DEF Crash
  <2> QED
    BY <2>1, EmptyHanded, ClosedIsInStep
<1>38. CASE NothingToRecover
  <2>1. session' = session /\ task' = task /\ up # "up"
    BY <1>38 DEF NothingToRecover, worker
  <2> QED
    BY <2>1, EmptyHanded, ClosedIsInStep DEF Quiet
<1>39. CASE BootBegins
  <2>1. session' = session /\ task' = task /\ up # "up"
    BY <1>39 DEF BootBegins, worker
  <2> QED
    BY <2>1, EmptyHanded, ClosedIsInStep DEF Quiet
<1>40. CASE BootSeals
  <2>1. session' = session /\ task' = task /\ up # "up"
    BY <1>40 DEF BootSeals, worker
  <2> QED
    BY <2>1, EmptyHanded, ClosedIsInStep DEF Quiet
<1>41. CASE BootFails
  <2>1. session' = session /\ task' = task /\ up # "up"
    BY <1>41 DEF BootFails, worker
  <2> QED
    BY <2>1, EmptyHanded, ClosedIsInStep DEF Quiet
<1>42. CASE BootQueues
  <2>1. session' = session /\ task' = task /\ up # "up"
    BY <1>42 DEF BootQueues, worker
  <2> QED
    BY <2>1, EmptyHanded, ClosedIsInStep DEF Quiet
<1>43. CASE BootResumes
  <2>1. session' = session /\ task' = task /\ up # "up"
    BY <1>43 DEF BootResumes, worker
  <2> QED
    BY <2>1, EmptyHanded, ClosedIsInStep DEF Quiet
<1>44. CASE ResumeFails
  <2>1. session' = session /\ task' = task /\ up # "up"
    BY <1>44 DEF ResumeFails, worker
  <2> QED
    BY <2>1, EmptyHanded, ClosedIsInStep DEF Quiet
<1>45. CASE RebindFails
  <2>1. session' = session /\ task' = task /\ up # "up"
    BY <1>45 DEF RebindFails, worker
  <2> QED
    BY <2>1, EmptyHanded, ClosedIsInStep DEF Quiet
<1> QED
  BY <1>1, <1>2, <1>3, <1>4, <1>5, <1>6, <1>7, <1>8, <1>9, <1>10, <1>11, <1>12, <1>13, <1>14, <1>15, <1>16, <1>17, <1>18, <1>19, <1>20, <1>21, <1>22, <1>23, <1>24, <1>25, <1>26, <1>27, <1>28, <1>29, <1>30, <1>31, <1>32, <1>33, <1>34, <1>35, <1>36, <1>37, <1>38, <1>39, <1>40, <1>41, <1>42, <1>43, <1>44, <1>45 DEF Next, CaptureLoop, FeedCall, Recognition, Boot, Environment, Failure

\* What a range in hand hears, it hears from the sample the worker has come to.
LEMMA InStepIs ==
  ASSUME BaseInv, InStep
  PROVE  WorkerInStep
<1> SUFFICES ASSUME CanHear, session.open PROVE session.pos = task.start
  BY DEF WorkerInStep
<1>1. PICK a \in Positions : asrCursor = {a} /\ (a = session.pos \/ (blocked \/ NoneFrom(a)))
  BY DEF InStep, CanHear, RangeTaken
<1>2. a = task.start
  BY <1>1 DEF CanHear
<1>3. ~blocked /\ ~NoneFrom(a)
  BY <1>2 DEF CanHear, NoneFrom, RangeTaken
<1> QED
  BY <1>1, <1>2, <1>3

\* The state stays well formed.
LEMMA BaseStep ==
  ASSUME BaseInv, Next
  PROVE  BaseInv'
BY ArrivingKeepsBase, FinishingKeepsBase, RecoveringKeepsBase, BootingKeepsBase, RecognizingKeepsBase
   DEF Next, CaptureLoop, FeedCall, Recognition, Boot, Environment, Failure

\* The control invariant at first ...
LEMMA ControlInit == Init => ControlInv
<1> SUFFICES ASSUME Init PROVE ControlInv
  OBVIOUS
<1>1. Quiet
  BY DEF Init, Quiet
<1>2. InRecovery
  BY DEF Init, InRecovery, Recovery, NoCall
<1>3. ClosesFirst
  BY DEF Init, ClosesFirst
<1>4. InStep
  BY Room DEF Init, InStep, Closed, Idle
<1> QED
  BY <1>1, <1>2, <1>3, <1>4 DEF ControlInv

\* No variable that these parts of the invariant speak of changes in a step that
\* changes nothing.
LEMMA ControlStutters ==
  ASSUME BaseInv, ControlInv, UNCHANGED vars
  PROVE  BaseInv' /\ ControlInv'
<1> USE DEF vars, env, capture, progress, memory, worker
<1>1. BaseInv'
  BY DEF BaseInv, TypeOK, Shape, Stored
<1>2. Quiet' /\ InRecovery'
  BY DEF ControlInv, Quiet, InRecovery, Recovery, Drained
<1>3. ClosesFirst'
  BY DEF ControlInv, ClosesFirst, FinishIsLast, FinishAhead, Drained
<1>4. InStep'
  BY StaysInStep DEF ControlInv
<1> QED
  BY <1>1, <1>2, <1>3, <1>4 DEF ControlInv

\* ... and after every step.
LEMMA ControlStep ==
  ASSUME BaseInv, ControlInv, [Next]_vars
  PROVE  BaseInv' /\ ControlInv'
<1>1. CASE Next
  BY <1>1, BaseStep, QuietStep, InRecoveryStep, ClosesFirstStep, InStepStep DEF ControlInv
<1>2. CASE UNCHANGED vars
  BY <1>2, ControlStutters
<1> QED
  BY <1>1, <1>2

--------------------------------------------------------------------------------
(* Nothing is heard twice while nothing crashes or fails.                   *)

\* Two utterances of a session do not overlap, however early they are cut.
LEMMA NewApart ==
  ASSUME NEW V \in SUBSET Nat, NEW base \in Nat, NEW q \in Nat,
         NEW s \in Starts(V, base, q), NEW t \in Starts(V, base, q), s # t,
         NEW e \in Nat, e <= EndOf(V, s), NEW d \in Nat, d <= EndOf(V, t)
  PROVE  e <= t \/ d <= s
<1>1. s \in Nat /\ t \in Nat /\ EndOf(V, s) \in Nat /\ EndOf(V, t) \in Nat
  BY StartIs
<1>2. CASE s < t
  <2>1. EndOf(V, s) <= t
    BY <1>2, StartsApart
  <2> QED
    BY <1>1, <2>1
<1>3. CASE t < s
  <2>1. EndOf(V, t) <= s
    BY <1>3, StartsApart
  <2> QED
    BY <1>1, <2>1
<1> QED
  BY <1>1, <1>2, <1>3

\* What a session hears anew does not overlap what is already written.
LEMMA Beside ==
  ASSUME NEW V \in SUBSET Nat, NEW base \in Nat, NEW p \in Nat, NEW q \in Nat, p <= q,
         NEW f, f[2] \in Nat, HeardOf(V, base, p, f),
         NEW s \in Starts(V, base, q), ~Done(V, s, p), NEW e \in Nat, e <= EndOf(V, s)
  PROVE  f[2] <= s \/ e <= f[1]
<1>1. s \in Nat /\ base <= s
  BY StartIs
<1>2. CASE f[2] <= base
  BY <1>1, <1>2
<1>3. CASE \E t \in Starts(V, base, p) : Done(V, t, p) /\ f = <<t, EndOf(V, t)>>
  <2>1. PICK t \in Starts(V, base, p) : Done(V, t, p) /\ f = <<t, EndOf(V, t)>>
    BY <1>3
  <2>2. t \in Starts(V, base, q) /\ t # s
    BY <2>1, StartsGrow
  <2>3. EndOf(V, t) \in Nat /\ EndOf(V, t) <= EndOf(V, t)
    BY <2>2, StartIs
  <2>4. e <= t \/ EndOf(V, t) <= s
    BY <2>2, <2>3, NewApart
  <2>5. f[1] = t /\ f[2] = EndOf(V, t)
    BY <2>1
  <2> QED
    BY <2>4, <2>5
<1> QED
  BY <1>2, <1>3 DEF HeardOf

\* What a push brings does not overlap what is written.
LEMMA PushKeepsApart ==
  ASSUME NEW V \in SUBSET Nat, NEW base \in Nat, NEW p \in Nat, NEW q \in Nat, p <= q,
         NEW S, \A f \in S : f[1] \in Nat /\ f[2] \in Nat /\ HeardOf(V, base, p, f), Apart(S)
  PROVE  /\ Apart(S \cup Finals(V, base, p, q))
         /\ \A f \in S \cup Finals(V, base, p, q) : HeardOf(V, base, q, f)
<1> DEFINE F == Finals(V, base, p, q)
<1>1. ASSUME NEW f \in F
      PROVE  \E s \in Starts(V, base, q) : /\ Done(V, s, q) /\ ~Done(V, s, p)
                                           /\ f = <<s, EndOf(V, s)>>
                                           /\ f[1] = s /\ f[2] = EndOf(V, s) /\ EndOf(V, s) \in Nat
                                           /\ EndOf(V, s) <= EndOf(V, s)
  <2>1. PICK s \in Starts(V, base, q) : Done(V, s, q) /\ ~Done(V, s, p) /\ f = <<s, EndOf(V, s)>>
    BY <1>1 DEF Finals
  <2>2. f[1] = s /\ f[2] = EndOf(V, s)
    BY <2>1
  <2>3. EndOf(V, s) \in Nat
    BY StartIs
  <2>4. EndOf(V, s) <= EndOf(V, s)
    BY <2>3
  <2> QED
    BY <2>1, <2>2, <2>3, <2>4
<1> HIDE DEF F
<1>2. ASSUME NEW f \in S, NEW g \in F PROVE f[2] <= g[1] \/ g[2] <= f[1]
  BY <1>1, Beside
<1>3. ASSUME NEW f \in F, NEW g \in F, f # g PROVE f[2] <= g[1] \/ g[2] <= f[1]
  <2>1. PICK s \in Starts(V, base, q) : f = <<s, EndOf(V, s)>> /\ f[1] = s /\ f[2] = EndOf(V, s)
                                        /\ EndOf(V, s) \in Nat /\ EndOf(V, s) <= EndOf(V, s)
    BY <1>1
  <2>2. PICK t \in Starts(V, base, q) : g = <<t, EndOf(V, t)>> /\ g[1] = t /\ g[2] = EndOf(V, t)
                                        /\ EndOf(V, t) \in Nat /\ EndOf(V, t) <= EndOf(V, t)
    BY <1>1
  <2>3. s # t
    BY <1>3, <2>1, <2>2
  <2>4. EndOf(V, s) <= t \/ EndOf(V, t) <= s
    BY <2>1, <2>2, <2>3, NewApart
  <2> QED
    BY <2>1, <2>2, <2>4
<1>4. Apart(S \cup F)
  BY <1>2, <1>3 DEF Apart
<1>5. ASSUME NEW f \in S PROVE HeardOf(V, base, q, f)
  <2>1. HeardOf(V, base, p, f)
    OBVIOUS
  <2>2. \A s \in Starts(V, base, p) : Done(V, s, p) => s \in Starts(V, base, q) /\ Done(V, s, q)
    BY StartsGrow, StartIs, LaterKnowsMore
  <2> QED
    BY <2>1, <2>2 DEF HeardOf
<1>6. ASSUME NEW f \in F PROVE HeardOf(V, base, q, f)
  BY <1>1 DEF HeardOf
<1> QED
  BY <1>4, <1>5, <1>6 DEF F

\* Nor does what a flush brings.
LEMMA FlushKeepsApart ==
  ASSUME NEW V \in SUBSET Nat, NEW base \in Nat, NEW p \in Nat, base <= p,
         NEW S, \A f \in S : f[1] \in Nat /\ f[2] \in Nat /\ HeardOf(V, base, p, f), Apart(S)
  PROVE  /\ Apart(S \cup Flush(V, base, p))
         /\ \A f \in S \cup Flush(V, base, p) : f[2] <= p
<1> DEFINE F == Flush(V, base, p)
<1>1. ASSUME NEW f \in F
      PROVE  \E s \in Starts(V, base, p) : /\ ~Done(V, s, p)
                                           /\ f = <<s, LeastOf({EndOf(V, s), p})>>
                                           /\ f[1] = s /\ f[2] \in Nat /\ f[2] <= p
                                           /\ f[2] <= EndOf(V, s)
  <2>1. PICK s \in Starts(V, base, p) : ~Done(V, s, p) /\ f = <<s, LeastOf({EndOf(V, s), p})>>
    BY <1>1 DEF Flush
  <2> DEFINE L == {EndOf(V, s), p}
  <2>2. L \in SUBSET Nat /\ L # {}
    BY StartIs
  <2>3. LeastOf(L) \in L /\ \A n \in L : LeastOf(L) <= n
    BY <2>2, Least
  <2>4. f[1] = s /\ f[2] = LeastOf(L)
    BY <2>1
  <2> QED
    BY <2>1, <2>2, <2>3, <2>4
<1> HIDE DEF F
<1>2. ASSUME NEW f \in S, NEW g \in F PROVE f[2] <= g[1] \/ g[2] <= f[1]
  <2>1. p <= p /\ f[2] \in Nat /\ HeardOf(V, base, p, f)
    OBVIOUS
  <2>2. PICK s \in Starts(V, base, p) : /\ ~Done(V, s, p)
                                        /\ g[1] = s /\ g[2] \in Nat /\ g[2] <= EndOf(V, s)
    BY <1>1
  <2>3. f[2] <= s \/ g[2] <= f[1]
    BY <2>1, <2>2, Beside
  <2> QED
    BY <2>2, <2>3
<1>3. ASSUME NEW f \in F, NEW g \in F, f # g PROVE f[2] <= g[1] \/ g[2] <= f[1]
  <2>1. PICK s \in Starts(V, base, p) : f = <<s, LeastOf({EndOf(V, s), p})>> /\ f[1] = s
                                        /\ f[2] \in Nat /\ f[2] <= EndOf(V, s)
    BY <1>1
  <2>2. PICK t \in Starts(V, base, p) : g = <<t, LeastOf({EndOf(V, t), p})>> /\ g[1] = t
                                        /\ g[2] \in Nat /\ g[2] <= EndOf(V, t)
    BY <1>1
  <2>3. s # t
    BY <1>3, <2>1, <2>2
  <2>4. f[2] <= t \/ g[2] <= s
    BY <2>1, <2>2, <2>3, NewApart
  <2> QED
    BY <2>1, <2>2, <2>4
<1>4. Apart(S \cup F)
  BY <1>2, <1>3 DEF Apart
<1>5. ASSUME NEW f \in S PROVE f[2] <= p
  <2>1. CASE f[2] <= base
    BY <2>1
  <2>2. CASE \E s \in Starts(V, base, p) : Done(V, s, p) /\ f = <<s, EndOf(V, s)>>
    <3>1. PICK s \in Starts(V, base, p) : Done(V, s, p) /\ f = <<s, EndOf(V, s)>>
      BY <2>2
    <3>2. p <= p /\ s \in Nat
      BY StartIs
    <3>3. EndOf(V, s) <= p
      BY <3>1, <3>2, LaterKnowsMore
    <3>4. f[2] = EndOf(V, s)
      BY <3>1
    <3> QED
      BY <3>3, <3>4
  <2> QED
    BY <2>1, <2>2 DEF HeardOf
<1> QED
  BY <1>1, <1>4, <1>5 DEF F

\* The recognition is left alone.
LEMMA StaysOnce ==
  ASSUME Once, UNCHANGED <<task, session, cursor, asrCursor, fragments, voice, up>>
  PROVE  Once'
BY DEF Once, Heard, FinishHeard, OfSession, Apart

\* A fault is counted.
LEMMA FaultCounts == ASSUME BaseInv, Fault PROVE faults' # 0
<1>1. faults \in Nat /\ faults' = faults + 1
  BY EnvironmentAssumption DEF Fault, BaseInv, TypeOK
<1> QED
  BY <1>1

\* What an open session has heard ends before the sample it has come to.
LEMMA HeardBefore ==
  ASSUME BaseInv, session.base <= session.pos, NEW f, f[2] \in Nat, OfSession(f)
  PROVE  f[2] <= session.pos
<1>1. session.base \in Nat /\ session.pos \in Nat /\ voice \in SUBSET Nat
  BY Room, VoiceIs DEF BaseInv, TypeOK
<1>2. CASE f[2] <= session.base
  <2> DEFINE x == session.base
             y == session.pos
  <2>1. x \in Nat /\ y \in Nat /\ x <= y /\ f[2] <= x
    BY <1>1, <1>2
  <2> HIDE DEF x, y
  <2>2. f[2] <= y
    BY <2>1
  <2> QED
    BY <2>2 DEF y
<1>3. CASE \E s \in Starts(voice, session.base, session.pos) :
              Done(voice, s, session.pos) /\ f = <<s, EndOf(voice, s)>>
  <2>1. PICK s \in Starts(voice, session.base, session.pos) :
              Done(voice, s, session.pos) /\ f = <<s, EndOf(voice, s)>>
    BY <1>3
  <2>2. s \in Nat /\ session.pos <= session.pos
    BY <1>1, StartIs
  <2>3. EndOf(voice, s) <= session.pos
    BY <1>1, <2>1, <2>2, LaterKnowsMore
  <2>4. f[2] = EndOf(voice, s)
    BY <2>1
  <2> QED
    BY <2>3, <2>4
<1> QED
  BY <1>2, <1>3 DEF OfSession, HeardOf

\* What has been heard is well formed.
LEMMA HeardType ==
  ASSUME BaseInv
  PROVE  \A f \in Heard : f[1] \in Nat /\ f[2] \in Nat
BY Room DEF Heard, BaseInv, TypeOK, Utterances

\* Nothing heard is left in a task that has just been taken.
LEMMA TakenHasNothing ==
  ASSUME BaseInv, task.stage # "heard"
  PROVE  Heard = fragments
BY DEF Heard, BaseInv, Shape

\* A task is taken.
LEMMA TakingKeepsOnce ==
  ASSUME BaseInv, Once, TakeTask
  PROVE  Once'
<1>1. /\ task = Idle /\ task'.stage = "taken" /\ task'.finals = {}
      /\ UNCHANGED <<session, cursor, asrCursor, fragments, voice, up>>
  BY TakeIs DEF env, progress, memory, worker
<1>2. Heard' = Heard /\ ~FinishHeard /\ ~FinishHeard' /\ task.stage # "heard"
  BY <1>1, EmptyHanded DEF Heard, FinishHeard
<1> QED
  BY <1>1, <1>2 DEF Once, OfSession, Apart

\* A range is given up, or heard to its end.
LEMMA LeavingKeepsOnce ==
  ASSUME BaseInv, InStep, Once, SkipRange \/ RefuseRange \/ Advance
  PROVE  Once'
<1>1. /\ task' = Idle /\ task.kind = "range" /\ task.finals = {}
      /\ UNCHANGED <<session, fragments, voice, up>>
  BY DEF SkipRange, RefuseRange, Advance, RangeTaken, BaseInv, Shape, env, worker
<1>2. Heard' = Heard /\ ~FinishHeard /\ ~FinishHeard'
  BY <1>1, EmptyHanded DEF Heard, FinishHeard
<1>3. CASE SkipRange \/ RefuseRange
  <2>1. UNCHANGED <<cursor, asrCursor>> /\ task.stage # "heard"
    BY <1>3 DEF SkipRange, RefuseRange, RangeTaken, progress, memory
  <2> QED
    BY <1>1, <1>2, <2>1 DEF Once, OfSession, Apart
<1>4. CASE Advance
  <2>1. /\ session.open /\ session.pos = task.end /\ asrCursor = {task.start}
        /\ cursor = task.start
    BY <1>4 DEF Advance, InStep, Once
  <2>2. cursor' = task.end
    <3>1. task.start \in Nat /\ task.end \in Nat /\ task.start < task.end
      BY <1>1, Room DEF BaseInv, TypeOK, Shape, Stored
    <3>2. cursor' = IF cursor > task.end THEN cursor ELSE task.end
      BY <1>4 DEF Advance
    <3> QED
      BY <2>1, <3>1, <3>2
  <2>3. asrCursor' = {task.end}
    BY <1>4 DEF Advance
  <2> QED
    BY <1>1, <1>2, <2>1, <2>2, <2>3 DEF Once, OfSession, Apart
<1> QED
  BY <1>3, <1>4

\* A range is heard.
LEMMA HearingKeepsOnce ==
  ASSUME BaseInv, InStep, Once, Hear
  PROVE  Once'
<1> DEFINE b == Hearing.base
           p == Hearing.pos
           q == task.end
<1>1. /\ CanHear /\ RangeTaken /\ asrCursor = {task.start} /\ cursor = task.start /\ Heard = fragments
      /\ task.start < task.end /\ task.start \in Nat /\ task.end \in Nat
  <2>1. asrCursor = {cursor}
    BY DEF Once
  <2>2. CanHear /\ RangeTaken
    BY HearIs DEF CanHear
  <2>3. Heard = fragments
    BY <2>2, TakenHasNothing DEF RangeTaken
  <2>4. task.start < task.end /\ task.start \in Nat /\ task.end \in Nat
    BY <2>2, Room DEF RangeTaken, BaseInv, TypeOK, Shape, Stored
  <2> QED
    BY <2>1, <2>2, <2>3, <2>4 DEF CanHear
<1>2. /\ session' = [open |-> TRUE, base |-> b, pos |-> q]
      /\ task'.kind = "range" /\ task'.stage = "heard" /\ task'.finals = Finals(voice, b, p, q)
      /\ cursor' = Rewound /\ asrCursor' = {task.start}
      /\ UNCHANGED <<voice, fragments, up>>
  BY HearIs DEF env
<1>3. cursor' = task.start
  BY <1>1, <1>2, HearingIs
<1>4. b \in Nat /\ p \in Nat /\ voice \in SUBSET Nat
  BY HearingIs, VoiceIs, Room DEF BaseInv
<1>5. p = task.start
  <2>1. CASE session.open
    <3>1. session.pos = task.start
      BY <1>1, <2>1, InStepIs DEF WorkerInStep
    <3> QED
      BY <2>1, <3>1, HearingIs
  <2>2. CASE ~session.open
    BY <2>2, HearingIs
  <2> QED
    BY <2>1, <2>2
<1>6. \A f \in fragments : HeardOf(voice, b, p, f)
  <2>1. CASE session.open
    <3>1. \A f \in fragments : OfSession(f)
      BY <1>1, <2>1 DEF Once, FinishHeard, RangeTaken
    <3>2. b = session.base /\ p = session.pos
      BY <2>1, HearingIs
    <3> QED
      BY <3>1, <3>2 DEF OfSession
  <2>2. CASE ~session.open
    <3>1. \A f \in fragments : f[2] <= cursor
      BY <2>2 DEF Once
    <3>2. b = cursor
      BY <1>1, <2>2, HearingIs
    <3> QED
      BY <3>1, <3>2 DEF HeardOf
  <2> QED
    BY <2>1, <2>2
<1>7. Heard' = fragments \cup Finals(voice, b, p, q)
  BY <1>2 DEF Heard
<1>8. session'.base = b /\ session'.pos = q /\ session'.open /\ voice' = voice
  BY <1>2
<1> HIDE DEF b, p, q
<1>9. p <= q /\ q \in Nat
  BY <1>1, <1>5 DEF q
<1>10. Apart(fragments) /\ \A f \in fragments : f[1] \in Nat /\ f[2] \in Nat
  BY <1>1, HeardType DEF Once
<1>11. /\ Apart(fragments \cup Finals(voice, b, p, q))
       /\ \A f \in fragments \cup Finals(voice, b, p, q) : HeardOf(voice, b, q, f)
  BY <1>4, <1>6, <1>9, <1>10, PushKeepsApart
<1>12. \A f \in Heard' : OfSession(f)'
  BY <1>7, <1>8, <1>11 DEF OfSession
<1>13. Apart(Heard)'
  BY <1>7, <1>11 DEF Apart
<1> QED
  BY <1>2, <1>3, <1>8, <1>12, <1>13 DEF Once, FinishHeard

\* A final text is written.
LEMMA CommittingKeepsOnce ==
  ASSUME BaseInv, InStep, Once, CommitFinal
  PROVE  Once'
<1>1. /\ task.stage = "heard" /\ task.finals # {} /\ fragments' = fragments \cup {NextFinal}
      /\ task'.kind = task.kind /\ task'.stage = task.stage /\ task'.finals = task.finals \ {NextFinal}
      /\ task'.end = task.end
      /\ UNCHANGED <<session, cursor, asrCursor, voice, up>>
  BY DEF CommitFinal, BaseInv, TypeOK, env, progress, memory, worker
<1>2. NextFinal \in task.finals
  BY <1>1, NextFinalIs DEF BaseInv, TypeOK
<1>3. Heard' = Heard
  BY <1>1, <1>2 DEF Heard
<1>4. session.open /\ (FinishHeard <=> FinishHeard')
  <2>1. task.kind \in {"range", "finish"}
    BY <1>1, Working DEF BaseInv, TypeOK
  <2>2. session.open
    BY <1>1, <2>1 DEF Once, InStep, FinishHeard
  <2> QED
    BY <1>1, <2>2 DEF FinishHeard
<1> QED
  BY <1>1, <1>3, <1>4 DEF Once, OfSession, Apart

\* The session is flushed.
LEMMA FlushingKeepsOnce ==
  ASSUME BaseInv, InStep, Once, FlushSession
  PROVE  Once'
<1>1. task.kind = "finish" /\ task.stage = "begun" /\ Heard = fragments /\ ~FinishHeard
  BY TakenHasNothing DEF FlushSession, FinishHeard
<1>2. PICK b \in Positions, p \in Positions :
         /\ IF session.open THEN b = session.base /\ p = session.pos ELSE p = b
         /\ p <= count
         /\ session' = [open |-> TRUE, base |-> b, pos |-> p]
         /\ task'.kind = "finish" /\ task'.stage = "heard" /\ task'.end = count
         /\ task'.finals = Flush(voice, b, p)
         /\ UNCHANGED <<cursor, asrCursor, fragments, voice, up>>
  BY FlushIs DEF env, progress, memory
<1>3. b \in Nat /\ p \in Nat /\ b <= p /\ voice \in SUBSET Nat /\ count \in Nat
  BY <1>2, Room, VoiceIs DEF InStep, BaseInv, TypeOK
<1>4. Heard' = fragments \cup Flush(voice, b, p)
  BY <1>2 DEF Heard
<1>5. Apart(fragments) /\ \A f \in fragments : f[1] \in Nat /\ f[2] \in Nat
  BY <1>1, HeardType DEF Once
<1>6. Apart(Heard)' /\ \A f \in Heard' : f[2] \in Nat /\ f[2] <= count
  <2>1. CASE session.open
    <3>1. \A f \in fragments : HeardOf(voice, b, p, f)
      BY <1>1, <1>2, <2>1 DEF Once, OfSession
    <3>2. /\ Apart(fragments \cup Flush(voice, b, p))
          /\ \A f \in fragments \cup Flush(voice, b, p) : f[2] <= p
      BY <1>3, <1>5, <3>1, FlushKeepsApart
    <3>3. \A f \in Flush(voice, b, p) : f[2] \in Nat
      <4>1. {} \in Optional /\ b \in Nat /\ p \in Positions /\ p \in Nat /\ voice \in SUBSET Nat
        BY <1>2, <1>3, OptionalIs
      <4>2. Flush(voice, b, p) \subseteq Utterances
        BY <4>1, EventsType
      <4> QED
        BY <4>2, Room DEF Utterances
    <3>4. \A f \in Heard' : f[2] \in Nat /\ f[2] <= p
      BY <1>4, <1>5, <3>2, <3>3
    <3>5. \A f \in Heard' : f[2] <= count
      BY <1>2, <1>3, <3>4
    <3> QED
      BY <1>4, <3>2, <3>4, <3>5 DEF Apart
  <2>2. CASE ~session.open
    <3>1. Starts(voice, b, p) = {}
      BY <1>2, <1>3, <2>2, StartsGrow
    <3>2. Heard' = fragments
      BY <1>4, <3>1 DEF Flush
    <3>3. \A f \in fragments : f[2] <= cursor
      BY <2>2 DEF Once
    <3>4. cursor \in Nat /\ cursor <= count
      BY Room DEF BaseInv, TypeOK, Shape
    <3>5. \A f \in fragments : f[2] <= count
      BY <1>3, <1>5, <3>3, <3>4
    <3> QED
      BY <1>5, <3>2, <3>5 DEF Apart
  <2> QED
    BY <2>1, <2>2
<1> QED
  BY <1>2, <1>6 DEF Once, FinishHeard

\* The session is closed.
LEMMA ClosingKeepsOnce ==
  ASSUME BaseInv, InStep, Once, SkipFinish \/ CompleteAsr
  PROVE  Once'
<1>1. /\ task' = Idle /\ session' = Closed /\ task.kind = "finish" /\ task.finals = {}
      /\ UNCHANGED <<fragments, voice, up>>
  BY DEF SkipFinish, CompleteAsr, EndFinish, FinishTaken, BaseInv, Shape, env
<1>2. Heard' = Heard /\ Heard = fragments /\ ~FinishHeard' /\ ~session'.open /\ task'.finals = {}
  BY <1>1, EmptyHanded DEF Heard, FinishHeard
<1>3. CASE SkipFinish
  <2>1. UNCHANGED <<cursor, asrCursor>> /\ task.stage # "heard"
    BY <1>3 DEF SkipFinish, FinishTaken, progress, memory
  <2>2. \A f \in fragments : f[2] <= cursor
    <3>1. CASE session.open
      <4>1. /\ \A f \in fragments : OfSession(f) /\ f[2] \in Nat
            /\ cursor = session.pos /\ session.base <= session.pos
        BY <1>2, <2>1, <3>1, HeardType DEF Once, FinishHeard, InStep
      <4> QED
        BY <4>1, HeardBefore
    <3>2. CASE ~session.open
      BY <3>2 DEF Once
    <3> QED
      BY <3>1, <3>2
  <2> QED
    BY <1>1, <1>2, <2>1, <2>2 DEF Once, Apart
<1>4. CASE CompleteAsr
  <2>1. cursor' = task.end /\ asrCursor' = {task.end} /\ FinishHeard
    BY <1>1, <1>4 DEF CompleteAsr, FinishHeard
  <2>2. \A f \in fragments : f[2] <= task.end
    BY <1>2, <2>1 DEF Once
  <2> QED
    BY <1>1, <1>2, <2>1, <2>2 DEF Once, Apart
<1> QED
  BY <1>3, <1>4

\* While nothing crashes or fails, each sound is heard once ...
LEMMA OnceStep ==
  ASSUME BaseInv, Quiet, InStep, Once, crashes' = 0, faults' = 0, Next
  PROVE  Once'
<1>1. CASE FrameArrives
  <2>1. UNCHANGED <<task, session, cursor, asrCursor, fragments, voice, up>>
    BY <1>1 DEF FrameArrives, env, progress, memory, worker
  <2> QED
    BY <2>1, StaysOnce
<1>2. CASE Store
  <2>1. UNCHANGED <<task, session, cursor, asrCursor, fragments, voice, up>>
    BY <1>2 DEF Store, env, progress, memory, worker
  <2> QED
    BY <2>1, StaysOnce
<1>3. CASE QueueStored
  <2>1. UNCHANGED <<task, session, cursor, asrCursor, fragments, voice, up>>
    BY <1>3 DEF QueueStored, env, progress, memory, worker
  <2> QED
    BY <2>1, StaysOnce
<1>4. CASE StoreFails
  <2>1. UNCHANGED <<task, session, cursor, asrCursor, fragments, voice, up>>
    BY <1>4 DEF StoreFails, MarkStorageError, env, progress, memory, worker
  <2> QED
    BY <2>1, StaysOnce
<1>5. CASE BrowserGivesUp
  <2>1. UNCHANGED <<task, session, cursor, asrCursor, fragments, voice, up>>
    BY <1>5 DEF BrowserGivesUp, env, progress, memory, worker
  <2> QED
    BY <2>1, StaysOnce
<1>6. CASE Stop
  <2>1. UNCHANGED <<task, session, cursor, asrCursor, fragments, voice, up>>
    BY <1>6 DEF Stop, env, progress, memory, worker
  <2> QED
    BY <2>1, StaysOnce
<1>7. CASE FinishBlocked
  <2>1. UNCHANGED <<task, session, cursor, asrCursor, fragments, voice, up>>
    BY <1>7 DEF FinishBlocked, env, progress, memory, worker
  <2> QED
    BY <2>1, StaysOnce
<1>8. CASE FinishBegins
  <2>1. UNCHANGED <<task, session, cursor, asrCursor, fragments, voice, up>>
    BY <1>8 DEF FinishBegins, BeginFinalization, env, progress, memory, worker
  <2> QED
    BY <2>1, StaysOnce
<1>9. CASE FinishReads
  <2>1. UNCHANGED <<task, session, cursor, asrCursor, fragments, voice, up>>
    BY <1>9 DEF FinishReads, env, progress, memory, worker
  <2> QED
    BY <2>1, StaysOnce
<1>10. CASE FinishSeals
  <2>1. UNCHANGED <<task, session, cursor, asrCursor, fragments, voice, up>>
    BY <1>10 DEF FinishSeals, env, progress, memory, worker
  <2> QED
    BY <2>1, StaysOnce
<1>11. CASE FinishFails
  <2>1. UNCHANGED <<task, session, cursor, asrCursor, fragments, voice, up>>
    BY <1>11 DEF FinishFails, MarkStorageError, env, progress, memory, worker
  <2> QED
    BY <2>1, StaysOnce
<1>12. CASE FinishQueued
  <2>1. UNCHANGED <<task, session, cursor, asrCursor, fragments, voice, up>>
    BY <1>12 DEF FinishQueued, env, progress, memory, worker
  <2> QED
    BY <2>1, StaysOnce
<1>13. CASE ReplayArrives
  <2>1. UNCHANGED <<task, session, cursor, asrCursor, fragments, voice, up>>
    BY <1>13 DEF ReplayArrives, CanRecover, env, progress, memory, worker
  <2> QED
    BY <2>1, StaysOnce
<1>14. CASE ReplayDrains
  <2>1. UNCHANGED <<task, session, cursor, asrCursor, fragments, voice, up>>
    BY <1>14 DEF ReplayDrains, env, progress, memory, worker
  <2> QED
    BY <2>1, StaysOnce
<1>15. CASE ReplayRebases
  <2>1. UNCHANGED <<task, session, cursor, asrCursor, fragments, voice, up>>
    BY <1>15 DEF ReplayRebases, env, progress, memory, worker, Once
  <2> QED
    BY <2>1, StaysOnce
<1>16. CASE ReplayStores
  <2>1. UNCHANGED <<task, session, cursor, asrCursor, fragments, voice, up>>
    BY <1>16 DEF ReplayStores, env, progress, memory, worker
  <2> QED
    BY <2>1, StaysOnce
<1>17. CASE ReplayQueued
  <2>1. UNCHANGED <<task, session, cursor, asrCursor, fragments, voice, up>>
    BY <1>17 DEF ReplayQueued, env, progress, memory, worker
  <2> QED
    BY <2>1, StaysOnce
<1>18. CASE CompletionArrives
  <2>1. UNCHANGED <<task, session, cursor, asrCursor, fragments, voice, up>>
    BY <1>18 DEF CompletionArrives, CanRecover, env, progress, memory, worker
  <2> QED
    BY <2>1, StaysOnce
<1>19. CASE CompletionDrains
  <2>1. UNCHANGED <<task, session, cursor, asrCursor, fragments, voice, up>>
    BY <1>19 DEF CompletionDrains, env, progress, memory, worker, Once
  <2> QED
    BY <2>1, StaysOnce
<1>20. CASE CompletionBegins
  <2>1. UNCHANGED <<task, session, cursor, asrCursor, fragments, voice, up>>
    BY <1>20 DEF CompletionBegins, BeginFinalization, env, progress, memory, worker
  <2> QED
    BY <2>1, StaysOnce
<1>21. CASE CompletionSeals
  <2>1. UNCHANGED <<task, session, cursor, asrCursor, fragments, voice, up>>
    BY <1>21 DEF CompletionSeals, env, progress, memory, worker
  <2> QED
    BY <2>1, StaysOnce
<1>22. CASE CompletionQueued
  <2>1. UNCHANGED <<task, session, cursor, asrCursor, fragments, voice, up>>
    BY <1>22 DEF CompletionQueued, env, progress, memory, worker
  <2> QED
    BY <2>1, StaysOnce
<1>23. CASE RecoveryFails
  <2>1. UNCHANGED <<task, session, cursor, asrCursor, fragments, voice, up>>
    BY <1>23 DEF RecoveryFails, env, progress, memory, worker
  <2> QED
    BY <2>1, StaysOnce
<1>24. CASE TakeTask
  BY <1>24, TakingKeepsOnce
<1>25. CASE SkipRange
  BY <1>25, LeavingKeepsOnce
<1>26. CASE RefuseRange
  BY <1>26, LeavingKeepsOnce
<1>27. CASE Hear
  BY <1>27, HearingKeepsOnce
<1>28. CASE HearFails
  BY <1>28, FaultCounts DEF HearFails
<1>29. CASE CommitFinal
  BY <1>29, CommittingKeepsOnce
<1>30. CASE Advance
  BY <1>30, LeavingKeepsOnce
<1>31. CASE RangeFails
  BY <1>31, FaultCounts DEF RangeFails
<1>32. CASE SkipFinish
  BY <1>32, ClosingKeepsOnce
<1>33. CASE EnsureFinalizing
  <2>1. /\ UNCHANGED <<session, cursor, asrCursor, fragments, voice, up>>
        /\ task'.stage = "begun" /\ task.stage = "taken" /\ task'.finals = task.finals
    BY <1>33 DEF EnsureFinalizing, FinishTaken, BeginFinalization, BaseInv, TypeOK, env, progress, memory, worker
  <2> QED
    BY <2>1 DEF Once, Heard, FinishHeard, OfSession, Apart
<1>34. CASE FlushSession
  BY <1>34, FlushingKeepsOnce
<1>35. CASE CompleteAsr
  BY <1>35, ClosingKeepsOnce
<1>36. CASE FinishErrs
  BY <1>36, FaultCounts DEF FinishErrs
<1>37. CASE Crash
  <2>1. crashes \in Nat /\ crashes' = crashes + 1
    BY <1>37, EnvironmentAssumption DEF Crash, BaseInv, TypeOK
  <2> QED
    BY <2>1
<1>38. CASE NothingToRecover
  BY <1>38 DEF NothingToRecover, Once
<1>39. CASE BootBegins
  BY <1>39 DEF BootBegins, Once
<1>40. CASE BootSeals
  BY <1>40 DEF BootSeals, Once
<1>41. CASE BootFails
  BY <1>41 DEF BootFails, Once
<1>42. CASE BootQueues
  BY <1>42 DEF BootQueues, Once
<1>43. CASE BootResumes
  BY <1>43 DEF BootResumes, Once
<1>44. CASE ResumeFails
  BY <1>44 DEF ResumeFails, Once
<1>45. CASE RebindFails
  BY <1>45 DEF RebindFails, Once
<1> QED
  BY <1>1, <1>2, <1>3, <1>4, <1>5, <1>6, <1>7, <1>8, <1>9, <1>10, <1>11, <1>12, <1>13, <1>14, <1>15, <1>16, <1>17, <1>18, <1>19, <1>20, <1>21, <1>22, <1>23, <1>24, <1>25, <1>26, <1>27, <1>28, <1>29, <1>30, <1>31, <1>32, <1>33, <1>34, <1>35, <1>36, <1>37, <1>38, <1>39, <1>40, <1>41, <1>42, <1>43, <1>44, <1>45 DEF Next, CaptureLoop, FeedCall, Recognition, Boot, Environment, Failure

\* The counters of the environment only grow.
LEMMA CountersGrow ==
  ASSUME BaseInv, Next, crashes' = 0, faults' = 0
  PROVE  crashes = 0 /\ faults = 0
<1>1. crashes \in Nat /\ faults \in Nat
  BY EnvironmentAssumption DEF BaseInv, TypeOK
<1>2. Fault => FALSE
  BY FaultCounts
<1>3. ~Crash
  BY <1>1 DEF Crash
<1>4. CASE FrameArrives \/ Store \/ QueueStored \/ StoreFails \/ BrowserGivesUp \/ Stop \/ FinishBlocked \/ FinishBegins \/ FinishReads \/ FinishSeals \/ FinishFails
  BY <1>2, <1>4 DEF FrameArrives, Store, QueueStored, StoreFails, BrowserGivesUp, Stop, FinishBlocked, FinishBegins, FinishReads, FinishSeals, FinishFails, env
<1>5. CASE FinishQueued \/ ReplayArrives \/ ReplayDrains \/ ReplayRebases \/ ReplayStores \/ ReplayQueued \/ CompletionArrives \/ CompletionDrains \/ CompletionBegins \/ CompletionSeals \/ CompletionQueued
  BY <1>2, <1>5 DEF FinishQueued, ReplayArrives, ReplayDrains, ReplayRebases, ReplayStores, ReplayQueued, CompletionArrives, CompletionDrains, CompletionBegins, CompletionSeals, CompletionQueued, env
<1>6. CASE RecoveryFails \/ TakeTask \/ SkipRange \/ RefuseRange \/ Hear \/ HearFails \/ CommitFinal \/ Advance \/ RangeFails \/ SkipFinish \/ EnsureFinalizing
  BY <1>2, <1>6 DEF RecoveryFails, TakeTask, SkipRange, RefuseRange, Hear, HearFails, CommitFinal, Advance, RangeFails, SkipFinish, EnsureFinalizing, env
<1>7. CASE FlushSession \/ CompleteAsr \/ FinishErrs \/ NothingToRecover \/ BootBegins \/ BootSeals \/ BootFails \/ BootQueues \/ BootResumes \/ ResumeFails \/ RebindFails
  BY <1>2, <1>7 DEF FlushSession, CompleteAsr, FinishErrs, NothingToRecover, BootBegins, BootSeals, BootFails, BootQueues, BootResumes, ResumeFails, RebindFails, env
<1> QED
  BY <1>3, <1>4, <1>5, <1>6, <1>7 DEF Next, CaptureLoop, FeedCall, Recognition, Boot, Environment, Failure

\* ... as it is at first ...
LEMMA OnceInit == Init => OnceInv
BY DEF Init, OnceInv, Once, Heard, Idle, Closed, FinishHeard, Apart

\* ... and after every step.
LEMMA OnceInvStep ==
  ASSUME BaseInv, ControlInv, OnceInv, [Next]_vars
  PROVE  OnceInv'
<1>1. CASE Next
  BY <1>1, OnceStep, CountersGrow DEF OnceInv, ControlInv
<1>2. CASE UNCHANGED vars
  <2>1. UNCHANGED <<task, session, cursor, asrCursor, fragments, voice, up, crashes, faults>>
    BY <1>2 DEF vars, env, progress, memory, worker
  <2> QED
    BY <2>1, StaysOnce DEF OnceInv
<1> QED
  BY <1>1, <1>2

\* The invariants imply HeardOnce.
LEMMA OnceIs ==
  ASSUME BaseInv, ControlInv, OnceInv
  PROVE  HeardOnce
<1>1. WorkerInStep
  BY InStepIs DEF ControlInv
<1>2. NoSpeechTwice
  BY DEF OnceInv, Once, Heard, Apart, NoSpeechTwice, NoDuplicateSpeech
<1> QED
  BY <1>1, <1>2 DEF HeardOnce

\* Recognition hears each sample once: a range is only sent to a session that has come to
\* its first sample, through stops, crashes, restarts and recoveries of the browser, and
\* while nothing has crashed or failed no sound is in two fragments (_asr_loop,
\* process_asr_range).
THEOREM LiveSpeechHeardOnce == Spec => []HeardOnce
<1> DEFINE Inv == BaseInv /\ ControlInv /\ OnceInv
<1>1. Init => Inv
  BY BaseInit, ControlInit, OnceInit
<1>2. Inv /\ [Next]_vars => Inv'
  BY ControlStep, OnceInvStep
<1>3. Inv => HeardOnce
  BY OnceIs
<1> QED
  BY <1>1, <1>2, <1>3, PTL DEF Spec

--------------------------------------------------------------------------------
(* The recording of a device: where recognition begins again.               *)

Restart(finished, at, behind, marker, samples) ==
    IF finished = "COMPLETE" THEN at ELSE LowPoint(at, behind, marker, samples)

\* The positions of a state, and of the next.
LEMMA WhereIs ==
  BaseInv => /\ voice \in SUBSET Nat /\ reopened \in SUBSET Nat
             /\ unfinished \in SUBSET Nat /\ checkpoint \in SUBSET Nat /\ asrCursor \in SUBSET Nat
             /\ unfinished \in Optional /\ checkpoint \in Optional /\ asrCursor \in Optional
             /\ cursor \in Nat /\ count \in Nat /\ cursor <= count
             /\ task.start \in Nat /\ task.end \in Nat /\ task.end <= count
             /\ task.kind = "range" => task.start < task.end
             /\ session.base \in Nat /\ session.pos \in Nat /\ session.pos <= count
<1> SUFFICES ASSUME BaseInv
    PROVE    /\ voice \in SUBSET Nat /\ reopened \in SUBSET Nat
             /\ unfinished \in SUBSET Nat /\ checkpoint \in SUBSET Nat /\ asrCursor \in SUBSET Nat
             /\ unfinished \in Optional /\ checkpoint \in Optional /\ asrCursor \in Optional
             /\ cursor \in Nat /\ count \in Nat /\ cursor <= count
             /\ task.start \in Nat /\ task.end \in Nat /\ task.end <= count
             /\ task.kind = "range" => task.start < task.end
             /\ session.base \in Nat /\ session.pos \in Nat /\ session.pos <= count
  OBVIOUS
<1>1. voice \in SUBSET Nat
  BY VoiceIs DEF BaseInv
<1>2. /\ unfinished \in Optional /\ checkpoint \in Optional /\ asrCursor \in Optional
      /\ reopened \subseteq Positions /\ cursor \in Positions /\ count \in Positions
      /\ task.start \in Positions /\ task.end \in Positions
      /\ session.base \in Positions /\ session.pos \in Positions
  BY DEF BaseInv, TypeOK
<1>3. unfinished \in SUBSET Nat /\ checkpoint \in SUBSET Nat /\ asrCursor \in SUBSET Nat
  BY <1>2, OptionalIs, Room
<1>4. reopened \in SUBSET Nat /\ cursor \in Nat /\ count \in Nat
      /\ task.start \in Nat /\ task.end \in Nat /\ session.base \in Nat /\ session.pos \in Nat
  BY <1>2, Room
<1>5. /\ cursor <= count /\ task.end <= count /\ session.pos <= count
      /\ task.kind = "range" => task.start < task.end
  BY DEF BaseInv, Shape, Stored
<1> QED
  BY <1>1, <1>2, <1>3, <1>4, <1>5

LEMMA WhereIsNext ==
  BaseInv' => /\ voice' \in SUBSET Nat /\ reopened' \in SUBSET Nat
              /\ unfinished' \in SUBSET Nat /\ checkpoint' \in SUBSET Nat
              /\ cursor' \in Nat /\ count' \in Nat
<1>1. BaseInv => /\ voice \in SUBSET Nat /\ reopened \in SUBSET Nat
                 /\ unfinished \in SUBSET Nat /\ checkpoint \in SUBSET Nat
                 /\ cursor \in Nat /\ count \in Nat
  BY WhereIs
<1>2. (BaseInv => /\ voice \in SUBSET Nat /\ reopened \in SUBSET Nat
                  /\ unfinished \in SUBSET Nat /\ checkpoint \in SUBSET Nat
                  /\ cursor \in Nat /\ count \in Nat)'
  BY <1>1, PTL
<1> QED
  BY <1>2

\* Where recognition would begin again, as a function of what it depends on.
LEMMA NextRestartIs ==
  BaseInv /\ kind = "device" /\ Settled =>
     NextRestart = Restart(asr, cursor, checkpoint, unfinished, count)
<1> SUFFICES ASSUME BaseInv, kind = "device", Settled
             PROVE  NextRestart = Restart(asr, cursor, checkpoint, unfinished, count)
  OBVIOUS
<1>1. CASE asr = "COMPLETE"
  <2>1. cursor = count /\ unfinished = {} /\ checkpoint = {} /\ rec # "CAPTURING" /\ cursor \in Nat
    BY <1>1, WhereIs DEF Settled
  <2>2. ~NeedsAsr
    BY <1>1, <2>1 DEF NeedsAsr
  <2>3. NextRestart = RestartPoint
    BY <2>2 DEF NextRestart
  <2>4. RestartPoint = LeastOf({cursor})
    <3>1. {cursor} \cup unfinished \cup checkpoint = {cursor}
      BY <2>1
    <3> QED
      BY <3>1 DEF RestartPoint
  <2>5. LeastOf({cursor}) = cursor
    BY <2>1, LeastIs
  <2> QED
    BY <1>1, <2>3, <2>4, <2>5 DEF Restart
<1>2. CASE asr # "COMPLETE"
  <2>1. NeedsAsr /\ ~Resumable
    BY <1>2 DEF NeedsAsr, Resumable, BaseInv, TypeOK
  <2>2. NextRestart = LeastOf({cursor} \cup checkpoint \cup
                        (IF unfinished # {} THEN unfinished ELSE {WindowStart(count)}))
    BY <2>1 DEF NextRestart, WindowStart
  <2> QED
    BY <1>2, <2>2 DEF Restart, LowPoint
<1> QED
  BY <1>1, <1>2

LEMMA NextRestartIsNext ==
  BaseInv' /\ kind' = "device" /\ Settled' =>
     NextRestart' = Restart(asr', cursor', checkpoint', unfinished', count')
<1>1. (BaseInv /\ kind = "device" /\ Settled =>
         NextRestart = Restart(asr, cursor, checkpoint, unfinished, count))'
  BY NextRestartIs, PTL
<1> QED
  BY <1>1

\* NothingLeftBehind, in the terms of the lemmas on what is kept.
LEMMA KeptIs ==
  NothingLeftBehind <=> KeptTo(voice, fragments, reopened, count, NextRestart)
BY DEF NothingLeftBehind, KeptTo, Transcribed, Hidden, HiddenBy, Backlog, BacklogHides

LEMMA KeptIsNext ==
  NothingLeftBehind' <=> KeptTo(voice', fragments', reopened', count', NextRestart')
<1>1. (NothingLeftBehind <=> KeptTo(voice, fragments, reopened, count, NextRestart))'
  BY KeptIs, PTL
<1> QED
  BY <1>1

\* It is at most the cursor and every marker.
LEMMA RestartBounds ==
  ASSUME NEW c, NEW at \in Nat, NEW behind \in SUBSET Nat, NEW marker \in SUBSET Nat, NEW samples \in Nat
  PROVE  /\ Restart(c, at, behind, marker, samples) \in Nat
         /\ Restart(c, at, behind, marker, samples) <= at
         /\ c # "COMPLETE" => \A n \in behind \cup marker : Restart(c, at, behind, marker, samples) <= n
<1>1. at <= at
  OBVIOUS
<1> QED
  BY <1>1, LowPointIs DEF Restart

\* It moves back with the cursor.
LEMMA RestartLower ==
  ASSUME NEW c, NEW at \in Nat, NEW at2 \in Nat, at2 <= at,
         NEW behind \in SUBSET Nat, NEW marker \in SUBSET Nat, NEW samples \in Nat
  PROVE  Restart(c, at2, behind, marker, samples) <= Restart(c, at, behind, marker, samples)
<1> DEFINE r == LowPoint(at, behind, marker, samples)
           r2 == LowPoint(at2, behind, marker, samples)
<1>1. /\ r \in Nat /\ r <= at
      /\ \/ r = at \/ r \in behind \/ r \in marker
         \/ marker = {} /\ r = WindowStart(samples)
  BY LowPointIs
<1>2. /\ r2 \in Nat /\ r2 <= at2 /\ \A n \in behind : r2 <= n
      /\ \A n \in marker : r2 <= n
      /\ marker = {} => r2 <= WindowStart(samples)
  BY LowPointIs
<1> HIDE DEF r, r2
<1>3. r2 <= r
  BY <1>1, <1>2
<1> QED
  BY <1>3 DEF Restart, r, r2

\* The finalization checkpoint is where it would begin anyhow.
LEMMA BeginKeepsLowPoint ==
  ASSUME NEW at \in Nat, NEW behind \in SUBSET Nat, NEW marker \in SUBSET Nat, NEW samples \in Nat,
         NEW c \in Nat, \A n \in behind \cup marker : c <= n,
         marker = {} => c <= WindowStart(samples),
         \/ c \in behind \cup marker
         \/ marker = {} /\ c = WindowStart(samples)
  PROVE  /\ LowPoint(at, {c}, marker, samples) = LowPoint(at, behind, marker, samples)
         /\ LeastOf({at} \cup marker \cup {c}) = LowPoint(at, {c}, marker, samples)
         /\ LowPoint(at, {c}, marker, samples) = IF c <= at THEN c ELSE at
<1> DEFINE l == IF c <= at THEN c ELSE at
           S == {at} \cup behind \cup (IF marker # {} THEN marker ELSE {WindowStart(samples)})
           T == {at} \cup {c} \cup (IF marker # {} THEN marker ELSE {WindowStart(samples)})
           U == {at} \cup marker \cup {c}
<1>0. WindowStart(samples) \in Nat
  BY LowPointIs
<1>1. S \in SUBSET Nat /\ T \in SUBSET Nat /\ U \in SUBSET Nat
  BY <1>0
<1>2. l \in Nat /\ l <= at /\ l <= c /\ l \in {at, c}
  OBVIOUS
<1>3. l \in S
  <2>1. CASE c <= at
    BY <2>1
  <2>2. CASE ~(c <= at)
    BY <2>2
  <2> QED
    BY <2>1, <2>2
<1>4. l \in T /\ l \in U
  BY <1>2
<1> HIDE DEF l
<1>5. \A n \in S : l <= n
  BY <1>0, <1>2
<1>6. \A n \in T : l <= n
  BY <1>0, <1>2
<1>7. \A n \in U : l <= n
  BY <1>2
<1>8. LeastOf(S) = l /\ LeastOf(T) = l /\ LeastOf(U) = l
  BY <1>1, <1>3, <1>4, <1>5, <1>6, <1>7, LeastIs
<1>9. S = {at} \cup behind \cup (IF marker # {} THEN marker ELSE {WindowStart(samples)})
  OBVIOUS
<1>10. T = {at} \cup {c} \cup (IF marker # {} THEN marker ELSE {WindowStart(samples)})
  OBVIOUS
<1>11. U = {at} \cup marker \cup {c}
  OBVIOUS
<1> HIDE DEF S, T, U
<1>12. LowPoint(at, behind, marker, samples) = l
  BY <1>8, <1>9 DEF LowPoint
<1>13. LowPoint(at, {c}, marker, samples) = l
  BY <1>8, <1>10 DEF LowPoint
<1>14. LeastOf({at} \cup marker \cup {c}) = l
  BY <1>8, <1>11
<1> QED
  BY <1>12, <1>13, <1>14 DEF l

\* Beginning a finalization leaves it where it was.
LEMMA BeginKeepsRestart ==
  ASSUME BaseInv, kind = "device", Settled, asr # "COMPLETE", BeginFinalization, count' = count
  PROVE  /\ Restart(asr', cursor', checkpoint', unfinished', count') = NextRestart
         /\ asr' = "FINALIZING" /\ cursor' = cursor /\ unfinished' = unfinished
         /\ \E c \in Nat : /\ checkpoint' = {c} /\ \A n \in checkpoint \cup unfinished : c <= n
                          /\ NextRestart = IF c <= cursor THEN c ELSE cursor
         /\ LeastOf({cursor'} \cup unfinished' \cup checkpoint') = NextRestart
<1>1. /\ asr' = "FINALIZING" /\ cursor' = cursor /\ unfinished' = unfinished
      /\ \E c \in Positions :
              /\ checkpoint' = {c}
              /\ \A n \in checkpoint : c <= n
              /\ \A n \in unfinished : c <= n
              /\ unfinished = {} => c <= WindowStart(count)
              /\ \/ c \in checkpoint \/ c \in unfinished
                 \/ unfinished = {} /\ c = WindowStart(count)
  BY BeginIs DEF BaseInv, TypeOK
<1>2. PICK c \in Positions :
              /\ checkpoint' = {c}
              /\ \A n \in checkpoint \cup unfinished : c <= n
              /\ unfinished = {} => c <= WindowStart(count)
              /\ \/ c \in checkpoint \cup unfinished
                 \/ unfinished = {} /\ c = WindowStart(count)
  BY <1>1
<1>3. /\ cursor \in Nat /\ checkpoint \in SUBSET Nat /\ unfinished \in SUBSET Nat
      /\ count \in Nat /\ c \in Nat
  BY WhereIs, Room
<1>4. /\ LowPoint(cursor, {c}, unfinished, count) = LowPoint(cursor, checkpoint, unfinished, count)
      /\ LeastOf({cursor} \cup unfinished \cup {c}) = LowPoint(cursor, {c}, unfinished, count)
      /\ LowPoint(cursor, {c}, unfinished, count) = IF c <= cursor THEN c ELSE cursor
  <2>1. \A n \in checkpoint \cup unfinished : c <= n
    BY <1>2
  <2>2. unfinished = {} => c <= WindowStart(count)
    BY <1>2
  <2>3. \/ c \in checkpoint \cup unfinished
        \/ unfinished = {} /\ c = WindowStart(count)
    BY <1>2
  <2> QED
    BY <1>3, <2>1, <2>2, <2>3, BeginKeepsLowPoint
<1>5. NextRestart = LowPoint(cursor, checkpoint, unfinished, count)
  BY NextRestartIs DEF Restart
<1>6. Restart(asr', cursor', checkpoint', unfinished', count') = LowPoint(cursor, {c}, unfinished, count)
  BY <1>1, <1>2 DEF Restart
<1> QED
  BY <1>1, <1>2, <1>3, <1>4, <1>5, <1>6

--------------------------------------------------------------------------------
(* The recording of a device: its loop and its finish.                      *)

\* The recording of a device takes no other step.
LEMMA DeviceSteps ==
  ASSUME BaseInv, kind = "device", DeviceControl, Next
  PROVE  \/ FrameArrives \/ Store \/ QueueStored \/ StoreFails \/ Stop \/ FinishBlocked
         \/ FinishBegins \/ FinishReads \/ FinishSeals \/ FinishFails \/ FinishQueued \/ TakeTask
         \/ SkipRange \/ RefuseRange \/ Hear \/ HearFails \/ CommitFinal \/ Advance
         \/ RangeFails \/ SkipFinish \/ EnsureFinalizing \/ FlushSession \/ CompleteAsr \/ FinishErrs
         \/ Crash \/ NothingToRecover \/ BootBegins \/ BootSeals \/ BootFails \/ BootQueues
<1>1. feed.at \in {"idle", "live", "stored"} /\ ~Resumable
  BY DEF DeviceControl, FeedOfLoop, Resumable
<1>2. ~BrowserGivesUp /\ ~ReplayArrives /\ ~CompletionArrives
  BY DEF BrowserGivesUp, ReplayArrives, CompletionArrives, CanRecover
<1>3. ~ReplayDrains /\ ~ReplayRebases /\ ~ReplayStores /\ ~ReplayQueued
  BY <1>1 DEF ReplayDrains, ReplayRebases, ReplayStores, ReplayQueued
<1>4. ~CompletionDrains /\ ~CompletionBegins /\ ~CompletionSeals /\ ~CompletionQueued
      /\ ~RecoveryFails
  BY <1>1 DEF CompletionDrains, CompletionBegins, CompletionSeals, CompletionQueued, RecoveryFails
<1>5. ~BootResumes /\ ~ResumeFails /\ ~RebindFails
  BY <1>1 DEF BootResumes, ResumeFails, RebindFails
<1> QED
  BY <1>2, <1>3, <1>4, <1>5
     DEF Next, CaptureLoop, FeedCall, Recognition, Boot, Environment, Failure

\* Nothing happens to a capture that is complete, but restarts.
LEMMA Over ==
  ASSUME BaseInv, kind = "device", Settled, DeviceControl, asr = "COMPLETE", Next
  PROVE  Crash \/ NothingToRecover
<1>0. /\ cursor = count /\ unfinished = {} /\ checkpoint = {} /\ rec # "CAPTURING" /\ loop = "stopped"
      /\ queue = <<>> /\ task = Idle /\ task.kind = "none" /\ task.stage = "none"
      /\ feed.at = "idle" /\ up \in {"down", "up"} /\ ~NeedsAsr
  <2>1. cursor = count /\ unfinished = {} /\ checkpoint = {} /\ rec # "CAPTURING" /\ loop = "stopped"
        /\ Drained /\ up \in {"down", "up"}
    BY DEF Settled
  <2>2. ~NeedsAsr
    BY <2>1, WhereIs DEF NeedsAsr
  <2>3. feed.at = "idle"
    BY <2>1 DEF DeviceControl, FeedOfLoop
  <2> QED
    BY <2>1, <2>2, <2>3, EmptyHanded DEF Drained
<1>1. CASE FrameArrives
  BY <1>1, <1>0 DEF FrameArrives
<1>2. CASE Store
  BY <1>2, <1>0 DEF Store
<1>3. CASE QueueStored
  BY <1>3, <1>0 DEF QueueStored
<1>4. CASE StoreFails
  BY <1>4, <1>0 DEF StoreFails, MarkStorageError
<1>5. CASE Stop
  BY <1>5, <1>0 DEF Stop
<1>6. CASE FinishBlocked
  BY <1>6, <1>0 DEF FinishBlocked
<1>7. CASE FinishBegins
  BY <1>7, <1>0 DEF FinishBegins, BeginFinalization
<1>8. CASE FinishReads
  BY <1>8, <1>0 DEF FinishReads
<1>9. CASE FinishSeals
  BY <1>9, <1>0 DEF FinishSeals
<1>10. CASE FinishFails
  BY <1>10, <1>0 DEF FinishFails, MarkStorageError
<1>11. CASE FinishQueued
  BY <1>11, <1>0 DEF FinishQueued
<1>12. CASE TakeTask
  BY <1>12, <1>0 DEF TakeTask, InHand
<1>13. CASE SkipRange
  BY <1>13, <1>0 DEF SkipRange, RangeTaken
<1>14. CASE RefuseRange
  BY <1>14, <1>0 DEF RefuseRange, RangeTaken
<1>15. CASE Hear
  BY <1>15, <1>0 DEF Hear, CanHear, RangeTaken
<1>16. CASE HearFails
  BY <1>16, <1>0 DEF HearFails, CanHear, RangeTaken
<1>17. CASE CommitFinal
  BY <1>17, <1>0 DEF CommitFinal
<1>18. CASE Advance
  BY <1>18, <1>0 DEF Advance
<1>19. CASE RangeFails
  BY <1>19, <1>0 DEF RangeFails
<1>20. CASE SkipFinish
  BY <1>20, <1>0 DEF SkipFinish, FinishTaken, EndFinish
<1>21. CASE EnsureFinalizing
  BY <1>21, <1>0 DEF EnsureFinalizing, FinishTaken, BeginFinalization
<1>22. CASE FlushSession
  BY <1>22, <1>0 DEF FlushSession
<1>23. CASE CompleteAsr
  BY <1>23, <1>0 DEF CompleteAsr, EndFinish
<1>24. CASE FinishErrs
  BY <1>24, <1>0 DEF FinishErrs, FinishTaken, EndFinish
<1>25. CASE Crash
  BY <1>25
<1>26. CASE NothingToRecover
  BY <1>26
<1>27. CASE BootBegins
  BY <1>27, <1>0 DEF BootBegins, BeginFinalization
<1>28. CASE BootSeals
  BY <1>28, <1>0 DEF BootSeals
<1>29. CASE BootFails
  BY <1>29, <1>0 DEF BootFails, MarkStorageError
<1>30. CASE BootQueues
  BY <1>30, <1>0 DEF BootQueues
<1> QED
  BY <1>1, <1>2, <1>3, <1>4, <1>5, <1>6, <1>7, <1>8, <1>9, <1>10, <1>11, <1>12, <1>13, <1>14, <1>15, <1>16, <1>17, <1>18, <1>19, <1>20, <1>21, <1>22, <1>23, <1>24, <1>25, <1>26, <1>27, <1>28, <1>29, <1>30, DeviceSteps

\* A capture that is complete stays settled, and is only called complete when it is.
LEMMA SettledStep ==
  ASSUME BaseInv, Quiet, InRecovery, kind = "device", Settled, DeviceControl, LastWords, Next
  PROVE  Settled'
<1>1. CASE asr = "COMPLETE"
  <2>1. Crash \/ NothingToRecover
    BY <1>1, Over
  <2>2. CASE Crash
    <3>1. /\ queue' = <<>> /\ task' = Idle /\ session' = Closed /\ loop' = "stopped" /\ up' = "down"
          /\ UNCHANGED <<asr, cursor, count, unfinished, checkpoint, rec>>
      BY <2>2 DEF Crash, capture, progress
    <3> QED
      BY <1>1, <3>1, EmptyHanded DEF Settled, Drained
  <2>3. CASE NothingToRecover
    <3>1. /\ up' = "up"
          /\ UNCHANGED <<asr, cursor, count, unfinished, checkpoint, rec, session, queue, task, loop>>
      BY <2>3 DEF NothingToRecover, capture, progress, worker
    <3> QED
      BY <1>1, <3>1 DEF Settled, Drained
  <2> QED
    BY <2>1, <2>2, <2>3
<1>2. CASE asr # "COMPLETE" /\ CompleteAsr
  <2>1. /\ FinishHeard /\ task.finals = {} /\ task' = Idle /\ session' = Closed
        /\ cursor' = task.end /\ unfinished' = task.open /\ checkpoint' = {}
        /\ UNCHANGED <<count, rec, queue, loop, up>>
    BY <1>2 DEF CompleteAsr, EndFinish, FinishHeard, capture
  <2>2. task.end = count /\ task.open = {} /\ loop = "stopped" /\ queue = <<>>
    BY <2>1 DEF LastWords
  <2>3. up = "up"
    BY <2>1, Working DEF FinishHeard
  <2>4. rec # "CAPTURING"
    BY <2>2, <2>3 DEF InRecovery
  <2> QED
    BY <2>1, <2>2, <2>3, <2>4, EmptyHanded DEF Settled, Drained
<1>3. CASE asr # "COMPLETE" /\ ~CompleteAsr
  <2> SUFFICES asr' # "COMPLETE"
    BY DEF Settled
  <2>1. CASE FrameArrives
    BY <1>3, <2>1 DEF FrameArrives, progress
  <2>2. CASE Store
    BY <1>3, <2>2 DEF Store, progress
  <2>3. CASE QueueStored
    BY <1>3, <2>3 DEF QueueStored, progress
  <2>4. CASE StoreFails
    BY <1>3, <2>4 DEF StoreFails, progress
  <2>5. CASE Stop
    BY <1>3, <2>5 DEF Stop, progress
  <2>6. CASE FinishBlocked
    BY <1>3, <2>6 DEF FinishBlocked, progress
  <2>7. CASE FinishBegins
    BY <1>3, <2>7 DEF FinishBegins, BeginFinalization, progress
  <2>8. CASE FinishReads
    BY <1>3, <2>8 DEF FinishReads, progress
  <2>9. CASE FinishSeals
    BY <1>3, <2>9 DEF FinishSeals, progress
  <2>10. CASE FinishFails
    BY <1>3, <2>10 DEF FinishFails, progress
  <2>11. CASE FinishQueued
    BY <1>3, <2>11 DEF FinishQueued, progress
  <2>12. CASE TakeTask
    BY <1>3, <2>12 DEF TakeTask, progress
  <2>13. CASE SkipRange
    BY <1>3, <2>13 DEF SkipRange, progress
  <2>14. CASE RefuseRange
    BY <1>3, <2>14 DEF RefuseRange, progress
  <2>15. CASE Hear
    BY <1>3, <2>15 DEF Hear, progress
  <2>16. CASE HearFails
    BY <1>3, <2>16 DEF HearFails, progress
  <2>17. CASE CommitFinal
    BY <1>3, <2>17 DEF CommitFinal, progress
  <2>18. CASE Advance
    BY <1>3, <2>18 DEF Advance, progress
  <2>19. CASE RangeFails
    BY <1>3, <2>19 DEF RangeFails, progress
  <2>20. CASE SkipFinish
    BY <1>3, <2>20 DEF SkipFinish, progress
  <2>21. CASE EnsureFinalizing
    BY <1>3, <2>21 DEF EnsureFinalizing, FinishTaken, BeginFinalization, progress
  <2>22. CASE FlushSession
    BY <1>3, <2>22 DEF FlushSession, progress
  <2>23. CASE CompleteAsr
    BY <1>3, <2>23
  <2>24. CASE FinishErrs
    BY <1>3, <2>24 DEF FinishErrs, progress
  <2>25. CASE Crash
    BY <1>3, <2>25 DEF Crash, progress
  <2>26. CASE NothingToRecover
    BY <1>3, <2>26 DEF NothingToRecover, progress
  <2>27. CASE BootBegins
    BY <1>3, <2>27 DEF BootBegins, BeginFinalization, progress
  <2>28. CASE BootSeals
    BY <1>3, <2>28 DEF BootSeals, progress
  <2>29. CASE BootFails
    BY <1>3, <2>29 DEF BootFails, progress
  <2>30. CASE BootQueues
    BY <1>3, <2>30 DEF BootQueues, progress
  <2> QED
    BY <2>1, <2>2, <2>3, <2>4, <2>5, <2>6, <2>7, <2>8, <2>9, <2>10, <2>11, <2>12, <2>13, <2>14, <2>15, <2>16, <2>17, <2>18, <2>19, <2>20, <2>21, <2>22, <2>23, <2>24, <2>25, <2>26, <2>27, <2>28, <2>29, <2>30, DeviceSteps
<1> QED
  BY <1>1, <1>2, <1>3
LEMMA FeedOfLoopStep ==
  ASSUME BaseInv, Quiet, kind = "device", DeviceControl, Next
  PROVE  FeedOfLoop'
<1>0. FeedOfLoop
  BY DEF DeviceControl
<1>1. CASE FrameArrives
  BY <1>0, <1>1 DEF FrameArrives, FeedOfLoop, BaseInv, TypeOK, env, capture, progress, memory, worker, NoCall
<1>2. CASE Store
  BY <1>0, <1>2 DEF Store, FeedOfLoop, BaseInv, TypeOK, env, capture, progress, memory, worker, NoCall
<1>3. CASE QueueStored
  BY <1>0, <1>3 DEF QueueStored, FeedOfLoop, BaseInv, TypeOK, env, capture, progress, memory, worker, NoCall
<1>4. CASE StoreFails
  BY <1>0, <1>4 DEF StoreFails, MarkStorageError, FeedOfLoop, BaseInv, TypeOK, env, capture, progress, memory, worker, NoCall
<1>5. CASE Stop
  BY <1>0, <1>5 DEF Stop, FeedOfLoop, BaseInv, TypeOK, env, capture, progress, memory, worker, NoCall
<1>6. CASE FinishBlocked
  BY <1>0, <1>6 DEF FinishBlocked, FeedOfLoop, BaseInv, TypeOK, env, capture, progress, memory, worker, NoCall
<1>7. CASE FinishBegins
  BY <1>0, <1>7 DEF FinishBegins, BeginFinalization, FeedOfLoop, BaseInv, TypeOK, env, capture, progress, memory, worker, NoCall
<1>8. CASE FinishReads
  BY <1>0, <1>8 DEF FinishReads, FeedOfLoop, BaseInv, TypeOK, env, capture, progress, memory, worker, NoCall
<1>9. CASE FinishSeals
  BY <1>0, <1>9 DEF FinishSeals, FeedOfLoop, BaseInv, TypeOK, env, capture, progress, memory, worker, NoCall
<1>10. CASE FinishFails
  BY <1>0, <1>10 DEF FinishFails, MarkStorageError, FeedOfLoop, BaseInv, TypeOK, env, capture, progress, memory, worker, NoCall
<1>11. CASE FinishQueued
  BY <1>0, <1>11 DEF FinishQueued, FeedOfLoop, BaseInv, TypeOK, env, capture, progress, memory, worker, NoCall
<1>12. CASE TakeTask
  <2>1. UNCHANGED <<feed, loop, count>>
    BY <1>0, <1>12 DEF TakeTask, capture
  <2> QED
    BY <1>0, <2>1 DEF FeedOfLoop
<1>13. CASE SkipRange
  BY <1>0, <1>13 DEF SkipRange, RangeTaken, FeedOfLoop, BaseInv, TypeOK, env, capture, progress, memory, worker, NoCall
<1>14. CASE RefuseRange
  BY <1>0, <1>14 DEF RefuseRange, RangeTaken, FeedOfLoop, BaseInv, TypeOK, env, capture, progress, memory, worker, NoCall
<1>15. CASE Hear
  <2>1. UNCHANGED <<feed, loop, count>>
    BY <1>0, <1>15 DEF Hear, capture
  <2> QED
    BY <1>0, <2>1 DEF FeedOfLoop
<1>16. CASE HearFails
  <2>1. UNCHANGED <<feed, loop, count>>
    BY <1>0, <1>16 DEF HearFails, capture
  <2> QED
    BY <1>0, <2>1 DEF FeedOfLoop
<1>17. CASE CommitFinal
  <2>1. UNCHANGED <<feed, loop, count>>
    BY <1>0, <1>17 DEF CommitFinal, capture
  <2> QED
    BY <1>0, <2>1 DEF FeedOfLoop
<1>18. CASE Advance
  <2>1. UNCHANGED <<feed, loop, count>>
    BY <1>0, <1>18 DEF Advance, capture
  <2> QED
    BY <1>0, <2>1 DEF FeedOfLoop
<1>19. CASE RangeFails
  BY <1>0, <1>19 DEF RangeFails, FeedOfLoop, BaseInv, TypeOK, env, capture, progress, memory, worker, NoCall
<1>20. CASE SkipFinish
  BY <1>0, <1>20 DEF SkipFinish, FinishTaken, EndFinish, FeedOfLoop, BaseInv, TypeOK, env, capture, progress, memory, worker, NoCall
<1>21. CASE EnsureFinalizing
  <2>1. UNCHANGED <<feed, loop, count>>
    BY <1>0, <1>21 DEF EnsureFinalizing, capture
  <2> QED
    BY <1>0, <2>1 DEF FeedOfLoop
<1>22. CASE FlushSession
  <2>1. UNCHANGED <<feed, loop, count>>
    BY <1>0, <1>22 DEF FlushSession, capture
  <2> QED
    BY <1>0, <2>1 DEF FeedOfLoop
<1>23. CASE CompleteAsr
  BY <1>0, <1>23 DEF CompleteAsr, EndFinish, FeedOfLoop, BaseInv, TypeOK, env, capture, progress, memory, worker, NoCall
<1>24. CASE FinishErrs
  BY <1>0, <1>24 DEF FinishErrs, FinishTaken, EndFinish, FeedOfLoop, BaseInv, TypeOK, env, capture, progress, memory, worker, NoCall
<1>25. CASE Crash
  BY <1>0, <1>25 DEF Crash, FeedOfLoop, BaseInv, TypeOK, env, capture, progress, memory, worker, NoCall
<1>26. CASE NothingToRecover
  BY <1>0, <1>26 DEF NothingToRecover, FeedOfLoop, BaseInv, TypeOK, env, capture, progress, memory, worker, NoCall
<1>27. CASE BootBegins
  BY <1>0, <1>27 DEF BootBegins, BeginFinalization, FeedOfLoop, BaseInv, TypeOK, env, capture, progress, memory, worker, NoCall
<1>28. CASE BootSeals
  BY <1>0, <1>28 DEF BootSeals, FeedOfLoop, BaseInv, TypeOK, env, capture, progress, memory, worker, NoCall
<1>29. CASE BootFails
  BY <1>0, <1>29 DEF BootFails, MarkStorageError, FeedOfLoop, BaseInv, TypeOK, env, capture, progress, memory, worker, NoCall
<1>30. CASE BootQueues
  BY <1>0, <1>30 DEF BootQueues, FeedOfLoop, BaseInv, TypeOK, env, capture, progress, memory, worker, NoCall
<1> QED
  BY <1>1, <1>2, <1>3, <1>4, <1>5, <1>6, <1>7, <1>8, <1>9, <1>10, <1>11, <1>12, <1>13, <1>14, <1>15, <1>16, <1>17, <1>18, <1>19, <1>20, <1>21, <1>22, <1>23, <1>24, <1>25, <1>26, <1>27, <1>28, <1>29, <1>30, DeviceSteps

\* The recognition is left alone.
LEMMA StaysFirst ==
  ASSUME FirstTime, loop' # "stopped" => loop # "stopped",
         UNCHANGED <<up, task, asrCursor, cursor, session, unfinished, queue>>
  PROVE  FirstTime'
BY DEF FirstTime

\* The recognition leaves a range.
LEMMA LeavingKeepsFirst ==
  ASSUME BaseInv, InStep, FirstTime, task' = Idle, UNCHANGED <<loop, up, queue, unfinished>>,
         \/ UNCHANGED <<session, asrCursor, cursor>>
         \/ session' = session /\ session.open /\ asrCursor' = {cursor'}
         \/ loop = "stopped"
  PROVE  FirstTime'
BY EmptyHanded DEF FirstTime

\* The recognition hears a range.
LEMMA HearingKeepsFirst ==
  ASSUME BaseInv, FirstTime, Hear \/ HearFails
  PROVE  FirstTime'
<1>1. /\ task'.kind # "finish" /\ UNCHANGED <<loop, up, queue, unfinished>>
      /\ asrCursor' = {task.start} /\ cursor' \in {cursor, Rewound}
      /\ \/ session' = session
         \/ session'.open /\ session'.base = Hearing.base
      /\ CanHear
  <2>1. CASE Hear
    BY <2>1, HearIs DEF CanHear
  <2>2. CASE HearFails
    BY <2>2, HearingIs, EmptyHanded DEF HearFails
  <2> QED
    BY <2>1, <2>2
<1> SUFFICES ASSUME loop # "stopped"
             PROVE  /\ asrCursor' = {cursor'}
                    /\ IF session'.open THEN session'.base = 0 ELSE cursor' = 0 /\ unfinished' = {}
  BY <1>1 DEF FirstTime
<1>2. asrCursor = {cursor}
  BY DEF FirstTime
<1>3. task.start = cursor
  BY <1>1, <1>2 DEF CanHear
<1>4. cursor' = cursor
  BY <1>1, <1>3, HearingIs
<1>5. Hearing.base = 0
  BY <1>3, HearingIs DEF FirstTime
<1> QED
  BY <1>1, <1>3, <1>4, <1>5 DEF FirstTime

\* Before its loop ends a recording is heard for the first time.
LEMMA FirstTimeStep ==
  ASSUME BaseInv, Quiet, InStep, kind = "device", DeviceControl, Next
  PROVE  FirstTime'
<1>0. FirstTime
  BY DEF DeviceControl
<1>1. CASE FrameArrives
  <2>1. /\ loop' # "stopped" => loop # "stopped"
        /\ UNCHANGED <<up, task, asrCursor, cursor, session, unfinished, queue>>
    BY <1>1 DEF FrameArrives, env, capture, progress, memory, worker
  <2> QED
    BY <1>0, <2>1, StaysFirst
<1>2. CASE Store
  <2>1. /\ loop' # "stopped" => loop # "stopped"
        /\ UNCHANGED <<up, task, asrCursor, cursor, session, unfinished, queue>>
    BY <1>2 DEF Store, env, capture, progress, memory, worker
  <2> QED
    BY <1>0, <2>1, StaysFirst
<1>3. CASE QueueStored
  <2> DEFINE t == RangeOf(feed.start, feed.end)
  <2>1. t \in Tasks /\ t.kind = "range" /\ queue \in Seq(Tasks)
    BY RangeIs DEF BaseInv, TypeOK, t
  <2>2. queue' = Append(queue, t)
    BY <1>3, <2>1, OneMore DEF QueueStored, Put
  <2>3. UNCHANGED <<loop, up, task, asrCursor, cursor, session, unfinished>>
    BY <1>3 DEF QueueStored, progress, memory, worker
  <2> HIDE DEF t
  <2>4. \A i \in DOMAIN queue' : (i \in DOMAIN queue /\ queue'[i] = queue[i]) \/ queue'[i] = t
    BY <2>1, <2>2, OneMore
  <2> QED
    BY <1>0, <2>1, <2>3, <2>4 DEF FirstTime
<1>4. CASE StoreFails
  <2>1. /\ loop' # "stopped" => loop # "stopped"
        /\ UNCHANGED <<up, task, asrCursor, cursor, session, unfinished, queue>>
    BY <1>4 DEF StoreFails, MarkStorageError, env, capture, progress, memory, worker
  <2> QED
    BY <1>0, <2>1, StaysFirst
<1>5. CASE Stop
  <2>1. /\ loop' # "stopped" => loop # "stopped"
        /\ UNCHANGED <<up, task, asrCursor, cursor, session, unfinished, queue>>
    BY <1>5 DEF Stop, env, capture, progress, memory, worker
  <2> QED
    BY <1>0, <2>1, StaysFirst
<1>6. CASE FinishBlocked
  <2>1. /\ loop' # "stopped" => loop # "stopped"
        /\ UNCHANGED <<up, task, asrCursor, cursor, session, unfinished, queue>>
    BY <1>6 DEF FinishBlocked, env, capture, progress, memory, worker
  <2> QED
    BY <1>0, <2>1, StaysFirst
<1>7. CASE FinishBegins
  <2>1. /\ loop' # "stopped" => loop # "stopped"
        /\ UNCHANGED <<up, task, asrCursor, cursor, session, unfinished, queue>>
    BY <1>7 DEF FinishBegins, BeginFinalization, env, capture, progress, memory, worker
  <2> QED
    BY <1>0, <2>1, StaysFirst
<1>8. CASE FinishReads
  <2>1. /\ loop' # "stopped" => loop # "stopped"
        /\ UNCHANGED <<up, task, asrCursor, cursor, session, unfinished, queue>>
    BY <1>8 DEF FinishReads, env, capture, progress, memory, worker
  <2> QED
    BY <1>0, <2>1, StaysFirst
<1>9. CASE FinishSeals
  <2>1. /\ loop' # "stopped" => loop # "stopped"
        /\ UNCHANGED <<up, task, asrCursor, cursor, session, unfinished, queue>>
    BY <1>9 DEF FinishSeals, env, capture, progress, memory, worker
  <2> QED
    BY <1>0, <2>1, StaysFirst
<1>10. CASE FinishFails
  <2>1. /\ loop' # "stopped" => loop # "stopped"
        /\ UNCHANGED <<up, task, asrCursor, cursor, session, unfinished, queue>>
    BY <1>10 DEF FinishFails, MarkStorageError, env, capture, progress, memory, worker
  <2> QED
    BY <1>0, <2>1, StaysFirst
<1>11. CASE FinishQueued
  <2>1. loop' = "stopped"
    BY <1>11 DEF FinishQueued
  <2> QED
    BY <1>0, <2>1 DEF FirstTime
<1>12. CASE TakeTask
  <2>1. /\ UNCHANGED <<loop, up, asrCursor, cursor, session, unfinished>>
        /\ task'.kind = Head(queue).kind /\ Head(queue) = queue[1] /\ 1 \in DOMAIN queue
        /\ \A i \in DOMAIN queue' : i + 1 \in DOMAIN queue /\ queue'[i] = queue[i + 1]
    BY <1>12, TakeIs DEF progress, memory, worker
  <2>2. ASSUME loop # "stopped" PROVE task'.kind # "finish" /\ \A i \in DOMAIN queue' : queue'[i].kind = "range"
    BY <1>0, <2>1, <2>2 DEF FirstTime
  <2> QED
    BY <1>0, <2>1, <2>2 DEF FirstTime
<1>13. CASE SkipRange
  <2>1. task' = Idle /\ UNCHANGED <<loop, up, queue, unfinished, session, asrCursor, cursor>>
    BY <1>13 DEF SkipRange, progress, memory, worker
  <2> QED
    BY <1>0, <2>1, LeavingKeepsFirst
<1>14. CASE RefuseRange
  <2>1. task' = Idle /\ UNCHANGED <<loop, up, queue, unfinished, session, asrCursor, cursor>>
    BY <1>14 DEF RefuseRange, progress, memory, worker
  <2> QED
    BY <1>0, <2>1, LeavingKeepsFirst
<1>15. CASE Hear
  BY <1>0, <1>15, HearingKeepsFirst
<1>16. CASE HearFails
  BY <1>0, <1>16, HearingKeepsFirst
<1>17. CASE CommitFinal
  <2>1. task'.kind = task.kind /\ UNCHANGED <<loop, up, asrCursor, cursor, session, unfinished, queue>>
    BY <1>17 DEF CommitFinal, BaseInv, TypeOK, progress, memory, worker
  <2> QED
    BY <1>0, <2>1 DEF FirstTime
<1>18. CASE Advance
  <2>1. /\ task.kind = "range" /\ task.stage = "heard" /\ task' = Idle
        /\ cursor' = (IF cursor > task.end THEN cursor ELSE task.end) /\ asrCursor' = {task.end}
        /\ unfinished' = task.open
        /\ UNCHANGED <<loop, up, queue, session>>
    BY <1>18 DEF Advance, worker
  <2>2. session.open /\ asrCursor = {task.start}
    BY <2>1 DEF InStep
  <2>3. ASSUME loop # "stopped" PROVE cursor' = task.end
    <3>1. cursor = task.start
      BY <1>0, <2>2, <2>3 DEF FirstTime
    <3>2. task.start \in Nat /\ task.end \in Nat /\ task.start < task.end
      BY <2>1, WhereIs
    <3> QED
      BY <2>1, <3>1, <3>2
  <2> QED
    BY <1>0, <2>1, <2>2, <2>3, EmptyHanded DEF FirstTime
<1>19. CASE RangeFails
  <2>1. task' = Idle /\ UNCHANGED <<loop, up, queue, unfinished, session, asrCursor, cursor>>
    BY <1>19 DEF RangeFails, progress, memory, worker
  <2> QED
    BY <1>0, <2>1, LeavingKeepsFirst
<1>20. CASE SkipFinish
  <2>1. task.kind = "finish" /\ loop' = loop
    BY <1>20 DEF SkipFinish, FinishTaken
  <2> QED
    BY <1>0, <2>1 DEF FirstTime
<1>21. CASE EnsureFinalizing
  <2>1. task.kind = "finish" /\ loop' = loop
    BY <1>21 DEF EnsureFinalizing, FinishTaken
  <2> QED
    BY <1>0, <2>1 DEF FirstTime
<1>22. CASE FlushSession
  <2>1. task.kind = "finish" /\ loop' = loop
    BY <1>22 DEF FlushSession, FinishTaken
  <2> QED
    BY <1>0, <2>1 DEF FirstTime
<1>23. CASE CompleteAsr
  <2>1. task.kind = "finish" /\ loop' = loop
    BY <1>23 DEF CompleteAsr, FinishTaken
  <2> QED
    BY <1>0, <2>1 DEF FirstTime
<1>24. CASE FinishErrs
  <2>1. task.kind = "finish" /\ loop' = loop
    BY <1>24 DEF FinishErrs, FinishTaken
  <2> QED
    BY <1>0, <2>1 DEF FirstTime
<1>25. CASE Crash
  <2>1. loop' = "stopped"
    BY <1>25 DEF Crash
  <2> QED
    BY <1>0, <2>1 DEF FirstTime
<1>26. CASE NothingToRecover
  <2>1. loop' = loop /\ up # "up"
    BY <1>26 DEF NothingToRecover
  <2> QED
    BY <1>0, <2>1 DEF FirstTime, Quiet
<1>27. CASE BootBegins
  <2>1. loop' = loop /\ up # "up"
    BY <1>27 DEF BootBegins
  <2> QED
    BY <1>0, <2>1 DEF FirstTime, Quiet
<1>28. CASE BootSeals
  <2>1. loop' = loop /\ up # "up"
    BY <1>28 DEF BootSeals
  <2> QED
    BY <1>0, <2>1 DEF FirstTime, Quiet
<1>29. CASE BootFails
  <2>1. loop' = loop /\ up # "up"
    BY <1>29 DEF BootFails
  <2> QED
    BY <1>0, <2>1 DEF FirstTime, Quiet
<1>30. CASE BootQueues
  <2>1. loop' = loop /\ up # "up"
    BY <1>30 DEF BootQueues
  <2> QED
    BY <1>0, <2>1 DEF FirstTime, Quiet
<1> QED
  BY <1>1, <1>2, <1>3, <1>4, <1>5, <1>6, <1>7, <1>8, <1>9, <1>10, <1>11, <1>12, <1>13, <1>14, <1>15, <1>16, <1>17, <1>18, <1>19, <1>20, <1>21, <1>22, <1>23, <1>24, <1>25, <1>26, <1>27, <1>28, <1>29, <1>30, DeviceSteps

\* A finish is not disturbed.
LEMMA EndingStep ==
  ASSUME BaseInv, Quiet, kind = "device", Settled, DeviceControl, Next
  PROVE  Ending'
<1>0. Ending
  BY DEF DeviceControl
<1>00. FeedOfLoop
  BY DEF DeviceControl
<1>01. FirstTime
  BY DEF DeviceControl
<1>1. CASE FrameArrives
  BY <1>0, <1>1 DEF FrameArrives, Ending, BaseInv, TypeOK, env, capture, progress, memory, worker, NoCall
<1>2. CASE Store
  BY <1>0, <1>2 DEF Store, Ending, BaseInv, TypeOK, env, capture, progress, memory, worker, NoCall
<1>3. CASE QueueStored
  BY <1>0, <1>3 DEF QueueStored, Ending, BaseInv, TypeOK, env, capture, progress, memory, worker, NoCall
<1>4. CASE StoreFails
  <2>1. loop # "stopped" /\ task' = task
    BY <1>00, <1>4 DEF StoreFails, FeedOfLoop
  <2>2. task.stage # "begun"
    BY <1>01, <2>1 DEF FirstTime, BaseInv, TypeOK, Shape, Idle
  <2> QED
    BY <1>0, <1>00, <1>4, <2>1, <2>2 DEF StoreFails, MarkStorageError, Ending, FeedOfLoop, BaseInv, TypeOK, env, capture, progress, memory, worker, NoCall
<1>5. CASE Stop
  BY <1>0, <1>5 DEF Stop, Ending, BaseInv, TypeOK, env, capture, progress, memory, worker, NoCall
<1>6. CASE FinishBlocked
  <2>1. loop # "stopped" /\ task' = task
    BY <1>00, <1>6 DEF FinishBlocked, FeedOfLoop
  <2>2. task.stage # "begun"
    BY <1>01, <2>1 DEF FirstTime, BaseInv, TypeOK, Shape, Idle
  <2> QED
    BY <1>0, <1>00, <1>6, <2>1, <2>2 DEF FinishBlocked, Ending, FeedOfLoop, BaseInv, TypeOK, env, capture, progress, memory, worker, NoCall
<1>7. CASE FinishBegins
  <2>1. loop # "stopped" /\ task' = task
    BY <1>00, <1>7 DEF FinishBegins, FeedOfLoop
  <2>2. task.stage # "begun"
    BY <1>01, <2>1 DEF FirstTime, BaseInv, TypeOK, Shape, Idle
  <2> QED
    BY <1>0, <1>00, <1>7, <2>1, <2>2 DEF FinishBegins, BeginFinalization, Ending, FeedOfLoop, BaseInv, TypeOK, env, capture, progress, memory, worker, NoCall
<1>8. CASE FinishReads
  BY <1>0, <1>8 DEF FinishReads, Ending, BaseInv, TypeOK, env, capture, progress, memory, worker, NoCall
<1>9. CASE FinishSeals
  BY <1>0, <1>9 DEF FinishSeals, Ending, BaseInv, TypeOK, env, capture, progress, memory, worker, NoCall
<1>10. CASE FinishFails
  <2>1. loop # "stopped" /\ task' = task
    BY <1>00, <1>10 DEF FinishFails, FeedOfLoop
  <2>2. task.stage # "begun"
    BY <1>01, <2>1 DEF FirstTime, BaseInv, TypeOK, Shape, Idle
  <2> QED
    BY <1>0, <1>00, <1>10, <2>1, <2>2 DEF FinishFails, MarkStorageError, Ending, FeedOfLoop, BaseInv, TypeOK, env, capture, progress, memory, worker, NoCall
<1>11. CASE FinishQueued
  BY <1>0, <1>11 DEF FinishQueued, Ending, BaseInv, TypeOK, env, capture, progress, memory, worker, NoCall
<1>12. CASE TakeTask
  <2>1. task'.stage # "begun" /\ UNCHANGED <<loop, up, storageError>> /\ (blocked => blocked')
    BY <1>12, TakeIs, EmptyHanded DEF TakeTask, InHand, BaseInv, TypeOK, env, capture, progress, memory, worker, NoCall
  <2> QED
    BY <1>0, <2>1 DEF Ending
<1>13. CASE SkipRange
  <2>1. task'.stage # "begun" /\ UNCHANGED <<loop, up, storageError>> /\ (blocked => blocked')
    BY <1>13, TakeIs, EmptyHanded DEF SkipRange, RangeTaken, BaseInv, TypeOK, env, capture, progress, memory, worker, NoCall
  <2> QED
    BY <1>0, <2>1 DEF Ending
<1>14. CASE RefuseRange
  <2>1. task'.stage # "begun" /\ UNCHANGED <<loop, up, storageError>> /\ (blocked => blocked')
    BY <1>14, TakeIs, EmptyHanded DEF RefuseRange, RangeTaken, BaseInv, TypeOK, env, capture, progress, memory, worker, NoCall
  <2> QED
    BY <1>0, <2>1 DEF Ending
<1>15. CASE Hear
  <2>1. task'.stage # "begun" /\ UNCHANGED <<loop, up, storageError, blocked>>
    BY <1>15, HearIs
  <2> QED
    BY <1>0, <2>1 DEF Ending
<1>16. CASE HearFails
  <2>1. task'.stage # "begun" /\ UNCHANGED <<loop, up, storageError>> /\ blocked'
    BY <1>16, EmptyHanded DEF HearFails
  <2> QED
    BY <1>0, <2>1 DEF Ending
<1>17. CASE CommitFinal
  <2>1. task'.stage # "begun" /\ UNCHANGED <<loop, up, storageError, blocked>>
    BY <1>17 DEF CommitFinal, BaseInv, TypeOK, env, capture, progress, memory, worker, NoCall
  <2> QED
    BY <1>0, <2>1 DEF Ending
<1>18. CASE Advance
  <2>1. task'.stage # "begun" /\ UNCHANGED <<loop, up, storageError>> /\ (blocked => blocked')
    BY <1>18, TakeIs, EmptyHanded DEF Advance, BaseInv, TypeOK, env, capture, progress, memory, worker, NoCall
  <2> QED
    BY <1>0, <2>1 DEF Ending
<1>19. CASE RangeFails
  <2>1. task'.stage # "begun" /\ UNCHANGED <<loop, up, storageError>> /\ (blocked => blocked')
    BY <1>19, TakeIs, EmptyHanded DEF RangeFails, BaseInv, TypeOK, env, capture, progress, memory, worker, NoCall
  <2> QED
    BY <1>0, <2>1 DEF Ending
<1>20. CASE SkipFinish
  <2>1. task'.stage # "begun" /\ UNCHANGED <<loop, up, storageError>> /\ (blocked => blocked')
    BY <1>20, TakeIs, EmptyHanded DEF SkipFinish, FinishTaken, EndFinish, BaseInv, TypeOK, env, capture, progress, memory, worker, NoCall
  <2> QED
    BY <1>0, <2>1 DEF Ending
<1>21. CASE EnsureFinalizing
  BY <1>0, <1>21 DEF EnsureFinalizing, FinishTaken, BeginFinalization, Ending, BaseInv, TypeOK, env, capture, progress, memory, worker, NoCall
<1>22. CASE FlushSession
  <2>1. task'.stage # "begun" /\ UNCHANGED <<loop, up, storageError, blocked>>
    BY <1>22, FlushIs DEF memory
  <2> QED
    BY <1>0, <2>1 DEF Ending
<1>23. CASE CompleteAsr
  <2>1. task'.stage # "begun" /\ UNCHANGED <<loop, up, storageError>> /\ (blocked => blocked')
    BY <1>23, TakeIs, EmptyHanded DEF CompleteAsr, EndFinish, BaseInv, TypeOK, env, capture, progress, memory, worker, NoCall
  <2> QED
    BY <1>0, <2>1 DEF Ending
<1>24. CASE FinishErrs
  <2>1. task'.stage # "begun" /\ UNCHANGED <<loop, up, storageError>> /\ (blocked => blocked')
    BY <1>24, TakeIs, EmptyHanded DEF FinishErrs, FinishTaken, EndFinish, BaseInv, TypeOK, env, capture, progress, memory, worker, NoCall
  <2> QED
    BY <1>0, <2>1 DEF Ending
<1>25. CASE Crash
  <2>1. task'.stage # "begun" /\ storageError' = FALSE
    BY <1>25, EmptyHanded DEF Crash
  <2> QED
    BY <2>1 DEF Ending
<1>26. CASE NothingToRecover
  <2>1. task'.stage # "begun" /\ up # "up"
    BY <1>26, EmptyHanded DEF NothingToRecover, Quiet
  <2> QED
    BY <1>0, <1>26, <2>1 DEF NothingToRecover, Ending, BaseInv, TypeOK, env, capture, progress, memory, worker, NoCall
<1>27. CASE BootBegins
  <2>1. task'.stage # "begun" /\ up # "up"
    BY <1>27, EmptyHanded DEF BootBegins, Quiet
  <2> QED
    BY <1>0, <1>27, <2>1 DEF BootBegins, BeginFinalization, Ending, BaseInv, TypeOK, env, capture, progress, memory, worker, NoCall
<1>28. CASE BootSeals
  <2>1. task'.stage # "begun" /\ up # "up"
    BY <1>28, EmptyHanded DEF BootSeals, Quiet
  <2> QED
    BY <1>0, <1>28, <2>1 DEF BootSeals, Ending, BaseInv, TypeOK, env, capture, progress, memory, worker, NoCall
<1>29. CASE BootFails
  <2>1. task'.stage # "begun" /\ up # "up"
    BY <1>29, EmptyHanded DEF BootFails, Quiet
  <2> QED
    BY <1>0, <1>29, <2>1 DEF BootFails, MarkStorageError, Ending, BaseInv, TypeOK, env, capture, progress, memory, worker, NoCall
<1>30. CASE BootQueues
  <2>1. task'.stage # "begun" /\ up # "up"
    BY <1>30, EmptyHanded DEF BootQueues, Quiet
  <2> QED
    BY <1>0, <1>30, <2>1 DEF BootQueues, Ending, BaseInv, TypeOK, env, capture, progress, memory, worker, NoCall
<1> QED
  BY <1>1, <1>2, <1>3, <1>4, <1>5, <1>6, <1>7, <1>8, <1>9, <1>10, <1>11, <1>12, <1>13, <1>14, <1>15, <1>16, <1>17, <1>18, <1>19, <1>20, <1>21, <1>22, <1>23, <1>24, <1>25, <1>26, <1>27, <1>28, <1>29, <1>30, DeviceSteps

\* The control of a device's recording is kept.
LEMMA DeviceControlStep ==
  ASSUME BaseInv, Quiet, InStep, kind = "device", Settled, DeviceControl, Next
  PROVE  DeviceControl'
BY FeedOfLoopStep, FirstTimeStep, EndingStep DEF DeviceControl

--------------------------------------------------------------------------------
(* The ranges on their way to recognition.                                  *)

\* The ranges on their way are left alone.
LEMMA StaysChained ==
  ASSUME Chain, UNCHANGED <<queue, asrCursor, up>>, blocked => blocked',
         (loop' = "stopped") <=> (loop = "stopped"), (task' = Idle) <=> (task = Idle),
         Target' = Target, task'.kind = task.kind,
         task.kind = "range" => task'.start = task.start /\ task'.end = task.end,
         task.kind = "finish" => count' = count
  PROVE  Chain'
<1> SUFFICES ASSUME up' = "up", ~blocked', ~Stopped' PROVE
        \E a \in Positions :
            /\ asrCursor' = {a}
            /\ task'.kind = "range" => task'.start = a
            /\ task'.kind = "finish" => a = count' /\ queue' = <<>>
            /\ task'.kind # "finish" => \E q \in Seq(Tasks) :
                  /\ Chained(Ahead(a)', q, Target')
                  /\ queue' = IF loop' = "stopped" THEN Append(q, Finish) ELSE q
  BY DEF Chain
<1>1. up = "up" /\ ~blocked /\ ~Stopped
  BY DEF Stopped, Drained
<1>2. PICK a \in Positions :
            /\ asrCursor = {a}
            /\ task.kind = "range" => task.start = a
            /\ task.kind = "finish" => a = count /\ queue = <<>>
            /\ task.kind # "finish" => \E q \in Seq(Tasks) :
                  /\ Chained(Ahead(a), q, Target)
                  /\ queue = IF loop = "stopped" THEN Append(q, Finish) ELSE q
  BY <1>1 DEF Chain
<1>3. Ahead(a)' = Ahead(a)
  BY DEF Ahead
<1> QED
  BY <1>2, <1>3

\* What the chain says of a capture at work.
ChainOf(a, q) ==
    /\ asrCursor = {a}
    /\ task.kind = "range" => task.start = a
    /\ task.kind = "finish" => a = count /\ queue = <<>>
    /\ task.kind # "finish" => /\ Chained(Ahead(a), q, Target)
                               /\ queue = IF loop = "stopped" THEN Append(q, Finish) ELSE q

\* The chain, with the end that it reaches and its ranges named.
LEMMA ChainIs ==
  Chain <=> (up = "up" /\ ~blocked /\ ~Stopped => \E a \in Positions, q \in Seq(Tasks) : ChainOf(a, q))
<1>1. <<>> \in Seq(Tasks)
  BY EmptySeq
<1>2. ASSUME Chain, up = "up", ~blocked, ~Stopped PROVE \E a \in Positions, q \in Seq(Tasks) : ChainOf(a, q)
  <2>1. PICK a \in Positions :
            /\ asrCursor = {a}
            /\ task.kind = "range" => task.start = a
            /\ task.kind = "finish" => a = count /\ queue = <<>>
            /\ task.kind # "finish" => \E q \in Seq(Tasks) :
                  /\ Chained(Ahead(a), q, Target)
                  /\ queue = IF loop = "stopped" THEN Append(q, Finish) ELSE q
    BY <1>2 DEF Chain
  <2>2. CASE task.kind = "finish"
    <3>1. ChainOf(a, <<>>)
      BY <2>1, <2>2 DEF ChainOf
    <3> QED
      BY <1>1, <3>1
  <2>3. CASE task.kind # "finish"
    <3>1. PICK q \in Seq(Tasks) :
                  /\ Chained(Ahead(a), q, Target)
                  /\ queue = IF loop = "stopped" THEN Append(q, Finish) ELSE q
      BY <2>1, <2>3
    <3>2. ChainOf(a, q)
      BY <2>1, <2>3, <3>1 DEF ChainOf
    <3> QED
      BY <3>2
  <2> QED
    BY <2>2, <2>3
<1>3. ASSUME NEW a \in Positions, NEW q \in Seq(Tasks), ChainOf(a, q) PROVE Chain
  BY <1>3 DEF Chain, ChainOf
<1>4. ~(up = "up" /\ ~blocked /\ ~Stopped) => Chain
  BY DEF Chain
<1> QED
  BY <1>2, <1>3, <1>4

LEMMA ChainIsNext ==
  Chain' <=> (up' = "up" /\ ~blocked' /\ ~Stopped' => \E a \in Positions, q \in Seq(Tasks) : ChainOf(a, q)')
<1>1. (Chain <=> (up = "up" /\ ~blocked /\ ~Stopped => \E a \in Positions, q \in Seq(Tasks) : ChainOf(a, q)))'
  BY ChainIs, PTL
<1> QED
  BY <1>1

\* A stored frame follows the last.
LEMMA QueueStoredKeepsChain ==
  ASSUME BaseInv, kind = "device", DeviceControl, Chain, QueueStored
  PROVE  Chain'
<1>1. /\ feed.at = "stored" /\ feed' = NoCall /\ feed'.at # "stored"
      /\ queue' = queue \o <<RangeOf(feed.start, feed.end)>>
      /\ UNCHANGED <<up, loop, task, asrCursor, blocked, count>>
  BY EmptyHanded DEF QueueStored, Put, capture, memory
<1>2. /\ loop = "recording" /\ feed.end = count /\ task.kind # "finish" /\ feed.start < feed.end
      /\ feed.start \in Positions /\ feed.end \in Positions /\ queue \in Seq(Tasks)
  BY <1>1 DEF DeviceControl, FeedOfLoop, FirstTime, BaseInv, TypeOK, Shape
<1> SUFFICES ASSUME up' = "up", ~blocked' PROVE \E a \in Positions, q \in Seq(Tasks) : ChainOf(a, q)'
  BY ChainIsNext
<1>3. up = "up" /\ ~blocked /\ ~Stopped
  BY <1>1, <1>2 DEF Stopped
<1>4. PICK a \in Positions, q \in Seq(Tasks) : ChainOf(a, q)
  BY <1>3, ChainIs
<1> DEFINE t == RangeOf(feed.start, feed.end)
<1>5. t \in Tasks
  BY <1>2, RangeIs
<1>6. Chained(Ahead(a), q, feed.start) /\ queue = q
  BY <1>1, <1>2, <1>4 DEF ChainOf, Target
<1>7. Chained(Ahead(a), Append(q, t), feed.end) /\ Append(q, t) \in Seq(Tasks)
  BY <1>2, <1>6, ChainGrows
<1>8. queue' = Append(q, t)
  BY <1>1, <1>2, <1>5, <1>6, OneMore
<1>9. Ahead(a)' = Ahead(a) /\ Target' = feed.end
  BY <1>1, <1>2 DEF Ahead, Target
<1>10. PICK p \in Seq(Tasks) : /\ queue' = p /\ Chained(Ahead(a), p, feed.end)
  BY <1>7, <1>8
<1>11. ChainOf(a, p)'
  <2>1. /\ asrCursor' = {a}
        /\ task'.kind = "range" => task'.start = a
        /\ task'.kind # "finish" /\ loop' # "stopped"
    BY <1>1, <1>2, <1>4 DEF ChainOf
  <2> QED
    BY <1>9, <1>10, <2>1 DEF ChainOf
<1> QED
  BY <1>11

\* The finish comes after all audio.
LEMMA FinishQueuedKeepsChain ==
  ASSUME BaseInv, kind = "device", DeviceControl, Chain, FinishQueued
  PROVE  Chain'
<1>1. /\ queue' = queue \o <<Finish>> /\ queue \in Seq(Tasks)
      /\ loop = "finished" /\ loop' = "stopped"
      /\ UNCHANGED <<up, feed, task, asrCursor, blocked, count>>
  BY DEF FinishQueued, Put, capture, memory, BaseInv, TypeOK
<1>2. queue' = Append(queue, Finish)
  BY <1>1, FinishIs, OneMore
<1> SUFFICES ASSUME up' = "up", ~blocked' PROVE \E a \in Positions, q \in Seq(Tasks) : ChainOf(a, q)'
  BY ChainIsNext
<1>3. up = "up" /\ ~blocked /\ ~Stopped /\ task.kind # "finish"
  BY <1>1 DEF Stopped, DeviceControl, FirstTime
<1>4. PICK a \in Positions, q \in Seq(Tasks) : ChainOf(a, q)
  BY <1>3, ChainIs
<1>5. queue = q /\ Chained(Ahead(a), q, Target)
  BY <1>1, <1>3, <1>4 DEF ChainOf
<1>6. Ahead(a)' = Ahead(a) /\ Target' = Target
  BY <1>1 DEF Ahead, Target
<1>7. ChainOf(a, q)'
  BY <1>1, <1>2, <1>3, <1>4, <1>5, <1>6 DEF ChainOf
<1> QED
  BY <1>7

\* The first task is taken.
LEMMA TakingKeepsChain ==
  ASSUME BaseInv, kind = "device", DeviceControl, Chain, TakeTask
  PROVE  Chain'
<1>1. /\ queue # <<>> /\ task = Idle /\ task.kind = "none"
      /\ task'.kind = Head(queue).kind /\ task'.start = Head(queue).start /\ task'.end = Head(queue).end
      /\ queue' = Tail(queue)
      /\ UNCHANGED <<up, loop, feed, asrCursor, blocked, count>>
  BY TakeIs, EmptyHanded DEF capture, memory
<1> SUFFICES ASSUME up' = "up", ~blocked' PROVE \E a \in Positions, q \in Seq(Tasks) : ChainOf(a, q)'
  BY ChainIsNext
<1>2. up = "up" /\ ~blocked /\ ~Stopped
  BY <1>1 DEF Stopped, Drained
<1>3. PICK a \in Positions, q \in Seq(Tasks) : ChainOf(a, q)
  BY <1>2, ChainIs
<1>4. /\ asrCursor = {a} /\ Chained(a, q, Target)
      /\ queue = IF loop = "stopped" THEN Append(q, Finish) ELSE q
  BY <1>1, <1>3 DEF ChainOf, Ahead
<1>5. Target' = Target /\ Target \in Positions
  BY <1>1 DEF Target, BaseInv, TypeOK
<1>6. CASE q = <<>>
  <2>1. loop = "stopped" /\ queue = <<Finish>> /\ Target = a
    <3>1. loop = "stopped"
      BY <1>1, <1>4, <1>6
    <3>2. queue = <<Finish>>
      BY <1>4, <1>6, <3>1
    <3>3. Target = a
      BY <1>4, <1>6 DEF Chained
    <3> QED
      BY <3>1, <3>2, <3>3
  <2>2. Target = count
    BY <2>1 DEF Target, DeviceControl, FeedOfLoop
  <2>3. Head(queue) = Finish /\ Tail(queue) = <<>>
    BY <2>1
  <2>4. task'.kind = "finish" /\ queue' = <<>>
    BY <1>1, <2>3, FinishIs
  <2>5. ChainOf(a, q)'
    BY <1>1, <1>4, <2>1, <2>2, <2>4 DEF ChainOf
  <2> QED
    BY <2>5
<1>7. CASE q # <<>>
  <2>1. /\ Head(q).kind = "range" /\ Head(q).start = a
        /\ Chained(Head(q).end, Tail(q), Target) /\ Tail(q) \in Seq(Tasks)
    BY <1>4, <1>5, <1>7, ChainShrinks
  <2>2. Head(queue) = Head(q) /\ Tail(queue) = IF loop = "stopped" THEN Append(Tail(q), Finish) ELSE Tail(q)
    BY <1>4, <1>7, FinishIs, HeadTailAppend
  <2>3. Ahead(a)' = Head(q).end
    BY <1>1, <2>1, <2>2 DEF Ahead
  <2>4. ChainOf(a, Tail(q))'
    BY <1>1, <1>4, <1>5, <2>1, <2>2, <2>3 DEF ChainOf
  <2> QED
    BY <2>1, <2>4
<1> QED
  BY <1>6, <1>7

\* A range is heard.
LEMMA HearingKeepsChain ==
  ASSUME BaseInv, Chain, Hear
  PROVE  Chain'
<1>1. /\ task.kind = "range" /\ task # Idle
      /\ task'.kind = "range" /\ task'.start = task.start /\ task'.end = task.end
      /\ asrCursor' = {task.start}
      /\ UNCHANGED <<up, loop, feed, queue, blocked, count>>
  BY HearIs, Working DEF CanHear, RangeTaken, capture
<1> SUFFICES ASSUME up' = "up", ~blocked' PROVE \E a \in Positions, q \in Seq(Tasks) : ChainOf(a, q)'
  BY ChainIsNext
<1>2. up = "up" /\ ~blocked /\ ~Stopped
  BY <1>1 DEF Stopped, Drained
<1>3. PICK a \in Positions, q \in Seq(Tasks) : ChainOf(a, q)
  BY <1>2, ChainIs
<1>4. Ahead(a)' = Ahead(a) /\ Target' = Target
  BY <1>1 DEF Ahead, Target
<1>5. ChainOf(a, q)'
  BY <1>1, <1>3, <1>4 DEF ChainOf
<1> QED
  BY <1>5

\* It has been heard.
LEMMA AdvancingKeepsChain ==
  ASSUME BaseInv, Chain, Advance
  PROVE  Chain'
<1>1. /\ task.kind = "range" /\ task # Idle /\ task' = Idle /\ task'.kind = "none"
      /\ asrCursor' = {task.end} /\ task.end \in Positions
      /\ UNCHANGED <<up, loop, feed, queue, blocked, count>>
  BY EmptyHanded, Working DEF Advance, capture, BaseInv, TypeOK
<1> SUFFICES ASSUME up' = "up", ~blocked' PROVE \E a \in Positions, q \in Seq(Tasks) : ChainOf(a, q)'
  BY ChainIsNext
<1>2. up = "up" /\ ~blocked /\ ~Stopped
  BY <1>1 DEF Stopped, Drained
<1>3. PICK a \in Positions, q \in Seq(Tasks) : ChainOf(a, q)
  BY <1>2, ChainIs
<1>4. /\ Chained(task.end, q, Target)
      /\ queue = IF loop = "stopped" THEN Append(q, Finish) ELSE q
  BY <1>1, <1>3 DEF ChainOf, Ahead
<1>5. PICK e \in Positions : e = task.end
  BY <1>1
<1>6. Ahead(e)' = e /\ Target' = Target
  BY <1>1 DEF Ahead, Target
<1>7. ChainOf(e, q)'
  BY <1>1, <1>4, <1>5, <1>6 DEF ChainOf
<1> QED
  BY <1>7

\* A finish that has ended leaves nothing to do.
LEMMA EndingStops ==
  ASSUME BaseInv, kind = "device", DeviceControl, Chain, SkipFinish \/ CompleteAsr \/ FinishErrs
  PROVE  up' = "up" /\ ~blocked' => Stopped'
<1>1. /\ task.kind = "finish" /\ task # Idle /\ task' = Idle /\ UNCHANGED <<up, loop, queue>>
      /\ blocked => blocked'
  <2>1. task.kind = "finish" /\ task' = Idle /\ UNCHANGED <<up, loop, queue>>
    BY DEF SkipFinish, CompleteAsr, FinishErrs, EndFinish, FinishTaken
  <2>2. blocked' = blocked \/ blocked' = (blocked \/ FinishTaken)
    BY DEF SkipFinish, CompleteAsr, FinishErrs, memory
  <2>3. blocked => blocked'
    BY <2>2
  <2>4. task # Idle
    BY <2>1, Working
  <2> QED
    BY <2>1, <2>3, <2>4
<1>2. loop = "stopped"
  BY <1>1 DEF DeviceControl, FirstTime
<1> SUFFICES ASSUME up' = "up", ~blocked' PROVE Stopped'
  OBVIOUS
<1>3. up = "up" /\ ~blocked /\ ~Stopped
  BY <1>1 DEF Stopped, Drained
<1>4. PICK a \in Positions, q \in Seq(Tasks) : ChainOf(a, q)
  BY <1>3, ChainIs
<1>5. queue = <<>>
  BY <1>1, <1>4 DEF ChainOf
<1> QED
  BY <1>1, <1>2, <1>5 DEF Stopped, Drained

\* A restart queues the pieces from the restart point to the end.
LEMMA BootKeepsChain ==
  ASSUME BaseInv, Quiet, BootQueues
  PROVE  Chain'
<1>1. /\ loop' = "stopped" /\ feed' = NoCall /\ task' = Idle
      /\ task'.kind = "none" /\ feed'.at # "stored" /\ count' = count
      /\ asrCursor' = {RestartPoint} /\ queue' = Append(Pieces(RestartPoint, count), Finish)
  BY EmptyHanded DEF BootQueues, Quiet, capture
<1>2. RestartPoint \in Positions /\ count \in Positions /\ RestartPoint <= count
  BY RestartIs DEF BaseInv, TypeOK
<1>3. Pieces(RestartPoint, count) \in Seq(Tasks) /\ Chained(RestartPoint, Pieces(RestartPoint, count), count)
  BY <1>2, PiecesAre
<1>4. Ahead(RestartPoint)' = RestartPoint' /\ RestartPoint' = RestartPoint /\ Target' = count
  <2>1. RestartPoint' = RestartPoint
    BY DEF BootQueues, progress, RestartPoint
  <2> QED
    BY <1>1, <2>1 DEF Ahead, Target
<1> DEFINE r == RestartPoint
           q == Pieces(RestartPoint, count)
<1>5. /\ asrCursor' = {r} /\ queue' = Append(q, Finish) /\ r \in Positions /\ q \in Seq(Tasks)
      /\ Chained(r, q, count)
  BY <1>1, <1>2, <1>3
<1>6. \E a \in Positions, p \in Seq(Tasks) : ChainOf(a, p)'
  <2> HIDE DEF r, q
  <2>1. PICK a \in Positions, p \in Seq(Tasks) :
           asrCursor' = {a} /\ queue' = Append(p, Finish) /\ Chained(a, p, count)
    BY <1>5
  <2>2. Ahead(a)' = a
    BY <1>1 DEF Ahead
  <2>3. ChainOf(a, p)'
    BY <1>1, <1>4, <2>1, <2>2 DEF ChainOf
  <2> QED
    BY <2>3
<1> QED
  BY <1>6, ChainIsNext

\* The ranges on their way stay a chain.
LEMMA ChainStep ==
  ASSUME BaseInv, Quiet, kind = "device", DeviceControl, Chain, Next
  PROVE  Chain'
<1>1. CASE FrameArrives
  <2>1. /\ UNCHANGED <<queue, asrCursor, up, task>> /\ (blocked => blocked')
        /\ (loop' = "stopped") <=> (loop = "stopped")
        /\ Target' = Target
        /\ loop # "stopped"
    BY <1>1 DEF FrameArrives, DeviceControl, FeedOfLoop, env, capture, progress, memory, worker, NoCall, Target, BaseInv, TypeOK
  <2>2. task.kind # "finish"
    BY <2>1 DEF DeviceControl, FirstTime
  <2> QED
    BY <2>1, <2>2, StaysChained
<1>2. CASE Store
  <2>1. /\ UNCHANGED <<queue, asrCursor, up, task>> /\ (blocked => blocked')
        /\ (loop' = "stopped") <=> (loop = "stopped")
        /\ Target' = Target
        /\ loop # "stopped"
    BY <1>2 DEF Store, DeviceControl, FeedOfLoop, env, capture, progress, memory, worker, NoCall, Target, BaseInv, TypeOK
  <2>2. task.kind # "finish"
    BY <2>1 DEF DeviceControl, FirstTime
  <2> QED
    BY <2>1, <2>2, StaysChained
<1>3. CASE QueueStored
  BY <1>3, QueueStoredKeepsChain
<1>4. CASE StoreFails
  <2>1. /\ UNCHANGED <<queue, asrCursor, up, task>> /\ (blocked => blocked')
        /\ (loop' = "stopped") <=> (loop = "stopped")
        /\ Target' = Target
        /\ loop # "stopped"
    BY <1>4 DEF StoreFails, MarkStorageError, DeviceControl, FeedOfLoop, env, capture, progress, memory, worker, NoCall, Target, BaseInv, TypeOK
  <2>2. task.kind # "finish"
    BY <2>1 DEF DeviceControl, FirstTime
  <2> QED
    BY <2>1, <2>2, StaysChained
<1>5. CASE Stop
  <2>1. /\ UNCHANGED <<queue, asrCursor, up, task>> /\ (blocked => blocked')
        /\ (loop' = "stopped") <=> (loop = "stopped")
        /\ Target' = Target
        /\ loop # "stopped"
    BY <1>5 DEF Stop, DeviceControl, FeedOfLoop, env, capture, progress, memory, worker, NoCall, Target, BaseInv, TypeOK
  <2>2. task.kind # "finish"
    BY <2>1 DEF DeviceControl, FirstTime
  <2> QED
    BY <2>1, <2>2, StaysChained
<1>6. CASE FinishBlocked
  <2>1. /\ UNCHANGED <<queue, asrCursor, up, task>> /\ (blocked => blocked')
        /\ (loop' = "stopped") <=> (loop = "stopped")
        /\ Target' = Target
        /\ loop # "stopped"
    BY <1>6 DEF FinishBlocked, DeviceControl, FeedOfLoop, env, capture, progress, memory, worker, NoCall, Target, BaseInv, TypeOK
  <2>2. task.kind # "finish"
    BY <2>1 DEF DeviceControl, FirstTime
  <2> QED
    BY <2>1, <2>2, StaysChained
<1>7. CASE FinishBegins
  <2>1. /\ UNCHANGED <<queue, asrCursor, up, task>> /\ (blocked => blocked')
        /\ (loop' = "stopped") <=> (loop = "stopped")
        /\ Target' = Target
        /\ loop # "stopped"
    BY <1>7 DEF FinishBegins, BeginFinalization, DeviceControl, FeedOfLoop, env, capture, progress, memory, worker, NoCall, Target, BaseInv, TypeOK
  <2>2. task.kind # "finish"
    BY <2>1 DEF DeviceControl, FirstTime
  <2> QED
    BY <2>1, <2>2, StaysChained
<1>8. CASE FinishReads
  <2>1. /\ UNCHANGED <<queue, asrCursor, up, task>> /\ (blocked => blocked')
        /\ (loop' = "stopped") <=> (loop = "stopped")
        /\ Target' = Target
        /\ loop # "stopped"
    BY <1>8 DEF FinishReads, DeviceControl, FeedOfLoop, env, capture, progress, memory, worker, NoCall, Target, BaseInv, TypeOK
  <2>2. task.kind # "finish"
    BY <2>1 DEF DeviceControl, FirstTime
  <2> QED
    BY <2>1, <2>2, StaysChained
<1>9. CASE FinishSeals
  <2>1. /\ UNCHANGED <<queue, asrCursor, up, task>> /\ (blocked => blocked')
        /\ (loop' = "stopped") <=> (loop = "stopped")
        /\ Target' = Target
        /\ loop # "stopped"
    BY <1>9 DEF FinishSeals, DeviceControl, FeedOfLoop, env, capture, progress, memory, worker, NoCall, Target, BaseInv, TypeOK
  <2>2. task.kind # "finish"
    BY <2>1 DEF DeviceControl, FirstTime
  <2> QED
    BY <2>1, <2>2, StaysChained
<1>10. CASE FinishFails
  <2>1. /\ UNCHANGED <<queue, asrCursor, up, task>> /\ (blocked => blocked')
        /\ (loop' = "stopped") <=> (loop = "stopped")
        /\ Target' = Target
        /\ loop # "stopped"
    BY <1>10 DEF FinishFails, MarkStorageError, DeviceControl, FeedOfLoop, env, capture, progress, memory, worker, NoCall, Target, BaseInv, TypeOK
  <2>2. task.kind # "finish"
    BY <2>1 DEF DeviceControl, FirstTime
  <2> QED
    BY <2>1, <2>2, StaysChained
<1>11. CASE FinishQueued
  BY <1>11, FinishQueuedKeepsChain
<1>12. CASE TakeTask
  BY <1>12, TakingKeepsChain
<1>13. CASE SkipRange
  BY <1>13 DEF SkipRange, memory, Chain
<1>14. CASE RefuseRange
  BY <1>14 DEF RefuseRange, Chain
<1>15. CASE Hear
  BY <1>15, HearingKeepsChain
<1>16. CASE HearFails
  BY <1>16 DEF HearFails, Chain
<1>17. CASE CommitFinal
  <2>1. /\ UNCHANGED <<queue, asrCursor, up, blocked, loop, feed, count>>
        /\ task'.kind = task.kind /\ task'.start = task.start /\ task'.end = task.end
        /\ task'.stage # "none" /\ task.stage # "none"
    BY <1>17 DEF CommitFinal, env, capture, progress, memory, worker, BaseInv, TypeOK
  <2>2. task # Idle /\ task' # Idle /\ Target' = Target
    BY <2>1, EmptyHanded DEF Target
  <2> QED
    BY <2>1, <2>2, StaysChained
<1>18. CASE Advance
  BY <1>18, AdvancingKeepsChain
<1>19. CASE RangeFails
  BY <1>19 DEF RangeFails, Chain
<1>20. CASE SkipFinish
  BY <1>20, EndingStops DEF Chain
<1>21. CASE EnsureFinalizing
  <2>1. /\ UNCHANGED <<queue, asrCursor, up, blocked, loop, feed, count>>
        /\ task'.kind = task.kind /\ task'.start = task.start /\ task'.end = task.end
        /\ task'.stage # "none" /\ task.stage # "none"
    BY <1>21 DEF EnsureFinalizing, FinishTaken, BeginFinalization, env, capture, progress, memory, worker, BaseInv, TypeOK
  <2>2. task # Idle /\ task' # Idle /\ Target' = Target
    BY <2>1, EmptyHanded DEF Target
  <2> QED
    BY <2>1, <2>2, StaysChained
<1>22. CASE FlushSession
  <2>1. /\ UNCHANGED <<queue, asrCursor, up, blocked, loop, feed, count>>
        /\ task'.kind = "finish" /\ task.kind = "finish"
    <3>1. task.kind = "finish"
      BY <1>22 DEF FlushSession
    <3> QED
      BY <1>22, <3>1, FlushIs DEF capture, memory
  <2>2. task # Idle /\ task' # Idle /\ Target' = Target
    BY <2>1, EmptyHanded DEF Target
  <2> QED
    BY <2>1, <2>2, StaysChained
<1>23. CASE CompleteAsr
  BY <1>23, EndingStops DEF Chain
<1>24. CASE FinishErrs
  BY <1>24, EndingStops DEF Chain
<1>25. CASE Crash
  BY <1>25 DEF Crash, Chain
<1>26. CASE NothingToRecover
  BY <1>26 DEF NothingToRecover, Quiet, Chain, Stopped, Drained
<1>27. CASE BootBegins
  BY <1>27 DEF BootBegins, Chain
<1>28. CASE BootSeals
  BY <1>28 DEF BootSeals, Chain
<1>29. CASE BootFails
  BY <1>29 DEF BootFails, Chain
<1>30. CASE BootQueues
  BY <1>30, BootKeepsChain
<1> QED
  BY <1>1, <1>2, <1>3, <1>4, <1>5, <1>6, <1>7, <1>8, <1>9, <1>10, <1>11, <1>12, <1>13, <1>14, <1>15, <1>16, <1>17, <1>18, <1>19, <1>20, <1>21, <1>22, <1>23, <1>24, <1>25, <1>26, <1>27, <1>28, <1>29, <1>30, DeviceSteps

--------------------------------------------------------------------------------
(* Where recognition begins.                                                *)

\* A step that leaves progress alone leaves the restart where it was ...
LEMMA RestartStays ==
  ASSUME BaseInv, BaseInv', kind = "device", kind' = kind, Settled, Settled',
         UNCHANGED <<asr, cursor, checkpoint, unfinished, count>>
  PROVE  NextRestart' = NextRestart /\ RestartPoint' = RestartPoint
<1>1. NextRestart' = NextRestart
  BY NextRestartIs, NextRestartIsNext
<1>2. RestartPoint' = RestartPoint
  BY DEF RestartPoint
<1> QED
  BY <1>1, <1>2

\* ... and so does the beginning of a finalization.
LEMMA RestartBegins ==
  ASSUME BaseInv, BaseInv', kind = "device", kind' = kind, Settled, Settled',
         asr # "COMPLETE", BeginFinalization, count' = count
  PROVE  /\ NextRestart' = NextRestart /\ RestartPoint' = NextRestart
         /\ asr' = "FINALIZING" /\ cursor' = cursor /\ unfinished' = unfinished
         /\ \E c \in Nat : /\ checkpoint' = {c} /\ \A n \in checkpoint \cup unfinished : c <= n
                          /\ NextRestart = IF c <= cursor THEN c ELSE cursor
         /\ NextRestart \in checkpoint => NextRestart \in checkpoint'
<1>1. /\ Restart(asr', cursor', checkpoint', unfinished', count') = NextRestart
      /\ asr' = "FINALIZING" /\ cursor' = cursor /\ unfinished' = unfinished
      /\ LeastOf({cursor'} \cup unfinished' \cup checkpoint') = NextRestart
  BY BeginKeepsRestart
<1>2. PICK c \in Nat : /\ checkpoint' = {c} /\ \A n \in checkpoint \cup unfinished : c <= n
                       /\ NextRestart = IF c <= cursor THEN c ELSE cursor
  BY BeginKeepsRestart
<1>3. NextRestart' = NextRestart
  BY <1>1, NextRestartIsNext
<1>4. RestartPoint' = NextRestart
  BY <1>1 DEF RestartPoint
<1>5. ASSUME NextRestart \in checkpoint PROVE NextRestart \in checkpoint'
  <2>1. c <= NextRestart /\ cursor \in Nat /\ NextRestart \in Nat
    BY <1>2, <1>5, WhereIs
  <2>2. c = NextRestart
    BY <1>2, <2>1
  <2> QED
    BY <1>2, <2>2
<1> QED
  BY <1>1, <1>2, <1>3, <1>4, <1>5

\* A step of a backend that is up, or of its start.
LEMMA UpOrBoot ==
  ASSUME BaseInv, Quiet, kind = "device", DeviceControl, Next
  PROVE  \/ Crash \/ NothingToRecover \/ BootBegins \/ BootSeals \/ BootFails \/ BootQueues
         \/ up = "up" /\ up' = "up"
<1>1. CASE FrameArrives
  BY <1>1 DEF FrameArrives
<1>2. CASE Store
  <2>1. up' = up /\ (loop # "stopped" \/ feed.at # "idle" \/ task.kind # "none" \/ task.stage # "none")
    BY <1>2 DEF Store
  <2>2. up = "up"
    BY <2>1, EmptyHanded DEF Quiet
  <2> QED
    BY <2>1, <2>2
<1>3. CASE QueueStored
  <2>1. up' = up /\ (loop # "stopped" \/ feed.at # "idle" \/ task.kind # "none" \/ task.stage # "none")
    BY <1>3 DEF QueueStored
  <2>2. up = "up"
    BY <2>1, EmptyHanded DEF Quiet
  <2> QED
    BY <2>1, <2>2
<1>4. CASE StoreFails
  <2>1. up' = up /\ (loop # "stopped" \/ feed.at # "idle" \/ task.kind # "none" \/ task.stage # "none")
    BY <1>4 DEF StoreFails, MarkStorageError
  <2>2. up = "up"
    BY <2>1, EmptyHanded DEF Quiet
  <2> QED
    BY <2>1, <2>2
<1>5. CASE Stop
  BY <1>5 DEF Stop
<1>6. CASE FinishBlocked
  <2>1. up' = up /\ (loop # "stopped" \/ feed.at # "idle" \/ task.kind # "none" \/ task.stage # "none")
    BY <1>6 DEF FinishBlocked
  <2>2. up = "up"
    BY <2>1, EmptyHanded DEF Quiet
  <2> QED
    BY <2>1, <2>2
<1>7. CASE FinishBegins
  <2>1. up' = up /\ (loop # "stopped" \/ feed.at # "idle" \/ task.kind # "none" \/ task.stage # "none")
    BY <1>7 DEF FinishBegins, BeginFinalization
  <2>2. up = "up"
    BY <2>1, EmptyHanded DEF Quiet
  <2> QED
    BY <2>1, <2>2
<1>8. CASE FinishReads
  <2>1. up' = up /\ (loop # "stopped" \/ feed.at # "idle" \/ task.kind # "none" \/ task.stage # "none")
    BY <1>8 DEF FinishReads
  <2>2. up = "up"
    BY <2>1, EmptyHanded DEF Quiet
  <2> QED
    BY <2>1, <2>2
<1>9. CASE FinishSeals
  <2>1. up' = up /\ (loop # "stopped" \/ feed.at # "idle" \/ task.kind # "none" \/ task.stage # "none")
    BY <1>9 DEF FinishSeals
  <2>2. up = "up"
    BY <2>1, EmptyHanded DEF Quiet
  <2> QED
    BY <2>1, <2>2
<1>10. CASE FinishFails
  <2>1. up' = up /\ (loop # "stopped" \/ feed.at # "idle" \/ task.kind # "none" \/ task.stage # "none")
    BY <1>10 DEF FinishFails, MarkStorageError
  <2>2. up = "up"
    BY <2>1, EmptyHanded DEF Quiet
  <2> QED
    BY <2>1, <2>2
<1>11. CASE FinishQueued
  <2>1. up' = up /\ (loop # "stopped" \/ feed.at # "idle" \/ task.kind # "none" \/ task.stage # "none")
    BY <1>11 DEF FinishQueued
  <2>2. up = "up"
    BY <2>1, EmptyHanded DEF Quiet
  <2> QED
    BY <2>1, <2>2
<1>12. CASE TakeTask
  BY <1>12 DEF TakeTask
<1>13. CASE SkipRange
  <2>1. up' = up /\ (loop # "stopped" \/ feed.at # "idle" \/ task.kind # "none" \/ task.stage # "none")
    BY <1>13 DEF SkipRange, RangeTaken
  <2>2. up = "up"
    BY <2>1, EmptyHanded DEF Quiet
  <2> QED
    BY <2>1, <2>2
<1>14. CASE RefuseRange
  <2>1. up' = up /\ (loop # "stopped" \/ feed.at # "idle" \/ task.kind # "none" \/ task.stage # "none")
    BY <1>14 DEF RefuseRange, RangeTaken
  <2>2. up = "up"
    BY <2>1, EmptyHanded DEF Quiet
  <2> QED
    BY <2>1, <2>2
<1>15. CASE Hear
  <2>1. up' = up /\ (loop # "stopped" \/ feed.at # "idle" \/ task.kind # "none" \/ task.stage # "none")
    BY <1>15 DEF Hear, CanHear, RangeTaken
  <2>2. up = "up"
    BY <2>1, EmptyHanded DEF Quiet
  <2> QED
    BY <2>1, <2>2
<1>16. CASE HearFails
  <2>1. up' = up /\ (loop # "stopped" \/ feed.at # "idle" \/ task.kind # "none" \/ task.stage # "none")
    BY <1>16 DEF HearFails, CanHear, RangeTaken
  <2>2. up = "up"
    BY <2>1, EmptyHanded DEF Quiet
  <2> QED
    BY <2>1, <2>2
<1>17. CASE CommitFinal
  <2>1. up' = up /\ (loop # "stopped" \/ feed.at # "idle" \/ task.kind # "none" \/ task.stage # "none")
    BY <1>17 DEF CommitFinal
  <2>2. up = "up"
    BY <2>1, EmptyHanded DEF Quiet
  <2> QED
    BY <2>1, <2>2
<1>18. CASE Advance
  <2>1. up' = up /\ (loop # "stopped" \/ feed.at # "idle" \/ task.kind # "none" \/ task.stage # "none")
    BY <1>18 DEF Advance
  <2>2. up = "up"
    BY <2>1, EmptyHanded DEF Quiet
  <2> QED
    BY <2>1, <2>2
<1>19. CASE RangeFails
  <2>1. up' = up /\ (loop # "stopped" \/ feed.at # "idle" \/ task.kind # "none" \/ task.stage # "none")
    BY <1>19 DEF RangeFails
  <2>2. up = "up"
    BY <2>1, EmptyHanded DEF Quiet
  <2> QED
    BY <2>1, <2>2
<1>20. CASE SkipFinish
  <2>1. up' = up /\ (loop # "stopped" \/ feed.at # "idle" \/ task.kind # "none" \/ task.stage # "none")
    BY <1>20 DEF SkipFinish, FinishTaken, EndFinish
  <2>2. up = "up"
    BY <2>1, EmptyHanded DEF Quiet
  <2> QED
    BY <2>1, <2>2
<1>21. CASE EnsureFinalizing
  <2>1. up' = up /\ (loop # "stopped" \/ feed.at # "idle" \/ task.kind # "none" \/ task.stage # "none")
    BY <1>21 DEF EnsureFinalizing, FinishTaken, BeginFinalization
  <2>2. up = "up"
    BY <2>1, EmptyHanded DEF Quiet
  <2> QED
    BY <2>1, <2>2
<1>22. CASE FlushSession
  <2>1. up' = up /\ (loop # "stopped" \/ feed.at # "idle" \/ task.kind # "none" \/ task.stage # "none")
    BY <1>22 DEF FlushSession
  <2>2. up = "up"
    BY <2>1, EmptyHanded DEF Quiet
  <2> QED
    BY <2>1, <2>2
<1>23. CASE CompleteAsr
  <2>1. up' = up /\ (loop # "stopped" \/ feed.at # "idle" \/ task.kind # "none" \/ task.stage # "none")
    BY <1>23 DEF CompleteAsr, EndFinish
  <2>2. up = "up"
    BY <2>1, EmptyHanded DEF Quiet
  <2> QED
    BY <2>1, <2>2
<1>24. CASE FinishErrs
  <2>1. up' = up /\ (loop # "stopped" \/ feed.at # "idle" \/ task.kind # "none" \/ task.stage # "none")
    BY <1>24 DEF FinishErrs, FinishTaken, EndFinish
  <2>2. up = "up"
    BY <2>1, EmptyHanded DEF Quiet
  <2> QED
    BY <2>1, <2>2
<1>25. CASE Crash
  BY <1>25
<1>26. CASE NothingToRecover
  BY <1>26
<1>27. CASE BootBegins
  BY <1>27
<1>28. CASE BootSeals
  BY <1>28
<1>29. CASE BootFails
  BY <1>29
<1>30. CASE BootQueues
  BY <1>30
<1> QED
  BY <1>1, <1>2, <1>3, <1>4, <1>5, <1>6, <1>7, <1>8, <1>9, <1>10, <1>11, <1>12, <1>13, <1>14, <1>15, <1>16, <1>17, <1>18, <1>19, <1>20, <1>21, <1>22, <1>23, <1>24, <1>25, <1>26, <1>27, <1>28, <1>29, <1>30, DeviceSteps

\* A backend that boots begins where the one that died would have begun.
LEMMA BootingStep ==
  ASSUME BaseInv, BaseInv', Quiet, kind = "device", kind' = kind, Settled, Settled', DeviceControl,
         Markers, Booting, Next
  PROVE  Booting'
<1>1. CASE Crash \/ NothingToRecover \/ BootFails \/ BootQueues \/ (up = "up" /\ up' = "up")
  BY <1>1 DEF Crash, NothingToRecover, BootFails, BootQueues, Booting
<1>2. CASE BootBegins
  <2>1. NeedsAsr /\ BeginFinalization /\ count' = count
    BY <1>2 DEF BootBegins, capture
  <2>2. asr # "COMPLETE"
    BY <2>1, WhereIs DEF NeedsAsr, Settled
  <2>3. /\ NextRestart' = NextRestart /\ RestartPoint' = NextRestart
        /\ asr' = "FINALIZING" /\ unfinished' = unfinished
    BY <2>1, <2>2, RestartBegins
  <2>4. PICK c \in Nat : /\ checkpoint' = {c} /\ \A n \in checkpoint \cup unfinished : c <= n
                         /\ NextRestart = IF c <= cursor THEN c ELSE cursor
    BY <2>1, <2>2, RestartBegins
  <2>5. ASSUME unfinished # {} PROVE NextRestart \in checkpoint'
    <3>1. PICK n \in unfinished \cup checkpoint : n <= cursor
      BY <2>5 DEF Markers
    <3>2. n \in Nat /\ cursor \in Nat /\ c <= n
      BY <2>4, <3>1, WhereIs
    <3>3. c <= cursor
      BY <3>1, <3>2
    <3> QED
      BY <2>4, <3>3
  <2> QED
    BY <2>3, <2>5 DEF Booting
<1>3. CASE BootSeals
  <2>1. up = "begun" /\ blocked' = blocked /\ UNCHANGED <<asr, cursor, checkpoint, unfinished, count>>
    BY <1>3 DEF BootSeals, progress, memory
  <2>2. NextRestart' = NextRestart /\ RestartPoint' = RestartPoint
    BY <2>1, RestartStays
  <2> QED
    BY <2>1, <2>2 DEF Booting
<1> QED
  BY <1>1, <1>2, <1>3, UpOrBoot

\* The recognition is left alone.
LEMMA StaysBegun ==
  ASSUME Begins, blocked => blocked', Stopped => Stopped', up' = up, UNCHANGED <<session, asrCursor, unfinished>>,
         task.stage = "heard" => task'.stage = "heard",
         NextRestart' = NextRestart, NextRestart \in checkpoint => NextRestart \in checkpoint'
  PROVE  Begins'
<1> SUFFICES ASSUME up' = "up", ~blocked', ~Stopped'
    PROVE IF session'.open THEN (task'.stage # "heard" => asrCursor' = {session'.pos})
             ELSE asrCursor' = {NextRestart'} /\ (unfinished' # {} => NextRestart' \in checkpoint')
  BY DEF Begins
<1>1. up = "up" /\ ~blocked /\ ~Stopped
  OBVIOUS
<1>2. IF session.open THEN (task.stage # "heard" => asrCursor = {session.pos})
             ELSE asrCursor = {NextRestart} /\ (unfinished # {} => NextRestart \in checkpoint)
  BY <1>1 DEF Begins
<1> QED
  BY <1>2

\* Before the loop ends, recognition begins at the first sample.
LEMMA FirstBegins ==
  ASSUME BaseInv', kind' = "device", Settled', FirstTime', loop' # "stopped",
         session'.open /\ task'.stage # "heard" /\ ~blocked' => asrCursor' = {session'.pos}
  PROVE  Begins'
<1>1. ASSUME ~session'.open
      PROVE  asrCursor' = {NextRestart'} /\ (unfinished' # {} => NextRestart' \in checkpoint')
  <2>1. asrCursor' = {cursor'} /\ cursor' = 0 /\ unfinished' = {}
    BY <1>1 DEF FirstTime
  <2>2. /\ cursor' \in Nat /\ checkpoint' \in SUBSET Nat /\ unfinished' \in SUBSET Nat /\ count' \in Nat
    BY WhereIsNext
  <2>3. NextRestart' \in Nat /\ NextRestart' <= cursor'
    BY <2>2, NextRestartIsNext, RestartBounds
  <2>4. NextRestart' = 0
    BY <2>1, <2>3
  <2> QED
    BY <2>1, <2>4
<1> QED
  BY <1>1 DEF Begins

\* Recognition begins where a restart would.
LEMMA BeginsStep ==
  ASSUME BaseInv, BaseInv', Quiet, InStep, kind = "device", kind' = kind, Settled, Settled', DeviceControl, DeviceControl', Chain, Booting, Begins, Next
  PROVE  Begins'
<1>1. CASE FrameArrives
  <2>1. /\ UNCHANGED <<session, asrCursor, up, asr, cursor, checkpoint, unfinished, count>>
        /\ blocked => blocked'
        /\ task.stage = "heard" => task'.stage = "heard"
    BY <1>1, EmptyHanded DEF FrameArrives, BaseInv, TypeOK, env, capture, progress, memory, worker
  <2>2. Stopped => Stopped'
    BY <1>1, EmptyHanded DEF FrameArrives, Stopped, Drained, DeviceControl, FeedOfLoop, BaseInv, TypeOK, env, capture, progress, memory, worker
  <2> QED
    BY <2>1, <2>2, RestartStays, StaysBegun
<1>2. CASE Store
  <2>1. /\ loop = "recording" /\ UNCHANGED <<loop, up, session, task, asrCursor, blocked>>
    BY <1>2 DEF Store, DeviceControl, FeedOfLoop, memory, worker
  <2>2. up = "up" /\ ~Stopped
    BY <2>1 DEF DeviceControl, FirstTime, Stopped
  <2>3. session'.open /\ task'.stage # "heard" /\ ~blocked' => asrCursor' = {session'.pos}
    BY <2>1, <2>2 DEF Begins
  <2> QED
    BY <2>1, <2>3, FirstBegins DEF DeviceControl
<1>3. CASE QueueStored
  <2>1. /\ UNCHANGED <<session, asrCursor, up, asr, cursor, checkpoint, unfinished, count>>
        /\ blocked => blocked'
        /\ task.stage = "heard" => task'.stage = "heard"
    BY <1>3, EmptyHanded DEF QueueStored, BaseInv, TypeOK, env, capture, progress, memory, worker
  <2>2. Stopped => Stopped'
    BY <1>3 DEF QueueStored, Stopped, DeviceControl, FeedOfLoop, BaseInv, TypeOK, env, capture, progress, memory, worker
  <2> QED
    BY <2>1, <2>2, RestartStays, StaysBegun
<1>4. CASE StoreFails
  <2>1. /\ UNCHANGED <<session, asrCursor, up, asr, cursor, checkpoint, unfinished, count>>
        /\ blocked => blocked'
        /\ task.stage = "heard" => task'.stage = "heard"
    BY <1>4, EmptyHanded DEF StoreFails, MarkStorageError, BaseInv, TypeOK, env, capture, progress, memory, worker
  <2>2. Stopped => Stopped'
    BY <1>4 DEF StoreFails, Stopped, DeviceControl, FeedOfLoop, BaseInv, TypeOK, env, capture, progress, memory, worker
  <2> QED
    BY <2>1, <2>2, RestartStays, StaysBegun
<1>5. CASE Stop
  <2>1. /\ UNCHANGED <<session, asrCursor, up, asr, cursor, checkpoint, unfinished, count>>
        /\ blocked => blocked'
        /\ task.stage = "heard" => task'.stage = "heard"
    BY <1>5, EmptyHanded DEF Stop, BaseInv, TypeOK, env, capture, progress, memory, worker
  <2>2. Stopped => Stopped'
    BY <1>5 DEF Stop, Stopped, DeviceControl, FeedOfLoop, BaseInv, TypeOK, env, capture, progress, memory, worker
  <2> QED
    BY <2>1, <2>2, RestartStays, StaysBegun
<1>6. CASE FinishBlocked
  <2>1. /\ UNCHANGED <<session, asrCursor, up, asr, cursor, checkpoint, unfinished, count>>
        /\ blocked => blocked'
        /\ task.stage = "heard" => task'.stage = "heard"
    BY <1>6, EmptyHanded DEF FinishBlocked, BaseInv, TypeOK, env, capture, progress, memory, worker
  <2>2. Stopped => Stopped'
    BY <1>6 DEF FinishBlocked, Stopped, DeviceControl, FeedOfLoop, BaseInv, TypeOK, env, capture, progress, memory, worker
  <2> QED
    BY <2>1, <2>2, RestartStays, StaysBegun
<1>7. CASE FinishBegins
  <2>1. /\ UNCHANGED <<session, asrCursor, up, count, blocked>>
        /\ BeginFinalization /\ task' = task
    BY <1>7 DEF FinishBegins, env, capture, progress, memory, worker
  <2>2. (Stopped => Stopped') /\ asr # "COMPLETE"
    BY <1>7 DEF FinishBegins, Stopped, Drained, Settled
  <2>3. /\ NextRestart' = NextRestart /\ unfinished' = unfinished
        /\ NextRestart \in checkpoint => NextRestart \in checkpoint'
    BY <2>1, <2>2, RestartBegins, RestartStays
  <2> QED
    BY <2>1, <2>2, <2>3, StaysBegun
<1>8. CASE FinishReads
  <2>1. /\ UNCHANGED <<session, asrCursor, up, asr, cursor, checkpoint, unfinished, count>>
        /\ blocked => blocked'
        /\ task.stage = "heard" => task'.stage = "heard"
    BY <1>8, EmptyHanded DEF FinishReads, BaseInv, TypeOK, env, capture, progress, memory, worker
  <2>2. Stopped => Stopped'
    BY <1>8 DEF FinishReads, Stopped, DeviceControl, FeedOfLoop, BaseInv, TypeOK, env, capture, progress, memory, worker
  <2> QED
    BY <2>1, <2>2, RestartStays, StaysBegun
<1>9. CASE FinishSeals
  <2>1. /\ UNCHANGED <<session, asrCursor, up, asr, cursor, checkpoint, unfinished, count>>
        /\ blocked => blocked'
        /\ task.stage = "heard" => task'.stage = "heard"
    BY <1>9, EmptyHanded DEF FinishSeals, BaseInv, TypeOK, env, capture, progress, memory, worker
  <2>2. Stopped => Stopped'
    BY <1>9 DEF FinishSeals, Stopped, DeviceControl, FeedOfLoop, BaseInv, TypeOK, env, capture, progress, memory, worker
  <2> QED
    BY <2>1, <2>2, RestartStays, StaysBegun
<1>10. CASE FinishFails
  BY <1>10 DEF FinishFails, Begins
<1>11. CASE FinishQueued
  <2>1. /\ UNCHANGED <<session, asrCursor, up, asr, cursor, checkpoint, unfinished, count>>
        /\ blocked => blocked'
        /\ task.stage = "heard" => task'.stage = "heard"
    BY <1>11, EmptyHanded DEF FinishQueued, BaseInv, TypeOK, env, capture, progress, memory, worker
  <2>2. Stopped => Stopped'
    BY <1>11 DEF FinishQueued, Stopped, DeviceControl, FeedOfLoop, BaseInv, TypeOK, env, capture, progress, memory, worker
  <2> QED
    BY <2>1, <2>2, RestartStays, StaysBegun
<1>12. CASE TakeTask
  <2>1. /\ UNCHANGED <<session, asrCursor, up, asr, cursor, checkpoint, unfinished, count>>
        /\ blocked => blocked'
        /\ task.stage = "heard" => task'.stage = "heard"
    BY <1>12, EmptyHanded DEF TakeTask, InHand, BaseInv, TypeOK, env, capture, progress, memory, worker
  <2>2. Stopped => Stopped'
    BY <1>12 DEF TakeTask, Stopped, Drained, env, capture, progress, memory, worker
  <2> QED
    BY <2>1, <2>2, RestartStays, StaysBegun
<1>13. CASE SkipRange
  BY <1>13 DEF SkipRange, memory, Begins
<1>14. CASE RefuseRange
  BY <1>14 DEF RefuseRange, Begins
<1>15. CASE Hear
  BY <1>15, HearIs DEF Begins
<1>16. CASE HearFails
  BY <1>16 DEF HearFails, Begins
<1>17. CASE CommitFinal
  <2>1. /\ UNCHANGED <<session, asrCursor, up, asr, cursor, checkpoint, unfinished, count>>
        /\ blocked => blocked'
        /\ task.stage = "heard" => task'.stage = "heard"
    BY <1>17, EmptyHanded DEF CommitFinal, BaseInv, TypeOK, env, capture, progress, memory, worker
  <2>2. Stopped => Stopped'
    BY <1>17, EmptyHanded DEF CommitFinal, Stopped, Drained, env, capture, progress, memory, worker
  <2> QED
    BY <2>1, <2>2, RestartStays, StaysBegun
<1>18. CASE Advance
  <2>1. session'.open /\ asrCursor' = {session'.pos}
    BY <1>18 DEF Advance, InStep, worker
  <2> QED
    BY <2>1 DEF Begins
<1>19. CASE RangeFails
  BY <1>19 DEF RangeFails, Begins
<1>20. CASE SkipFinish
  BY <1>20, EndingStops DEF Begins
<1>21. CASE EnsureFinalizing
  <2>1. /\ UNCHANGED <<session, asrCursor, up, count, blocked>> /\ task.stage # "heard"
        /\ BeginFinalization \/ UNCHANGED <<asr, cursor, checkpoint, unfinished>>
    BY <1>21 DEF EnsureFinalizing, FinishTaken, env, capture, progress, memory, worker
  <2>2. (Stopped => Stopped') /\ asr # "COMPLETE"
    BY <1>21, Working DEF EnsureFinalizing, FinishTaken, Stopped, Drained, Settled
  <2>3. /\ NextRestart' = NextRestart /\ unfinished' = unfinished
        /\ NextRestart \in checkpoint => NextRestart \in checkpoint'
    BY <2>1, <2>2, RestartBegins, RestartStays
  <2> QED
    BY <2>1, <2>2, <2>3, StaysBegun
<1>22. CASE FlushSession
  <2>1. session'.open /\ task'.stage = "heard"
    BY <1>22, FlushIs
  <2> QED
    BY <2>1 DEF Begins
<1>23. CASE CompleteAsr
  BY <1>23, EndingStops DEF Begins
<1>24. CASE FinishErrs
  BY <1>24, EndingStops DEF Begins
<1>25. CASE Crash
  BY <1>25 DEF Crash, Begins
<1>26. CASE NothingToRecover
  BY <1>26 DEF NothingToRecover, Quiet, Begins, Stopped, Drained
<1>27. CASE BootBegins
  BY <1>27 DEF BootBegins, Begins
<1>28. CASE BootSeals
  BY <1>28 DEF BootSeals, Begins
<1>29. CASE BootFails
  BY <1>29 DEF BootFails, Begins
<1>30. CASE BootQueues
  <2>1. /\ up = "sealed" /\ asrCursor' = {RestartPoint} /\ session = Closed
        /\ UNCHANGED <<session, blocked, asr, cursor, checkpoint, unfinished, count>>
    BY <1>30 DEF BootQueues, Quiet, capture, progress, worker
  <2>2. NextRestart' = NextRestart
    BY <2>1, RestartStays
  <2> QED
    BY <2>1, <2>2, EmptyHanded DEF Begins, Booting
<1> QED
  BY <1>1, <1>2, <1>3, <1>4, <1>5, <1>6, <1>7, <1>8, <1>9, <1>10, <1>11, <1>12, <1>13, <1>14, <1>15, <1>16, <1>17, <1>18, <1>19, <1>20, <1>21, <1>22, <1>23, <1>24, <1>25, <1>26, <1>27, <1>28, <1>29, <1>30, DeviceSteps

--------------------------------------------------------------------------------
(* What is known of an open session.                                        *)

\* An earlier checkpoint vouches for as much.
LEMMA HonestBehind ==
  ASSUME NEW V, NEW base \in Nat, NEW p, NEW behind \in SUBSET Nat, NEW behind2 \in SUBSET Nat, NEW marker,
         HonestTo(V, base, p, behind, marker),
         \A c \in behind : \E d \in behind2 : d <= c
  PROVE  HonestTo(V, base, p, behind2, marker)
<1>1. ASSUME NEW c \in behind, c <= base PROVE \E d \in behind2 : d <= base
  <2>1. PICK d \in behind2 : d <= c
    OBVIOUS
  <2>2. d <= base
    BY <1>1, <2>1
  <2> QED
    BY <2>2
<1> QED
  BY <1>1 DEF HonestTo

\* More fragments know as much.
LEMMA KnownMore ==
  ASSUME NEW V, NEW base, NEW p, NEW frags, NEW frags2, frags \subseteq frags2, NEW marker,
         KnownTo(V, base, p, frags, marker)
  PROVE  KnownTo(V, base, p, frags2, marker)
BY DEF KnownTo

\* A session that has heard nothing knows all there is to know.
LEMMA NewKnows ==
  ASSUME NEW V \in SUBSET Nat, NEW base \in Nat, NEW frags, NEW marker, NEW behind,
         \A m \in marker : base <= m, marker # {} => \E c \in behind : c <= base
  PROVE  KnownTo(V, base, base, frags, marker) /\ HonestTo(V, base, base, behind, marker)
<1>1. base <= base
  OBVIOUS
<1>2. Starts(V, base, base) = {}
  BY <1>1, StartsGrow
<1>3. Open(V, base, base) = {}
  BY <1>2 DEF Open
<1> QED
  BY <1>2, <1>3 DEF KnownTo, HonestTo

\* The bounds of where recognition would begin again.
LEMMA RestartIsNat ==
  ASSUME BaseInv, kind = "device", Settled
  PROVE  /\ NextRestart \in Nat /\ NextRestart <= cursor
         /\ asr # "COMPLETE" => \A n \in checkpoint \cup unfinished : NextRestart <= n
<1>1. cursor \in Nat /\ checkpoint \in SUBSET Nat /\ unfinished \in SUBSET Nat /\ count \in Nat
  BY WhereIs
<1> QED
  BY <1>1, NextRestartIs, RestartBounds

\* Where a range in hand is heard from.
LEMMA HearingFrom ==
  ASSUME BaseInv, Quiet, InStep, kind = "device", Settled, Begins, Trust, NothingLeftBehind, CanHear
  PROVE  /\ asr # "COMPLETE" /\ Hearing.pos = task.start /\ Hearing.base <= task.start
         /\ Rewound = task.start
         /\ KnownTo(voice, Hearing.base, task.start, fragments, unfinished)
         /\ HonestTo(voice, Hearing.base, task.start, checkpoint, unfinished)
         /\ session.open => Before(session.base) /\ cursor = task.start /\ Hearing = session
         /\ ~session.open =>
               /\ task.start = NextRestart /\ Hearing.base = task.start
               /\ unfinished # {} => task.start \in checkpoint
               /\ \A s \in voice : s < task.start =>
                     Transcribed(s) \/ HiddenBy(reopened \cup Backlog(count, task.start), s)
<1>1. /\ task.kind = "range" /\ task.stage = "taken" /\ ~blocked /\ asrCursor \in {{}, {task.start}}
      /\ task # Idle /\ up = "up" /\ ~Stopped /\ ~FinishHeard /\ ~RangeHeard
  <2>1. task.kind = "range" /\ task.stage = "taken" /\ ~blocked /\ asrCursor \in {{}, {task.start}}
    BY DEF CanHear, RangeTaken
  <2>2. task # Idle /\ up = "up"
    BY <2>1, Working
  <2> QED
    BY <2>1, <2>2 DEF Stopped, Drained, FinishHeard, RangeHeard
<1>2. asr # "COMPLETE"
  BY <1>1 DEF Settled, Drained
<1>3. task.start \in Nat /\ cursor \in Nat /\ voice \in SUBSET Nat
  BY WhereIs
<1>4. CASE session.open
  <2>1. Trusted
    BY <1>1, <1>4 DEF Trusted
  <2>2. session.pos = task.start
    BY <1>4, InStepIs DEF WorkerInStep
  <2>3. /\ session.base <= cursor /\ Before(session.base) /\ session.pos = cursor
        /\ Known(cursor, fragments, unfinished) /\ Honest(cursor, unfinished)
    BY <1>1, <2>1 DEF Trust, Told
  <2>4. Hearing = session /\ cursor = task.start /\ Rewound = task.start
    BY <1>4, <2>2, <2>3, HearingIs
  <2> QED
    BY <1>2, <1>4, <2>2, <2>3, <2>4 DEF Known, Honest
<1>5. CASE ~session.open
  <2>1. asrCursor = {NextRestart} /\ (unfinished # {} => NextRestart \in checkpoint)
    BY <1>1, <1>5 DEF Begins
  <2>2. task.start = NextRestart
    BY <1>1, <2>1
  <2>3. Hearing.base = task.start /\ Hearing.pos = task.start
    BY <1>5, HearingIs
  <2>4. NextRestart <= cursor /\ \A n \in checkpoint \cup unfinished : NextRestart <= n
    BY <1>2, RestartIsNat
  <2>5. Rewound = task.start
    <3>1. Rewound \in {cursor, task.start} /\ Rewound <= task.start
      BY HearingIs
    <3> QED
      BY <1>3, <2>2, <2>4, <3>1
  <2>6. KeptTo(voice, fragments, reopened, count, task.start)
    BY <2>2, KeptIs
  <2>7. \A s \in voice : s < task.start =>
           Transcribed(s) \/ HiddenBy(reopened \cup Backlog(count, task.start), s)
    BY <2>6 DEF KeptTo, Transcribed
  <2>8. task.start <= task.start
    BY <1>3
  <2>9. /\ KnownTo(voice, task.start, task.start, fragments, unfinished)
        /\ HonestTo(voice, task.start, task.start, checkpoint, unfinished)
    BY <1>3, <2>1, <2>2, <2>4, <2>8, NewKnows
  <2> QED
    BY <1>2, <1>5, <2>1, <2>2, <2>3, <2>5, <2>7, <2>8, <2>9
<1> QED
  BY <1>4, <1>5

\* What is known when the cursor advances.
LEMMA AdvanceIs ==
  ASSUME BaseInv, InStep, Trust, Advance
  PROVE  /\ session.open /\ asr # "COMPLETE" /\ Heard = fragments
         /\ cursor = task.start /\ cursor' = task.end /\ unfinished' = task.open
         /\ session.base <= cursor /\ session.base <= task.end /\ session.pos = task.end
         /\ Before(session.base)
         /\ Known(task.end, fragments, task.open) /\ Honest(task.end, task.open)
         /\ task' = Idle
         /\ UNCHANGED <<env, capture, asr, checkpoint, fragments, up, loop, feed, queue,
                        blocked, storageError, recovering, worker>>
<1>1. /\ task.kind = "range" /\ task.stage = "heard" /\ task.finals = {}
      /\ cursor' = (IF cursor > task.end THEN cursor ELSE task.end)
      /\ unfinished' = task.open /\ task' = Idle
      /\ UNCHANGED <<env, capture, asr, checkpoint, fragments, up, loop, feed, queue,
                     blocked, storageError, recovering, worker>>
  BY DEF Advance
<1>2. session.open /\ session.pos = task.end /\ RangeHeard /\ Trusted
  BY <1>1 DEF InStep, RangeHeard, FinishHeard, Trusted
<1>3. /\ asr # "COMPLETE" /\ session.base <= cursor /\ Before(session.base) /\ cursor = task.start
      /\ Known(task.end, Heard, task.open) /\ Honest(task.end, task.open)
  BY <1>2 DEF Trust, Told
<1>4. Heard = fragments
  BY <1>1 DEF Heard
<1>5. cursor' = task.end /\ session.base <= task.end
  <2> DEFINE b == session.base
  <2>1. task.start \in Nat /\ task.end \in Nat /\ b \in Nat /\ task.start < task.end /\ b <= task.start
    BY <1>1, <1>3, WhereIs
  <2> HIDE DEF b
  <2>2. task.start < task.end /\ b <= task.end
    BY <2>1
  <2> QED
    BY <1>1, <1>3, <2>1, <2>2 DEF b
<1> QED
  BY <1>1, <1>2, <1>3, <1>4, <1>5

\* The recognition is left alone.
LEMMA StaysTrusted ==
  ASSUME BaseInv, BaseInv', Trust, session' = session, blocked => blocked',
         loop' # "stopped" => loop # "stopped", FinishHeard => FinishHeard',
         RangeHeard' => RangeHeard /\ task'.start = task.start /\ task'.end = task.end
                        /\ task'.open = task.open /\ Heard \subseteq Heard',
         RangeHeard /\ ~RangeHeard' => blocked',
         asr' = asr \/ asr' = "FINALIZING",
         UNCHANGED <<voice, cursor, unfinished, reopened>>, fragments \subseteq fragments',
         \A c \in checkpoint : \E d \in checkpoint' : d <= c
  PROVE  Trust'
<1> SUFFICES ASSUME Trusted' PROVE Told'
  BY DEF Trust, Told
<1>1. Trusted
  BY DEF Trusted
<1>2. /\ asr # "COMPLETE" /\ session.base <= cursor
      /\ Before(session.base)
      /\ Known(cursor, fragments, unfinished)
      /\ Honest(cursor, unfinished)
      /\ ~RangeHeard /\ ~blocked => session.pos = cursor
      /\ RangeHeard => /\ cursor = task.start
                       /\ Known(task.end, Heard, task.open)
                       /\ Honest(task.end, task.open)
  BY <1>1 DEF Trust, Told
<1>3. /\ session.base \in Nat /\ checkpoint \in SUBSET Nat /\ checkpoint' \in SUBSET Nat
  BY WhereIs, WhereIsNext
<1>4. Before(session.base)'
  BY <1>2 DEF Before, Transcribed
<1>5. Known(cursor, fragments, unfinished)'
  <2>1. KnownTo(voice, session.base, cursor, fragments', unfinished)
    BY <1>2, KnownMore DEF Known
  <2> QED
    BY <2>1 DEF Known
<1>6. Honest(cursor, unfinished)'
  <2>1. HonestTo(voice, session.base, cursor, checkpoint', unfinished)
    BY <1>2, <1>3, HonestBehind DEF Honest
  <2> QED
    BY <2>1 DEF Honest
<1>7. ASSUME RangeHeard'
      PROVE  cursor' = task'.start /\ Known(task.end, Heard, task.open)' /\ Honest(task.end, task.open)'
  <2>1. cursor = task.start /\ Known(task.end, Heard, task.open) /\ Honest(task.end, task.open)
    BY <1>2, <1>7
  <2>2. KnownTo(voice, session.base, task.end, Heard', task.open)
    BY <1>7, <2>1, KnownMore DEF Known
  <2>3. HonestTo(voice, session.base, task.end, checkpoint', task.open)
    BY <1>3, <2>1, HonestBehind DEF Honest
  <2> QED
    BY <1>7, <2>1, <2>2, <2>3 DEF Known, Honest
<1>8. ~RangeHeard' /\ ~blocked' => session'.pos = cursor'
  <2> SUFFICES ASSUME ~RangeHeard', ~blocked' PROVE session.pos = cursor
    OBVIOUS
  <2>1. ~blocked /\ ~RangeHeard
    OBVIOUS
  <2> QED
    BY <1>2, <2>1
<1>9. asr' # "COMPLETE" /\ session'.base <= cursor'
  BY <1>2
<1> QED
  BY <1>4, <1>5, <1>6, <1>7, <1>8, <1>9 DEF Told

\* A range is heard.
LEMMA HearKeepsTrust ==
  ASSUME BaseInv, Quiet, InStep, kind = "device", Settled, Begins, Trust, NothingLeftBehind, Hear
  PROVE  Trust'
<1> DEFINE b == Hearing.base
           p == task.start
           q == task.end
<1>1. /\ CanHear
      /\ session' = [open |-> TRUE, base |-> b, pos |-> q]
      /\ task'.kind = "range" /\ task'.stage = "heard" /\ task'.start = p /\ task'.end = q
      /\ task'.finals = Finals(voice, b, Hearing.pos, q)
      /\ task'.open = NewMarker(voice, b, Hearing.pos, q, unfinished)
      /\ cursor' = Rewound
      /\ reopened' = IF ~session.open /\ BacklogHides(p) THEN reopened \cup {p} ELSE reopened
      /\ UNCHANGED <<voice, asr, unfinished, checkpoint, fragments>>
  BY HearIs DEF env
<1>2. /\ asr # "COMPLETE" /\ Hearing.pos = p /\ b <= p /\ Rewound = p
      /\ KnownTo(voice, b, p, fragments, unfinished)
      /\ HonestTo(voice, b, p, checkpoint, unfinished)
      /\ session.open => Before(session.base) /\ Hearing = session
      /\ ~session.open =>
               /\ b = p
               /\ \A s \in voice : s < p =>
                     Transcribed(s) \/ HiddenBy(reopened \cup Backlog(count, p), s)
  BY <1>1, HearingFrom
<1>3. b \in Nat /\ p \in Nat /\ q \in Nat /\ p <= q /\ voice \in SUBSET Nat
  <2>1. p \in Nat /\ q \in Nat /\ p < q
    BY <1>1, WhereIs DEF CanHear, RangeTaken
  <2> QED
    BY <2>1, HearingIs, Room, WhereIs
<1>4. \A s \in voice : s < b => Transcribed(s)' \/ HiddenBy(reopened', s)
  <2>1. CASE session.open
    <3>1. Before(session.base) /\ reopened' = reopened /\ b = session.base
      BY <1>1, <1>2, <2>1
    <3> QED
      BY <1>1, <3>1 DEF Before, Transcribed
  <2>2. CASE ~session.open
    <3>1. reopened \cup Backlog(count, p) = reopened'
      BY <1>1, <2>2 DEF Backlog, BacklogHides
    <3> QED
      BY <1>1, <1>2, <2>2, <3>1 DEF Transcribed
  <2> QED
    BY <2>1, <2>2
<1>5. /\ session'.base = b /\ session'.pos = q /\ RangeHeard'
      /\ Heard' = fragments \cup Finals(voice, b, p, q)
      /\ task'.open = NewMarker(voice, b, p, q, unfinished)
  BY <1>1, <1>2 DEF RangeHeard, Heard
<1> HIDE DEF b, p, q
<1>6. KnownTo(voice, b, q, fragments \cup Finals(voice, b, p, q), NewMarker(voice, b, p, q, unfinished))
  BY <1>2, <1>3, PushKeepsKnown
<1>7. HonestTo(voice, b, q, checkpoint, NewMarker(voice, b, p, q, unfinished))
  BY <1>2, <1>3, PushKeepsHonest
<1>8. Known(cursor, fragments, unfinished)' /\ Honest(cursor, unfinished)'
  BY <1>1, <1>2, <1>5 DEF Known, Honest
<1>9. cursor' = task'.start /\ Known(task.end, Heard, task.open)' /\ Honest(task.end, task.open)'
  <2>1. cursor' = task'.start /\ task'.end = q
    BY <1>1, <1>2 DEF p, q
  <2> QED
    BY <1>1, <1>5, <1>6, <1>7, <2>1 DEF Known, Honest
<1>10. asr' # "COMPLETE" /\ session'.base <= cursor' /\ Before(session.base)'
  <2>1. Before(session.base)'
    BY <1>1, <1>4, <1>5 DEF Before
  <2> QED
    BY <1>1, <1>2, <1>5, <2>1
<1> QED
  BY <1>5, <1>8, <1>9, <1>10 DEF Trust, Told

\* It is heard, but the thread does not learn what.
LEMMA HearFailsKeepsTrust ==
  ASSUME BaseInv, Quiet, InStep, kind = "device", Settled, DeviceControl, Begins, Trust,
         NothingLeftBehind, HearFails
  PROVE  Trust'
<1>1. /\ CanHear /\ blocked' /\ task' = Idle /\ cursor' \in {cursor, Rewound}
      /\ session' \in {session, Hearing, [Hearing EXCEPT !.pos = task.end]}
      /\ UNCHANGED <<voice, asr, unfinished, checkpoint, fragments, loop, reopened>>
  BY DEF HearFails
<1>2. ~RangeHeard' /\ ~FinishHeard'
  BY <1>1, EmptyHanded DEF RangeHeard, FinishHeard
<1> SUFFICES ASSUME session'.open, loop # "stopped"
             PROVE  (/\ asr # "COMPLETE" /\ session.base <= cursor
                     /\ Before(session.base)
                     /\ Known(cursor, fragments, unfinished)
                     /\ Honest(cursor, unfinished))'
  BY <1>1, <1>2 DEF Trust, Told, Trusted
<1>3. /\ asr # "COMPLETE" /\ Hearing.base <= task.start /\ Rewound = task.start
      /\ KnownTo(voice, Hearing.base, task.start, fragments, unfinished)
      /\ HonestTo(voice, Hearing.base, task.start, checkpoint, unfinished)
      /\ session.open => Before(session.base) /\ Hearing = session
      /\ ~session.open => Hearing.base = task.start
  BY <1>1, HearingFrom
<1>4. asrCursor = {cursor}
  BY DEF DeviceControl, FirstTime
<1>5. cursor = task.start
  BY <1>1, <1>4 DEF CanHear
<1>6. cursor' = task.start
  BY <1>1, <1>3, <1>5
<1>7. session'.base = Hearing.base
  <2>1. CASE session.open
    BY <1>1, <1>3, <2>1, HearingIs
  <2>2. CASE ~session.open
    <3>1. session' # session
      BY <2>2
    <3> QED
      BY <1>1, <3>1, HearingIs
  <2> QED
    BY <2>1, <2>2
<1>8. \A s \in voice : s < Hearing.base => Transcribed(s) \/ HiddenBy(reopened, s)
  <2>1. CASE session.open
    BY <1>3, <2>1 DEF Before
  <2>2. CASE ~session.open
    <3>1. Hearing.base = 0
      BY <1>3, <1>5, <2>2 DEF DeviceControl, FirstTime
    <3>2. \A s \in voice : ~(s < 0)
      BY WhereIs
    <3> QED
      BY <3>1, <3>2
  <2> QED
    BY <2>1, <2>2
<1>9. Before(session.base)'
  BY <1>1, <1>7, <1>8 DEF Before, Transcribed
<1> QED
  BY <1>1, <1>3, <1>6, <1>7, <1>9 DEF Known, Honest

\* The range is over: its marker is set.
LEMMA AdvanceKeepsTrust ==
  ASSUME BaseInv, InStep, Trust, Advance
  PROVE  Trust'
<1>1. /\ asr # "COMPLETE" /\ cursor' = task.end /\ unfinished' = task.open
      /\ session.base <= task.end /\ session.pos = task.end
      /\ Before(session.base)
      /\ Known(task.end, fragments, task.open) /\ Honest(task.end, task.open)
      /\ task' = Idle
      /\ UNCHANGED <<voice, asr, checkpoint, fragments, session, reopened>>
  BY AdvanceIs DEF env, worker
<1>2. ~RangeHeard'
  BY <1>1, EmptyHanded DEF RangeHeard
<1>3. Before(session.base)'
  BY <1>1 DEF Before, Transcribed
<1>4. Known(cursor, fragments, unfinished)' /\ Honest(cursor, unfinished)'
  BY <1>1 DEF Known, Honest
<1> QED
  BY <1>1, <1>2, <1>3, <1>4 DEF Trust, Told

\* What an open session has heard stays known.
LEMMA TrustStep ==
  ASSUME BaseInv, BaseInv', Quiet, InStep, kind = "device", Settled, DeviceControl, Begins, Trust,
         NothingLeftBehind, Next
  PROVE  Trust'
<1>0. \A c \in checkpoint : c <= c
  BY WhereIs
<1>1. CASE FrameArrives
  <2>1. /\ task' = task
        /\ UNCHANGED <<session, voice, cursor, unfinished, reopened, fragments>>
        /\ blocked => blocked'
        /\ loop' # "stopped" => loop # "stopped"
        /\ asr' = asr \/ asr' = "FINALIZING"
    BY <1>1 DEF FrameArrives, BaseInv, TypeOK, env, capture, progress, memory, worker
  <2>2. checkpoint' = checkpoint
    BY <1>1 DEF FrameArrives, progress
  <2>3. (FinishHeard <=> FinishHeard') /\ (RangeHeard <=> RangeHeard') /\ Heard' = Heard
    BY <2>1 DEF FinishHeard, RangeHeard, Heard
  <2> QED
    BY <2>1, <2>2, <2>3, <1>0, StaysTrusted
<1>2. CASE Store
  <2>1. /\ task' = task
        /\ UNCHANGED <<session, voice, cursor, unfinished, reopened, fragments>>
        /\ blocked => blocked'
        /\ loop' # "stopped" => loop # "stopped"
        /\ asr' = asr \/ asr' = "FINALIZING"
    BY <1>2 DEF Store, BaseInv, TypeOK, env, capture, progress, memory, worker
  <2>2. checkpoint' = checkpoint
    BY <1>2 DEF Store, progress
  <2>3. (FinishHeard <=> FinishHeard') /\ (RangeHeard <=> RangeHeard') /\ Heard' = Heard
    BY <2>1 DEF FinishHeard, RangeHeard, Heard
  <2> QED
    BY <2>1, <2>2, <2>3, <1>0, StaysTrusted
<1>3. CASE QueueStored
  <2>1. /\ task' = task
        /\ UNCHANGED <<session, voice, cursor, unfinished, reopened, fragments>>
        /\ blocked => blocked'
        /\ loop' # "stopped" => loop # "stopped"
        /\ asr' = asr \/ asr' = "FINALIZING"
    BY <1>3 DEF QueueStored, BaseInv, TypeOK, env, capture, progress, memory, worker
  <2>2. checkpoint' = checkpoint
    BY <1>3 DEF QueueStored, progress
  <2>3. (FinishHeard <=> FinishHeard') /\ (RangeHeard <=> RangeHeard') /\ Heard' = Heard
    BY <2>1 DEF FinishHeard, RangeHeard, Heard
  <2> QED
    BY <2>1, <2>2, <2>3, <1>0, StaysTrusted
<1>4. CASE StoreFails
  <2>1. /\ task' = task
        /\ UNCHANGED <<session, voice, cursor, unfinished, reopened, fragments>>
        /\ blocked => blocked'
        /\ loop' # "stopped" => loop # "stopped"
        /\ asr' = asr \/ asr' = "FINALIZING"
    BY <1>4 DEF StoreFails, MarkStorageError, BaseInv, TypeOK, env, capture, progress, memory, worker
  <2>2. checkpoint' = checkpoint
    BY <1>4 DEF StoreFails, MarkStorageError, progress
  <2>3. (FinishHeard <=> FinishHeard') /\ (RangeHeard <=> RangeHeard') /\ Heard' = Heard
    BY <2>1 DEF FinishHeard, RangeHeard, Heard
  <2> QED
    BY <2>1, <2>2, <2>3, <1>0, StaysTrusted
<1>5. CASE Stop
  <2>1. /\ task' = task
        /\ UNCHANGED <<session, voice, cursor, unfinished, reopened, fragments>>
        /\ blocked => blocked'
        /\ loop' # "stopped" => loop # "stopped"
        /\ asr' = asr \/ asr' = "FINALIZING"
    BY <1>5 DEF Stop, BaseInv, TypeOK, env, capture, progress, memory, worker
  <2>2. checkpoint' = checkpoint
    BY <1>5 DEF Stop, progress
  <2>3. (FinishHeard <=> FinishHeard') /\ (RangeHeard <=> RangeHeard') /\ Heard' = Heard
    BY <2>1 DEF FinishHeard, RangeHeard, Heard
  <2> QED
    BY <2>1, <2>2, <2>3, <1>0, StaysTrusted
<1>6. CASE FinishBlocked
  <2>1. /\ task' = task
        /\ UNCHANGED <<session, voice, cursor, unfinished, reopened, fragments>>
        /\ blocked => blocked'
        /\ loop' # "stopped" => loop # "stopped"
        /\ asr' = asr \/ asr' = "FINALIZING"
    BY <1>6 DEF FinishBlocked, BaseInv, TypeOK, env, capture, progress, memory, worker
  <2>2. checkpoint' = checkpoint
    BY <1>6 DEF FinishBlocked, progress
  <2>3. (FinishHeard <=> FinishHeard') /\ (RangeHeard <=> RangeHeard') /\ Heard' = Heard
    BY <2>1 DEF FinishHeard, RangeHeard, Heard
  <2> QED
    BY <2>1, <2>2, <2>3, <1>0, StaysTrusted
<1>7. CASE FinishBegins
  <2>1. /\ task' = task
        /\ UNCHANGED <<session, voice, cursor, unfinished, reopened, fragments>>
        /\ blocked => blocked'
        /\ loop' # "stopped" => loop # "stopped"
        /\ asr' = asr \/ asr' = "FINALIZING"
    BY <1>7 DEF FinishBegins, BeginFinalization, BaseInv, TypeOK, env, capture, progress, memory, worker
  <2>2. \A c \in checkpoint : \E d \in checkpoint' : d <= c
    BY <1>7, BeginIs DEF FinishBegins, BaseInv, TypeOK
  <2>3. (FinishHeard <=> FinishHeard') /\ (RangeHeard <=> RangeHeard') /\ Heard' = Heard
    BY <2>1 DEF FinishHeard, RangeHeard, Heard
  <2> QED
    BY <2>1, <2>2, <2>3, <1>0, StaysTrusted
<1>8. CASE FinishReads
  <2>1. /\ task' = task
        /\ UNCHANGED <<session, voice, cursor, unfinished, reopened, fragments>>
        /\ blocked => blocked'
        /\ loop' # "stopped" => loop # "stopped"
        /\ asr' = asr \/ asr' = "FINALIZING"
    BY <1>8 DEF FinishReads, BaseInv, TypeOK, env, capture, progress, memory, worker
  <2>2. checkpoint' = checkpoint
    BY <1>8 DEF FinishReads, progress
  <2>3. (FinishHeard <=> FinishHeard') /\ (RangeHeard <=> RangeHeard') /\ Heard' = Heard
    BY <2>1 DEF FinishHeard, RangeHeard, Heard
  <2> QED
    BY <2>1, <2>2, <2>3, <1>0, StaysTrusted
<1>9. CASE FinishSeals
  <2>1. /\ task' = task
        /\ UNCHANGED <<session, voice, cursor, unfinished, reopened, fragments>>
        /\ blocked => blocked'
        /\ loop' # "stopped" => loop # "stopped"
        /\ asr' = asr \/ asr' = "FINALIZING"
    BY <1>9 DEF FinishSeals, BaseInv, TypeOK, env, capture, progress, memory, worker
  <2>2. checkpoint' = checkpoint
    BY <1>9 DEF FinishSeals, progress
  <2>3. (FinishHeard <=> FinishHeard') /\ (RangeHeard <=> RangeHeard') /\ Heard' = Heard
    BY <2>1 DEF FinishHeard, RangeHeard, Heard
  <2> QED
    BY <2>1, <2>2, <2>3, <1>0, StaysTrusted
<1>10. CASE FinishFails
  <2>1. /\ task' = task
        /\ UNCHANGED <<session, voice, cursor, unfinished, reopened, fragments>>
        /\ blocked => blocked'
        /\ loop' # "stopped" => loop # "stopped"
        /\ asr' = asr \/ asr' = "FINALIZING"
    BY <1>10 DEF FinishFails, MarkStorageError, BaseInv, TypeOK, env, capture, progress, memory, worker
  <2>2. checkpoint' = checkpoint
    BY <1>10 DEF FinishFails, MarkStorageError, progress
  <2>3. (FinishHeard <=> FinishHeard') /\ (RangeHeard <=> RangeHeard') /\ Heard' = Heard
    BY <2>1 DEF FinishHeard, RangeHeard, Heard
  <2> QED
    BY <2>1, <2>2, <2>3, <1>0, StaysTrusted
<1>11. CASE FinishQueued
  <2>1. /\ task' = task
        /\ UNCHANGED <<session, voice, cursor, unfinished, reopened, fragments>>
        /\ blocked => blocked'
        /\ loop' # "stopped" => loop # "stopped"
        /\ asr' = asr \/ asr' = "FINALIZING"
    BY <1>11 DEF FinishQueued, BaseInv, TypeOK, env, capture, progress, memory, worker
  <2>2. checkpoint' = checkpoint
    BY <1>11 DEF FinishQueued, progress
  <2>3. (FinishHeard <=> FinishHeard') /\ (RangeHeard <=> RangeHeard') /\ Heard' = Heard
    BY <2>1 DEF FinishHeard, RangeHeard, Heard
  <2> QED
    BY <2>1, <2>2, <2>3, <1>0, StaysTrusted
<1>12. CASE TakeTask
  <2>1. /\ task'.stage # "heard" /\ (task.kind = "finish" => task.stage # "heard")
        /\ task.stage = "heard" => blocked'
        /\ UNCHANGED <<session, voice, cursor, unfinished, reopened, fragments>>
        /\ blocked => blocked'
        /\ loop' # "stopped" => loop # "stopped"
        /\ asr' = asr \/ asr' = "FINALIZING"
    BY <1>12, TakeIs, EmptyHanded DEF BaseInv, TypeOK, env, capture, progress, memory, worker
  <2>2. checkpoint' = checkpoint
    BY <1>12 DEF TakeTask, InHand, progress
  <2>3. ~FinishHeard /\ ~RangeHeard' /\ (RangeHeard => blocked')
    BY <2>1 DEF FinishHeard, RangeHeard
  <2> QED
    BY <2>1, <2>2, <2>3, <1>0, StaysTrusted
<1>13. CASE SkipRange
  <2>1. /\ task'.stage # "heard" /\ (task.kind = "finish" => task.stage # "heard")
        /\ task.stage = "heard" => blocked'
        /\ UNCHANGED <<session, voice, cursor, unfinished, reopened, fragments>>
        /\ blocked => blocked'
        /\ loop' # "stopped" => loop # "stopped"
        /\ asr' = asr \/ asr' = "FINALIZING"
    BY <1>13, TakeIs, EmptyHanded DEF SkipRange, RangeTaken, BaseInv, TypeOK, env, capture, progress, memory, worker
  <2>2. checkpoint' = checkpoint
    BY <1>13 DEF SkipRange, RangeTaken, progress
  <2>3. ~FinishHeard /\ ~RangeHeard' /\ (RangeHeard => blocked')
    BY <2>1 DEF FinishHeard, RangeHeard
  <2> QED
    BY <2>1, <2>2, <2>3, <1>0, StaysTrusted
<1>14. CASE RefuseRange
  <2>1. /\ task'.stage # "heard" /\ (task.kind = "finish" => task.stage # "heard")
        /\ task.stage = "heard" => blocked'
        /\ UNCHANGED <<session, voice, cursor, unfinished, reopened, fragments>>
        /\ blocked => blocked'
        /\ loop' # "stopped" => loop # "stopped"
        /\ asr' = asr \/ asr' = "FINALIZING"
    BY <1>14, TakeIs, EmptyHanded DEF RefuseRange, RangeTaken, BaseInv, TypeOK, env, capture, progress, memory, worker
  <2>2. checkpoint' = checkpoint
    BY <1>14 DEF RefuseRange, RangeTaken, progress
  <2>3. ~FinishHeard /\ ~RangeHeard' /\ (RangeHeard => blocked')
    BY <2>1 DEF FinishHeard, RangeHeard
  <2> QED
    BY <2>1, <2>2, <2>3, <1>0, StaysTrusted
<1>15. CASE Hear
  BY <1>15, HearKeepsTrust
<1>16. CASE HearFails
  BY <1>16, HearFailsKeepsTrust
<1>17. CASE CommitFinal
  <2>1. /\ task.finals # {} /\ fragments' = fragments \cup {NextFinal}
        /\ task'.kind = task.kind /\ task'.stage = task.stage /\ task'.start = task.start
        /\ task'.end = task.end /\ task'.open = task.open /\ task'.finals = task.finals \ {NextFinal}
        /\ UNCHANGED <<session, voice, cursor, unfinished, reopened, blocked, loop, asr, checkpoint>>
    BY <1>17 DEF CommitFinal, BaseInv, TypeOK, env, capture, progress, memory, worker
  <2>2. Heard \subseteq Heard' /\ fragments \subseteq fragments'
    BY <2>1 DEF Heard
  <2>3. (FinishHeard <=> FinishHeard') /\ (RangeHeard <=> RangeHeard')
    BY <2>1 DEF FinishHeard, RangeHeard
  <2> QED
    BY <2>1, <2>2, <2>3, <1>0, StaysTrusted
<1>18. CASE Advance
  BY <1>18, AdvanceKeepsTrust
<1>19. CASE RangeFails
  <2>1. /\ task'.stage # "heard" /\ (task.kind = "finish" => task.stage # "heard")
        /\ task.stage = "heard" => blocked'
        /\ UNCHANGED <<session, voice, cursor, unfinished, reopened, fragments>>
        /\ blocked => blocked'
        /\ loop' # "stopped" => loop # "stopped"
        /\ asr' = asr \/ asr' = "FINALIZING"
    BY <1>19, TakeIs, EmptyHanded DEF RangeFails, BaseInv, TypeOK, env, capture, progress, memory, worker
  <2>2. checkpoint' = checkpoint
    BY <1>19 DEF RangeFails, progress
  <2>3. ~FinishHeard /\ ~RangeHeard' /\ (RangeHeard => blocked')
    BY <2>1 DEF FinishHeard, RangeHeard
  <2> QED
    BY <2>1, <2>2, <2>3, <1>0, StaysTrusted
<1>20. CASE SkipFinish
  <2>1. session' = Closed
    BY <1>20 DEF SkipFinish, EndFinish
  <2> QED
    BY <2>1, EmptyHanded DEF Trust, Told, Trusted
<1>21. CASE EnsureFinalizing
  <2>1. /\ task'.stage # "heard" /\ (task.kind = "finish" => task.stage # "heard")
        /\ task.stage = "heard" => blocked'
        /\ UNCHANGED <<session, voice, cursor, unfinished, reopened, fragments>>
        /\ blocked => blocked'
        /\ loop' # "stopped" => loop # "stopped"
        /\ asr' = asr \/ asr' = "FINALIZING"
    BY <1>21, TakeIs, EmptyHanded DEF EnsureFinalizing, FinishTaken, BeginFinalization, BaseInv, TypeOK, env, capture, progress, memory, worker
  <2>2. \A c \in checkpoint : \E d \in checkpoint' : d <= c
    <3>1. CASE BeginFinalization
      BY <3>1, BeginIs DEF BaseInv, TypeOK
    <3>2. CASE checkpoint' = checkpoint
      BY <3>2, <1>0
    <3> QED
      BY <1>21, <3>1, <3>2 DEF EnsureFinalizing, progress
  <2>3. ~FinishHeard /\ ~RangeHeard' /\ (RangeHeard => blocked')
    BY <2>1 DEF FinishHeard, RangeHeard
  <2> QED
    BY <2>1, <2>2, <2>3, <1>0, StaysTrusted
<1>22. CASE FlushSession
  <2>1. FinishHeard'
    BY <1>22, FlushIs DEF FinishHeard
  <2> QED
    BY <2>1 DEF Trust, Told, Trusted
<1>23. CASE CompleteAsr
  <2>1. session' = Closed
    BY <1>23 DEF CompleteAsr, EndFinish
  <2> QED
    BY <2>1, EmptyHanded DEF Trust, Told, Trusted
<1>24. CASE FinishErrs
  <2>1. session' = Closed
    BY <1>24 DEF FinishErrs, EndFinish
  <2> QED
    BY <2>1, EmptyHanded DEF Trust, Told, Trusted
<1>25. CASE Crash
  <2>1. session' = Closed
    BY <1>25 DEF Crash, EndFinish
  <2> QED
    BY <2>1, EmptyHanded DEF Trust, Told, Trusted
<1>26. CASE NothingToRecover
  <2>1. session' = Closed
    BY <1>26 DEF NothingToRecover, Quiet, worker
  <2> QED
    BY <2>1, EmptyHanded DEF Trust, Told, Trusted
<1>27. CASE BootBegins
  <2>1. session' = Closed
    BY <1>27 DEF BootBegins, Quiet, worker
  <2> QED
    BY <2>1, EmptyHanded DEF Trust, Told, Trusted
<1>28. CASE BootSeals
  <2>1. session' = Closed
    BY <1>28 DEF BootSeals, Quiet, worker
  <2> QED
    BY <2>1, EmptyHanded DEF Trust, Told, Trusted
<1>29. CASE BootFails
  <2>1. session' = Closed
    BY <1>29 DEF BootFails, Quiet, worker
  <2> QED
    BY <2>1, EmptyHanded DEF Trust, Told, Trusted
<1>30. CASE BootQueues
  <2>1. session' = Closed
    BY <1>30 DEF BootQueues, Quiet, worker
  <2> QED
    BY <2>1, EmptyHanded DEF Trust, Told, Trusted
<1> QED
  BY <1>1, <1>2, <1>3, <1>4, <1>5, <1>6, <1>7, <1>8, <1>9, <1>10, <1>11, <1>12, <1>13, <1>14, <1>15, <1>16, <1>17, <1>18, <1>19, <1>20, <1>21, <1>22, <1>23, <1>24, <1>25, <1>26, <1>27, <1>28, <1>29, <1>30, DeviceSteps

--------------------------------------------------------------------------------
(* The marker of the unfinished utterance.                                  *)

\* A replay begins before the utterance.
LEMMA ReplayStartIs ==
  ASSUME NEW u \in Nat
  PROVE  ReplayStart(u) \in Nat /\ ReplayStart(u) <= u
BY WorkerAssumption DEF ReplayStart

\* The markers are left alone.
LEMMA StaysMarked ==
  ASSUME BaseInv, BaseInv', Markers, voice' = voice, count <= count', cursor' = cursor,
         unfinished' = unfinished, task'.open \subseteq task.open \cup unfinished,
         \A c \in checkpoint : \E d \in checkpoint' : d <= c
  PROVE  Markers'
<1>1. /\ voice \in SUBSET Nat /\ unfinished \in SUBSET Nat /\ checkpoint \in SUBSET Nat
      /\ checkpoint' \in SUBSET Nat /\ count \in Nat /\ count' \in Nat /\ cursor \in Nat
  BY WhereIs, WhereIsNext
<1>2. ASSUME unfinished # {} PROVE \E n \in unfinished' \cup checkpoint' : n <= cursor'
  <2>1. PICK n \in unfinished \cup checkpoint : n <= cursor
    BY <1>2 DEF Markers
  <2>2. CASE n \in unfinished
    BY <2>1, <2>2
  <2>3. CASE n \in checkpoint
    <3>1. PICK d \in checkpoint' : d <= n
      BY <2>3
    <3>2. d <= cursor
      BY <1>1, <2>1, <2>3, <3>1
    <3> QED
      BY <3>1, <3>2
  <2> QED
    BY <2>2, <2>3
<1>3. ASSUME NEW m \in unfinished' \cup task'.open PROVE \E s \in voice' : m <= s /\ s < count'
  <2>1. PICK s \in voice : m <= s /\ s < count
    BY DEF Markers
  <2>2. s < count'
    BY <1>1, <2>1
  <2> QED
    BY <2>1, <2>2
<1> QED
  BY <1>2, <1>3 DEF Markers

\* A range is heard.
LEMMA HearingKeepsMarkers ==
  ASSUME BaseInv, BaseInv', Quiet, InStep, kind = "device", Settled, Begins, Trust, Markers,
         NothingLeftBehind, Hear \/ HearFails
  PROVE  Markers'
<1>1. /\ CanHear /\ cursor' \in {cursor, Rewound}
      /\ UNCHANGED <<voice, count, unfinished, checkpoint>>
  <2>1. CASE Hear
    BY <2>1, HearIs DEF env, capture
  <2>2. CASE HearFails
    BY <2>2 DEF HearFails, capture
  <2> QED
    BY <2>1, <2>2
<1>2. /\ Rewound = task.start
      /\ session.open => cursor = task.start
      /\ ~session.open => (unfinished # {} => task.start \in checkpoint)
  BY <1>1, HearingFrom
<1>3. voice \in SUBSET Nat /\ count \in Nat /\ task.start \in Nat /\ task.end \in Nat /\ task.end <= count
  BY WhereIs
<1>4. unfinished' # {} => \E n \in unfinished' \cup checkpoint' : n <= cursor'
  <2>1. CASE cursor' = cursor
    BY <1>1, <2>1 DEF Markers
  <2>2. CASE cursor' = task.start /\ cursor' # cursor
    <3>1. task.start <= task.start
      BY <1>3
    <3> QED
      BY <1>1, <1>2, <2>2, <3>1
  <2> QED
    BY <1>1, <1>2, <2>1, <2>2
<1>5. ASSUME NEW m \in task'.open, m \notin unfinished PROVE \E s \in voice : m <= s /\ s < count
  <2>1. CASE Hear
    <3>1. PICK base \in Nat, pos \in Nat : task'.open = NewMarker(voice, base, pos, task.end, unfinished)
      <4>1. Hearing.base \in Nat /\ Hearing.pos \in Nat
        BY HearingIs, Room
      <4> QED
        BY <2>1, <4>1, HearIs
    <3>2. PICK u \in Open(voice, base, task.end) : m = ReplayStart(u)
      BY <1>5, <3>1 DEF NewMarker
    <3>3. u \in Nat /\ u \in voice /\ u < task.end
      BY <1>3, <3>2, StartIs DEF Open
    <3>4. m <= u /\ m \in Nat
      BY <3>2, <3>3, ReplayStartIs
    <3>5. u < count
      BY <1>3, <3>3
    <3> QED
      BY <3>3, <3>4, <3>5
  <2>2. CASE HearFails
    BY <1>5, <2>2, EmptyHanded DEF HearFails, Idle
  <2> QED
    BY <2>1, <2>2
<1>6. \A m \in unfinished : \E s \in voice : m <= s /\ s < count
  BY DEF Markers
<1>7. \A m \in unfinished' \cup task'.open : \E s \in voice' : m <= s /\ s < count'
  BY <1>1, <1>5, <1>6
<1> QED
  BY <1>4, <1>7 DEF Markers

\* The marker of a range is set.
LEMMA AdvancingKeepsMarkers ==
  ASSUME BaseInv, InStep, Trust, Markers, Advance
  PROVE  Markers'
<1>1. /\ cursor' = task.end /\ unfinished' = task.open
      /\ session.base <= task.end /\ Honest(task.end, task.open)
      /\ task' = Idle
      /\ UNCHANGED <<voice, count, checkpoint>>
  BY AdvanceIs DEF env, capture
<1>2. task'.open = {}
  BY <1>1 DEF Idle
<1>3. ASSUME NEW m \in task.open PROVE \E n \in task.open \cup checkpoint : n <= task.end
  <2> DEFINE b == session.base
             q == task.end
  <2>1. b \in Nat /\ q \in Nat /\ voice \in SUBSET Nat /\ checkpoint \in SUBSET Nat /\ b <= q
    BY <1>1, WhereIs
  <2>2. \/ \E u \in Open(voice, b, q) : m = ReplayStart(u)
        \/ \E c \in checkpoint : c <= b
    BY <1>1 DEF Honest, HonestTo
  <2> HIDE DEF b, q
  <2>3. CASE \E u \in Open(voice, b, q) : m = ReplayStart(u)
    <3>1. PICK u \in Open(voice, b, q) : m = ReplayStart(u)
      BY <2>3
    <3>2. u \in Nat /\ u < q
      BY <2>1, <3>1, StartIs DEF Open
    <3>3. m <= u /\ m \in Nat
      BY <3>1, <3>2, ReplayStartIs
    <3>4. m <= q
      BY <2>1, <3>2, <3>3
    <3> QED
      BY <3>4 DEF q
  <2>4. CASE \E c \in checkpoint : c <= b
    <3>1. PICK c \in checkpoint : c <= b
      BY <2>4
    <3>2. c <= q
      BY <2>1, <3>1
    <3> QED
      BY <3>2 DEF q
  <2> QED
    BY <2>2, <2>3, <2>4
<1>4. unfinished' # {} => \E n \in unfinished' \cup checkpoint' : n <= cursor'
  BY <1>1, <1>3
<1>5. \A m \in unfinished' \cup task'.open : \E s \in voice' : m <= s /\ s < count'
  BY <1>1, <1>2 DEF Markers
<1> QED
  BY <1>4, <1>5 DEF Markers

\* Nothing is open.
LEMMA NothingMarked ==
  ASSUME unfinished' = {}, task'.open = {}
  PROVE  Markers'
BY DEF Markers

\* The marker stays one of speech that is stored.
LEMMA MarkersStep ==
  ASSUME BaseInv, BaseInv', Quiet, InStep, kind = "device", Settled, DeviceControl, Begins, Trust, Markers,
         LastWords, NothingLeftBehind, Next
  PROVE  Markers'
<1>0. \A c \in checkpoint : c <= c
  BY WhereIs
<1>1. CASE FrameArrives
  <2>1. /\ UNCHANGED <<voice, cursor, unfinished>>
        /\ task'.open \subseteq task.open \cup unfinished
    BY <1>1, EmptyHanded DEF FrameArrives, Idle, env, capture, progress, memory, worker
  <2>2. count <= count'
    BY <1>1, WhereIs DEF FrameArrives, capture
  <2>3. checkpoint' = checkpoint
    BY <1>1 DEF FrameArrives, progress
  <2> QED
    BY <2>1, <2>2, <2>3, <1>0, StaysMarked
<1>2. CASE Store
  <2>1. /\ UNCHANGED <<voice, cursor, unfinished>>
        /\ task'.open \subseteq task.open \cup unfinished
    BY <1>2, EmptyHanded DEF Store, Idle, env, capture, progress, memory, worker
  <2>2. count <= count'
    BY <1>2, WhereIs DEF Store, capture, BaseInv, TypeOK
  <2>3. checkpoint' = checkpoint
    BY <1>2 DEF Store, progress
  <2> QED
    BY <2>1, <2>2, <2>3, <1>0, StaysMarked
<1>3. CASE QueueStored
  <2>1. /\ UNCHANGED <<voice, cursor, unfinished>>
        /\ task'.open \subseteq task.open \cup unfinished
    BY <1>3, EmptyHanded DEF QueueStored, Idle, env, capture, progress, memory, worker
  <2>2. count <= count'
    BY <1>3, WhereIs DEF QueueStored, capture
  <2>3. checkpoint' = checkpoint
    BY <1>3 DEF QueueStored, progress
  <2> QED
    BY <2>1, <2>2, <2>3, <1>0, StaysMarked
<1>4. CASE StoreFails
  <2>1. /\ UNCHANGED <<voice, cursor, unfinished>>
        /\ task'.open \subseteq task.open \cup unfinished
    BY <1>4, EmptyHanded DEF StoreFails, MarkStorageError, Idle, env, capture, progress, memory, worker
  <2>2. count <= count'
    BY <1>4, WhereIs DEF StoreFails, capture
  <2>3. checkpoint' = checkpoint
    BY <1>4 DEF StoreFails, MarkStorageError, progress
  <2> QED
    BY <2>1, <2>2, <2>3, <1>0, StaysMarked
<1>5. CASE Stop
  <2>1. /\ UNCHANGED <<voice, cursor, unfinished>>
        /\ task'.open \subseteq task.open \cup unfinished
    BY <1>5, EmptyHanded DEF Stop, Idle, env, capture, progress, memory, worker
  <2>2. count <= count'
    BY <1>5, WhereIs DEF Stop, capture
  <2>3. checkpoint' = checkpoint
    BY <1>5 DEF Stop, progress
  <2> QED
    BY <2>1, <2>2, <2>3, <1>0, StaysMarked
<1>6. CASE FinishBlocked
  <2>1. /\ UNCHANGED <<voice, cursor, unfinished>>
        /\ task'.open \subseteq task.open \cup unfinished
    BY <1>6, EmptyHanded DEF FinishBlocked, Idle, env, capture, progress, memory, worker
  <2>2. count <= count'
    BY <1>6, WhereIs DEF FinishBlocked, capture
  <2>3. checkpoint' = checkpoint
    BY <1>6 DEF FinishBlocked, progress
  <2> QED
    BY <2>1, <2>2, <2>3, <1>0, StaysMarked
<1>7. CASE FinishBegins
  <2>1. /\ UNCHANGED <<voice, cursor, unfinished>>
        /\ task'.open \subseteq task.open \cup unfinished
    BY <1>7, EmptyHanded DEF FinishBegins, BeginFinalization, Idle, env, capture, progress, memory, worker
  <2>2. count <= count'
    BY <1>7, WhereIs DEF FinishBegins, capture
  <2>3. \A c \in checkpoint : \E d \in checkpoint' : d <= c
    BY <1>7, BeginIs DEF FinishBegins, BaseInv, TypeOK
  <2> QED
    BY <2>1, <2>2, <2>3, <1>0, StaysMarked
<1>8. CASE FinishReads
  <2>1. /\ UNCHANGED <<voice, cursor, unfinished>>
        /\ task'.open \subseteq task.open \cup unfinished
    BY <1>8, EmptyHanded DEF FinishReads, Idle, env, capture, progress, memory, worker
  <2>2. count <= count'
    BY <1>8, WhereIs DEF FinishReads, capture
  <2>3. checkpoint' = checkpoint
    BY <1>8 DEF FinishReads, progress
  <2> QED
    BY <2>1, <2>2, <2>3, <1>0, StaysMarked
<1>9. CASE FinishSeals
  <2>1. /\ UNCHANGED <<voice, cursor, unfinished>>
        /\ task'.open \subseteq task.open \cup unfinished
    BY <1>9, EmptyHanded DEF FinishSeals, Idle, env, capture, progress, memory, worker
  <2>2. count <= count'
    BY <1>9, WhereIs DEF FinishSeals, capture
  <2>3. checkpoint' = checkpoint
    BY <1>9 DEF FinishSeals, progress
  <2> QED
    BY <2>1, <2>2, <2>3, <1>0, StaysMarked
<1>10. CASE FinishFails
  <2>1. /\ UNCHANGED <<voice, cursor, unfinished>>
        /\ task'.open \subseteq task.open \cup unfinished
    BY <1>10, EmptyHanded DEF FinishFails, MarkStorageError, Idle, env, capture, progress, memory, worker
  <2>2. count <= count'
    BY <1>10, WhereIs DEF FinishFails, capture
  <2>3. checkpoint' = checkpoint
    BY <1>10 DEF FinishFails, MarkStorageError, progress
  <2> QED
    BY <2>1, <2>2, <2>3, <1>0, StaysMarked
<1>11. CASE FinishQueued
  <2>1. /\ UNCHANGED <<voice, cursor, unfinished>>
        /\ task'.open \subseteq task.open \cup unfinished
    BY <1>11, EmptyHanded DEF FinishQueued, Idle, env, capture, progress, memory, worker
  <2>2. count <= count'
    BY <1>11, WhereIs DEF FinishQueued, capture
  <2>3. checkpoint' = checkpoint
    BY <1>11 DEF FinishQueued, progress
  <2> QED
    BY <2>1, <2>2, <2>3, <1>0, StaysMarked
<1>12. CASE TakeTask
  <2>1. /\ UNCHANGED <<voice, cursor, unfinished>>
        /\ task'.open \subseteq task.open \cup unfinished
    BY <1>12, TakeIs DEF TakeTask, InHand, Idle, env, capture, progress, memory, worker
  <2>2. count <= count'
    BY <1>12, WhereIs DEF TakeTask, capture
  <2>3. checkpoint' = checkpoint
    BY <1>12 DEF TakeTask, InHand, progress
  <2> QED
    BY <2>1, <2>2, <2>3, <1>0, StaysMarked
<1>13. CASE SkipRange
  <2>1. /\ UNCHANGED <<voice, cursor, unfinished>>
        /\ task'.open \subseteq task.open \cup unfinished
    BY <1>13, EmptyHanded DEF SkipRange, RangeTaken, Idle, env, capture, progress, memory, worker
  <2>2. count <= count'
    BY <1>13, WhereIs DEF SkipRange, capture
  <2>3. checkpoint' = checkpoint
    BY <1>13 DEF SkipRange, RangeTaken, progress
  <2> QED
    BY <2>1, <2>2, <2>3, <1>0, StaysMarked
<1>14. CASE RefuseRange
  <2>1. /\ UNCHANGED <<voice, cursor, unfinished>>
        /\ task'.open \subseteq task.open \cup unfinished
    BY <1>14, EmptyHanded DEF RefuseRange, RangeTaken, Idle, env, capture, progress, memory, worker
  <2>2. count <= count'
    BY <1>14, WhereIs DEF RefuseRange, capture
  <2>3. checkpoint' = checkpoint
    BY <1>14 DEF RefuseRange, RangeTaken, progress
  <2> QED
    BY <2>1, <2>2, <2>3, <1>0, StaysMarked
<1>15. CASE Hear
  BY <1>15, HearingKeepsMarkers
<1>16. CASE HearFails
  BY <1>16, HearingKeepsMarkers
<1>17. CASE CommitFinal
  <2>1. /\ UNCHANGED <<voice, cursor, unfinished>>
        /\ task'.open \subseteq task.open \cup unfinished
    BY <1>17, EmptyHanded DEF CommitFinal, Idle, env, capture, progress, memory, worker
  <2>2. count <= count'
    BY <1>17, WhereIs DEF CommitFinal, capture
  <2>3. checkpoint' = checkpoint
    BY <1>17 DEF CommitFinal, progress
  <2> QED
    BY <2>1, <2>2, <2>3, <1>0, StaysMarked
<1>18. CASE Advance
  BY <1>18, AdvancingKeepsMarkers
<1>19. CASE RangeFails
  <2>1. /\ UNCHANGED <<voice, cursor, unfinished>>
        /\ task'.open \subseteq task.open \cup unfinished
    BY <1>19, EmptyHanded DEF RangeFails, Idle, env, capture, progress, memory, worker
  <2>2. count <= count'
    BY <1>19, WhereIs DEF RangeFails, capture
  <2>3. checkpoint' = checkpoint
    BY <1>19 DEF RangeFails, progress
  <2> QED
    BY <2>1, <2>2, <2>3, <1>0, StaysMarked
<1>20. CASE SkipFinish
  <2>1. /\ UNCHANGED <<voice, cursor, unfinished>>
        /\ task'.open \subseteq task.open \cup unfinished
    BY <1>20, EmptyHanded DEF SkipFinish, FinishTaken, EndFinish, Idle, env, capture, progress, memory, worker
  <2>2. count <= count'
    BY <1>20, WhereIs DEF SkipFinish, capture
  <2>3. checkpoint' = checkpoint
    BY <1>20 DEF SkipFinish, FinishTaken, EndFinish, progress
  <2> QED
    BY <2>1, <2>2, <2>3, <1>0, StaysMarked
<1>21. CASE EnsureFinalizing
  <2>1. /\ UNCHANGED <<voice, cursor, unfinished>>
        /\ task'.open \subseteq task.open \cup unfinished
    BY <1>21, EmptyHanded DEF EnsureFinalizing, FinishTaken, BeginFinalization, BeginFinalization, Idle, env, capture, progress, memory, worker
  <2>2. count <= count'
    BY <1>21, WhereIs DEF EnsureFinalizing, capture
  <2>3. \A c \in checkpoint : \E d \in checkpoint' : d <= c
    <3>1. CASE BeginFinalization
      BY <3>1, BeginIs DEF BaseInv, TypeOK
    <3>2. CASE checkpoint' = checkpoint
      BY <3>2, <1>0
    <3> QED
      BY <1>21, <3>1, <3>2 DEF EnsureFinalizing, progress
  <2> QED
    BY <2>1, <2>2, <2>3, <1>0, StaysMarked
<1>22. CASE FlushSession
  <2>1. /\ UNCHANGED <<voice, cursor, unfinished>>
        /\ task'.open \subseteq task.open \cup unfinished
    BY <1>22, FlushIs DEF Idle, env, capture, progress, memory, worker
  <2>2. count <= count'
    BY <1>22, WhereIs DEF FlushSession, capture
  <2>3. checkpoint' = checkpoint
    BY <1>22 DEF FlushSession, progress
  <2> QED
    BY <2>1, <2>2, <2>3, <1>0, StaysMarked
<1>23. CASE CompleteAsr
  <2>1. FinishHeard /\ unfinished' = task.open /\ task' = Idle
    BY <1>23 DEF CompleteAsr, EndFinish, FinishHeard
  <2>2. task.open = {}
    BY <2>1 DEF LastWords
  <2> QED
    BY <2>1, <2>2, NothingMarked DEF Idle
<1>24. CASE FinishErrs
  <2>1. /\ UNCHANGED <<voice, cursor, unfinished>>
        /\ task'.open \subseteq task.open \cup unfinished
    BY <1>24, EmptyHanded DEF FinishErrs, FinishTaken, EndFinish, Idle, env, capture, progress, memory, worker
  <2>2. count <= count'
    BY <1>24, WhereIs DEF FinishErrs, capture
  <2>3. checkpoint' = checkpoint
    BY <1>24 DEF FinishErrs, FinishTaken, EndFinish, progress
  <2> QED
    BY <2>1, <2>2, <2>3, <1>0, StaysMarked
<1>25. CASE Crash
  <2>1. /\ UNCHANGED <<voice, cursor, unfinished>>
        /\ task'.open \subseteq task.open \cup unfinished
    BY <1>25, EmptyHanded DEF Crash, Idle, env, capture, progress, memory, worker
  <2>2. count <= count'
    BY <1>25, WhereIs DEF Crash, capture
  <2>3. checkpoint' = checkpoint
    BY <1>25 DEF Crash, progress
  <2> QED
    BY <2>1, <2>2, <2>3, <1>0, StaysMarked
<1>26. CASE NothingToRecover
  <2>1. /\ UNCHANGED <<voice, cursor, unfinished>>
        /\ task'.open \subseteq task.open \cup unfinished
    BY <1>26, EmptyHanded DEF NothingToRecover, Idle, env, capture, progress, memory, worker
  <2>2. count <= count'
    BY <1>26, WhereIs DEF NothingToRecover, capture
  <2>3. checkpoint' = checkpoint
    BY <1>26 DEF NothingToRecover, progress
  <2> QED
    BY <2>1, <2>2, <2>3, <1>0, StaysMarked
<1>27. CASE BootBegins
  <2>1. /\ UNCHANGED <<voice, cursor, unfinished>>
        /\ task'.open \subseteq task.open \cup unfinished
    BY <1>27, EmptyHanded DEF BootBegins, BeginFinalization, Idle, env, capture, progress, memory, worker
  <2>2. count <= count'
    BY <1>27, WhereIs DEF BootBegins, capture
  <2>3. \A c \in checkpoint : \E d \in checkpoint' : d <= c
    BY <1>27, BeginIs DEF BootBegins, BaseInv, TypeOK
  <2> QED
    BY <2>1, <2>2, <2>3, <1>0, StaysMarked
<1>28. CASE BootSeals
  <2>1. /\ UNCHANGED <<voice, cursor, unfinished>>
        /\ task'.open \subseteq task.open \cup unfinished
    BY <1>28, EmptyHanded DEF BootSeals, Idle, env, capture, progress, memory, worker
  <2>2. count <= count'
    BY <1>28, WhereIs DEF BootSeals, capture
  <2>3. checkpoint' = checkpoint
    BY <1>28 DEF BootSeals, progress
  <2> QED
    BY <2>1, <2>2, <2>3, <1>0, StaysMarked
<1>29. CASE BootFails
  <2>1. /\ UNCHANGED <<voice, cursor, unfinished>>
        /\ task'.open \subseteq task.open \cup unfinished
    BY <1>29, EmptyHanded DEF BootFails, MarkStorageError, Idle, env, capture, progress, memory, worker
  <2>2. count <= count'
    BY <1>29, WhereIs DEF BootFails, capture
  <2>3. checkpoint' = checkpoint
    BY <1>29 DEF BootFails, MarkStorageError, progress
  <2> QED
    BY <2>1, <2>2, <2>3, <1>0, StaysMarked
<1>30. CASE BootQueues
  <2>1. /\ UNCHANGED <<voice, cursor, unfinished>>
        /\ task'.open \subseteq task.open \cup unfinished
    BY <1>30, EmptyHanded DEF BootQueues, Idle, env, capture, progress, memory, worker
  <2>2. count <= count'
    BY <1>30, WhereIs DEF BootQueues, capture
  <2>3. checkpoint' = checkpoint
    BY <1>30 DEF BootQueues, progress
  <2> QED
    BY <2>1, <2>2, <2>3, <1>0, StaysMarked
<1> QED
  BY <1>1, <1>2, <1>3, <1>4, <1>5, <1>6, <1>7, <1>8, <1>9, <1>10, <1>11, <1>12, <1>13, <1>14, <1>15, <1>16, <1>17, <1>18, <1>19, <1>20, <1>21, <1>22, <1>23, <1>24, <1>25, <1>26, <1>27, <1>28, <1>29, <1>30, DeviceSteps

--------------------------------------------------------------------------------
(* The last words of a session.                                             *)

\* The finish in hand is left alone.
LEMMA StaysSaid ==
  ASSUME LastWords, FinishHeard' => FinishHeard /\ task'.end = task.end /\ task'.open = task.open,
         FinishHeard /\ FinishHeard' => Heard' = Heard,
         UNCHANGED <<voice, count, asr, reopened, loop, queue>>
  PROVE  LastWords'
<1> SUFFICES ASSUME FinishHeard'
             PROVE  (/\ task.end = count /\ task.open = {} /\ asr # "COMPLETE" /\ loop = "stopped" /\ queue = <<>>
                     /\ \A s \in voice : s < count =>
                          \/ \E u \in Heard : u[1] <= s /\ s < u[2]
                          \/ HiddenBy(reopened \cup {r \in {count} : BacklogHides(r)}, s))'
  BY DEF LastWords
<1>1. FinishHeard /\ Heard' = Heard
  OBVIOUS
<1>2. /\ task.end = count /\ task.open = {} /\ asr # "COMPLETE" /\ loop = "stopped" /\ queue = <<>>
      /\ \A s \in voice : s < count =>
           \/ \E u \in Heard : u[1] <= s /\ s < u[2]
           \/ HiddenBy(reopened \cup {r \in {count} : BacklogHides(r)}, s)
  BY <1>1 DEF LastWords
<1>3. {r \in {count} : BacklogHides(r)}' = {r \in {count} : BacklogHides(r)}
  BY DEF BacklogHides
<1> QED
  BY <1>1, <1>2, <1>3

\* The last words of a session are said at the end of the recording.
LEMMA FlushingSaysAll ==
  ASSUME BaseInv, Quiet, kind = "device", Settled, DeviceControl, Chain, Begins, Trust, Markers,
         NothingLeftBehind, FlushSession
  PROVE  LastWords'
<1>1. /\ task.kind = "finish" /\ task.stage = "begun" /\ task.finals = {}
      /\ ~FinishHeard /\ ~RangeHeard /\ task # Idle /\ up = "up" /\ ~Stopped
  BY Working DEF FlushSession, BaseInv, Shape, FinishHeard, RangeHeard, Stopped, Drained
<1>2. ~blocked /\ asr = "FINALIZING" /\ loop = "stopped"
  BY <1>1 DEF DeviceControl, Ending, FirstTime
<1>3. asrCursor = {count} /\ queue = <<>>
  BY <1>1, <1>2 DEF Chain
<1>4. /\ voice \in SUBSET Nat /\ count \in Nat /\ cursor \in Nat /\ cursor <= count
      /\ session.base \in Nat /\ unfinished \in SUBSET Nat /\ checkpoint \in SUBSET Nat
  BY WhereIs
<1>5. \A m \in unfinished : \E s \in voice : m <= s /\ s < count
  BY DEF Markers
<1>6. PICK base \in Positions, pos \in Positions :
        /\ IF session.open THEN base = session.base /\ pos = session.pos
           ELSE base = LeastOf({cursor} \cup unfinished) /\ pos = base
        /\ task' = [kind |-> "finish", stage |-> "heard", start |-> task.start, end |-> count,
                    finals |-> Flush(voice, base, pos),
                    open |-> IF Flush(voice, base, pos) = {} THEN unfinished ELSE {}]
        /\ UNCHANGED <<voice, count, asr, fragments, loop, queue, reopened>>
  BY FlushIs DEF env, capture, progress
<1>7. /\ pos = count
      /\ Flush(voice, base, count) = {} => unfinished = {}
      /\ \A s \in voice : s < count =>
           \/ \E u \in fragments \cup Flush(voice, base, count) : u[1] <= s /\ s < u[2]
           \/ HiddenBy(reopened \cup Backlog(count, count), s)
  <2>1. CASE session.open
    <3>1. Told
      BY <1>1, <1>2, <2>1 DEF Trust, Trusted
    <3>2. session.pos = cursor /\ session.pos = count
      BY <1>1, <1>2, <1>3, <2>1, <3>1 DEF Told, Begins
    <3>3. base = session.base /\ base \in Nat /\ pos = count
      BY <1>4, <1>6, <2>1, <3>2
    <3>4. /\ KnownTo(voice, base, count, fragments, unfinished)
          /\ HonestTo(voice, base, count, checkpoint, unfinished)
      BY <3>1, <3>2, <3>3 DEF Told, Known, Honest
    <3>5. /\ \A s \in voice : base <= s /\ s < count =>
                \E u \in fragments \cup Flush(voice, base, count) : u[1] <= s /\ s < u[2]
          /\ Flush(voice, base, count) = {} => unfinished = {}
      BY <1>4, <1>5, <3>3, <3>4, FlushTellsAll
    <3>6. \A s \in voice : s < base => \/ \E u \in fragments : u[1] <= s /\ s < u[2]
                                       \/ HiddenBy(reopened \cup Backlog(count, count), s)
      <4>1. Before(base)
        BY <3>1, <3>3 DEF Told
      <4> QED
        BY <4>1 DEF Before, Transcribed, HiddenBy
    <3>7. \A s \in voice : base <= s \/ s < base
      BY <1>4, <3>3
    <3> QED
      BY <3>3, <3>5, <3>6, <3>7
  <2>2. CASE ~session.open
    <3>1. NextRestart = count
      BY <1>1, <1>2, <1>3, <2>2 DEF Begins
    <3>2. NextRestart <= cursor /\ \A n \in checkpoint \cup unfinished : NextRestart <= n
      BY <1>2, RestartIsNat
    <3>3. cursor = count
      BY <1>4, <3>1, <3>2
    <3>4. unfinished = {}
      <4> SUFFICES ASSUME NEW m \in unfinished PROVE FALSE
        OBVIOUS
      <4>1. PICK s \in voice : m <= s /\ s < count
        BY <1>5
      <4>2. count <= m
        BY <3>1, <3>2
      <4> QED
        BY <1>4, <4>1, <4>2
    <3>5. LeastOf({cursor} \cup unfinished) = count
      <4>1. count \in {cursor} \cup unfinished /\ \A n \in {cursor} \cup unfinished : count <= n
        BY <1>4, <3>3, <3>4
      <4> QED
        BY <1>4, <4>1, LeastIs
    <3>6. pos = count
      BY <1>6, <2>2, <3>5
    <3>7. KeptTo(voice, fragments, reopened, count, count)
      BY <3>1, KeptIs
    <3> QED
      BY <3>4, <3>6, <3>7 DEF KeptTo
  <2> QED
    BY <2>1, <2>2
<1>8. /\ task'.end = count' /\ task'.open = {} /\ asr' # "COMPLETE" /\ loop' = "stopped" /\ queue' = <<>>
      /\ Heard' = fragments \cup Flush(voice, base, count)
  BY <1>2, <1>3, <1>6, <1>7 DEF Heard
<1>9. Backlog(count, count) = {r \in {count} : BacklogHides(r)}'
  BY <1>6 DEF Backlog, BacklogHides
<1>10. (\A s \in voice : s < count =>
           \/ \E u \in Heard : u[1] <= s /\ s < u[2]
           \/ HiddenBy(reopened \cup {r \in {count} : BacklogHides(r)}, s))'
  BY <1>6, <1>7, <1>8, <1>9
<1> QED
  BY <1>8, <1>10 DEF LastWords

\* A finish that was heard has all of the speech.
LEMMA LastWordsStep ==
  ASSUME BaseInv, Quiet, kind = "device", Settled, DeviceControl, Chain, Begins, Trust, Markers,
         LastWords, NothingLeftBehind, Next
  PROVE  LastWords'
<1>1. CASE FrameArrives
  BY <1>1, StaysSaid DEF FrameArrives, capture, progress, env, worker, FinishHeard, Heard
<1>2. CASE Store
  <2>1. ~FinishHeard'
    BY <1>2 DEF Store, FinishHeard, LastWords, DeviceControl, FeedOfLoop
  <2> QED
    BY <2>1 DEF LastWords
<1>3. CASE QueueStored
  <2>1. ~FinishHeard'
    BY <1>3 DEF QueueStored, FinishHeard, LastWords, DeviceControl, FeedOfLoop
  <2> QED
    BY <2>1 DEF LastWords
<1>4. CASE StoreFails
  <2>1. ~FinishHeard'
    BY <1>4 DEF StoreFails, FinishHeard, LastWords, DeviceControl, FeedOfLoop
  <2> QED
    BY <2>1 DEF LastWords
<1>5. CASE Stop
  <2>1. ~FinishHeard'
    BY <1>5 DEF Stop, FinishHeard, LastWords
  <2> QED
    BY <2>1 DEF LastWords
<1>6. CASE FinishBlocked
  <2>1. ~FinishHeard'
    BY <1>6 DEF FinishBlocked, FinishHeard, LastWords
  <2> QED
    BY <2>1 DEF LastWords
<1>7. CASE FinishBegins
  <2>1. ~FinishHeard'
    BY <1>7 DEF FinishBegins, FinishHeard, LastWords
  <2> QED
    BY <2>1 DEF LastWords
<1>8. CASE FinishReads
  <2>1. ~FinishHeard'
    BY <1>8 DEF FinishReads, FinishHeard, LastWords
  <2> QED
    BY <2>1 DEF LastWords
<1>9. CASE FinishSeals
  <2>1. ~FinishHeard'
    BY <1>9 DEF FinishSeals, FinishHeard, LastWords
  <2> QED
    BY <2>1 DEF LastWords
<1>10. CASE FinishFails
  <2>1. ~FinishHeard'
    BY <1>10 DEF FinishFails, FinishHeard, LastWords
  <2> QED
    BY <2>1 DEF LastWords
<1>11. CASE FinishQueued
  <2>1. ~FinishHeard'
    BY <1>11 DEF FinishQueued, FinishHeard, LastWords
  <2> QED
    BY <2>1 DEF LastWords
<1>12. CASE TakeTask
  <2>1. ~FinishHeard'
    BY <1>12, TakeIs DEF FinishHeard
  <2> QED
    BY <2>1 DEF LastWords
<1>13. CASE SkipRange
  <2>1. ~FinishHeard'
    BY <1>13, EmptyHanded DEF SkipRange, FinishHeard
  <2> QED
    BY <2>1 DEF LastWords
<1>14. CASE RefuseRange
  <2>1. ~FinishHeard'
    BY <1>14, EmptyHanded DEF RefuseRange, FinishHeard
  <2> QED
    BY <2>1 DEF LastWords
<1>15. CASE Hear
  <2>1. ~FinishHeard'
    BY <1>15, HearIs DEF FinishHeard
  <2> QED
    BY <2>1 DEF LastWords
<1>16. CASE HearFails
  <2>1. ~FinishHeard'
    BY <1>16, EmptyHanded DEF HearFails, FinishHeard
  <2> QED
    BY <2>1 DEF LastWords
<1>17. CASE CommitFinal
  <2>1. /\ task.finals # {} /\ fragments' = fragments \cup {NextFinal}
        /\ task'.kind = task.kind /\ task'.stage = task.stage
        /\ task'.end = task.end /\ task'.open = task.open /\ task'.finals = task.finals \ {NextFinal}
        /\ UNCHANGED <<voice, count, asr, reopened, loop, queue>>
    BY <1>17 DEF CommitFinal, BaseInv, TypeOK, env, capture, progress, memory, worker
  <2>2. NextFinal \in task.finals
    BY <2>1, NextFinalIs DEF BaseInv, TypeOK
  <2>3. Heard' = Heard
    BY <2>1, <2>2 DEF Heard
  <2>4. FinishHeard' => FinishHeard
    BY <2>1 DEF FinishHeard
  <2> QED
    BY <2>1, <2>3, <2>4, StaysSaid
<1>18. CASE Advance
  <2>1. ~FinishHeard'
    BY <1>18, EmptyHanded DEF Advance, FinishHeard
  <2> QED
    BY <2>1 DEF LastWords
<1>19. CASE RangeFails
  <2>1. ~FinishHeard'
    BY <1>19, EmptyHanded DEF RangeFails, FinishHeard
  <2> QED
    BY <2>1 DEF LastWords
<1>20. CASE SkipFinish
  <2>1. ~FinishHeard'
    BY <1>20, EmptyHanded DEF SkipFinish, EndFinish, FinishHeard
  <2> QED
    BY <2>1 DEF LastWords
<1>21. CASE EnsureFinalizing
  <2>1. ~FinishHeard'
    BY <1>21, EmptyHanded DEF EnsureFinalizing, FinishHeard, FinishTaken, BaseInv, TypeOK
  <2> QED
    BY <2>1 DEF LastWords
<1>22. CASE FlushSession
  BY <1>22, FlushingSaysAll
<1>23. CASE CompleteAsr
  <2>1. ~FinishHeard'
    BY <1>23, EmptyHanded DEF CompleteAsr, EndFinish, FinishHeard
  <2> QED
    BY <2>1 DEF LastWords
<1>24. CASE FinishErrs
  <2>1. ~FinishHeard'
    BY <1>24, EmptyHanded DEF FinishErrs, EndFinish, FinishHeard
  <2> QED
    BY <2>1 DEF LastWords
<1>25. CASE Crash
  <2>1. ~FinishHeard'
    BY <1>25, EmptyHanded DEF Crash, FinishHeard
  <2> QED
    BY <2>1 DEF LastWords
<1>26. CASE NothingToRecover
  <2>1. ~FinishHeard'
    BY <1>26, EmptyHanded DEF NothingToRecover, Quiet, FinishHeard
  <2> QED
    BY <2>1 DEF LastWords
<1>27. CASE BootBegins
  <2>1. ~FinishHeard'
    BY <1>27, EmptyHanded DEF BootBegins, Quiet, FinishHeard
  <2> QED
    BY <2>1 DEF LastWords
<1>28. CASE BootSeals
  <2>1. ~FinishHeard'
    BY <1>28, EmptyHanded DEF BootSeals, Quiet, FinishHeard
  <2> QED
    BY <2>1 DEF LastWords
<1>29. CASE BootFails
  <2>1. ~FinishHeard'
    BY <1>29, EmptyHanded DEF BootFails, Quiet, FinishHeard
  <2> QED
    BY <2>1 DEF LastWords
<1>30. CASE BootQueues
  <2>1. ~FinishHeard'
    BY <1>30, EmptyHanded DEF BootQueues, Quiet, FinishHeard
  <2> QED
    BY <2>1 DEF LastWords
<1> QED
  BY <1>1, <1>2, <1>3, <1>4, <1>5, <1>6, <1>7, <1>8, <1>9, <1>10, <1>11, <1>12, <1>13, <1>14, <1>15, <1>16, <1>17, <1>18, <1>19, <1>20, <1>21, <1>22, <1>23, <1>24, <1>25, <1>26, <1>27, <1>28, <1>29, <1>30, DeviceSteps

--------------------------------------------------------------------------------
(* No speech is left behind.                                                *)

\* The bounds of where recognition would begin again in the next state.
LEMMA RestartIsNatNext ==
  ASSUME BaseInv', kind' = "device", Settled'
  PROVE  /\ NextRestart' = Restart(asr', cursor', checkpoint', unfinished', count')
         /\ NextRestart' \in Nat /\ NextRestart' <= cursor'
<1>1. /\ cursor' \in Nat /\ count' \in Nat /\ checkpoint' \in SUBSET Nat /\ unfinished' \in SUBSET Nat
  BY WhereIsNext
<1>2. NextRestart' = Restart(asr', cursor', checkpoint', unfinished', count')
  BY NextRestartIsNext
<1> QED
  BY <1>1, <1>2, RestartBounds

\* A restart that is no later keeps what was kept.
LEMMA StaysKept ==
  ASSUME BaseInv, BaseInv', kind = "device", kind' = kind, Settled, Settled', NothingLeftBehind,
         voice' = voice, fragments \subseteq fragments', reopened \subseteq reopened', count <= count',
         NextRestart' <= NextRestart
  PROVE  NothingLeftBehind'
<1>1. KeptTo(voice, fragments, reopened, count, NextRestart)
  BY KeptIs
<1>2. /\ voice \in SUBSET Nat /\ reopened \in SUBSET Nat /\ reopened' \in SUBSET Nat
      /\ count \in Nat /\ count' \in Nat
  BY WhereIs, WhereIsNext
<1>3. NextRestart \in Nat /\ NextRestart' \in Nat
  BY RestartIsNat, RestartIsNatNext
<1>4. KeptTo(voice, fragments', reopened', count', NextRestart')
  BY <1>1, <1>2, <1>3, KeptLower
<1> QED
  BY <1>4, KeptIsNext

\* Where the words of an open session are known, they are kept.
LEMMA KnownStaysKept ==
  ASSUME BaseInv, BaseInv', kind' = "device", Settled', asr' # "COMPLETE",
         session.base <= cursor', Before(session.base),
         Known(cursor', fragments', unfinished'), HonestTo(voice, session.base, cursor', checkpoint', unfinished'),
         UNCHANGED <<voice, fragments, reopened>>
  PROVE  NothingLeftBehind'
<1>1. /\ voice \in SUBSET Nat /\ session.base \in Nat /\ cursor' \in Nat /\ count' \in Nat
      /\ checkpoint' \in SUBSET Nat /\ unfinished' \in SUBSET Nat
  BY WhereIs, WhereIsNext
<1>2. \A s \in voice : s < session.base => \/ \E u \in fragments' : u[1] <= s /\ s < u[2]
                                           \/ HiddenBy(reopened', s)
  BY DEF Before, Transcribed
<1>3. KeptTo(voice, fragments', reopened', count', LowPoint(cursor', checkpoint', unfinished', count'))
  BY <1>1, <1>2, KnownIsKept DEF Known
<1>4. NextRestart' = LowPoint(cursor', checkpoint', unfinished', count')
  BY RestartIsNatNext DEF Restart
<1> QED
  BY <1>3, <1>4, KeptIsNext

\* A frame is stored: the replay window moves on.
LEMMA StoringKeepsAll ==
  ASSUME BaseInv, BaseInv', kind = "device", kind' = kind, Settled, Settled', DeviceControl, Trust, Store
  PROVE  NothingLeftBehind'
<1>1. /\ UNCHANGED <<voice, asr, cursor, checkpoint, unfinished, fragments, reopened>>
      /\ loop = "recording"
  BY DEF Store, env, progress, worker, DeviceControl, FeedOfLoop
<1>2. task.kind # "finish" /\ (~session.open => cursor = 0)
  BY <1>1 DEF DeviceControl, FirstTime
<1>3. CASE session.open
  <2>1. Told
    BY <1>1, <1>2, <1>3 DEF Trust, Trusted, FinishHeard
  <2>2. /\ asr # "COMPLETE" /\ session.base <= cursor /\ Before(session.base)
        /\ Known(cursor, fragments, unfinished)
        /\ HonestTo(voice, session.base, cursor, checkpoint, unfinished)
    BY <2>1 DEF Told, Honest
  <2>3. Known(cursor', fragments', unfinished')
    BY <1>1, <2>2
  <2> QED
    BY <1>1, <2>2, <2>3, KnownStaysKept
<1>4. CASE ~session.open
  <2>1. cursor' = 0
    BY <1>1, <1>2, <1>4
  <2>2. NextRestart' \in Nat /\ NextRestart' <= 0
    BY <2>1, RestartIsNatNext
  <2>3. NextRestart' = 0
    BY <2>2
  <2>4. voice' \in SUBSET Nat
    BY WhereIsNext
  <2>5. KeptTo(voice', fragments', reopened', count', 0)
    BY <2>4 DEF KeptTo
  <2> QED
    BY <2>3, <2>5, KeptIsNext
<1> QED
  BY <1>3, <1>4

\* The cursor goes back to a range that is heard again.
LEMMA HearingKeepsAll ==
  ASSUME BaseInv, BaseInv', kind = "device", kind' = kind, Settled, Settled', NothingLeftBehind,
         Hear \/ HearFails
  PROVE  NothingLeftBehind'
<1>1. /\ cursor' \in {cursor, Rewound} /\ reopened \subseteq reopened'
      /\ UNCHANGED <<voice, asr, count, unfinished, checkpoint, fragments>>
  <2>1. CASE Hear
    BY <2>1, HearIs DEF env, capture
  <2>2. CASE HearFails
    BY <2>2 DEF HearFails, capture
  <2> QED
    BY <2>1, <2>2
<1>2. /\ cursor \in Nat /\ cursor' \in Nat /\ count \in Nat /\ checkpoint \in SUBSET Nat
      /\ unfinished \in SUBSET Nat
  BY WhereIs, WhereIsNext
<1>3. cursor' <= cursor
  BY <1>1, <1>2, HearingIs
<1>4. Restart(asr, cursor', checkpoint, unfinished, count) <= Restart(asr, cursor, checkpoint, unfinished, count)
  BY <1>2, <1>3, RestartLower
<1>5. NextRestart' <= NextRestart
  BY <1>1, <1>4, NextRestartIs, RestartIsNatNext
<1>6. count <= count'
  BY <1>1, <1>2
<1> QED
  BY <1>1, <1>5, <1>6, StaysKept

\* The cursor moves on behind what is known.
LEMMA AdvancingKeepsAll ==
  ASSUME BaseInv, BaseInv', kind = "device", kind' = kind, Settled', InStep, Trust, Advance
  PROVE  NothingLeftBehind'
<1>1. /\ asr # "COMPLETE" /\ cursor' = task.end /\ unfinished' = task.open
      /\ session.base <= task.end /\ Before(session.base)
      /\ Known(task.end, fragments, task.open)
      /\ HonestTo(voice, session.base, task.end, checkpoint, task.open)
      /\ UNCHANGED <<voice, asr, checkpoint, fragments, reopened>>
  BY AdvanceIs DEF env, worker, Honest
<1>2. Known(cursor', fragments', unfinished')
  BY <1>1
<1> QED
  BY <1>1, <1>2, KnownStaysKept

\* The capture is complete.
LEMMA CompletingKeepsAll ==
  ASSUME BaseInv, BaseInv', kind = "device", kind' = kind, Settled', LastWords, CompleteAsr
  PROVE  NothingLeftBehind'
<1>1. /\ FinishHeard /\ task.finals = {} /\ asr' = "COMPLETE" /\ cursor' = task.end
      /\ UNCHANGED <<voice, count, fragments, reopened>>
  BY DEF CompleteAsr, EndFinish, FinishHeard, env, capture
<1>2. /\ task.end = count
      /\ \A s \in voice : s < count =>
           \/ \E u \in Heard : u[1] <= s /\ s < u[2]
           \/ HiddenBy(reopened \cup {r \in {count} : BacklogHides(r)}, s)
  BY <1>1 DEF LastWords
<1>3. Heard = fragments
  BY <1>1 DEF Heard
<1>4. NextRestart' = count'
  BY <1>1, <1>2, RestartIsNatNext DEF Restart
<1>5. Backlog(count, count) = {r \in {count} : BacklogHides(r)}
  BY DEF Backlog, BacklogHides
<1>6. KeptTo(voice, fragments, reopened, count, count)
  BY <1>2, <1>3, <1>5 DEF KeptTo
<1> QED
  BY <1>1, <1>4, <1>6, KeptIsNext

\* No step leaves speech behind.
LEMMA KeptStep ==
  ASSUME BaseInv, BaseInv', Quiet, InStep, kind = "device", kind' = kind, Settled, Settled', DeviceControl,
         Trust, LastWords, NothingLeftBehind, Next
  PROVE  NothingLeftBehind'
<1>0. count <= count /\ NextRestart <= NextRestart
  BY WhereIs, RestartIsNat
<1>1. CASE FrameArrives
  <2>1. /\ UNCHANGED <<voice, count, asr, cursor, checkpoint, unfinished, reopened>>
        /\ fragments \subseteq fragments'
    BY <1>1 DEF FrameArrives, env, capture, progress, memory, worker
  <2> QED
    BY <2>1, <1>0, RestartStays, StaysKept
<1>2. CASE Store
  BY <1>2, StoringKeepsAll
<1>3. CASE QueueStored
  <2>1. /\ UNCHANGED <<voice, count, asr, cursor, checkpoint, unfinished, reopened>>
        /\ fragments \subseteq fragments'
    BY <1>3 DEF QueueStored, env, capture, progress, memory, worker
  <2> QED
    BY <2>1, <1>0, RestartStays, StaysKept
<1>4. CASE StoreFails
  <2>1. /\ UNCHANGED <<voice, count, asr, cursor, checkpoint, unfinished, reopened>>
        /\ fragments \subseteq fragments'
    BY <1>4 DEF StoreFails, MarkStorageError, env, capture, progress, memory, worker
  <2> QED
    BY <2>1, <1>0, RestartStays, StaysKept
<1>5. CASE Stop
  <2>1. /\ UNCHANGED <<voice, count, asr, cursor, checkpoint, unfinished, reopened>>
        /\ fragments \subseteq fragments'
    BY <1>5 DEF Stop, env, capture, progress, memory, worker
  <2> QED
    BY <2>1, <1>0, RestartStays, StaysKept
<1>6. CASE FinishBlocked
  <2>1. /\ UNCHANGED <<voice, count, asr, cursor, checkpoint, unfinished, reopened>>
        /\ fragments \subseteq fragments'
    BY <1>6 DEF FinishBlocked, env, capture, progress, memory, worker
  <2> QED
    BY <2>1, <1>0, RestartStays, StaysKept
<1>7. CASE FinishBegins
  <2>1. /\ UNCHANGED <<voice, count, fragments, reopened>>
        /\ BeginFinalization \/ UNCHANGED <<asr, cursor, checkpoint, unfinished>>
    BY <1>7 DEF FinishBegins, env, capture, progress, memory, worker
  <2>2. asr # "COMPLETE"
    BY <1>7, Working, WhereIs DEF FinishBegins, FinishTaken, NeedsAsr, Settled, Drained
  <2>3. NextRestart' = NextRestart
    BY <2>1, <2>2, RestartBegins, RestartStays
  <2> QED
    BY <2>1, <2>3, <1>0, StaysKept
<1>8. CASE FinishReads
  <2>1. /\ UNCHANGED <<voice, count, asr, cursor, checkpoint, unfinished, reopened>>
        /\ fragments \subseteq fragments'
    BY <1>8 DEF FinishReads, env, capture, progress, memory, worker
  <2> QED
    BY <2>1, <1>0, RestartStays, StaysKept
<1>9. CASE FinishSeals
  <2>1. /\ UNCHANGED <<voice, count, asr, cursor, checkpoint, unfinished, reopened>>
        /\ fragments \subseteq fragments'
    BY <1>9 DEF FinishSeals, env, capture, progress, memory, worker
  <2> QED
    BY <2>1, <1>0, RestartStays, StaysKept
<1>10. CASE FinishFails
  <2>1. /\ UNCHANGED <<voice, count, asr, cursor, checkpoint, unfinished, reopened>>
        /\ fragments \subseteq fragments'
    BY <1>10 DEF FinishFails, MarkStorageError, env, capture, progress, memory, worker
  <2> QED
    BY <2>1, <1>0, RestartStays, StaysKept
<1>11. CASE FinishQueued
  <2>1. /\ UNCHANGED <<voice, count, asr, cursor, checkpoint, unfinished, reopened>>
        /\ fragments \subseteq fragments'
    BY <1>11 DEF FinishQueued, env, capture, progress, memory, worker
  <2> QED
    BY <2>1, <1>0, RestartStays, StaysKept
<1>12. CASE TakeTask
  <2>1. /\ UNCHANGED <<voice, count, asr, cursor, checkpoint, unfinished, reopened>>
        /\ fragments \subseteq fragments'
    BY <1>12 DEF TakeTask, InHand, env, capture, progress, memory, worker
  <2> QED
    BY <2>1, <1>0, RestartStays, StaysKept
<1>13. CASE SkipRange
  <2>1. /\ UNCHANGED <<voice, count, asr, cursor, checkpoint, unfinished, reopened>>
        /\ fragments \subseteq fragments'
    BY <1>13 DEF SkipRange, RangeTaken, env, capture, progress, memory, worker
  <2> QED
    BY <2>1, <1>0, RestartStays, StaysKept
<1>14. CASE RefuseRange
  <2>1. /\ UNCHANGED <<voice, count, asr, cursor, checkpoint, unfinished, reopened>>
        /\ fragments \subseteq fragments'
    BY <1>14 DEF RefuseRange, RangeTaken, env, capture, progress, memory, worker
  <2> QED
    BY <2>1, <1>0, RestartStays, StaysKept
<1>15. CASE Hear
  BY <1>15, HearingKeepsAll
<1>16. CASE HearFails
  BY <1>16, HearingKeepsAll
<1>17. CASE CommitFinal
  <2>1. /\ UNCHANGED <<voice, count, asr, cursor, checkpoint, unfinished, reopened>>
        /\ fragments \subseteq fragments'
    BY <1>17 DEF CommitFinal, env, capture, progress, memory, worker
  <2> QED
    BY <2>1, <1>0, RestartStays, StaysKept
<1>18. CASE Advance
  BY <1>18, AdvancingKeepsAll
<1>19. CASE RangeFails
  <2>1. /\ UNCHANGED <<voice, count, asr, cursor, checkpoint, unfinished, reopened>>
        /\ fragments \subseteq fragments'
    BY <1>19 DEF RangeFails, env, capture, progress, memory, worker
  <2> QED
    BY <2>1, <1>0, RestartStays, StaysKept
<1>20. CASE SkipFinish
  <2>1. /\ UNCHANGED <<voice, count, asr, cursor, checkpoint, unfinished, reopened>>
        /\ fragments \subseteq fragments'
    BY <1>20 DEF SkipFinish, FinishTaken, EndFinish, env, capture, progress, memory, worker
  <2> QED
    BY <2>1, <1>0, RestartStays, StaysKept
<1>21. CASE EnsureFinalizing
  <2>1. /\ UNCHANGED <<voice, count, fragments, reopened>>
        /\ BeginFinalization \/ UNCHANGED <<asr, cursor, checkpoint, unfinished>>
    BY <1>21 DEF EnsureFinalizing, env, capture, progress, memory, worker
  <2>2. asr # "COMPLETE"
    BY <1>21, Working, WhereIs DEF EnsureFinalizing, FinishTaken, NeedsAsr, Settled, Drained
  <2>3. NextRestart' = NextRestart
    BY <2>1, <2>2, RestartBegins, RestartStays
  <2> QED
    BY <2>1, <2>3, <1>0, StaysKept
<1>22. CASE FlushSession
  <2>1. /\ UNCHANGED <<voice, count, asr, cursor, checkpoint, unfinished, reopened>>
        /\ fragments \subseteq fragments'
    BY <1>22 DEF FlushSession, env, capture, progress, memory, worker
  <2> QED
    BY <2>1, <1>0, RestartStays, StaysKept
<1>23. CASE CompleteAsr
  BY <1>23, CompletingKeepsAll
<1>24. CASE FinishErrs
  <2>1. /\ UNCHANGED <<voice, count, asr, cursor, checkpoint, unfinished, reopened>>
        /\ fragments \subseteq fragments'
    BY <1>24 DEF FinishErrs, FinishTaken, EndFinish, env, capture, progress, memory, worker
  <2> QED
    BY <2>1, <1>0, RestartStays, StaysKept
<1>25. CASE Crash
  <2>1. /\ UNCHANGED <<voice, count, asr, cursor, checkpoint, unfinished, reopened>>
        /\ fragments \subseteq fragments'
    BY <1>25 DEF Crash, env, capture, progress, memory, worker
  <2> QED
    BY <2>1, <1>0, RestartStays, StaysKept
<1>26. CASE NothingToRecover
  <2>1. /\ UNCHANGED <<voice, count, asr, cursor, checkpoint, unfinished, reopened>>
        /\ fragments \subseteq fragments'
    BY <1>26 DEF NothingToRecover, env, capture, progress, memory, worker
  <2> QED
    BY <2>1, <1>0, RestartStays, StaysKept
<1>27. CASE BootBegins
  <2>1. /\ UNCHANGED <<voice, count, fragments, reopened>>
        /\ BeginFinalization \/ UNCHANGED <<asr, cursor, checkpoint, unfinished>>
    BY <1>27 DEF BootBegins, env, capture, progress, memory, worker
  <2>2. asr # "COMPLETE"
    BY <1>27, Working, WhereIs DEF BootBegins, FinishTaken, NeedsAsr, Settled, Drained
  <2>3. NextRestart' = NextRestart
    BY <2>1, <2>2, RestartBegins, RestartStays
  <2> QED
    BY <2>1, <2>3, <1>0, StaysKept
<1>28. CASE BootSeals
  <2>1. /\ UNCHANGED <<voice, count, asr, cursor, checkpoint, unfinished, reopened>>
        /\ fragments \subseteq fragments'
    BY <1>28 DEF BootSeals, env, capture, progress, memory, worker
  <2> QED
    BY <2>1, <1>0, RestartStays, StaysKept
<1>29. CASE BootFails
  <2>1. /\ UNCHANGED <<voice, count, asr, cursor, checkpoint, unfinished, reopened>>
        /\ fragments \subseteq fragments'
    BY <1>29 DEF BootFails, MarkStorageError, env, capture, progress, memory, worker
  <2> QED
    BY <2>1, <1>0, RestartStays, StaysKept
<1>30. CASE BootQueues
  <2>1. /\ UNCHANGED <<voice, count, asr, cursor, checkpoint, unfinished, reopened>>
        /\ fragments \subseteq fragments'
    BY <1>30 DEF BootQueues, env, capture, progress, memory, worker
  <2> QED
    BY <2>1, <1>0, RestartStays, StaysKept
<1> QED
  BY <1>1, <1>2, <1>3, <1>4, <1>5, <1>6, <1>7, <1>8, <1>9, <1>10, <1>11, <1>12, <1>13, <1>14, <1>15, <1>16, <1>17, <1>18, <1>19, <1>20, <1>21, <1>22, <1>23, <1>24, <1>25, <1>26, <1>27, <1>28, <1>29, <1>30, DeviceSteps

--------------------------------------------------------------------------------
(* The theorem.                                                             *)

\* The kind of the capture never changes.
LEMMA KindStays ==
  ASSUME Next
  PROVE  kind' = kind
<1> USE DEF env
<1>1. CASE FrameArrives
  BY <1>1 DEF FrameArrives
<1>2. CASE Store
  BY <1>2 DEF Store
<1>3. CASE QueueStored
  BY <1>3 DEF QueueStored, Put
<1>4. CASE StoreFails
  BY <1>4 DEF StoreFails, MarkStorageError
<1>5. CASE BrowserGivesUp
  BY <1>5 DEF BrowserGivesUp
<1>6. CASE Stop
  BY <1>6 DEF Stop
<1>7. CASE FinishBlocked
  BY <1>7 DEF FinishBlocked
<1>8. CASE FinishBegins
  BY <1>8 DEF FinishBegins, BeginFinalization
<1>9. CASE FinishReads
  BY <1>9 DEF FinishReads
<1>10. CASE FinishSeals
  BY <1>10 DEF FinishSeals
<1>11. CASE FinishFails
  BY <1>11 DEF FinishFails, MarkStorageError
<1>12. CASE FinishQueued
  BY <1>12 DEF FinishQueued, Put
<1>13. CASE ReplayArrives
  BY <1>13 DEF ReplayArrives, CanRecover
<1>14. CASE ReplayDrains
  BY <1>14 DEF ReplayDrains
<1>15. CASE ReplayRebases
  BY <1>15 DEF ReplayRebases, Put
<1>16. CASE ReplayStores
  BY <1>16 DEF ReplayStores
<1>17. CASE ReplayQueued
  BY <1>17 DEF ReplayQueued, Put
<1>18. CASE CompletionArrives
  BY <1>18 DEF CompletionArrives, CanRecover
<1>19. CASE CompletionDrains
  BY <1>19 DEF CompletionDrains
<1>20. CASE CompletionBegins
  BY <1>20 DEF CompletionBegins, BeginFinalization
<1>21. CASE CompletionSeals
  BY <1>21 DEF CompletionSeals
<1>22. CASE CompletionQueued
  BY <1>22 DEF CompletionQueued, Put
<1>23. CASE RecoveryFails
  BY <1>23 DEF RecoveryFails
<1>24. CASE TakeTask
  BY <1>24 DEF TakeTask, InHand
<1>25. CASE SkipRange
  BY <1>25 DEF SkipRange, RangeTaken
<1>26. CASE RefuseRange
  BY <1>26 DEF RefuseRange, RangeTaken
<1>27. CASE Hear
  BY <1>27 DEF Hear, CanHear, RangeTaken
<1>28. CASE HearFails
  BY <1>28 DEF HearFails, CanHear, RangeTaken
<1>29. CASE CommitFinal
  BY <1>29 DEF CommitFinal
<1>30. CASE Advance
  BY <1>30 DEF Advance
<1>31. CASE RangeFails
  BY <1>31 DEF RangeFails
<1>32. CASE SkipFinish
  BY <1>32 DEF SkipFinish, FinishTaken, EndFinish
<1>33. CASE EnsureFinalizing
  BY <1>33 DEF EnsureFinalizing, FinishTaken, BeginFinalization
<1>34. CASE FlushSession
  BY <1>34 DEF FlushSession
<1>35. CASE CompleteAsr
  BY <1>35 DEF CompleteAsr, EndFinish
<1>36. CASE FinishErrs
  BY <1>36 DEF FinishErrs, FinishTaken, EndFinish
<1>37. CASE Crash
  BY <1>37 DEF Crash
<1>38. CASE NothingToRecover
  BY <1>38 DEF NothingToRecover
<1>39. CASE BootBegins
  BY <1>39 DEF BootBegins, BeginFinalization
<1>40. CASE BootSeals
  BY <1>40 DEF BootSeals
<1>41. CASE BootFails
  BY <1>41 DEF BootFails, MarkStorageError
<1>42. CASE BootQueues
  BY <1>42 DEF BootQueues
<1>43. CASE BootResumes
  BY <1>43 DEF BootResumes, Rebound
<1>44. CASE ResumeFails
  BY <1>44 DEF ResumeFails
<1>45. CASE RebindFails
  BY <1>45 DEF RebindFails, BeginFinalization
<1> QED
  BY <1>1, <1>2, <1>3, <1>4, <1>5, <1>6, <1>7, <1>8, <1>9, <1>10, <1>11, <1>12, <1>13, <1>14, <1>15, <1>16, <1>17, <1>18, <1>19, <1>20, <1>21, <1>22, <1>23, <1>24, <1>25, <1>26, <1>27, <1>28, <1>29, <1>30, <1>31, <1>32, <1>33, <1>34, <1>35, <1>36, <1>37, <1>38, <1>39, <1>40, <1>41, <1>42, <1>43, <1>44, <1>45 DEF Next, CaptureLoop, FeedCall, Recognition, Boot, Environment, Failure

\* The invariant of a device's recording at first ...
LEMMA DeviceInit == Init => DeviceInv
<1> SUFFICES ASSUME Init, kind = "device" PROVE
      /\ Settled /\ DeviceControl /\ Chain /\ Booting /\ Begins
      /\ Trust /\ Markers /\ LastWords /\ NothingLeftBehind
  BY DEF DeviceInv
<1>1. /\ BaseInv /\ up = "up" /\ loop = "recording" /\ asr = "PENDING" /\ cursor = 0 /\ count = 0
      /\ unfinished = {} /\ asrCursor = {0} /\ queue = <<>> /\ task.kind = "none" /\ task.stage = "none"
      /\ task.finals = {} /\ task.open = {} /\ ~session.open /\ feed.at = "idle" /\ ~storageError
  BY BaseInit DEF Init, Idle, Closed, NoCall
<1>2. Settled
  BY <1>1 DEF Settled
<1>3. DeviceControl
  BY <1>1 DEF DeviceControl, FeedOfLoop, FirstTime, Ending
<1>4. Chain
  <2>1. 0 \in Positions /\ Chained(0, <<>>, 0) /\ <<>> \in Seq(Tasks)
    BY Room, ChainEmpty
  <2>2. Ahead(0) = 0 /\ Target = 0
    BY <1>1 DEF Ahead, Target
  <2>3. ChainOf(0, <<>>)
    BY <1>1, <2>1, <2>2 DEF ChainOf
  <2> QED
    BY <2>1, <2>3, ChainIs
<1>5. NextRestart = 0
  <2>1. NextRestart \in Nat /\ NextRestart <= 0
    BY <1>1, <1>2, RestartIsNat
  <2> QED
    BY <2>1
<1>6. Booting /\ Begins
  BY <1>1, <1>5 DEF Booting, Begins
<1>7. Trust /\ Markers /\ LastWords
  BY <1>1 DEF Trust, Trusted, Markers, LastWords, FinishHeard
<1>8. NothingLeftBehind
  <2>1. voice \in SUBSET Nat
    BY <1>1, WhereIs
  <2> QED
    BY <1>5, <2>1 DEF NothingLeftBehind
<1> QED
  BY <1>2, <1>3, <1>4, <1>6, <1>7, <1>8

\* ... in a step that changes nothing ...
LEMMA DeviceStutters ==
  ASSUME BaseInv, BaseInv', DeviceInv, UNCHANGED vars
  PROVE  DeviceInv'
<1> SUFFICES ASSUME kind = "device" PROVE
      (/\ Settled /\ DeviceControl /\ Chain /\ Booting /\ Begins
       /\ Trust /\ Markers /\ LastWords /\ NothingLeftBehind)'
  BY DEF DeviceInv, vars, env
<1>1. /\ Settled /\ DeviceControl /\ Chain /\ Booting /\ Begins
      /\ Trust /\ Markers /\ LastWords /\ NothingLeftBehind
  BY DEF DeviceInv
<1>2. UNCHANGED <<kind, voice, rec, count, asr, cursor, unfinished, checkpoint, fragments, up, loop, feed,
                  queue, task, asrCursor, blocked, storageError, session, reopened>>
  BY DEF vars, env, capture, progress, memory, worker
<1>3. Settled' /\ DeviceControl'
  BY <1>1, <1>2 DEF Settled, Drained, DeviceControl, FeedOfLoop, FirstTime, Ending
<1>4. NextRestart' = NextRestart /\ RestartPoint' = RestartPoint
  BY <1>1, <1>2, <1>3, RestartStays
<1>5. /\ Stopped' = Stopped /\ Target' = Target /\ FinishHeard' = FinishHeard /\ RangeHeard' = RangeHeard
      /\ Heard' = Heard
  BY <1>2 DEF Stopped, Drained, Target, FinishHeard, RangeHeard, Heard
<1>6. Chain'
  BY <1>1, <1>2, <1>5, StaysChained
<1>7. Booting'
  BY <1>1, <1>2, <1>4 DEF Booting
<1>8. Begins'
  BY <1>1, <1>2, <1>4, <1>5, StaysBegun
<1>9. \A c \in checkpoint : c <= c
  BY WhereIs
<1>10. Trust'
  BY <1>1, <1>2, <1>5, <1>9, StaysTrusted
<1>11. count <= count' /\ NextRestart' <= NextRestart
  BY <1>1, <1>2, <1>4, WhereIs, RestartIsNat
<1>12. Markers'
  BY <1>1, <1>2, <1>9, <1>11, StaysMarked
<1>13. LastWords'
  BY <1>1, <1>2, <1>5, StaysSaid
<1>14. NothingLeftBehind'
  BY <1>1, <1>2, <1>3, <1>11, StaysKept
<1> QED
  BY <1>3, <1>6, <1>7, <1>8, <1>10, <1>12, <1>13, <1>14

\* ... and in every step.
LEMMA DeviceStep ==
  ASSUME BaseInv, ControlInv, DeviceInv, [Next]_vars
  PROVE  DeviceInv'
<1>1. BaseInv'
  BY ControlStep
<1>2. CASE Next
  <2>1. kind' = kind
    BY <1>2, KindStays
  <2> SUFFICES ASSUME kind = "device" PROVE
        (/\ Settled /\ DeviceControl /\ Chain /\ Booting /\ Begins
         /\ Trust /\ Markers /\ LastWords /\ NothingLeftBehind)'
    BY <2>1 DEF DeviceInv
  <2>2. /\ Settled /\ DeviceControl /\ Chain /\ Booting /\ Begins
        /\ Trust /\ Markers /\ LastWords /\ NothingLeftBehind
    BY DEF DeviceInv
  <2>3. Quiet /\ InRecovery /\ InStep
    BY DEF ControlInv
  <2>4. Settled'
    BY <1>2, <2>2, <2>3, SettledStep
  <2>5. DeviceControl'
    BY <1>2, <2>2, <2>3, DeviceControlStep
  <2>6. Chain'
    BY <1>2, <2>2, <2>3, ChainStep
  <2>7. Booting'
    BY <1>1, <1>2, <2>1, <2>2, <2>3, <2>4, BootingStep
  <2>8. Begins'
    BY <1>1, <1>2, <2>1, <2>2, <2>3, <2>4, <2>5, BeginsStep
  <2>9. Trust'
    BY <1>1, <1>2, <2>2, <2>3, TrustStep
  <2>10. Markers'
    BY <1>1, <1>2, <2>2, <2>3, MarkersStep
  <2>11. LastWords'
    BY <1>2, <2>2, <2>3, LastWordsStep
  <2>12. NothingLeftBehind'
    BY <1>1, <1>2, <2>1, <2>2, <2>3, <2>4, KeptStep
  <2> QED
    BY <2>4, <2>5, <2>6, <2>7, <2>8, <2>9, <2>10, <2>11, <2>12
<1>3. CASE UNCHANGED vars
  BY <1>1, <1>3, DeviceStutters
<1> QED
  BY <1>2, <1>3

\* The invariants imply DeviceSpeechIsSafe.
LEMMA DeviceIs ==
  BaseInv /\ DeviceInv => DeviceSpeechIsSafe
BY DEF BaseInv, DeviceInv, Settled, DeviceSpeechIsSafe, DeviceSpeechIsKept, CompleteIsSettled

\* At every step of recording a device, of stopping it, of recognizing it and of any number
\* of restarts, the speech before the point where recognition would begin again is in the
\* transcript, and a capture is only called COMPLETE when nothing is left to do
\* (_begin_asr_finalization, _advance_asr_cursor, start).
THEOREM LiveSpeechDeviceSpeechIsSafe == Spec => []DeviceSpeechIsSafe
<1> DEFINE Inv == BaseInv /\ ControlInv /\ DeviceInv
<1>1. Init => Inv
  BY BaseInit, ControlInit, DeviceInit
<1>2. Inv /\ [Next]_vars => Inv'
  BY ControlStep, DeviceStep
<1>3. Inv => DeviceSpeechIsSafe
  BY DeviceIs
<1> QED
  BY <1>1, <1>2, <1>3, PTL DEF Spec
================================================================================
