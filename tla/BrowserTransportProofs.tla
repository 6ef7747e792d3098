------------------------ MODULE BrowserTransportProofs ------------------------
(***************************************************************************)
(* Proofs about BrowserTransport: whatever becomes of pages, sockets and   *)
(* the server, and however long the recording is, stored sound stays in    *)
(* the outbox or is in the archive, and the archive is the recording.      *)
(***************************************************************************)
EXTENDS BrowserTransport, SequenceTheorems, WellFoundedInduction, TLAPS

--------------------------------------------------------------------------------
(* The inductive invariant.                                                 *)

Message == [type : {"frame", "capture_incomplete", "capture_recovery_complete"},
            seq : Nat, chunk : Nat]
Answer == [type : {"ack", "close", "capture_incomplete_ack", "capture_recovery_complete_ack"},
           seq : Nat]
Page == [at : {"closed", "starting", "open", "stopped", "finished", "recovering"},
         mic : BOOLEAN, stopping : BOOLEAN, failed : BOOLEAN, bypass : BOOLEAN,
         marker : {"none", "sent", "confirmed"}, next : Nat, writing : BOOLEAN,
         inFlight : Nat, timed : BOOLEAN, deaf : BOOLEAN, acking : Nat,
         pump : {"idle", "reading", "read"}, waits : SUBSET {"start", "loss", "reconnect"},
         read : [seq : Nat, chunk : Nat], retry : BOOLEAN, opening : Nat]

Recording == page.at \in {"starting", "open"}
Ended == page.at \in {"stopped", "finished"}
Empty == DOMAIN outbox = {}

Types ==
    /\ status \in {"CAPTURING", "INCOMPLETE", "COMPLETE"}
    /\ socket \in BOOLEAN
    /\ sounds \in Seq(Nat) /\ log \in Seq(1..Len(sounds))
    /\ up \in Seq(Message) /\ down \in Seq(Answer) /\ late \subseteq Message
    /\ DOMAIN outbox \subseteq 1..Len(sounds)
    /\ outbox \in [DOMAIN outbox -> 1..Len(sounds)]
    /\ cursor \in 1..Len(sounds) + 1
    /\ page \in Page /\ page.next \in 1..Len(sounds) + 1

\* What a page that does not record has let go of.
PageIsShut ==
    /\ page.at \notin {"open", "stopped", "finished"} =>
          ~page.mic /\ ~page.stopping /\ ~page.failed /\ page.marker = "none" /\ page.acking = 0
    /\ page.at # "open" => ~page.writing /\ page.pump = "idle" /\ page.read = NoFrame
    /\ Ended => page.stopping

SocketIsUsed ==
    /\ socket => page.at \in {"open", "recovering"}
    /\ page.at = "recovering" => socket
    /\ ~socket => up = <<>> /\ down = <<>>

\* A recovery sends one message and waits for the answer to it.
Exchange ==
    page.at = "recovering" =>
        \/ /\ page.inFlight = 0 /\ up = <<>> /\ down = <<>>
        \/ /\ page.inFlight # 0 /\ down = <<>>
           /\ \E m \in ToSet(up) :
                 up = <<m>> /\ m.type # "capture_incomplete" /\ m.seq = page.inFlight
        \/ /\ page.inFlight # 0 /\ up = <<>>
           /\ down \in {Ack(page.inFlight), Close, Told,
                        <<Reply("capture_recovery_complete_ack", 0)>>}

\* The numbers given out, and what is stored of them.
Numbers ==
    /\ Recording => /\ cursor <= page.next
                    /\ cursor = page.next \/ page.writing \/ page.failed
    /\ Recording \/ page.at = "recovering" => \A s \in DOMAIN outbox : s < page.next

\* Below the numbers that will be given out there is no hole.
Covered(t) == t < cursor \/ (Recording /\ t < page.next) \/ \E s \in DOMAIN outbox : t < s

Contiguous == \A t \in 1..Len(sounds) : Covered(t) => t \in DOMAIN log \cup DOMAIN outbox

InOrder(f) == f.seq # 0 /\ f.seq <= Len(log) + 1 /\ f.chunk \in 1..Len(sounds)

\* A frame that the page has read or sent is still what the outbox has under its number.
IsOwn(f) ==
    /\ f.seq < page.next
    /\ f.seq \in DOMAIN outbox => outbox[f.seq] = f.chunk

FramesHold ==
    /\ \A m \in late : m.type = "frame" => InOrder(m)
    /\ \A m \in ToSet(up) : m.type = "frame" => InOrder(m) /\ IsOwn(m)
    /\ page.read # NoFrame => InOrder(page.read) /\ IsOwn(page.read)

\* What is acknowledged is in the archive as the outbox has it.
Archived(s) == s \in DOMAIN log /\ (s \in DOMAIN outbox => log[s] = outbox[s])

AcksHold ==
    /\ \A a \in ToSet(down) : a.type = "ack" => Archived(a.seq) /\ a.seq < page.next
    /\ page.acking # 0 =>
           page.acking < page.next /\ page.acking \in DOMAIN outbox /\ Archived(page.acking)

\* A recovery that reports its end has nothing left, and no page will record again.
RecoveryHolds ==
    /\ page.at = "recovering" => status # "CAPTURING"
    /\ \A m \in ToSet(up) \cup late : m.type = "capture_recovery_complete" =>
           Empty /\ status # "CAPTURING" /\ page.at \in {"closed", "recovering"}
    /\ \A a \in ToSet(down) : a.type = "capture_recovery_complete_ack" =>
           Empty /\ page.at = "recovering"

\* A page stops with an empty outbox, or the server knows that audio is missing.
EndHolds ==
    /\ Ended => page.marker = "confirmed" \/ (Empty /\ ~page.failed)
    /\ page.at = "finished" => status # "CAPTURING"
    /\ page.marker = "confirmed" => status # "CAPTURING"
    /\ \A a \in ToSet(down) : a.type = "capture_incomplete_ack" => status # "CAPTURING"

\* Every number is one piece of sound.
NumberOf(f) == sounds[f.chunk] = f.seq

Single ==
    /\ \A c, d \in DOMAIN sounds : sounds[c] = sounds[d] /\ sounds[c] # 0 => c = d
    /\ \A i \in DOMAIN log : sounds[log[i]] = i
    /\ \A s \in DOMAIN outbox : sounds[outbox[s]] = s
    /\ \A m \in ToSet(up) \cup late : m.type = "frame" => NumberOf(m)
    /\ page.read # NoFrame => NumberOf(page.read)
    /\ Recording => \A c \in DOMAIN sounds : sounds[c] < page.next
    /\ ~Recording /\ status = "CAPTURING" =>
           \A c \in DOMAIN sounds : sounds[c] < cursor \/ \E s \in DOMAIN outbox : sounds[c] <= s

NumbersAreSingle == "reused" \notin happened => Single

Whole ==
    /\ status = "COMPLETE" => Empty /\ ~Recording
    /\ page.marker = "confirmed" => status = "INCOMPLETE"

EndIsWhole == "elsewhere" \notin happened => Whole

Inv ==
    /\ Types /\ PageIsShut /\ SocketIsUsed /\ Exchange /\ Numbers /\ Contiguous
    /\ FramesHold /\ AcksHold /\ RecoveryHolds /\ EndHolds /\ KeptSomewhere
    /\ NumbersAreSingle /\ EndIsWhole

--------------------------------------------------------------------------------
(* Sequences as sets, and the numbers of the outbox.                        *)

LEMMA AppendedSet ==
  ASSUME NEW S, NEW s \in Seq(S), NEW x \in S
  PROVE  /\ Append(s, x) \in Seq(S) /\ Len(Append(s, x)) = Len(s) + 1
         /\ DOMAIN Append(s, x) = DOMAIN s \cup {Len(s) + 1}
         /\ \A i \in DOMAIN s : Append(s, x)[i] = s[i]
         /\ Append(s, x)[Len(s) + 1] = x
         /\ ToSet(Append(s, x)) = ToSet(s) \cup {x}
<1>1. /\ Append(s, x) \in Seq(S) /\ Len(Append(s, x)) = Len(s) + 1
      /\ \A i \in 1..Len(s) : Append(s, x)[i] = s[i]
      /\ Append(s, x)[Len(s) + 1] = x
      /\ DOMAIN s = 1..Len(s) /\ DOMAIN Append(s, x) = 1..Len(s) + 1 /\ Len(s) \in Nat
  BY AppendProperties, LenProperties
<1>2. DOMAIN Append(s, x) = DOMAIN s \cup {Len(s) + 1}
  BY <1>1
<1> QED
  BY <1>1, <1>2 DEF ToSet

LEMMA TailSet ==
  ASSUME NEW S, NEW s \in Seq(S), s # <<>>
  PROVE  /\ Tail(s) \in Seq(S) /\ ToSet(Tail(s)) \subseteq ToSet(s)
         /\ Head(s) \in ToSet(s) /\ Head(s) \in S
<1>1. /\ Tail(s) \in Seq(S) /\ Len(Tail(s)) = Len(s) - 1 /\ Head(s) = s[1]
      /\ \A i \in 1..Len(Tail(s)) : Tail(s)[i] = s[i + 1]
      /\ DOMAIN s = 1..Len(s) /\ Len(s) \in Nat \ {0} /\ DOMAIN Tail(s) = 1..Len(Tail(s))
      /\ s[1] \in S
  BY HeadTailProperties, LenProperties, EmptySeq
<1>2. \A i \in DOMAIN Tail(s) : i + 1 \in DOMAIN s /\ Tail(s)[i] = s[i + 1]
  BY <1>1
<1> QED
  BY <1>1, <1>2 DEF ToSet

LEMMA ConcatSet ==
  ASSUME NEW S, NEW s \in Seq(S), NEW t \in Seq(S)
  PROVE  s \o t \in Seq(S) /\ ToSet(s \o t) \subseteq ToSet(s) \cup ToSet(t)
<1>1. /\ s \o t \in Seq(S) /\ Len(s \o t) = Len(s) + Len(t)
      /\ \A i \in 1..Len(s) + Len(t) : (s \o t)[i] = IF i <= Len(s) THEN s[i] ELSE t[i - Len(s)]
      /\ DOMAIN s = 1..Len(s) /\ DOMAIN t = 1..Len(t) /\ DOMAIN (s \o t) = 1..Len(s \o t)
      /\ Len(s) \in Nat /\ Len(t) \in Nat
  BY ConcatProperties, LenProperties
<1>2. ASSUME NEW i \in DOMAIN (s \o t)
      PROVE  (s \o t)[i] \in ToSet(s) \cup ToSet(t)
  <2>1. i <= Len(s) => i \in DOMAIN s /\ (s \o t)[i] = s[i]
    BY <1>1
  <2>2. ~(i <= Len(s)) => i - Len(s) \in DOMAIN t /\ (s \o t)[i] = t[i - Len(s)]
    BY <1>1
  <2> QED
    BY <2>1, <2>2 DEF ToSet
<1> QED
  BY <1>1, <1>2 DEF ToSet

LEMMA EmptySet == ToSet(<<>>) = {}
BY DEF ToSet

LEMMA SingleSet == ASSUME NEW x PROVE ToSet(<<x>>) = {x}
BY DEF ToSet

LEMMA PairOf ==
  ASSUME NEW x, NEW y
  PROVE  <<x>> \o <<y>> = <<x, y>>
<1> DEFINE S == {x, y}
           s == <<x>> \o <<y>>
           t == <<x, y>>
<1>1. <<x>> \in Seq(S) /\ <<y>> \in Seq(S) /\ Len(<<x>>) = 1 /\ Len(<<y>>) = 1
      /\ <<x>>[1] = x /\ <<y>>[1] = y
  OBVIOUS
<1>2. s \in Seq(S) /\ Len(s) = 2 /\ s[1] = x /\ s[2] = y
  BY <1>1, ConcatProperties
<1>3. t \in Seq(S) /\ Len(t) = 2 /\ t[1] = x /\ t[2] = y
  OBVIOUS
<1> HIDE DEF s, t
<1>4. \A i \in 1..Len(s) : s[i] = t[i]
  BY <1>2, <1>3
<1>5. s = t
  BY <1>2, <1>3, <1>4, SeqEqual
<1> QED
  BY <1>5 DEF s, t

LEMMA EmptyFunction ==
  ASSUME NEW S, NEW f \in [{} -> S]
  PROVE  f = <<>>
<1>1. f \in [1..0 -> S]
  <2>1. 1..0 = {}
    OBVIOUS
  <2> QED
    BY <2>1
<1>2. f \in Seq(S)
  BY <1>1, SeqDef
<1>3. Len(f) = 0
  <2>1. DOMAIN f = 1..Len(f) /\ Len(f) \in Nat
    BY <1>2, LenProperties
  <2>2. DOMAIN f = {}
    OBVIOUS
  <2> QED
    BY <2>1, <2>2
<1> QED
  BY <1>2, <1>3, EmptySeq

LEMMA RangeIsToSet == ASSUME NEW s PROVE Range(s) = ToSet(s)
BY DEF Range, ToSet

LEMMA LeastNumber ==
  ASSUME NEW S \in SUBSET Nat, S # {}
  PROVE  \E n \in S : \A m \in S : n <= m
<1> DEFINE Less == OpToRel(<, Nat)
<1>1. IsWellFoundedOn(Less, Nat)
  BY NatLessThanWellFounded
<1>2. \A x, y \in Nat : x < y => <<x, y>> \in Less
  BY DEF OpToRel
<1> HIDE DEF Less
<1>3. PICK n \in S : \A m \in S : ~ (<<m, n>> \in Less)
  BY <1>1, WFMin
<1>4. ASSUME NEW m \in S PROVE n <= m
  <2>1. n \in Nat /\ m \in Nat /\ ~(m < n)
    BY <1>2, <1>3
  <2> QED
    BY <2>1
<1> QED
  BY <1>4

LEMMA MinIsLeast ==
  ASSUME NEW S \in SUBSET Nat, S # {}
  PROVE  Min(S) \in S /\ \A x \in S : Min(S) <= x
BY LeastNumber DEF Min

LEMMA MaxIsGreatest ==
  ASSUME NEW S \in SUBSET Nat, S # {}, NEW b \in Nat, \A x \in S : x <= b
  PROVE  Max(S) \in S /\ \A x \in S : x <= Max(S)
<1> DEFINE B == {n \in Nat : \A x \in S : x <= n}
<1>0. B \in SUBSET Nat /\ B # {}
  OBVIOUS
<1>1. PICK n \in B : \A m \in B : n <= m
  BY <1>0, LeastNumber
<1>2. n \in S
  <2>1. SUFFICES ASSUME n \notin S PROVE FALSE
    OBVIOUS
  <2>2. \A x \in S : x < n
    BY <1>1, <2>1
  <2>3. n # 0 /\ n \in Nat
    <3>1. PICK x \in S : TRUE
      OBVIOUS
    <3>2. n \in Nat /\ x \in Nat /\ x < n
      BY <1>1, <2>2, <3>1
    <3> QED
      BY <3>2
  <2>4. n - 1 \in B
    BY <1>1, <2>2, <2>3
  <2> QED
    BY <1>1, <2>4
<1> QED
  BY <1>1, <1>2 DEF Max

--------------------------------------------------------------------------------
(* The page's helpers.                                                      *)

\* The fields that the pump and a failure do not touch.
Alike(p, q) ==
    /\ q.at = p.at /\ q.mic = p.mic /\ q.stopping = p.stopping /\ q.marker = p.marker
    /\ q.next = p.next /\ q.writing = p.writing /\ q.inFlight = p.inFlight
    /\ q.acking = p.acking /\ q.read = p.read

LEMMA PumpedPage ==
  ASSUME NEW p \in Page, NEW who \in SUBSET {"start", "loss", "reconnect"}
  PROVE  /\ Pumped(p, who) \in Page /\ Alike(p, Pumped(p, who))
         /\ Pumped(p, who).failed = p.failed
         /\ p.at # "open" => Pumped(p, who).pump = p.pump
<1> DEFINE W == SUBSET {"start", "loss", "reconnect"}
<1>1. /\ (p.waits \cup who) \in W /\ who \in W
      /\ \A b \in W : /\ [p EXCEPT !.waits = b] \in Page
                      /\ [p EXCEPT !.pump = "reading", !.waits = b] \in Page
  BY DEF Page
<1>2. \/ Pumped(p, who) = [p EXCEPT !.waits = p.waits \cup who]
      \/ p.at = "open" /\ Pumped(p, who) = [p EXCEPT !.pump = "reading", !.waits = who]
      \/ Pumped(p, who) = p
  BY Zenon DEF Pumped
<1>3. ASSUME NEW b \in W, NEW q \in Page, q = [p EXCEPT !.waits = b]
      PROVE  Alike(p, q) /\ q.failed = p.failed /\ q.pump = p.pump
  BY <1>3 DEF Page, Alike
<1>4. ASSUME NEW b \in W, NEW q \in Page, q = [p EXCEPT !.pump = "reading", !.waits = b]
      PROVE  Alike(p, q) /\ q.failed = p.failed
  BY <1>4 DEF Page, Alike
<1>5. Alike(p, p)
  BY DEF Alike
<1> QED
  BY <1>1, <1>2, <1>3, <1>4, <1>5, Zenon

LEMMA RescheduledPage ==
  ASSUME NEW p \in Page
  PROVE  /\ Rescheduled(p) \in Page /\ Alike(p, Rescheduled(p))
         /\ Rescheduled(p).failed = p.failed /\ Rescheduled(p).pump = p.pump
BY DEF Rescheduled, Page, Alike

\* A stop that begins leaves the rest of the page alone.
LEMMA StoppingPage ==
  ASSUME NEW p \in Page, NEW q \in Stopping(p)
  PROVE  /\ q \in Page /\ q.stopping = TRUE
         /\ q.at = p.at /\ q.mic = p.mic /\ q.marker = p.marker /\ q.next = p.next
         /\ q.writing = p.writing /\ q.inFlight = p.inFlight /\ q.acking = p.acking
         /\ q.read = p.read /\ q.failed = p.failed /\ q.pump = p.pump
<1> DEFINE s == [p EXCEPT !.stopping = TRUE]
<1>1. /\ s \in Page /\ s.stopping = TRUE
      /\ s.at = p.at /\ s.mic = p.mic /\ s.marker = p.marker /\ s.next = p.next
      /\ s.writing = p.writing /\ s.inFlight = p.inFlight /\ s.acking = p.acking
      /\ s.read = p.read /\ s.failed = p.failed /\ s.pump = p.pump /\ s.opening = p.opening
  BY DEF Page
<1>2. q = s \/ (p.opening > 0 /\ q = OpeningFailed(s))
  BY DEF Stopping
<1> HIDE DEF s
<1>3. CASE q = s
  BY <1>1, <1>3
<1>4. CASE p.opening > 0 /\ q = OpeningFailed(s)
  <2>1. p.opening - 1 \in Nat
    BY <1>4 DEF Page
  <2>2. q = [s EXCEPT !.opening = p.opening - 1, !.retry = TRUE]
    BY <1>1, <1>4 DEF OpeningFailed
  <2> QED
    BY <1>1, <2>1, <2>2 DEF Page
<1> QED
  BY <1>2, <1>3, <1>4

LEMMA FailedPage ==
  ASSUME NEW p \in Page, NEW bypass \in BOOLEAN
  PROVE  /\ Failed(p, bypass) \in Page /\ Alike(p, Failed(p, bypass))
         /\ Failed(p, bypass).failed = (p.failed \/ p.at = "open")
         /\ p.at # "open" => Failed(p, bypass) = p
<1> DEFINE q == [p EXCEPT !.failed = TRUE, !.bypass = @ \/ bypass]
<1>1. CASE p.at = "open"
  <2>1. q \in Page /\ Alike(p, q) /\ q.failed = TRUE
    BY DEF Page, Alike
  <2>2. Failed(p, bypass) = IF socket' THEN Pumped(q, {}) ELSE Rescheduled(q)
    BY <1>1 DEF Failed
  <2> HIDE DEF q
  <2>3. /\ Pumped(q, {}) \in Page /\ Alike(q, Pumped(q, {}))
        /\ Pumped(q, {}).failed = q.failed
    BY <2>1, PumpedPage
  <2>4. /\ Rescheduled(q) \in Page /\ Alike(q, Rescheduled(q))
        /\ Rescheduled(q).failed = q.failed
    BY <2>1, RescheduledPage
  <2>5. /\ Failed(p, bypass) \in Page /\ Alike(q, Failed(p, bypass))
        /\ Failed(p, bypass).failed = q.failed
    BY <2>2, <2>3, <2>4
  <2> QED
    BY <1>1, <2>1, <2>5 DEF Alike
<1>2. CASE p.at # "open"
  <2>1. Failed(p, bypass) = p
    BY <1>2 DEF Failed
  <2> QED
    BY <1>2, <2>1 DEF Page, Alike
<1> QED
  BY <1>1, <1>2

LEMMA NoPageType == NoPage \in Page /\ NoFrame \in [seq : Nat, chunk : Nat]
BY DEF NoPage, NoFrame, Page

LEMMA IdlePage ==
  ASSUME NEW p \in Page
  PROVE  /\ Idle(p) \in Page
         /\ Idle(p) = [p EXCEPT !.pump = "idle", !.waits = {}, !.read = NoFrame]
         /\ Idle(p).at = p.at /\ Idle(p).mic = p.mic /\ Idle(p).stopping = p.stopping
         /\ Idle(p).failed = p.failed /\ Idle(p).marker = p.marker /\ Idle(p).next = p.next
         /\ Idle(p).writing = p.writing /\ Idle(p).inFlight = p.inFlight
         /\ Idle(p).acking = p.acking /\ Idle(p).read = NoFrame /\ Idle(p).pump = "idle"
BY NoPageType DEF Idle, Page

LEMMA UnpluggedPage ==
  ASSUME NEW p \in Page
  PROVE  /\ Unplugged(p) \in Page
         /\ Unplugged(p).at = p.at /\ Unplugged(p).mic = p.mic
         /\ Unplugged(p).stopping = p.stopping
         /\ Unplugged(p).failed = p.failed /\ Unplugged(p).next = p.next
         /\ Unplugged(p).writing = p.writing /\ Unplugged(p).inFlight = 0
         /\ Unplugged(p).acking = p.acking /\ Unplugged(p).read = p.read
         /\ Unplugged(p).pump = p.pump
         /\ Unplugged(p).marker = IF p.marker = "sent" THEN "none" ELSE p.marker
<1> DEFINE u == [p EXCEPT !.inFlight = 0, !.timed = FALSE, !.deaf = FALSE,
                          !.marker = IF @ = "sent" THEN "none" ELSE @]
<1>1. u \in Page
  BY DEF Page
<1>2. /\ u.at = p.at /\ u.mic = p.mic /\ u.stopping = p.stopping
      /\ u.failed = p.failed /\ u.next = p.next /\ u.writing = p.writing /\ u.inFlight = 0
      /\ u.acking = p.acking /\ u.read = p.read /\ u.pump = p.pump
      /\ u.marker = IF p.marker = "sent" THEN "none" ELSE p.marker
  BY DEF Page
<1>3. Unplugged(p) = Rescheduled(u)
  BY DEF Unplugged
<1> HIDE DEF u
<1> QED
  BY <1>1, <1>2, <1>3, RescheduledPage DEF Alike

LEMMA AckIsDonePage ==
  ASSUME NEW p \in Page
  PROVE  /\ AckIsDone(p) \in Page /\ AckIsDone(p).acking = 0
         /\ AckIsDone(p).at = p.at /\ AckIsDone(p).mic = p.mic
         /\ AckIsDone(p).stopping = p.stopping /\ AckIsDone(p).failed = p.failed
         /\ AckIsDone(p).marker = p.marker /\ AckIsDone(p).next = p.next
         /\ AckIsDone(p).writing = p.writing /\ AckIsDone(p).read = p.read
         /\ AckIsDone(p).pump = p.pump
BY DEF AckIsDone, Page

--------------------------------------------------------------------------------
(* Facts about states.                                                      *)

LEMMA LengthsAre ==
  ASSUME Types
  PROVE  /\ Len(sounds) \in Nat /\ DOMAIN sounds = 1..Len(sounds)
         /\ Len(log) \in Nat /\ DOMAIN log = 1..Len(log)
         /\ \A i \in DOMAIN log : log[i] \in 1..Len(sounds)
         /\ \A c \in DOMAIN sounds : sounds[c] \in Nat
         /\ ToSet(up) \subseteq Message /\ ToSet(down) \subseteq Answer
         /\ \A s \in DOMAIN outbox : s \in 1..Len(sounds) /\ outbox[s] \in 1..Len(sounds)
<1>1. /\ sounds \in Seq(Nat) /\ log \in Seq(1..Len(sounds)) /\ up \in Seq(Message)
      /\ down \in Seq(Answer)
      /\ DOMAIN outbox \subseteq 1..Len(sounds) /\ outbox \in [DOMAIN outbox -> 1..Len(sounds)]
  BY DEF Types
<1>2. /\ Len(sounds) \in Nat /\ DOMAIN sounds = 1..Len(sounds)
      /\ Len(log) \in Nat /\ DOMAIN log = 1..Len(log)
  BY <1>1, LenProperties
<1>3. /\ \A i \in DOMAIN log : log[i] \in 1..Len(sounds)
      /\ \A c \in DOMAIN sounds : sounds[c] \in Nat
      /\ \A i \in DOMAIN up : up[i] \in Message
      /\ \A i \in DOMAIN down : down[i] \in Answer
  BY <1>1, ElementOfSeq, LenProperties
<1> QED
  BY <1>1, <1>2, <1>3 DEF ToSet

LEMMA OutboxIsEmpty == Types => (Empty <=> outbox = <<>>)
<1> SUFFICES ASSUME Types PROVE Empty <=> outbox = <<>>
  OBVIOUS
<1>1. outbox \in [DOMAIN outbox -> 1..Len(sounds)]
  BY DEF Types
<1>2. Empty => outbox = <<>>
  BY <1>1, EmptyFunction DEF Empty
<1>3. DOMAIN <<>> = {}
  OBVIOUS
<1> QED
  BY <1>2, <1>3 DEF Empty

\* The oldest frame of the outbox is the next one of the archive, or older.
LEMMA OldestHolds ==
  ASSUME Inv, outbox # <<>>, page.at \in {"starting", "open", "recovering"}
  PROVE  /\ Oldest \in [seq : Nat, chunk : Nat] /\ Oldest # NoFrame
         /\ Oldest.seq \in DOMAIN outbox /\ InOrder(Oldest) /\ IsOwn(Oldest)
         /\ "reused" \notin happened => NumberOf(Oldest)
<1> DEFINE s == Min(DOMAIN outbox)
           n == Len(log)
           k == Len(sounds)
<1>0. Types
  BY DEF Inv
<1>1. DOMAIN outbox # {} /\ DOMAIN outbox \subseteq Nat
  <2>1. DOMAIN outbox # {}
    BY <1>0, OutboxIsEmpty DEF Empty
  <2>2. ASSUME NEW t \in DOMAIN outbox PROVE t \in Nat
    BY <1>0, LengthsAre
  <2> QED
    BY <2>1, <2>2
<1>2. s \in DOMAIN outbox /\ \A t \in DOMAIN outbox : s <= t
  BY <1>1, MinIsLeast
<1>3. Oldest = [seq |-> s, chunk |-> outbox[s]]
  BY DEF Oldest
<1>4. /\ k \in Nat /\ n \in Nat /\ DOMAIN log = 1..n
      /\ s \in 1..k /\ outbox[s] \in 1..k
  BY <1>2, LengthsAre DEF Inv
<1>5. \A t \in 1..k : t < s => t \in 1..n
  <2> SUFFICES ASSUME NEW t \in 1..k, t < s PROVE t \in 1..n
    OBVIOUS
  <2>1. t \notin DOMAIN outbox
    BY <1>2, <1>4
  <2>2. Covered(t)
    BY <1>2 DEF Covered
  <2> QED
    BY <1>4, <2>1, <2>2 DEF Inv, Contiguous
<1>6. s < page.next
  BY <1>2 DEF Inv, Numbers, Recording
<1>7. "reused" \notin happened => sounds[outbox[s]] = s
  BY <1>2 DEF Inv, NumbersAreSingle, Single
<1> HIDE DEF s, n, k
<1>8. s <= n + 1
  <2>1. CASE s = 1
    BY <1>4, <2>1
  <2>2. CASE s # 1
    <3>1. s - 1 \in 1..k /\ s - 1 < s
      BY <1>4, <2>2
    <3>2. s - 1 \in 1..n
      BY <1>5, <3>1
    <3> QED
      BY <1>4, <3>2
  <2> QED
    BY <2>1, <2>2
<1>9. InOrder(Oldest)
  BY <1>3, <1>4, <1>8 DEF InOrder, n, k
<1> QED
  BY <1>2, <1>3, <1>4, <1>6, <1>7, <1>9 DEF IsOwn, NumberOf, NoFrame

LEMMA ReconciledHolds ==
  ASSUME Types
  PROVE  /\ Reconciled \in 1..Len(sounds) + 1 /\ cursor <= Reconciled
         /\ \A s \in DOMAIN outbox : s < Reconciled
         /\ Reconciled = cursor \/ \E s \in DOMAIN outbox : Reconciled = s + 1
<1> DEFINE k == Len(sounds)
           S == {cursor} \cup {s + 1 : s \in DOMAIN outbox}
<1>1. k \in Nat /\ cursor \in 1..k + 1 /\ \A s \in DOMAIN outbox : s \in 1..k
  BY LengthsAre DEF Types
<1> HIDE DEF k
<1>2. \A x \in S : x \in Nat /\ x <= k + 1 /\ x >= 1
  BY <1>1
<1>3. S \in SUBSET Nat /\ S # {} /\ k + 1 \in Nat /\ \A x \in S : x <= k + 1
  BY <1>1, <1>2
<1>4. Max(S) \in S /\ \A x \in S : x <= Max(S)
  <2> HIDE DEF S
  <2> QED
    BY <1>3, MaxIsGreatest
<1>5. Reconciled = Max(S)
  BY DEF Reconciled
<1>6. Max(S) \in 1..k + 1 /\ cursor <= Max(S)
  BY <1>1, <1>2, <1>4
<1>7. ASSUME NEW s \in DOMAIN outbox PROVE s < Max(S)
  <2>1. s + 1 \in S /\ s \in Nat
    BY <1>1
  <2>2. s + 1 <= Max(S) /\ Max(S) \in Nat
    BY <1>2, <1>4, <2>1
  <2> QED
    BY <2>1, <2>2
<1>8. Max(S) = cursor \/ \E s \in DOMAIN outbox : Max(S) = s + 1
  BY <1>4
<1> QED
  BY <1>5, <1>6, <1>7, <1>8 DEF k

--------------------------------------------------------------------------------
(* Steps of the page alone.                                                 *)

Quiet ==
    /\ UNCHANGED <<ingressVars, outbox, sounds>> /\ happened \subseteq happened'
    /\ page' \in Page /\ PageIsShut'
    /\ page'.next = page.next /\ page'.marker = page.marker
    /\ page.at = "recovering" => page'.inFlight = page.inFlight
    /\ page'.at = page.at \/ (page.at = "starting" /\ page'.at = "open")
    /\ page'.acking \in {page.acking, 0}
    /\ \/ page'.read \in {page.read, NoFrame}
       \/ page.at = "open" /\ outbox # <<>> /\ page'.read = Oldest
    /\ Ended => page'.failed = page.failed
    /\ \/ cursor' = cursor /\ (page.writing \/ page.failed => page'.writing \/ page'.failed)
       \/ cursor' = page.next /\ page.at = "open"

LEMMA QuietStays == Inv /\ Quiet => Inv'
<1> SUFFICES ASSUME Inv, Quiet PROVE Inv'
  OBVIOUS
<1> USE DEF Quiet, ingressVars
<1>t. Types
  BY DEF Inv
<1>0. /\ page'.next = page.next
      /\ UNCHANGED <<status, log, socket, up, down, late, outbox, sounds>>
      /\ Recording' <=> Recording
      /\ page'.at = page.at \/ (Recording /\ Recording')
      /\ Ended' <=> Ended
  BY DEF Recording, Ended
<1>1. Types'
  BY <1>0, <1>t DEF Types
<1>2. PageIsShut'
  OBVIOUS
<1>3. SocketIsUsed'
  BY <1>0 DEF Inv, SocketIsUsed
<1>4. Exchange'
  BY <1>0 DEF Inv, Exchange
<1>5. Numbers'
  BY <1>0, <1>t DEF Inv, Numbers, Recording, Types
<1>6. Contiguous'
  BY <1>0 DEF Inv, Contiguous, Covered, Recording
<1>7. FramesHold'
  <2>1. page'.read # NoFrame => InOrder(page'.read) /\ IsOwn(page'.read)
    BY OldestHolds DEF Inv, FramesHold
  <2> QED
    BY <1>0, <2>1 DEF Inv, FramesHold, InOrder, IsOwn
<1>8. AcksHold'
  BY <1>0 DEF Inv, AcksHold, Archived
<1>9. RecoveryHolds'
  BY <1>0 DEF Inv, RecoveryHolds, Empty, Recording
<1>10. EndHolds'
  BY <1>0 DEF Inv, EndHolds, Ended, Empty
<1>11. KeptSomewhere'
  BY <1>0 DEF Inv, KeptSomewhere, InLog, InOutbox
<1>12. NumbersAreSingle'
  <2> SUFFICES ASSUME "reused" \notin happened PROVE Single'
    BY DEF NumbersAreSingle
  <2>1. Single
    BY DEF Inv, NumbersAreSingle
  <2>2. page'.read # NoFrame => NumberOf(page'.read)
    BY <2>1, OldestHolds DEF Single
  <2>3. ~Recording => cursor' = cursor
    BY DEF Recording
  <2> QED
    BY <1>0, <2>1, <2>2, <2>3 DEF Single, NumberOf
<1>13. EndIsWhole'
  BY <1>0 DEF Inv, EndIsWhole, Whole, Empty
<1> QED
  BY <1>1, <1>2, <1>3, <1>4, <1>5, <1>6, <1>7, <1>8, <1>9, <1>10, <1>11, <1>12, <1>13 DEF Inv

LEMMA QuietActions ==
  ASSUME Inv
  PROVE  /\ StartFails => Quiet
         /\ OpenMicrophone => Quiet
         /\ SaveCursor => Quiet
         /\ SaveFails => Quiet
         /\ PumpReads => Quiet
         /\ PumpCannotRead => Quiet
         /\ PumpIsCut => Quiet
         /\ DeleteFails => Quiet
         /\ Reconnect => Quiet
         /\ ReconnectFails => Quiet
         /\ Stop => Quiet
         /\ Drain => Quiet
<1> USE DEF NoTrouble, Trouble, Stored
<1>1. page \in Page /\ PageIsShut
  BY DEF Inv, Types
<1> DEFINE Open(q) == /\ q \in Page /\ q.at = "open" /\ q.next = page.next
                      /\ q.marker = page.marker /\ q.acking \in {page.acking, 0}
                      /\ q.read \in {page.read, NoFrame}
  \* What is left to show for a page that stays open.
<1>2. ASSUME NEW q, page' = q, Open(q), page.at \in {"starting", "open"},
             UNCHANGED <<ingressVars, outbox, sounds>>, happened \subseteq happened',
             \/ cursor' = cursor /\ (page.writing \/ page.failed => q.writing \/ q.failed)
             \/ cursor' = page.next /\ page.at = "open"
      PROVE  Quiet
  BY <1>1, <1>2 DEF Quiet, PageIsShut, Ended
<1>3. StartFails => Quiet
  <2> SUFFICES ASSUME StartFails PROVE Quiet
    OBVIOUS
  <2> DEFINE o == [page EXCEPT !.at = "open"]
  <2>0. /\ o \in Page /\ o.at = "open" /\ o.next = page.next /\ o.marker = page.marker
        /\ o.acking = page.acking /\ o.read = page.read
    BY <1>1 DEF Page
  <2>2. PICK p \in Stopping(o) : page' = Failed(p, FALSE)
    BY DEF StartFails
  <2> HIDE DEF o
  <2>1. /\ p \in Page /\ p.at = "open" /\ p.next = page.next /\ p.marker = page.marker
        /\ p.acking = page.acking /\ p.read = page.read
    BY <2>0, StoppingPage
  <2>3. Open(page') /\ page'.failed = TRUE
    BY <2>1, <2>2, FailedPage DEF Alike
  <2> QED
    BY <1>2, <2>3 DEF StartFails
<1>4. OpenMicrophone => Quiet
  <2> SUFFICES ASSUME OpenMicrophone PROVE Quiet
    OBVIOUS
  <2>1. /\ page' \in Page /\ page'.at = "open" /\ page'.next = page.next
        /\ page'.marker = page.marker
        /\ page'.acking = page.acking /\ page'.read = page.read
        /\ page'.writing = page.writing /\ page'.failed = page.failed
    BY <1>1 DEF OpenMicrophone, Page
  <2> QED
    BY <1>2, <2>1 DEF OpenMicrophone
<1>5. SaveCursor => Quiet
  <2> SUFFICES ASSUME SaveCursor PROVE Quiet
    OBVIOUS
  <2> DEFINE p == [page EXCEPT !.writing = FALSE]
  <2>0. page.at = "open"
    BY <1>1 DEF SaveCursor, PageIsShut
  <2>1. /\ p \in Page /\ p.at = "open" /\ p.next = page.next /\ p.marker = page.marker
        /\ p.acking = page.acking /\ p.read = page.read
    BY <1>1, <2>0 DEF Page
  <2>2. page' = Pumped(p, {"loss"})
    BY DEF SaveCursor
  <2> HIDE DEF p
  <2>3. Open(page')
    BY <2>1, <2>2, PumpedPage DEF Alike
  <2> QED
    BY <1>2, <2>0, <2>3 DEF SaveCursor
<1>6. SaveFails => Quiet
  <2> SUFFICES ASSUME SaveFails PROVE Quiet
    OBVIOUS
  <2> DEFINE p == [page EXCEPT !.writing = FALSE]
  <2>0. page.at = "open"
    BY <1>1 DEF SaveFails, PageIsShut
  <2>1. /\ p \in Page /\ p.at = "open" /\ p.next = page.next /\ p.marker = page.marker
        /\ p.acking = page.acking /\ p.read = page.read
    BY <1>1, <2>0 DEF Page
  <2>2. page' = Failed(p, FALSE)
    BY DEF SaveFails
  <2> HIDE DEF p
  <2>3. Open(page') /\ page'.failed = TRUE
    BY <2>1, <2>2, FailedPage DEF Alike
  <2> QED
    BY <1>2, <2>0, <2>3 DEF SaveFails
<1>7. PumpReads => Quiet
  <2> SUFFICES ASSUME PumpReads PROVE Quiet
    OBVIOUS
  <2>0. page.at = "open"
    BY <1>1 DEF PumpReads, PageIsShut
  <2>1. Oldest \in [seq : Nat, chunk : Nat]
    BY <2>0, NoPageType, OldestHolds DEF Oldest
  <2>2. /\ page' \in Page /\ page'.at = "open" /\ page'.next = page.next
        /\ page'.marker = page.marker
        /\ page'.acking = page.acking /\ page'.read = Oldest
        /\ page'.writing = page.writing /\ page'.failed = page.failed
    BY <1>1, <2>0, <2>1 DEF PumpReads, Page
  <2>3. page'.read = NoFrame \/ outbox # <<>>
    BY <2>2 DEF Oldest
  <2> QED
    BY <2>0, <2>2, <2>3 DEF Quiet, PumpReads, PageIsShut, Ended
<1>8. PumpCannotRead => Quiet
  <2> SUFFICES ASSUME PumpCannotRead PROVE Quiet
    OBVIOUS
  <2> DEFINE p == [page EXCEPT !.pump = "read", !.read = NoFrame]
  <2>0. page.at = "open"
    BY <1>1 DEF PumpCannotRead, PageIsShut
  <2>1. /\ p \in Page /\ p.at = "open" /\ p.next = page.next /\ p.marker = page.marker
        /\ p.acking = page.acking /\ p.read = NoFrame
    BY <1>1, <2>0, NoPageType DEF Page
  <2>2. page' = Failed(p, TRUE)
    BY DEF PumpCannotRead
  <2> HIDE DEF p
  <2>3. Open(page') /\ page'.failed = TRUE
    BY <2>1, <2>2, FailedPage DEF Alike
  <2> QED
    BY <1>2, <2>0, <2>3 DEF PumpCannotRead
<1>9. PumpIsCut => Quiet
  <2> SUFFICES ASSUME PumpIsCut PROVE Quiet
    OBVIOUS
  <2> DEFINE who == IF Reports \/ page.read # NoFrame THEN page.waits ELSE {}
             i == Idle(page)
             c == [i EXCEPT !.retry = @ \/ "reconnect" \in who]
  <2>0. page.at = "open"
    BY <1>1 DEF PumpIsCut, PageIsShut
  <2>5. /\ i \in Page /\ i.at = "open" /\ i.next = page.next /\ i.marker = page.marker
        /\ i.acking = page.acking /\ i.read = NoFrame /\ i.writing = page.writing
        /\ i.failed = page.failed
    BY <1>1, <2>0, IdlePage
  <2>6. \/ page' = c
        \/ \E p \in {c} \cup Stopping(c) : page' = Failed(p, FALSE)
    BY Zenon DEF PumpIsCut
  <2> HIDE DEF i, who
  <2>7. /\ c \in Page /\ c.at = "open" /\ c.next = page.next /\ c.marker = page.marker
        /\ c.acking = page.acking /\ c.read = NoFrame /\ c.writing = page.writing
        /\ c.failed = page.failed
    BY <2>5 DEF Page
  <2> HIDE DEF c
  <2>2. PICK p \in {c} \cup Stopping(c) : page' \in {p, Failed(p, FALSE)}
    BY <2>6
  <2>1. /\ p \in Page /\ p.at = "open" /\ p.next = page.next /\ p.marker = page.marker
        /\ p.acking = page.acking /\ p.read = NoFrame /\ p.writing = page.writing
        /\ p.failed = page.failed
    BY <2>7, StoppingPage
  <2>3. Open(page') /\ page'.writing = page.writing /\ (page.failed => page'.failed)
    <3>1. CASE page' = p
      BY <2>1, <3>1
    <3>2. CASE page' = Failed(p, FALSE)
      <4>1. page' \in Page /\ Alike(p, page') /\ page'.failed = TRUE
        BY <2>1, <3>2, FailedPage
      <4> QED
        BY <2>1, <4>1 DEF Alike
    <3> QED
      BY <2>2, <3>1, <3>2
  <2>4. UNCHANGED <<ingressVars, outbox, sounds, cursor>> /\ happened \subseteq happened'
    BY DEF PumpIsCut
  <2> QED
    BY <1>2, <2>0, <2>3, <2>4
<1>10. DeleteFails => Quiet
  <2> SUFFICES ASSUME DeleteFails PROVE Quiet
    OBVIOUS
  <2> DEFINE p == AckIsDone(page)
  <2>0. page.at \in {"open", "stopped", "finished"}
    BY <1>1 DEF DeleteFails, PageIsShut
  <2>1. /\ p \in Page /\ p.at = page.at /\ p.next = page.next /\ p.marker = page.marker
        /\ p.acking = 0 /\ p.read = page.read /\ p.writing = page.writing
        /\ p.failed = page.failed /\ p.stopping = page.stopping /\ p.pump = page.pump
    BY <1>1, AckIsDonePage
  <2>2. page' = Failed(p, TRUE)
    BY DEF DeleteFails
  <2> HIDE DEF p
  <2>3. /\ page' \in Page /\ Alike(p, page') /\ page'.failed = (p.failed \/ p.at = "open")
        /\ p.at # "open" => page' = p
    BY <2>1, <2>2, FailedPage
  <2>4. UNCHANGED <<ingressVars, outbox, sounds, cursor>> /\ happened \subseteq happened'
    BY DEF DeleteFails
  <2>5. CASE page.at = "open"
    BY <1>2, <2>1, <2>3, <2>4, <2>5 DEF Alike
  <2>6. CASE Ended
    <3>1. page' = p /\ page.at # "open"
      BY <2>1, <2>3, <2>6 DEF Ended
    <3>2. PageIsShut'
      BY <1>1, <2>1, <2>6, <3>1 DEF PageIsShut, Ended
    <3> QED
      BY <2>1, <2>3, <2>4, <2>6, <3>1, <3>2 DEF Quiet, Ended
  <2> QED
    BY <2>0, <2>5, <2>6 DEF Ended
<1>11. Stop => Quiet
  <2> SUFFICES ASSUME Stop PROVE Quiet
    OBVIOUS
  <2>1. /\ page' \in Page /\ page'.at = "open" /\ page'.next = page.next
        /\ page'.marker = page.marker
        /\ page'.acking = page.acking /\ page'.read = page.read
        /\ page'.writing = page.writing /\ page'.failed = page.failed
    BY <1>1, StoppingPage DEF Stop
  <2> QED
    BY <1>2, <2>1 DEF Stop
<1>13. Reconnect => Quiet
  <2> SUFFICES ASSUME Reconnect PROVE Quiet
    OBVIOUS
  <2>0. page' = [page EXCEPT !.retry = FALSE, !.opening = page.opening + 1] /\ page.at = "open"
    BY DEF Reconnect
  <2>2. page.opening + 1 \in Nat
    BY <1>1 DEF Page
  <2>1. /\ page' \in Page /\ page'.at = "open" /\ page'.next = page.next
        /\ page'.marker = page.marker
        /\ page'.acking = page.acking /\ page'.read = page.read
        /\ page'.writing = page.writing /\ page'.failed = page.failed
    BY <1>1, <2>0, <2>2 DEF Page
  <2> QED
    BY <1>2, <2>1 DEF Reconnect
<1>14. ReconnectFails => Quiet
  <2> SUFFICES ASSUME ReconnectFails PROVE Quiet
    OBVIOUS
  <2>1. page' = OpeningFailed(page) /\ page.at = "open" /\ page.opening - 1 \in Nat
    BY <1>1 DEF ReconnectFails, Page
  <2>2. /\ page' \in Page /\ page'.at = "open" /\ page'.next = page.next
        /\ page'.marker = page.marker
        /\ page'.acking = page.acking /\ page'.read = page.read
        /\ page'.writing = page.writing /\ page'.failed = page.failed
    BY <1>1, <2>1 DEF OpeningFailed, Page
  <2> QED
    BY <1>2, <2>2 DEF ReconnectFails
<1>12. Drain => Quiet
  <2> SUFFICES ASSUME Drain PROVE Quiet
    OBVIOUS
  <2>1. page' \in Page /\ Alike(page, page') /\ page'.failed = page.failed
    BY <1>1, PumpedPage DEF Drain
  <2> QED
    BY <1>2, <2>1 DEF Drain, Alike
<1> QED
  BY <1>3, <1>4, <1>5, <1>6, <1>7, <1>8, <1>9, <1>10, <1>11, <1>12, <1>13, <1>14

--------------------------------------------------------------------------------
(* Steps that close the socket, leave it for another one or leave the page. *)

Leaves ==
    /\ page' = NoPage /\ UNCHANGED <<outbox, cursor>>
    /\ Recording => "reused" \in happened' \/ page.next <= Reconciled

Clears == page' = NoPage /\ Empty /\ outbox' = <<>> /\ cursor' = 1 /\ status # "CAPTURING"

Stays ==
    /\ UNCHANGED <<outbox, cursor>>
    /\ page'.at = page.at /\ page.at # "recovering"
    /\ page'.next = page.next /\ page'.acking = page.acking /\ page'.read = page.read
    /\ page'.writing = page.writing
    /\ page.failed => page'.failed
    /\ Ended => page'.failed = page.failed
    /\ page'.marker = "confirmed" <=> page.marker = "confirmed"

Halts ==
    /\ UNCHANGED <<outbox, cursor>>
    /\ page.at = "open" /\ page'.at = "stopped" /\ ~page.writing /\ Drained
    /\ page'.next = page.next /\ page'.acking = page.acking /\ page'.read = NoFrame
    /\ page'.failed = page.failed
    /\ page'.marker = "confirmed" <=> page.marker = "confirmed"

Cut ==
    /\ UNCHANGED <<log, sounds>> /\ happened \subseteq happened'
    /\ socket' \in BOOLEAN /\ (socket' => page'.at = "open")
    /\ up' = <<>> /\ down' = <<>> /\ late' \subseteq late \cup ToSet(up)
    /\ status' = status \/ (status = "CAPTURING" /\ status' = "INCOMPLETE")
    /\ page' \in Page /\ PageIsShut'
    /\ Leaves \/ Clears \/ Stays \/ Halts

LEMMA NoOutbox == ASSUME NEW S PROVE <<>> \in [DOMAIN <<>> -> S] /\ DOMAIN <<>> = {}
OBVIOUS

LEMMA NoPageFields ==
  /\ NoPage.at = "closed" /\ NoPage.next = 1 /\ NoPage.acking = 0 /\ NoPage.marker = "none"
  /\ NoPage.read = NoFrame /\ NoPage.pump = "idle" /\ NoPage.inFlight = 0
  /\ ~NoPage.mic /\ ~NoPage.stopping /\ ~NoPage.failed /\ ~NoPage.writing
BY DEF NoPage

LEMMA CutStays == Inv /\ Cut => Inv'
<1> SUFFICES ASSUME Inv, Cut PROVE Inv'
  OBVIOUS
<1> USE DEF Cut
<1>t. Types /\ ToSet(up) \subseteq Message
  BY LengthsAre DEF Inv
<1>e. ToSet(up') = {} /\ ToSet(down') = {}
  BY EmptySet
<1>c. \/ /\ page'.at = "closed" /\ page'.next = 1 /\ page'.acking = 0 /\ page'.marker = "none"
         /\ page'.read = NoFrame
         /\ Leaves \/ Clears
      \/ Stays \/ Halts
  BY NoPageFields DEF Leaves, Clears
<1>o. outbox' = outbox \/ (Empty /\ Empty')
  BY NoOutbox DEF Leaves, Clears, Stays, Halts, Empty
<1>1. Types'
  <2>1. page'.next \in 1..Len(sounds) + 1
    BY <1>c, <1>t, LengthsAre DEF Types, Stays, Halts
  <2>2. cursor' \in 1..Len(sounds) + 1
    BY <1>t, LengthsAre DEF Types, Leaves, Clears, Stays, Halts
  <2>3. DOMAIN outbox' \subseteq 1..Len(sounds) /\ outbox' \in [DOMAIN outbox' -> 1..Len(sounds)]
    BY <1>t, NoOutbox DEF Types, Leaves, Clears, Stays, Halts
  <2>4. up' \in Seq(Message) /\ down' \in Seq(Answer)
    OBVIOUS
  <2> QED
    BY <1>t, <2>1, <2>2, <2>3, <2>4 DEF Types
<1>2. PageIsShut'
  OBVIOUS
<1>3. SocketIsUsed'
  BY <1>c DEF SocketIsUsed, Stays, Halts, Leaves, Clears
<1>4. Exchange'
  BY <1>c DEF Exchange, Stays, Halts
<1>5. Numbers'
  BY <1>c DEF Inv, Numbers, Recording, Stays, Halts
<1>6. Contiguous'
  <2>1. CASE Clears
    <3>1. cursor' = 1 /\ page'.at = "closed" /\ DOMAIN outbox' = {}
      BY <2>1, NoPageFields, NoOutbox DEF Clears
    <3>2. \A t \in 1..Len(sounds) : ~Covered(t)'
      BY <3>1, <1>t, LengthsAre DEF Covered, Recording
    <3> QED
      BY <3>2 DEF Contiguous
  <2>2. CASE Leaves \/ Stays \/ Halts
    <3>1. /\ UNCHANGED <<outbox, cursor, log, sounds>>
          /\ Recording' => Recording /\ page'.next = page.next
      BY <1>c, <2>2, NoPageFields DEF Leaves, Stays, Halts, Recording
    <3>2. \A t : Covered(t)' => Covered(t)
      BY <3>1 DEF Covered
    <3> QED
      BY <3>1, <3>2 DEF Inv, Contiguous
  <2> QED
    BY <1>c, <2>1, <2>2
<1>7. FramesHold'
  <2>1. \A m \in late' : m.type = "frame" => InOrder(m)'
    BY DEF Inv, FramesHold, InOrder
  <2>2. page'.read # NoFrame => /\ page'.read = page.read /\ page'.next = page.next
                                /\ outbox' = outbox
    BY <1>c DEF Stays, Halts
  <2> QED
    BY <1>e, <2>1, <2>2 DEF Inv, FramesHold, InOrder, IsOwn
<1>8. AcksHold'
  <2>1. page'.acking # 0 => /\ page'.acking = page.acking /\ page'.next = page.next
                            /\ outbox' = outbox
    BY <1>c DEF Stays, Halts
  <2> QED
    BY <1>e, <2>1 DEF Inv, AcksHold, Archived
<1>9. RecoveryHolds'
  <2>1. page'.at # "recovering"
    BY <1>c DEF Stays, Halts
  <2>2. ASSUME NEW m \in late', m.type = "capture_recovery_complete"
        PROVE  Empty' /\ status' # "CAPTURING" /\ page'.at = "closed"
    <3>1. Empty /\ status # "CAPTURING" /\ page.at \in {"closed", "recovering"}
      BY <2>2 DEF Inv, RecoveryHolds
    <3> QED
      BY <1>c, <1>o, <3>1 DEF Stays, Halts, Empty
  <2> QED
    BY <1>e, <2>1, <2>2 DEF RecoveryHolds
<1>10. EndHolds'
  <2>1. CASE Leaves \/ Clears
    BY <1>c, <1>e, <2>1, NoPageFields DEF EndHolds, Ended, Leaves, Clears
  <2>2. CASE Stays
    BY <1>e, <2>2 DEF Inv, EndHolds, Ended, Empty, Stays
  <2>3. CASE Halts
    <3>1. page.marker = "confirmed" \/ (Empty /\ ~page.failed)
      BY <2>3, <1>t, OutboxIsEmpty DEF Halts, Drained
    <3> QED
      BY <1>e, <2>3, <3>1 DEF Inv, EndHolds, Ended, Empty, Halts
  <2> QED
    BY <2>1, <2>2, <2>3
<1>11. KeptSomewhere'
  BY <1>o DEF Inv, KeptSomewhere, InLog, InOutbox, Empty
<1>12. NumbersAreSingle'
  <2> SUFFICES ASSUME "reused" \notin happened' PROVE Single'
    BY DEF NumbersAreSingle
  <2>1. Single
    BY DEF Inv, NumbersAreSingle
  <2>2. /\ \A s \in DOMAIN outbox' : sounds[outbox'[s]] = s
        /\ \A m \in late' : m.type = "frame" => NumberOf(m)
        /\ page'.read # NoFrame => NumberOf(page'.read)
    BY <1>o, <1>c, <2>1 DEF Single, Empty, Stays, Halts
  <2>3. Recording' => \A c \in DOMAIN sounds : sounds[c] < page'.next
    BY <1>c, <2>1 DEF Single, Recording, Stays, Halts
  <2>4. ASSUME ~Recording', status' = "CAPTURING", NEW c \in DOMAIN sounds
        PROVE  sounds[c] < cursor' \/ \E s \in DOMAIN outbox' : sounds[c] <= s
    <3>1. status = "CAPTURING"
      BY <2>4
    <3>2. CASE ~Recording
      <4>1. UNCHANGED <<outbox, cursor>>
        BY <3>1, <3>2 DEF Leaves, Clears, Stays, Halts
      <4> QED
        BY <2>1, <3>1, <3>2, <4>1 DEF Single
    <3>3. CASE Leaves /\ Recording
      <4>1. sounds[c] < page.next /\ page.next <= Reconciled /\ UNCHANGED <<outbox, cursor>>
        BY <2>1, <3>3 DEF Single, Leaves
      <4>2. /\ Reconciled \in Nat /\ page.next \in Nat /\ sounds[c] \in Nat
            /\ \A s \in DOMAIN outbox : s \in Nat
        <5>1. Reconciled \in 1..Len(sounds) + 1 /\ Len(sounds) \in Nat
          BY <1>t, ReconciledHolds, LengthsAre
        <5>2. page.next \in Nat
          BY <1>t DEF Types, Page
        <5>3. sounds[c] \in Nat /\ \A s \in DOMAIN outbox : s \in Nat
          BY <1>t, <5>1, LengthsAre
        <5> QED
          BY <5>1, <5>2, <5>3
      <4>3. Reconciled = cursor \/ \E s \in DOMAIN outbox : Reconciled = s + 1
        BY <1>t, ReconciledHolds
      <4> QED
        BY <4>1, <4>2, <4>3
    <3>4. CASE Halts /\ Recording
      <4>1. page.marker # "confirmed"
        BY <3>1 DEF Inv, EndHolds
      <4>2. ~page.failed /\ ~page.writing /\ UNCHANGED <<outbox, cursor>>
        BY <3>4, <4>1 DEF Halts, Drained
      <4>3. cursor = page.next
        BY <3>4, <4>2 DEF Inv, Numbers
      <4> QED
        BY <2>1, <3>4, <4>2, <4>3 DEF Single
    <3>5. ~(Clears \/ (Stays /\ Recording))
      BY <2>4, <3>1 DEF Clears, Stays, Recording
    <3> QED
      BY <3>2, <3>3, <3>4, <3>5
  <2> QED
    BY <1>e, <2>1, <2>2, <2>3, <2>4 DEF Single, NumberOf
<1>13. EndIsWhole'
  <2>1. page'.marker = "confirmed" => page.marker = "confirmed"
    BY <1>c DEF Stays, Halts
  <2>2. Recording' => Recording
    BY <1>c DEF Recording, Stays, Halts
  <2> QED
    BY <1>o, <2>1, <2>2 DEF Inv, EndIsWhole, Whole, Empty
<1> QED
  BY <1>1, <1>2, <1>3, <1>4, <1>5, <1>6, <1>7, <1>8, <1>9, <1>10, <1>11, <1>12, <1>13 DEF Inv

LEMMA LeftSocket ==
  ASSUME Types, Leave
  PROVE  /\ UNCHANGED <<log, status>> /\ up' = <<>> /\ down' = <<>>
         /\ late' \subseteq late \cup ToSet(up)
<1>1. Unheard \subseteq ToSet(up)
  BY DEF Unheard, ToSet
<1> QED
  BY <1>1 DEF Leave

LEMMA CutActions ==
  ASSUME Inv
  PROVE  /\ LoseSocket => Cut
         /\ AckTimeout => Cut
         /\ Reconnected => Cut
         /\ ReceiveClose => Cut
         /\ Stopped => Cut
         /\ ConfirmFinalized => Cut
         /\ Recovered => Cut
         /\ RecoveryRefused => Cut
         /\ RecoveryFails => Cut
         /\ Reload => Cut
         /\ Restart => Cut
<1> USE DEF NoTrouble, Trouble, Stored
<1>1. page \in Page /\ PageIsShut /\ Types /\ (page.at = "recovering" => status # "CAPTURING")
  BY DEF Inv, Types, RecoveryHolds
<1>2. ASSUME CloseSocket
      PROVE  /\ UNCHANGED <<log, status>> /\ socket' = FALSE /\ up' = <<>> /\ down' = <<>>
             /\ late' \subseteq late \cup ToSet(up)
  BY <1>1, <1>2, LeftSocket DEF CloseSocket
<1>3. page' = NoPage => page' \in Page /\ PageIsShut'
  BY NoPageType, NoPageFields DEF PageIsShut, Ended
<1>4. /\ Unplugged(page) \in Page
      /\ page.at # "recovering" /\ page' = Unplugged(page) /\ UNCHANGED <<outbox, cursor>> =>
             PageIsShut' /\ Stays
  BY <1>1, UnpluggedPage DEF PageIsShut, Stays, Ended
<1>5. LoseSocket => Cut
  BY <1>2, <1>4 DEF LoseSocket, Cut
<1>6. AckTimeout => Cut
  BY <1>2, <1>4 DEF AckTimeout, Cut
<1>7. ReceiveClose => Cut
  <2> SUFFICES ASSUME ReceiveClose PROVE Cut
    OBVIOUS
  <2> DEFINE p == Unplugged(page)
  <2>1. /\ p \in Page /\ p.at = "open" /\ p.next = page.next /\ p.acking = page.acking
        /\ p.read = page.read /\ p.writing = page.writing
        /\ p.marker = "confirmed" <=> page.marker = "confirmed"
    BY <1>1, UnpluggedPage DEF ReceiveClose
  <2>2. page' = Failed(p, FALSE)
    BY DEF ReceiveClose
  <2> HIDE DEF p
  <2>3. page' \in Page /\ Alike(p, page') /\ page'.failed = TRUE
    BY <2>1, <2>2, FailedPage
  <2>4. Stays /\ PageIsShut'
    BY <2>1, <2>3 DEF Alike, Stays, PageIsShut, Ended, ReceiveClose
  <2> QED
    BY <1>2, <2>3, <2>4 DEF ReceiveClose, Cut
<1>8. Stopped => Cut
  <2> SUFFICES ASSUME Stopped PROVE Cut
    OBVIOUS
  <2> DEFINE u == Unplugged(page)
             p == [u EXCEPT !.at = "stopped", !.retry = FALSE, !.opening = 0]
  <2>1. /\ u \in Page /\ u.stopping = page.stopping /\ u.next = page.next
        /\ u.writing = page.writing
        /\ u.failed = page.failed /\ u.acking = page.acking
        /\ u.marker = "confirmed" <=> page.marker = "confirmed"
    BY <1>1, UnpluggedPage
  <2>2. page' = Idle(p)
    BY DEF Stopped
  <2> HIDE DEF u
  <2>3. /\ p \in Page /\ p.at = "stopped" /\ p.stopping = page.stopping /\ p.next = page.next
        /\ p.writing = page.writing /\ p.failed = page.failed /\ p.acking = page.acking
        /\ p.marker = "confirmed" <=> page.marker = "confirmed"
    BY <2>1 DEF Page
  <2> HIDE DEF p
  <2>4. /\ page' \in Page /\ page'.at = "stopped" /\ page'.stopping = p.stopping
        /\ page'.next = p.next /\ page'.writing = p.writing /\ page'.failed = p.failed
        /\ page'.acking = p.acking /\ page'.marker = p.marker
        /\ page'.read = NoFrame /\ page'.pump = "idle"
    BY <2>2, <2>3, IdlePage
  <2>5. Halts /\ PageIsShut'
    BY <2>3, <2>4 DEF Halts, Stopped, PageIsShut, Ended
  <2> QED
    BY <1>2, <2>4, <2>5 DEF Stopped, Cut
<1>9. ConfirmFinalized => Cut
  <2> SUFFICES ASSUME ConfirmFinalized PROVE Cut
    OBVIOUS
  <2>1. UNCHANGED ingressVars /\ page.at = "finished" /\ page' = NoPage
    BY DEF ConfirmFinalized
  <2>2. socket' = FALSE /\ up' = <<>> /\ down' = <<>>
    BY <1>1, <2>1 DEF Inv, SocketIsUsed, Types, ingressVars
  <2>3. Leaves \/ Clears
    <3>1. CASE page.marker = "confirmed"
      BY <2>1, <3>1 DEF ConfirmFinalized, Cleared, Leaves, Recording
    <3>2. CASE page.marker # "confirmed"
      BY <2>1, <3>2 DEF ConfirmFinalized, Cleared, Clears, Inv, EndHolds, Ended
    <3> QED
      BY <3>1, <3>2
  <2> QED
    BY <1>3, <2>1, <2>2, <2>3 DEF ConfirmFinalized, Cut, ingressVars
<1>10. Recovered => Cut
  <2> SUFFICES ASSUME Recovered PROVE Cut
    OBVIOUS
  <2>1. Head(down) \in ToSet(down)
    BY <1>1, TailSet DEF Recovered, Types
  <2>2. Clears
    BY <1>1, <2>1 DEF Recovered, Clears, Inv, RecoveryHolds
  <2> QED
    BY <1>2, <1>3, <2>2 DEF Recovered, Cut
<1>11. RecoveryRefused => Cut
  BY <1>2, <1>3 DEF RecoveryRefused, Cut, Leaves, Recording
<1>12. RecoveryFails => Cut
  BY <1>2, <1>3 DEF RecoveryFails, Cut, Leaves, Recording
<1>13. Reload => Cut
  <2> SUFFICES ASSUME Reload PROVE Cut
    OBVIOUS
  <2>1. "reused" \in happened' \/ page.next <= Reconciled
    <3>1. CASE Reuses
      BY <3>1 DEF Reload
    <3>2. CASE ~Reuses
      <4>1. Reconciled \in 1..Len(sounds) + 1 /\ Len(sounds) \in Nat
        BY <1>1, ReconciledHolds, LengthsAre
      <4>2. Reconciled \in Nat
        BY <4>1
      <4>3. page.next \in Nat
        BY <1>1 DEF Page
      <4> QED
        BY <3>2, <4>2, <4>3 DEF Reuses
    <3> QED
      BY <3>1, <3>2
  <2>2. happened \subseteq happened'
    BY DEF Reload
  <2> QED
    BY <1>2, <1>3, <2>1, <2>2 DEF Reload, Cut, Leaves
<1>14. Restart => Cut
  <2> SUFFICES ASSUME Restart PROVE Cut
    OBVIOUS
  <2>1. /\ UNCHANGED <<log, sounds, outbox, cursor>> /\ socket' = FALSE /\ up' = <<>>
        /\ down' = <<>>
        /\ late' = {} /\ happened \subseteq happened'
        /\ status' = status \/ (status = "CAPTURING" /\ status' = "INCOMPLETE")
    BY DEF Restart, RestartServer
  <2>2. CASE page.at = "recovering"
    BY <1>3, <2>1, <2>2 DEF Restart, Cut, Leaves, Recording
  <2>3. CASE page.at # "recovering" /\ page' = page
    BY <1>1, <2>1, <2>3 DEF PageIsShut, Stays, Ended, Cut
  <2>4. CASE page.at # "recovering" /\ page' = Unplugged(page)
    BY <1>4, <2>1, <2>4 DEF Cut
  <2>5. page.at # "recovering" => page' \in {page, Unplugged(page)}
    BY DEF Restart
  <2> QED
    BY <2>2, <2>3, <2>4, <2>5
<1>15. Reconnected => Cut
  <2> SUFFICES ASSUME Reconnected PROVE Cut
    OBVIOUS
  <2> DEFINE o == [page EXCEPT !.opening = page.opening - 1, !.timed = FALSE,
                               !.deaf = page.deaf \/ (socket /\ Unanswered)]
  <2>1. /\ page.at = "open" /\ page.opening - 1 \in Nat
        /\ (page.deaf \/ (socket /\ Unanswered)) \in BOOLEAN
    BY <1>1 DEF Reconnected, Page
  <2>2. /\ o \in Page /\ o.at = "open" /\ o.next = page.next /\ o.acking = page.acking
        /\ o.read = page.read /\ o.writing = page.writing /\ o.failed = page.failed
        /\ o.marker = page.marker
    BY <1>1, <2>1 DEF Page
  <2>3. page' = Pumped(o, {"reconnect"})
    BY DEF Reconnected
  <2> HIDE DEF o
  <2>4. page' \in Page /\ Alike(o, page') /\ page'.failed = page.failed
    BY <2>2, <2>3, PumpedPage
  <2>5. Stays /\ PageIsShut'
    BY <2>1, <2>2, <2>4 DEF Alike, Stays, PageIsShut, Ended, Reconnected
  <2>6. CASE Supersede
    <3>1. /\ UNCHANGED <<log, status>> /\ up' = <<>> /\ down' = <<>> /\ socket' = socket
          /\ late' \subseteq late \cup ToSet(up) /\ socket = TRUE
      BY <1>1, <2>6, LeftSocket DEF Supersede, Types
    <3> QED
      BY <2>2, <2>4, <2>5, <3>1 DEF Cut, Alike, Reconnected
  <2>7. CASE OpenSocket
    <3>1. up' = <<>> /\ down' = <<>> /\ UNCHANGED <<log, status, late>> /\ socket' = TRUE
      BY <2>7 DEF OpenSocket, Inv, SocketIsUsed
    <3> QED
      BY <2>2, <2>4, <2>5, <3>1 DEF Cut, Alike, Reconnected
  <2> QED
    BY <2>6, <2>7 DEF Reconnected
<1> QED
  BY <1>5, <1>6, <1>7, <1>8, <1>9, <1>10, <1>11, <1>12, <1>13, <1>14, <1>15

--------------------------------------------------------------------------------
(* An acknowledged frame is deleted.                                        *)

Deletes ==
    /\ UNCHANGED <<status, log, socket, up, late, sounds, cursor>> /\ happened \subseteq happened'
    /\ page' \in Page /\ PageIsShut'
    /\ page.at \in {"open", "stopped", "finished", "recovering"}
    /\ page'.at = page.at /\ page'.next = page.next /\ page'.marker = page.marker
    /\ page'.read = page.read /\ page'.writing = page.writing /\ page'.failed = page.failed
    /\ page'.acking = 0
    /\ \E s : /\ s \in DOMAIN log /\ (s \in DOMAIN outbox => log[s] = outbox[s])
              /\ outbox' = Without(s)
    /\ \/ page.at # "recovering" /\ down' = down
       \/ page.at = "recovering" /\ page'.inFlight = 0 /\ up = <<>> /\ down' = <<>>

LEMMA DeletesStays == Inv /\ Deletes => Inv'
<1> SUFFICES ASSUME Inv, Deletes PROVE Inv'
  OBVIOUS
<1> USE DEF Deletes
<1>t. Types
  BY DEF Inv
<1>0. PICK s : /\ s \in DOMAIN log /\ (s \in DOMAIN outbox => log[s] = outbox[s])
               /\ outbox' = Without(s)
  OBVIOUS
<1>o. /\ DOMAIN outbox' = DOMAIN outbox \ {s} /\ \A t \in DOMAIN outbox' : outbox'[t] = outbox[t]
      /\ outbox' = [t \in DOMAIN outbox' |-> outbox[t]]
      /\ Empty => Empty'
  BY <1>0 DEF Without, Empty
<1>d. ToSet(down') \subseteq ToSet(down) /\ (Recording' <=> Recording) /\ (Ended' <=> Ended)
  BY EmptySet DEF Recording, Ended
<1>1. Types'
  <2>1. DOMAIN outbox' \subseteq 1..Len(sounds) /\ outbox' \in [DOMAIN outbox' -> 1..Len(sounds)]
    BY <1>o, <1>t DEF Types
  <2>2. down' \in Seq(Answer)
    BY <1>t DEF Types
  <2> QED
    BY <1>t, <2>1, <2>2 DEF Types
<1>2. PageIsShut'
  OBVIOUS
<1>3. SocketIsUsed'
  BY DEF Inv, SocketIsUsed
<1>4. Exchange'
  BY DEF Exchange
<1>5. Numbers'
  BY <1>o, <1>d DEF Inv, Numbers
<1>6. Contiguous'
  <2> SUFFICES ASSUME NEW t \in 1..Len(sounds), Covered(t)'
               PROVE  t \in DOMAIN log \cup DOMAIN outbox'
    BY DEF Contiguous
  <2>1. Covered(t)
    BY <1>o, <1>d DEF Covered
  <2> QED
    BY <1>0, <1>o, <2>1 DEF Inv, Contiguous
<1>7. FramesHold'
  BY <1>o DEF Inv, FramesHold, InOrder, IsOwn
<1>8. AcksHold'
  BY <1>o, <1>d DEF Inv, AcksHold, Archived
<1>9. RecoveryHolds'
  BY <1>o, <1>d DEF Inv, RecoveryHolds
<1>10. EndHolds'
  BY <1>o, <1>d DEF Inv, EndHolds
<1>11. KeptSomewhere'
  <2> SUFFICES ASSUME NEW c \in DOMAIN sounds, sounds[c] # 0, ~InLog(c) PROVE InOutbox(c)'
    BY DEF KeptSomewhere, InLog
  <2>1. InOutbox(c)
    BY DEF Inv, KeptSomewhere
  <2>2. sounds[c] # s
    BY <1>0, <2>1 DEF InLog, InOutbox
  <2> QED
    BY <1>o, <2>1, <2>2 DEF InOutbox
<1>12. NumbersAreSingle'
  <2> SUFFICES ASSUME "reused" \notin happened' PROVE Single'
    BY DEF NumbersAreSingle
  <2>1. Single
    BY DEF Inv, NumbersAreSingle
  <2>2. ASSUME ~Recording, status = "CAPTURING", NEW c \in DOMAIN sounds
        PROVE  sounds[c] < cursor \/ \E t \in DOMAIN outbox' : sounds[c] <= t
    <3>1. Ended
      BY <2>2 DEF Inv, RecoveryHolds, Ended, Recording
    <3>2. Empty
      BY <2>2, <3>1 DEF Inv, EndHolds
    <3> QED
      BY <2>1, <2>2, <3>2 DEF Single, Empty
  <2> QED
    BY <1>o, <1>d, <2>1, <2>2 DEF Single, NumberOf
<1>13. EndIsWhole'
  BY <1>o, <1>d DEF Inv, EndIsWhole, Whole
<1> QED
  BY <1>1, <1>2, <1>3, <1>4, <1>5, <1>6, <1>7, <1>8, <1>9, <1>10, <1>11, <1>12, <1>13 DEF Inv

LEMMA AckedOnce ==
  ASSUME Inv, page.at = "recovering", Answered("ack")
  PROVE  down' = <<>> /\ up = <<>> /\ Archived(page.inFlight)
<1>1. down # <<>> /\ Head(down).type = "ack" /\ down' = Tail(down)
  BY DEF Answered
<1>2. /\ up = <<>>
      /\ down \in {Ack(page.inFlight), Close, Told,
                   <<Reply("capture_recovery_complete_ack", 0)>>}
  BY <1>1 DEF Inv, Exchange
<1>3. /\ Head(Close) = Reply("close", 0) /\ Head(Told) = Reply("capture_incomplete_ack", 0)
      /\ \A a : Head(<<a>>) = a /\ Tail(<<a>>) = <<>>
  BY DEF Close, Told
<1>4. down = <<Reply("ack", page.inFlight)>>
  BY <1>1, <1>2, <1>3 DEF Ack, Reply
<1>5. down' = <<>> /\ Reply("ack", page.inFlight) \in ToSet(down)
  BY <1>1, <1>3, <1>4, SingleSet
<1> QED
  BY <1>2, <1>5 DEF Inv, AcksHold, Reply

LEMMA DeleteActions ==
  ASSUME Inv
  PROVE  /\ DeleteFrame => Deletes
         /\ RecoverAck => Deletes
<1> USE DEF NoTrouble
<1>1. page \in Page /\ PageIsShut
  BY DEF Inv, Types
<1>2. DeleteFrame => Deletes
  <2> SUFFICES ASSUME DeleteFrame PROVE Deletes
    OBVIOUS
  <2> DEFINE p == AckIsDone(page)
  <2>0. page.at \in {"open", "stopped", "finished"}
    BY <1>1 DEF DeleteFrame, PageIsShut
  <2>1. /\ p \in Page /\ p.at = page.at /\ p.next = page.next /\ p.marker = page.marker
        /\ p.acking = 0 /\ p.read = page.read /\ p.writing = page.writing /\ p.mic = page.mic
        /\ p.failed = page.failed /\ p.stopping = page.stopping /\ p.pump = page.pump
    BY <1>1, AckIsDonePage
  <2>2. page' = Pumped(p, {"loss"})
    BY DEF DeleteFrame
  <2> HIDE DEF p
  <2>3. /\ page' \in Page /\ Alike(p, page') /\ page'.failed = p.failed
        /\ p.at # "open" => page'.pump = p.pump
    BY <2>1, <2>2, PumpedPage
  <2>4. PageIsShut'
    BY <1>1, <2>0, <2>1, <2>3 DEF PageIsShut, Alike, Ended
  <2>5. page.acking \in DOMAIN log /\ log[page.acking] = outbox[page.acking]
    BY DEF DeleteFrame, Inv, AcksHold, Archived
  <2>6. /\ UNCHANGED <<status, log, socket, up, down, late, sounds, cursor, happened>>
        /\ outbox' = Without(page.acking)
    BY DEF DeleteFrame, ingressVars
  <2> QED
    BY <2>0, <2>1, <2>3, <2>4, <2>5, <2>6 DEF Deletes, Alike
<1>3. RecoverAck => Deletes
  <2> SUFFICES ASSUME RecoverAck PROVE Deletes
    OBVIOUS
  <2>1. down' = <<>> /\ up = <<>> /\ Archived(page.inFlight)
    BY AckedOnce DEF RecoverAck
  <2>2. /\ page' \in Page /\ page'.at = page.at /\ page'.next = page.next
        /\ page'.marker = page.marker /\ page'.inFlight = 0
        /\ page'.acking = page.acking /\ page'.read = page.read /\ page'.writing = page.writing
        /\ page'.mic = page.mic /\ page'.pump = page.pump
        /\ page'.failed = page.failed /\ page'.stopping = page.stopping
    BY <1>1 DEF RecoverAck, Page
  <2>3. PageIsShut'
    BY <1>1, <2>2 DEF PageIsShut, Ended
  <2>4. /\ UNCHANGED <<status, log, socket, up, late, sounds, cursor, happened>>
        /\ outbox' = Without(page.inFlight) /\ page.at = "recovering" /\ page.acking = 0
    BY <1>1 DEF RecoverAck, Answered, PageIsShut
  <2> QED
    BY <2>1, <2>2, <2>3, <2>4 DEF Deletes, Archived
<1> QED
  BY <1>2, <1>3

--------------------------------------------------------------------------------
(* The server handles a message.                                            *)

LEMMA AnswerSets ==
  ASSUME NEW m \in Message, NEW answer \in Answers(m)
  PROVE  /\ answer \in Seq(Answer)
         /\ \A a \in ToSet(answer) :
               /\ a.type = "ack" => answer = Ack(m.seq) /\ a.seq = m.seq
               /\ a.type = "capture_incomplete_ack" => answer = Told
               /\ a.type = "capture_recovery_complete_ack" =>
                      answer = <<Reply("capture_recovery_complete_ack", 0)>>
<1>1. m.seq \in Nat
  BY DEF Message
<1>2. Told = <<Reply("capture_incomplete_ack", 0), Reply("close", 0)>>
  BY PairOf DEF Told, Close
<1>3. \A a : ToSet(<<a>>) = {a}
  BY SingleSet
<1>4. ToSet(Told) = {Reply("capture_incomplete_ack", 0), Reply("close", 0)}
  BY <1>2 DEF ToSet
<1>5. \A type : Reply(type, 0).type = type /\ Reply("ack", m.seq).type = "ack"
                /\ Reply("ack", m.seq).seq = m.seq
  BY DEF Reply
<1>6. CASE answer = Ack(m.seq)
  BY <1>1, <1>3, <1>5, <1>6 DEF Ack, Reply, Answer
<1>7. CASE answer = Close
  BY <1>3, <1>5, <1>7 DEF Close, Reply, Answer
<1>8. CASE answer = Told
  <2>1. answer \in Seq(Answer)
    BY <1>2, <1>8 DEF Reply, Answer
  <2> QED
    BY <1>4, <1>5, <1>8, <2>1
<1>9. CASE answer = <<Reply("capture_recovery_complete_ack", 0)>>
  BY <1>3, <1>5, <1>9 DEF Reply, Answer
<1> QED
  BY <1>6, <1>7, <1>8, <1>9 DEF Answers

LEMMA AnswersDiffer ==
  ASSUME NEW m
  PROVE  /\ Ack(m.seq) # Close /\ Ack(m.seq) # Told /\ Close # Told
         /\ \A a \in {Ack(m.seq), Close, Told} : a # <<Reply("capture_recovery_complete_ack", 0)>>
<1>1. Told = <<Reply("capture_incomplete_ack", 0), Reply("close", 0)>>
  BY PairOf DEF Told, Close
<1>2. Reply("ack", m.seq).type # "close" /\ Reply("close", 0).type # "capture_recovery_complete_ack"
      /\ Reply("ack", m.seq).type # "capture_recovery_complete_ack"
      /\ Reply("close", 0).type = "close"
      /\ Reply("capture_recovery_complete_ack", 0).type = "capture_recovery_complete_ack"
  BY DEF Reply
<1>3. Len(Ack(m.seq)) = 1 /\ Len(Close) = 1 /\ Len(Told) = 2
      /\ Len(<<Reply("capture_recovery_complete_ack", 0)>>) = 1
  BY <1>1 DEF Ack, Close
<1>4. Ack(m.seq)[1] = Reply("ack", m.seq) /\ Close[1] = Reply("close", 0)
     
      /\ <<Reply("capture_recovery_complete_ack", 0)>>[1] = Reply("capture_recovery_complete_ack", 0)
  BY DEF Ack, Close
<1> QED
  BY <1>2, <1>3, <1>4

\* What handling a message does to the archive and the status, and what the answer says.
LEMMA Handled ==
  ASSUME Inv, NEW m \in ToSet(up) \cup late, NEW answer \in Answers(m),
         Handle(m, answer) \/ HandleFails(m, answer)
  PROVE  /\ \/ log' = log
            \/ m.type = "frame" /\ m.seq = Len(log) + 1 /\ log' = Append(log, m.chunk)
         /\ \/ status' = status
            \/ status' = "INCOMPLETE"
            \/ status' = "COMPLETE" /\ status # "CAPTURING" /\ m.type = "capture_recovery_complete"
         /\ answer = Ack(m.seq) =>
                m.type = "frame" /\ m.seq \in DOMAIN log' /\ log'[m.seq] = m.chunk
         /\ answer = Told => status' = "INCOMPLETE"
         /\ answer = <<Reply("capture_recovery_complete_ack", 0)>> =>
                m.type = "capture_recovery_complete"
<1>1. m \in Message /\ Types
  BY LengthsAre DEF Inv, Types
<1>2. Repeated(m, answer) =>
          /\ log' = log /\ status' = status /\ answer = Ack(m.seq)
          /\ m.type = "frame" /\ m.seq \in DOMAIN log' /\ log'[m.seq] = m.chunk
  BY DEF Repeated
<1>3. Appended(m, answer) =>
          /\ log' = Append(log, m.chunk) /\ m.seq = Len(log) + 1 /\ status' = status
          /\ answer = Ack(m.seq)
          /\ m.type = "frame" /\ m.seq \in DOMAIN log' /\ log'[m.seq] = m.chunk
  <2> SUFFICES ASSUME Appended(m, answer)
               PROVE  m.seq \in DOMAIN log' /\ log'[m.seq] = m.chunk
    BY DEF Appended
  <2>1. m.type = "frame" /\ m.seq = Len(log) + 1 /\ log' = Append(log, m.chunk)
    BY DEF Appended
  <2>2. m.chunk \in 1..Len(sounds)
    BY <2>1 DEF Inv, FramesHold, InOrder
  <2>3. log \in Seq(1..Len(sounds))
    BY <1>1 DEF Types
  <2> QED
    BY <2>1, <2>2, <2>3, AppendedSet
<1>4. TooLate(m, answer) => log' = log /\ status' = status /\ answer = Close
  BY DEF TooLate
<1>5. Discontinuous(m, answer) => log' = log /\ status' = "INCOMPLETE" /\ answer = Told
  BY DEF Discontinuous
<1>6. Marked(m, answer) =>
          /\ log' = log /\ (status' = status \/ status' = "INCOMPLETE")
          /\ answer = Close \/ (answer = Told /\ status' = "INCOMPLETE")
  BY DEF Marked
<1>7. Completed(m, answer) =>
          /\ log' = log /\ m.type = "capture_recovery_complete"
          /\ status' = status \/ (status' = "COMPLETE" /\ status # "CAPTURING")
          /\ answer = Close \/ answer = <<Reply("capture_recovery_complete_ack", 0)>>
  BY DEF Completed
<1>8. HandleFails(m, answer) =>
          /\ log' = log
          /\ \/ status' = "INCOMPLETE" /\ answer = Told
             \/ status' = status /\ answer = Close
  BY DEF HandleFails
<1> DEFINE R == <<Reply("capture_recovery_complete_ack", 0)>>
<1>9. /\ Ack(m.seq) # Close /\ Ack(m.seq) # Told /\ Close # Told
      /\ Ack(m.seq) # R /\ Close # R /\ Told # R
  BY AnswersDiffer
<1> HIDE DEF R
<1> SUFFICES /\ \/ log' = log
                \/ m.type = "frame" /\ m.seq = Len(log) + 1 /\ log' = Append(log, m.chunk)
             /\ \/ status' = status
                \/ status' = "INCOMPLETE"
                \/ status' = "COMPLETE" /\ status # "CAPTURING" /\ m.type = "capture_recovery_complete"
             /\ answer = Ack(m.seq) =>
                    m.type = "frame" /\ m.seq \in DOMAIN log' /\ log'[m.seq] = m.chunk
             /\ answer = Told => status' = "INCOMPLETE"
             /\ answer = R => m.type = "capture_recovery_complete"
  BY DEF R
<1>r. Completed(m, answer) => answer = Close \/ answer = R
  BY <1>7 DEF R
<1> QED
  BY <1>2, <1>3, <1>4, <1>5, <1>6, <1>7, <1>8, <1>9, <1>r DEF Handle

Serves ==
    /\ UNCHANGED <<page, sounds, outbox, cursor, socket>> /\ happened \subseteq happened'
    /\ \E m \in ToSet(up) \cup late : \E answer \in Answers(m) :
          /\ Handle(m, answer) \/ HandleFails(m, answer)
          /\ \/ m \in late /\ late' \subseteq late /\ UNCHANGED <<up, down>>
             \/ Served(m, answer)

LEMMA ServeActions ==
  /\ ServerStep => Serves
  /\ ServerFails => Serves
<1>1. ServerStep => Serves
  <2>1. ASSUME UNCHANGED page, UNCHANGED sounds, Stored, NoTrouble, Receive PROVE Serves
    BY <2>1 DEF Receive, Served, Serves, Stored, NoTrouble
  <2>2. ASSUME UNCHANGED page, UNCHANGED sounds, Stored, NoTrouble, ReceiveLate PROVE Serves
    BY <2>2 DEF ReceiveLate, Serves, Stored, NoTrouble
  <2> QED
    BY <2>1, <2>2 DEF ServerStep
<1>2. ServerFails => Serves
  BY DEF ServerFails, ReceiveFails, Served, Serves, Stored, Trouble
<1> QED
  BY <1>1, <1>2

LEMMA ServesStays == Inv /\ Serves => Inv'
<1> SUFFICES ASSUME Inv, Serves PROVE Inv'
  OBVIOUS
<1>1. PICK m \in ToSet(up) \cup late : \E answer \in Answers(m) :
          /\ Handle(m, answer) \/ HandleFails(m, answer)
          /\ \/ m \in late /\ late' \subseteq late /\ UNCHANGED <<up, down>>
             \/ Served(m, answer)
  BY DEF Serves
<1>2. PICK answer \in Answers(m) :
          /\ Handle(m, answer) \/ HandleFails(m, answer)
          /\ \/ m \in late /\ late' \subseteq late /\ UNCHANGED <<up, down>>
             \/ Served(m, answer)
  BY <1>1
<1>u. UNCHANGED <<page, sounds, outbox, cursor, socket>> /\ happened \subseteq happened'
  BY DEF Serves
<1>t. Types /\ m \in Message
  BY LengthsAre DEF Inv, Types
<1>h. /\ \/ log' = log
         \/ m.type = "frame" /\ m.seq = Len(log) + 1 /\ log' = Append(log, m.chunk)
      /\ \/ status' = status
         \/ status' = "INCOMPLETE"
         \/ status' = "COMPLETE" /\ status # "CAPTURING" /\ m.type = "capture_recovery_complete"
      /\ answer = Ack(m.seq) =>
             m.type = "frame" /\ m.seq \in DOMAIN log' /\ log'[m.seq] = m.chunk
      /\ answer = Told => status' = "INCOMPLETE"
      /\ answer = <<Reply("capture_recovery_complete_ack", 0)>> =>
             m.type = "capture_recovery_complete"
  BY <1>2, Handled
<1>a. /\ answer \in Seq(Answer)
      /\ \A a \in ToSet(answer) :
            /\ a.type = "ack" => answer = Ack(m.seq) /\ a.seq = m.seq
            /\ a.type = "capture_incomplete_ack" => answer = Told
            /\ a.type = "capture_recovery_complete_ack" =>
                   answer = <<Reply("capture_recovery_complete_ack", 0)>>
  BY <1>t, AnswerSets
<1>m. m.type = "frame" => InOrder(m)
  BY DEF Inv, FramesHold
  \* The archive only grows, at its end.
<1>l. /\ log' \in Seq(1..Len(sounds)) /\ Len(log') \in Nat /\ Len(log) <= Len(log')
      /\ DOMAIN log \subseteq DOMAIN log' /\ \A i \in DOMAIN log : log'[i] = log[i]
      /\ \A i \in DOMAIN log' : i \in DOMAIN log
                                \/ (i = m.seq /\ log'[i] = m.chunk /\ m.type = "frame")
  <2>0. log \in Seq(1..Len(sounds)) /\ Len(log) \in Nat
    BY <1>t, LengthsAre DEF Types
  <2>1. CASE log' = log
    BY <2>0, <2>1
  <2>2. CASE m.type = "frame" /\ m.seq = Len(log) + 1 /\ log' = Append(log, m.chunk)
    <3>1. m.chunk \in 1..Len(sounds)
      BY <1>m, <2>2 DEF InOrder
    <3>2. /\ log' \in Seq(1..Len(sounds)) /\ Len(log') = Len(log) + 1
          /\ DOMAIN log' = DOMAIN log \cup {Len(log) + 1}
          /\ \A i \in DOMAIN log : log'[i] = log[i]
          /\ log'[Len(log) + 1] = m.chunk
      BY <2>0, <2>2, <3>1, AppendedSet
    <3> QED
      BY <2>0, <2>2, <3>2
  <2> QED
    BY <1>h, <2>1, <2>2
  \* What is on its way after it.
<1>w. /\ up' \in Seq(Message) /\ down' \in Seq(Answer) /\ late' \subseteq late
      /\ ToSet(up') \subseteq ToSet(up)
      /\ \/ down' = down
         \/ /\ m \in ToSet(up) /\ socket
            /\ ToSet(down') \subseteq ToSet(down) \cup ToSet(answer)
  <2>0. up \in Seq(Message) /\ down \in Seq(Answer)
    BY <1>t DEF Types
  <2>1. CASE m \in late /\ late' \subseteq late /\ UNCHANGED <<up, down>>
    BY <2>0, <2>1
  <2>2. CASE Served(m, answer)
    <3>1. /\ up # <<>> /\ m = Head(up) /\ up' = Tail(up) /\ down' = down \o answer /\ late' = late
          /\ socket
      BY <2>2 DEF Served
    <3>2. up' \in Seq(Message) /\ ToSet(up') \subseteq ToSet(up) /\ m \in ToSet(up)
      BY <2>0, <3>1, TailSet
    <3>3. down' \in Seq(Answer) /\ ToSet(down') \subseteq ToSet(down) \cup ToSet(answer)
      BY <1>a, <2>0, <3>1, ConcatSet
    <3> QED
      BY <3>1, <3>2, <3>3
  <2> QED
    BY <1>2, <2>1, <2>2
<1>r. m.type = "capture_recovery_complete" =>
          Empty /\ status # "CAPTURING" /\ page.at \in {"closed", "recovering"}
  BY DEF Inv, RecoveryHolds
<1>s. /\ status' \in {"CAPTURING", "INCOMPLETE", "COMPLETE"}
      /\ status' = "CAPTURING" => status = "CAPTURING"
  BY <1>h, <1>t DEF Types
<1>3. Types'
  BY <1>u, <1>t, <1>l, <1>w, <1>s DEF Types
<1>4. PageIsShut'
  BY <1>u DEF Inv, PageIsShut, Ended
<1>5. SocketIsUsed'
  <2>1. socket \/ UNCHANGED <<up, down>>
    BY <1>2 DEF Served
  <2> QED
    BY <1>u, <2>1 DEF Inv, SocketIsUsed
<1>6. Exchange'
  <2> SUFFICES ASSUME page.at = "recovering" PROVE Exchange'
    BY <1>u DEF Exchange
  <2>1. CASE UNCHANGED <<up, down>>
    BY <1>u, <2>1 DEF Inv, Exchange
  <2>2. CASE Served(m, answer)
    <3>1. up # <<>> /\ m = Head(up) /\ up' = Tail(up) /\ down' = down \o answer
      BY <2>2 DEF Served
    <3>2. PICK n \in ToSet(up) : /\ page.inFlight # 0 /\ up = <<n>>
                                 /\ n.type # "capture_incomplete" /\ n.seq = page.inFlight
      BY <3>1 DEF Inv, Exchange
    <3>3. down = <<>>
      BY <3>1 DEF Inv, Exchange
    <3>4. m.seq = page.inFlight /\ up' = <<>>
      BY <3>1, <3>2
    <3>5. down' = answer
      BY <1>a, <3>1, <3>3, ConcatEmptySeq
    <3>6. down' \in {Ack(page.inFlight), Close, Told,
                     <<Reply("capture_recovery_complete_ack", 0)>>}
      BY <3>4, <3>5 DEF Answers
    <3> QED
      BY <1>u, <3>2, <3>4, <3>6 DEF Exchange
  <2> QED
    BY <1>2, <2>1, <2>2
<1>7. Numbers'
  BY <1>u DEF Inv, Numbers, Recording
<1>8. Contiguous'
  BY <1>u, <1>l DEF Inv, Contiguous, Covered, Recording
<1>9. FramesHold'
  <2>1. \A f : InOrder(f) /\ f.seq \in Nat => InOrder(f)'
    <3>1. Len(log) \in Nat
      BY <1>t, LengthsAre
    <3> QED
      BY <1>u, <1>l, <3>1 DEF InOrder
  <2>2. \A f : IsOwn(f) => IsOwn(f)'
    BY <1>u DEF IsOwn
  <2>3. \A n \in ToSet(up) \cup late : n.seq \in Nat
    BY <1>t, LengthsAre DEF Types, Message
  <2>4. page.read.seq \in Nat
    BY <1>t DEF Types, Page
  <2> QED
    BY <1>u, <1>w, <2>1, <2>2, <2>3, <2>4 DEF Inv, FramesHold
<1>10. AcksHold'
  <2>1. \A s : Archived(s) => Archived(s)'
    BY <1>u, <1>l DEF Archived
  <2>2. ASSUME NEW a \in ToSet(answer), a.type = "ack", m \in ToSet(up)
        PROVE  Archived(a.seq)' /\ a.seq < page.next
    <3>1. a.seq = m.seq /\ m.type = "frame" /\ m.seq \in DOMAIN log' /\ log'[m.seq] = m.chunk
      BY <1>a, <1>h, <2>2
    <3>2. IsOwn(m)
      BY <2>2, <3>1 DEF Inv, FramesHold
    <3> QED
      BY <1>u, <3>1, <3>2 DEF IsOwn, Archived
  <2> QED
    BY <1>u, <1>w, <2>1, <2>2 DEF Inv, AcksHold
<1>11. RecoveryHolds'
  <2>1. ASSUME NEW a \in ToSet(answer), a.type = "capture_recovery_complete_ack", m \in ToSet(up)
        PROVE  Empty /\ page.at = "recovering"
    <3>1. Empty /\ page.at \in {"closed", "recovering"}
      BY <1>a, <1>h, <1>r, <2>1
    <3>2. page.at # "closed"
      <4>1. up # <<>>
        BY <2>1, EmptySet
      <4> QED
        BY <1>t, <4>1 DEF Inv, SocketIsUsed, Types
    <3> QED
      BY <3>1, <3>2
  <2> QED
    BY <1>u, <1>w, <1>s, <1>h, <2>1 DEF Inv, RecoveryHolds, Empty
<1>12. EndHolds'
  <2>1. ASSUME NEW a \in ToSet(answer), a.type = "capture_incomplete_ack"
        PROVE  status' # "CAPTURING"
    BY <1>a, <1>h, <2>1
  <2> QED
    BY <1>u, <1>w, <1>s, <2>1 DEF Inv, EndHolds, Ended, Empty
<1>13. KeptSomewhere'
  BY <1>u, <1>l DEF Inv, KeptSomewhere, InLog, InOutbox
<1>14. NumbersAreSingle'
  <2> SUFFICES ASSUME "reused" \notin happened' PROVE Single'
    BY DEF NumbersAreSingle
  <2>1. Single
    BY <1>u DEF Inv, NumbersAreSingle
  <2>2. \A i \in DOMAIN log' : sounds[log'[i]] = i
    BY <1>l, <2>1 DEF Single, NumberOf
  <2> QED
    BY <1>u, <1>w, <1>s, <2>1, <2>2 DEF Single, NumberOf, Recording
<1>15. EndIsWhole'
  <2> SUFFICES ASSUME "elsewhere" \notin happened' PROVE Whole'
    BY DEF EndIsWhole
  <2>1. Whole
    BY <1>u DEF Inv, EndIsWhole
  <2>2. page.marker = "confirmed" => page.at \notin {"closed", "recovering"}
    BY DEF Inv, PageIsShut
  <2> QED
    BY <1>u, <1>h, <1>r, <2>1, <2>2 DEF Whole, Empty, Recording
<1> QED
  BY <1>3, <1>4, <1>5, <1>6, <1>7, <1>8, <1>9, <1>10, <1>11, <1>12, <1>13, <1>14, <1>15 DEF Inv

--------------------------------------------------------------------------------
(* The page sends a message.                                                *)

Posts ==
    /\ page.at \in {"open", "recovering"}
    /\ UNCHANGED <<sounds, outbox, cursor, happened>>
    /\ page' \in Page /\ PageIsShut'
    /\ page'.at = page.at /\ page'.next = page.next /\ page'.acking = page.acking
    /\ page'.writing = page.writing /\ page'.failed = page.failed
    /\ page'.read \in {page.read, NoFrame}
    /\ page'.marker = "confirmed" <=> page.marker = "confirmed"
    /\ \E m \in Message :
          /\ socket /\ Post(m)
          /\ m.type = "frame" => /\ InOrder(m) /\ IsOwn(m)
                                 /\ "reused" \notin happened => NumberOf(m)
          /\ m.type = "capture_recovery_complete" => page.at = "recovering" /\ Empty
          /\ page.at = "recovering" => /\ m.type # "capture_incomplete"
                                       /\ up = <<>> /\ down = <<>>
                                       /\ page'.inFlight = m.seq /\ m.seq # 0

LEMMA PostsStays == Inv /\ Posts => Inv'
<1> SUFFICES ASSUME Inv, Posts PROVE Inv'
  OBVIOUS
<1>0. PICK m \in Message :
          /\ socket /\ Post(m)
          /\ m.type = "frame" => /\ InOrder(m) /\ IsOwn(m)
                                 /\ "reused" \notin happened => NumberOf(m)
          /\ m.type = "capture_recovery_complete" => page.at = "recovering" /\ Empty
          /\ page.at = "recovering" => /\ m.type # "capture_incomplete"
                                       /\ up = <<>> /\ down = <<>>
                                       /\ page'.inFlight = m.seq /\ m.seq # 0
  BY DEF Posts
<1>u. /\ UNCHANGED <<status, log, socket, down, late, sounds, outbox, cursor, happened>>
      /\ socket
  BY <1>0 DEF Posts, Post
<1>t. Types
  BY DEF Inv
<1>d. (Recording' <=> Recording) /\ (Ended' <=> Ended)
  BY DEF Posts, Recording, Ended
<1>w. up' \in Seq(Message) /\ ToSet(up') = ToSet(up) \cup {m}
  BY <1>0, <1>t, AppendedSet DEF Post, Types
<1>1. Types'
  BY <1>u, <1>t, <1>w DEF Types, Posts
<1>2. PageIsShut'
  BY DEF Posts
<1>3. SocketIsUsed'
  BY <1>u DEF Inv, SocketIsUsed, Posts
<1>4. Exchange'
  <2> SUFFICES ASSUME page.at = "recovering" PROVE Exchange'
    BY DEF Posts, Exchange
  <2>1. up' = <<m>> /\ down' = <<>>
    BY <1>0, <1>u DEF Post
  <2> QED
    BY <1>0, <1>w, <2>1 DEF Exchange
<1>5. Numbers'
  BY <1>u, <1>d DEF Inv, Numbers, Posts
<1>6. Contiguous'
  BY <1>u, <1>d DEF Inv, Contiguous, Covered, Posts
<1>7. FramesHold'
  BY <1>0, <1>u, <1>w DEF Inv, FramesHold, InOrder, IsOwn, Posts
<1>8. AcksHold'
  BY <1>u DEF Inv, AcksHold, Archived, Posts
<1>9. RecoveryHolds'
  BY <1>0, <1>u, <1>w DEF Inv, RecoveryHolds, Empty, Posts
<1>10. EndHolds'
  BY <1>u, <1>d DEF Inv, EndHolds, Empty, Posts
<1>11. KeptSomewhere'
  BY <1>u DEF Inv, KeptSomewhere, InLog, InOutbox
<1>12. NumbersAreSingle'
  <2> SUFFICES ASSUME "reused" \notin happened PROVE Single'
    BY <1>u DEF NumbersAreSingle
  <2>1. Single
    BY DEF Inv, NumbersAreSingle
  <2> QED
    BY <1>0, <1>u, <1>d, <1>w, <2>1 DEF Single, NumberOf, Posts
<1>13. EndIsWhole'
  BY <1>u, <1>d DEF Inv, EndIsWhole, Whole, Empty, Posts
<1> QED
  BY <1>1, <1>2, <1>3, <1>4, <1>5, <1>6, <1>7, <1>8, <1>9, <1>10, <1>11, <1>12, <1>13 DEF Inv

LEMMA PostActions ==
  ASSUME Inv
  PROVE  /\ PumpSends => Posts \/ Quiet
         /\ RecoverFrame => Posts
         /\ RecoverEnd => Posts
<1> USE DEF NoTrouble, Stored
<1>1. page \in Page /\ PageIsShut /\ Types
  BY DEF Inv, Types
<1>2. PumpSends => Posts \/ Quiet
  <2> SUFFICES ASSUME PumpSends PROVE Posts \/ Quiet
    OBVIOUS
  <2> DEFINE p == Idle(page)
  <2>0. page.at = "open" /\ socket /\ UNCHANGED <<sounds, outbox, cursor, happened>>
    BY <1>1 DEF PumpSends, PageIsShut
  <2>1. /\ p \in Page /\ p.at = "open" /\ p.mic = page.mic /\ p.stopping = page.stopping
        /\ p.failed = page.failed /\ p.marker = page.marker /\ p.next = page.next
        /\ p.writing = page.writing /\ p.inFlight = page.inFlight
        /\ p.acking = page.acking /\ p.read = NoFrame /\ p.pump = "idle"
    BY <1>1, <2>0, IdlePage
  <2> HIDE DEF p
  <2>2. CASE Reports /\ Post(Incomplete) /\ page' = [p EXCEPT !.marker = "sent"]
    <3>1. /\ page' \in Page /\ page'.at = "open" /\ page'.next = page.next
          /\ page'.acking = page.acking
          /\ page'.writing = page.writing /\ page'.failed = page.failed /\ page'.read = NoFrame
          /\ page'.marker = "sent"
      BY <2>1, <2>2 DEF Page
    <3>2. Incomplete \in Message /\ Incomplete.type = "capture_incomplete"
      BY DEF Incomplete, Message
    <3>3. page.marker # "confirmed"
      BY <2>2 DEF Reports
    <3>4. PageIsShut'
      BY <3>1 DEF PageIsShut, Ended
    <3> QED
      BY <2>0, <2>2, <3>1, <3>2, <3>3, <3>4 DEF Posts
  <2>3. CASE UNCHANGED ingressVars /\ page' = p
    <3>1. PageIsShut'
      BY <2>1, <2>3 DEF PageIsShut, Ended
    <3> QED
      BY <2>0, <2>1, <2>3, <3>1 DEF Quiet, Ended
  <2>4. CASE /\ page.read # NoFrame /\ Post(Frame(page.read.seq, page.read.chunk))
             /\ page' = [p EXCEPT !.inFlight = page.read.seq, !.timed = TRUE]
    <3> DEFINE m == Frame(page.read.seq, page.read.chunk)
    <3>1. page.read \in [seq : Nat, chunk : Nat]
      BY <1>1 DEF Page
    <3>2. m \in Message /\ m.type = "frame" /\ m.seq = page.read.seq /\ m.chunk = page.read.chunk
      BY <3>1 DEF Frame, Message
    <3>3. InOrder(m) /\ IsOwn(m)
      BY <2>4, <3>2 DEF Inv, FramesHold, InOrder, IsOwn
    <3>4. "reused" \notin happened => NumberOf(m)
      BY <2>4, <3>2 DEF Inv, NumbersAreSingle, Single, NumberOf
    <3>5. /\ page' \in Page /\ page'.at = "open" /\ page'.next = page.next
          /\ page'.acking = page.acking
          /\ page'.writing = page.writing /\ page'.failed = page.failed /\ page'.read = NoFrame
          /\ page'.marker = page.marker
      BY <2>1, <2>4, <3>1 DEF Page
    <3>6. PageIsShut'
      BY <3>5 DEF PageIsShut, Ended
    <3> HIDE DEF m
    <3> QED
      BY <2>0, <2>4, <3>2, <3>3, <3>4, <3>5, <3>6 DEF Posts, m
  <2> QED
    BY <2>2, <2>3, <2>4 DEF PumpSends, p
<1>3. RecoverFrame => Posts
  <2> SUFFICES ASSUME RecoverFrame PROVE Posts
    OBVIOUS
  <2> DEFINE m == Frame(Oldest.seq, Oldest.chunk)
  <2>0. /\ page.at = "recovering" /\ page.inFlight = 0 /\ outbox # <<>> /\ Post(m)
        /\ page' = [page EXCEPT !.inFlight = Oldest.seq]
        /\ UNCHANGED <<sounds, outbox, cursor, happened>>
    BY DEF RecoverFrame
  <2>1. /\ Oldest \in [seq : Nat, chunk : Nat] /\ InOrder(Oldest) /\ IsOwn(Oldest)
        /\ "reused" \notin happened => NumberOf(Oldest)
    BY <2>0, OldestHolds
  <2>2. m \in Message /\ m.type = "frame" /\ m.seq = Oldest.seq /\ m.chunk = Oldest.chunk
    BY <2>1 DEF Frame, Message
  <2>3. InOrder(m) /\ IsOwn(m) /\ ("reused" \notin happened => NumberOf(m))
    BY <2>1, <2>2 DEF InOrder, IsOwn, NumberOf
  <2>4. /\ page' \in Page /\ page'.at = page.at /\ page'.mic = page.mic
        /\ page'.stopping = page.stopping
        /\ page'.failed = page.failed /\ page'.marker = page.marker /\ page'.next = page.next
        /\ page'.writing = page.writing /\ page'.inFlight = m.seq /\ page'.acking = page.acking
        /\ page'.read = page.read /\ page'.pump = page.pump
    BY <1>1, <2>0, <2>1, <2>2 DEF Page
  <2>5. PageIsShut'
    BY <1>1, <2>4 DEF PageIsShut, Ended
  <2>6. socket /\ up = <<>> /\ down = <<>>
    BY <2>0 DEF Inv, SocketIsUsed, Exchange
  <2>7. m.seq # 0
    BY <2>3 DEF InOrder
  <2> HIDE DEF m
  <2> QED
    BY <2>0, <2>2, <2>3, <2>4, <2>5, <2>6, <2>7 DEF Posts
<1>4. RecoverEnd => Posts
  <2> SUFFICES ASSUME RecoverEnd PROVE Posts
    OBVIOUS
  <2> DEFINE m == RecoveryComplete(page.next)
  <2>0. /\ page.at = "recovering" /\ page.inFlight = 0 /\ outbox = <<>> /\ Post(m)
        /\ page' = [page EXCEPT !.inFlight = page.next]
        /\ UNCHANGED <<sounds, outbox, cursor, happened>>
    BY DEF RecoverEnd
  <2>1. page.next \in Nat
    BY <1>1 DEF Page
  <2>2. m \in Message /\ m.type = "capture_recovery_complete" /\ m.seq = page.next
    BY <2>1 DEF RecoveryComplete, Message
  <2>3. Empty
    BY <1>1, <2>0, OutboxIsEmpty
  <2>4. /\ page' \in Page /\ page'.at = page.at /\ page'.mic = page.mic
        /\ page'.stopping = page.stopping
        /\ page'.failed = page.failed /\ page'.marker = page.marker /\ page'.next = page.next
        /\ page'.writing = page.writing /\ page'.inFlight = m.seq /\ page'.acking = page.acking
        /\ page'.read = page.read /\ page'.pump = page.pump
    BY <1>1, <2>0, <2>1, <2>2 DEF Page
  <2>5. PageIsShut'
    BY <1>1, <2>4 DEF PageIsShut, Ended
  <2>6. socket /\ up = <<>> /\ down = <<>>
    BY <2>0 DEF Inv, SocketIsUsed, Exchange
  <2>7. m.seq # 0
    BY <1>1, <2>2, LengthsAre DEF Types
  <2> HIDE DEF m
  <2> QED
    BY <2>0, <2>2, <2>3, <2>4, <2>5, <2>6, <2>7 DEF Posts
<1> QED
  BY <1>2, <1>3, <1>4

--------------------------------------------------------------------------------
(* A recording or a recovery begins, or a page has a socket again.          *)

Begins ==
    /\ page.at \in {"closed", "stopped"} /\ status = "CAPTURING"
    /\ page'.at = "starting" /\ page'.next = Reconciled /\ cursor' = Reconciled
    /\ page'.acking = 0 /\ page'.read = NoFrame /\ page'.marker = "none"

Connects ==
    /\ Recording /\ page'.at = "open" /\ cursor' = cursor
    /\ page'.next = page.next /\ page'.writing = page.writing /\ page'.failed = page.failed
    /\ page'.acking = page.acking /\ page'.read = page.read /\ page'.marker = page.marker

Recovers ==
    /\ page.at = "closed" /\ status # "CAPTURING" /\ cursor' = cursor
    /\ page'.at = "recovering" /\ page'.next = Reconciled /\ page'.inFlight = 0
    /\ page'.acking = 0 /\ page'.read = NoFrame /\ page'.marker = "none"

Opens ==
    /\ UNCHANGED <<status, log, up, down, late, outbox, sounds, happened>>
    /\ up = <<>> /\ down = <<>> /\ socket' = (page'.at # "starting")
    /\ page' \in Page /\ PageIsShut'
    /\ Begins \/ Connects \/ Recovers

LEMMA OpensStays == Inv /\ Opens => Inv'
<1> SUFFICES ASSUME Inv, Opens PROVE Inv'
  OBVIOUS
<1> USE DEF Opens
<1>t. Types
  BY DEF Inv
<1>e. ToSet(up') = {} /\ ToSet(down') = {}
  BY EmptySet
<1>n. /\ Len(sounds) \in Nat /\ Reconciled \in 1..Len(sounds) + 1 /\ cursor <= Reconciled
      /\ \A s \in DOMAIN outbox : s < Reconciled
      /\ Reconciled = cursor \/ \E s \in DOMAIN outbox : Reconciled = s + 1
  BY <1>t, ReconciledHolds, LengthsAre
<1>k. page'.at \in {"starting", "open", "recovering"}
  BY DEF Begins, Connects, Recovers
<1>1. Types'
  <2>1. page'.next \in 1..Len(sounds) + 1 /\ cursor' \in 1..Len(sounds) + 1
    BY <1>t, <1>n DEF Types, Begins, Connects, Recovers
  <2>2. socket' \in BOOLEAN
    OBVIOUS
  <2> QED
    BY <1>t, <2>1, <2>2 DEF Types
<1>2. PageIsShut'
  OBVIOUS
<1>3. SocketIsUsed'
  BY <1>k DEF SocketIsUsed
<1>4. Exchange'
  BY DEF Exchange, Begins, Connects, Recovers
<1>5. Numbers'
  <2>1. CASE Begins
    <3>1. cursor' <= page'.next
      BY <1>n, <2>1 DEF Begins
    <3> QED
      BY <1>n, <2>1, <3>1 DEF Numbers, Begins
  <2>2. CASE Connects
    BY <2>2 DEF Inv, Numbers, Connects, Recording
  <2>3. CASE Recovers
    BY <1>n, <2>3 DEF Numbers, Recording, Recovers
  <2> QED
    BY <2>1, <2>2, <2>3
<1>6. Contiguous'
  <2> SUFFICES ASSUME NEW t \in 1..Len(sounds), Covered(t)'
               PROVE  t \in DOMAIN log \cup DOMAIN outbox
    BY DEF Contiguous
  <2>1. CASE Begins
    <3>1. t < Reconciled \/ \E s \in DOMAIN outbox : t < s
      BY <2>1 DEF Covered, Begins
    <3>2. \A s \in DOMAIN outbox : s \in Nat
      BY <1>t, <1>n, LengthsAre
    <3>3. t \in Nat /\ cursor \in Nat
      BY <1>t, <1>n DEF Types
    <3>4. t < cursor \/ (\E s \in DOMAIN outbox : t < s) \/ t \in DOMAIN outbox
      BY <1>n, <3>1, <3>2, <3>3
    <3> QED
      BY <3>4 DEF Inv, Contiguous, Covered
  <2>2. CASE Connects \/ Recovers
    <3>1. Covered(t)
      BY <2>2 DEF Covered, Recording, Connects, Recovers
    <3> QED
      BY <3>1 DEF Inv, Contiguous
  <2> QED
    BY <2>1, <2>2
<1>7. FramesHold'
  <2>1. page'.read # NoFrame => page'.read = page.read /\ page'.next = page.next
    BY DEF Begins, Connects, Recovers
  <2> QED
    BY <1>e, <2>1 DEF Inv, FramesHold, InOrder, IsOwn
<1>8. AcksHold'
  <2>1. page'.acking # 0 => page'.acking = page.acking /\ page'.next = page.next
    BY DEF Begins, Connects, Recovers
  <2> QED
    BY <1>e, <2>1 DEF Inv, AcksHold, Archived
<1>9. RecoveryHolds'
  BY <1>e DEF Inv, RecoveryHolds, Empty, Begins, Connects, Recovers, Recording
<1>10. EndHolds'
  BY <1>e, <1>k DEF Inv, EndHolds, Ended, Begins, Connects, Recovers
<1>11. KeptSomewhere'
  BY DEF Inv, KeptSomewhere, InLog, InOutbox
<1>12. NumbersAreSingle'
  <2> SUFFICES ASSUME "reused" \notin happened PROVE Single'
    BY DEF NumbersAreSingle
  <2>1. Single
    BY DEF Inv, NumbersAreSingle
  <2>2. page'.read # NoFrame => page'.read = page.read
    BY DEF Begins, Connects, Recovers
  <2>3. ASSUME Recording', NEW c \in DOMAIN sounds PROVE sounds[c] < page'.next
    <3>1. CASE Begins
      <4>1. sounds[c] < cursor \/ \E s \in DOMAIN outbox : sounds[c] <= s
        BY <2>1, <3>1 DEF Single, Begins, Recording
      <4>2. sounds[c] \in Nat /\ cursor \in Nat /\ \A s \in DOMAIN outbox : s \in Nat
        BY <1>t, <1>n, LengthsAre DEF Types
      <4>3. Reconciled \in Nat
        BY <1>n
      <4>4. sounds[c] < Reconciled
        BY <1>n, <4>1, <4>2, <4>3
      <4> QED
        BY <3>1, <4>4 DEF Begins
    <3>2. CASE Connects
      BY <2>1, <3>2 DEF Single, Connects
    <3> QED
      BY <2>3, <3>1, <3>2 DEF Recovers, Recording
  <2>4. ~Recording' /\ status = "CAPTURING" => FALSE
    BY DEF Begins, Connects, Recovers, Recording
  <2> QED
    BY <1>e, <2>1, <2>2, <2>3, <2>4 DEF Single, NumberOf
<1>13. EndIsWhole'
  BY DEF Inv, EndIsWhole, Whole, Empty, Begins, Connects, Recovers, Recording
<1> QED
  BY <1>1, <1>2, <1>3, <1>4, <1>5, <1>6, <1>7, <1>8, <1>9, <1>10, <1>11, <1>12, <1>13 DEF Inv

LEMMA OpenActions ==
  ASSUME Inv
  PROVE  /\ Start => Opens
         /\ Connect => Opens
         /\ Recover => Opens
<1> USE DEF NoTrouble, Stored
<1>1. page \in Page /\ PageIsShut /\ Types /\ SocketIsUsed
  BY DEF Inv, Types
<1>2. Reconciled \in Nat
  <2>1. Reconciled \in 1..Len(sounds) + 1 /\ Len(sounds) \in Nat
    BY <1>1, ReconciledHolds, LengthsAre
  <2> QED
    BY <2>1
  \* A page that begins anew.
<1>3. ASSUME NEW at \in {"starting", "recovering"},
             page' = [NoPage EXCEPT !.at = at, !.next = Reconciled]
      PROVE  /\ page' \in Page /\ page'.at = at /\ page'.next = Reconciled /\ page'.inFlight = 0
             /\ page'.acking = 0 /\ page'.read = NoFrame /\ page'.marker = "none" /\ PageIsShut'
  <2>1. /\ page' \in Page /\ page'.at = at /\ page'.next = Reconciled /\ page'.inFlight = 0
        /\ page'.acking = 0 /\ page'.read = NoFrame /\ page'.marker = "none"
        /\ ~page'.mic /\ ~page'.stopping /\ ~page'.failed /\ ~page'.writing /\ page'.pump = "idle"
    BY <1>2, <1>3, NoPageType, NoPageFields DEF Page
  <2> QED
    BY <2>1 DEF PageIsShut, Ended
<1>4. Start => Opens
  <2> SUFFICES ASSUME Start PROVE Opens
    OBVIOUS
  <2>1. page' = [NoPage EXCEPT !.at = "starting", !.next = Reconciled]
    BY DEF Start
  <2>2. socket = FALSE /\ up = <<>> /\ down = <<>>
    BY <1>1 DEF Start, SocketIsUsed, Types
  <2> QED
    BY <1>3, <2>1, <2>2 DEF Start, Opens, Begins, ingressVars
<1>5. Recover => Opens
  <2> SUFFICES ASSUME Recover PROVE Opens
    OBVIOUS
  <2>1. page' = [NoPage EXCEPT !.at = "recovering", !.next = Reconciled]
    BY DEF Recover
  <2>2. socket = FALSE /\ up = <<>> /\ down = <<>>
    BY <1>1 DEF Recover, SocketIsUsed, Types
  <2> QED
    BY <1>3, <2>1, <2>2 DEF Recover, Opens, Recovers, OpenSocket
<1>6. Connect => Opens
  <2> SUFFICES ASSUME Connect PROVE Opens
    OBVIOUS
  <2> DEFINE p == [page EXCEPT !.at = "open"]
  <2>1. /\ p \in Page /\ p.at = "open" /\ p.next = page.next /\ p.marker = page.marker
        /\ p.acking = page.acking /\ p.read = page.read /\ p.writing = page.writing
        /\ p.failed = page.failed
    BY <1>1 DEF Page
  <2>2. page' = Pumped(p, {"start"})
    BY DEF Connect
  <2> HIDE DEF p
  <2>3. page' \in Page /\ Alike(p, page') /\ page'.failed = p.failed
    BY <2>1, <2>2, PumpedPage
  <2>4. page'.at = "open" /\ PageIsShut'
    BY <2>1, <2>3 DEF Alike, PageIsShut, Ended
  <2>5. ~socket /\ socket' = TRUE /\ UNCHANGED <<status, log, up, down, late>> /\ Recording
    BY DEF Connect, OpenSocket, Recording
  <2>6. up = <<>> /\ down = <<>>
    BY <1>1, <2>5 DEF SocketIsUsed
  <2> QED
    BY <2>1, <2>3, <2>4, <2>5, <2>6 DEF Connect, Opens, Connects, Alike
<1> QED
  BY <1>4, <1>5, <1>6

--------------------------------------------------------------------------------
(* The page takes an answer.                                                *)

Takes ==
    /\ UNCHANGED <<status, log, socket, up, late, sounds, outbox, cursor, happened>>
    /\ page.at = "open" /\ page'.at = "open"
    /\ socket /\ down # <<>> /\ down' = Tail(down)
    /\ page' \in Page /\ PageIsShut'
    /\ page'.next = page.next /\ page'.writing = page.writing /\ page'.read = page.read
    /\ page.failed => page'.failed
    /\ \/ page'.acking = page.acking
       \/ Head(down).type = "ack" /\ page'.acking = Head(down).seq /\ page'.acking \in DOMAIN outbox
    /\ \/ page'.marker = page.marker
       \/ Head(down).type = "capture_incomplete_ack" /\ page'.marker = "confirmed"

LEMMA TakesStays == Inv /\ Takes => Inv'
<1> SUFFICES ASSUME Inv, Takes PROVE Inv'
  OBVIOUS
<1> USE DEF Takes
<1>t. Types
  BY DEF Inv
<1>d. /\ down' \in Seq(Answer) /\ ToSet(down') \subseteq ToSet(down)
      /\ Head(down) \in ToSet(down) /\ Head(down) \in Answer
  BY <1>t, TailSet DEF Types
<1>1. Types'
  BY <1>t, <1>d DEF Types
<1>2. PageIsShut'
  OBVIOUS
<1>3. SocketIsUsed'
  BY DEF SocketIsUsed
<1>4. Exchange'
  BY DEF Exchange
<1>5. Numbers'
  BY DEF Inv, Numbers, Recording
<1>6. Contiguous'
  BY DEF Inv, Contiguous, Covered, Recording
<1>7. FramesHold'
  BY DEF Inv, FramesHold, InOrder, IsOwn
<1>8. AcksHold'
  BY <1>d DEF Inv, AcksHold, Archived
<1>9. RecoveryHolds'
  BY <1>d DEF Inv, RecoveryHolds, Empty
<1>10. EndHolds'
  BY <1>d DEF Inv, EndHolds, Ended
<1>11. KeptSomewhere'
  BY DEF Inv, KeptSomewhere, InLog, InOutbox
<1>12. NumbersAreSingle'
  <2>1. Recording /\ Recording'
    BY DEF Recording
  <2> QED
    BY <2>1 DEF Inv, NumbersAreSingle, Single, NumberOf
<1>13. EndIsWhole'
  <2> SUFFICES ASSUME "elsewhere" \notin happened PROVE Whole'
    BY DEF EndIsWhole
  <2>1. Whole /\ status # "COMPLETE"
    BY DEF Inv, EndIsWhole, Whole, Recording
  <2>2. Head(down).type = "capture_incomplete_ack" => status = "INCOMPLETE"
    BY <1>d, <1>t, <2>1 DEF Inv, EndHolds, Types
  <2> QED
    BY <2>1, <2>2 DEF Whole, Recording
<1> QED
  BY <1>1, <1>2, <1>3, <1>4, <1>5, <1>6, <1>7, <1>8, <1>9, <1>10, <1>11, <1>12, <1>13 DEF Inv

LEMMA TakeActions ==
  ASSUME Inv
  PROVE  /\ ReceiveAck => Takes
         /\ ReceiveTold => Takes
<1> USE DEF NoTrouble, Stored, Answered
<1>1. page \in Page /\ Types
  BY DEF Inv, Types
<1>2. ReceiveAck => Takes
  <2> SUFFICES ASSUME ReceiveAck PROVE Takes
    OBVIOUS
  <2> DEFINE s == Head(down).seq
  <2>1. down # <<>> /\ down \in Seq(Answer)
    BY <1>1 DEF ReceiveAck, Types
  <2>2. s \in Nat
    <3>1. Head(down) \in Answer
      BY <2>1, TailSet
    <3> QED
      BY <3>1 DEF Answer
  <2>3. page' = page \/ (s \in DOMAIN outbox /\ page' = [page EXCEPT !.acking = s])
    BY DEF ReceiveAck
  <2> HIDE DEF s
  <2>4. /\ page' \in Page /\ page'.at = "open" /\ page'.next = page.next
        /\ page'.writing = page.writing
        /\ page'.read = page.read /\ page'.failed = page.failed /\ page'.marker = page.marker
        /\ page'.acking = page.acking \/ (page'.acking = s /\ s \in DOMAIN outbox)
    <3>1. CASE page' = page
      BY <1>1, <3>1 DEF ReceiveAck
    <3>2. CASE s \in DOMAIN outbox /\ page' = [page EXCEPT !.acking = s]
      BY <1>1, <2>2, <3>2 DEF ReceiveAck, Page
    <3> QED
      BY <2>3, <3>1, <3>2
  <2>5. PageIsShut'
    BY <2>4 DEF PageIsShut, Ended
  <2> QED
    BY <2>4, <2>5 DEF ReceiveAck, Takes, s
<1>3. ReceiveTold => Takes
  <2> SUFFICES ASSUME ReceiveTold PROVE Takes
    OBVIOUS
  <2> DEFINE p == [page EXCEPT !.marker = "confirmed"]
  <2>1. /\ p \in Page /\ p.at = "open" /\ p.next = page.next /\ p.marker = "confirmed"
        /\ p.acking = page.acking /\ p.read = page.read /\ p.writing = page.writing
    BY <1>1 DEF Page, ReceiveTold
  <2>2. page' = Failed(p, FALSE)
    BY DEF ReceiveTold
  <2> HIDE DEF p
  <2>3. page' \in Page /\ Alike(p, page') /\ page'.failed = TRUE
    BY <2>1, <2>2, FailedPage
  <2>4. page'.at = "open" /\ PageIsShut'
    BY <2>1, <2>3 DEF Alike, PageIsShut, Ended
  <2> QED
    BY <2>1, <2>3, <2>4 DEF ReceiveTold, Takes, Alike
<1> QED
  BY <1>2, <1>3

--------------------------------------------------------------------------------
(* The capture is ended.                                                    *)

Finishes ==
    /\ Finish /\ UNCHANGED <<sounds, outbox, cursor>> /\ happened \subseteq happened'
    /\ page' \in Page /\ PageIsShut'
    /\ page'.next = page.next /\ page'.acking = page.acking /\ page'.read = page.read
    /\ page'.marker = page.marker /\ page'.failed = page.failed
    /\ \/ page.at = "stopped" /\ page'.at = "finished"
       \/ page' = page /\ "elsewhere" \in happened'

LEMMA FinishesStays == Inv /\ Finishes => Inv'
<1> SUFFICES ASSUME Inv, Finishes PROVE Inv'
  OBVIOUS
<1> USE DEF Finishes, Finish
<1>t. Types
  BY DEF Inv
<1>s. /\ status' \in {"INCOMPLETE", "COMPLETE"}
      /\ status' = status \/ (status = "CAPTURING" /\ status' = "COMPLETE")
  BY <1>t DEF Types
<1>d. (Recording' <=> Recording) /\ (Ended' <=> Ended)
  BY DEF Recording, Ended
<1>1. Types'
  BY <1>t, <1>s DEF Types
<1>2. PageIsShut'
  OBVIOUS
<1>3. SocketIsUsed'
  BY DEF Inv, SocketIsUsed
<1>4. Exchange'
  BY DEF Inv, Exchange
<1>5. Numbers'
  BY DEF Inv, Numbers, Recording
<1>6. Contiguous'
  BY <1>d DEF Inv, Contiguous, Covered
<1>7. FramesHold'
  BY DEF Inv, FramesHold, InOrder, IsOwn
<1>8. AcksHold'
  BY DEF Inv, AcksHold, Archived
<1>9. RecoveryHolds'
  BY <1>s DEF Inv, RecoveryHolds, Empty
<1>10. EndHolds'
  BY <1>s, <1>d DEF Inv, EndHolds, Empty
<1>11. KeptSomewhere'
  BY DEF Inv, KeptSomewhere, InLog, InOutbox
<1>12. NumbersAreSingle'
  BY <1>s, <1>d DEF Inv, NumbersAreSingle, Single, NumberOf
<1>13. EndIsWhole'
  <2> SUFFICES ASSUME "elsewhere" \notin happened' PROVE Whole'
    BY DEF EndIsWhole
  <2>1. Whole /\ page.at = "stopped" /\ page'.at = "finished"
    BY DEF Inv, EndIsWhole
  <2>2. status = "CAPTURING" => Empty /\ page.marker # "confirmed"
    BY <2>1 DEF Inv, EndHolds, Ended
  <2> QED
    BY <1>s, <2>1, <2>2 DEF Whole, Empty, Recording
<1> QED
  BY <1>1, <1>2, <1>3, <1>4, <1>5, <1>6, <1>7, <1>8, <1>9, <1>10, <1>11, <1>12, <1>13 DEF Inv

LEMMA FinishActions ==
  ASSUME Inv
  PROVE  /\ FinishCapture => Finishes
         /\ StopElsewhere => Finishes
<1> USE DEF NoTrouble, Trouble, Stored
<1>1. page \in Page /\ PageIsShut
  BY DEF Inv, Types
<1>2. FinishCapture => Finishes
  <2> SUFFICES ASSUME FinishCapture PROVE Finishes
    OBVIOUS
  <2>1. /\ page' \in Page /\ page'.at = "finished" /\ page'.next = page.next
        /\ page'.acking = page.acking /\ page'.read = page.read /\ page'.marker = page.marker
        /\ page'.failed = page.failed /\ page'.stopping = page.stopping
        /\ page'.writing = page.writing /\ page'.pump = page.pump
    BY <1>1 DEF FinishCapture, Page
  <2>2. PageIsShut'
    BY <1>1, <2>1 DEF FinishCapture, PageIsShut, Ended
  <2> QED
    BY <2>1, <2>2 DEF FinishCapture, Finishes
<1>3. StopElsewhere => Finishes
  BY <1>1 DEF StopElsewhere, Finishes, PageIsShut, Ended
<1> QED
  BY <1>2, <1>3

--------------------------------------------------------------------------------
(* A piece of sound is heard, and stored or lost.                           *)

Puts ==
    /\ sounds' = Append(sounds, page.next) /\ page'.next = page.next + 1 /\ page'.writing
    /\ DOMAIN outbox' = DOMAIN outbox \cup {page.next}
    /\ outbox'[page.next] = Len(sounds) + 1
    /\ \A s \in DOMAIN outbox : s # page.next => outbox'[s] = outbox[s]
    /\ outbox' = [s \in DOMAIN outbox' |-> outbox'[s]]

Misses ==
    /\ sounds' = Append(sounds, 0) /\ page'.next = page.next /\ page'.failed
    /\ outbox' = outbox

Hears ==
    /\ UNCHANGED <<status, log, socket, up, down, late, cursor>> /\ happened \subseteq happened'
    /\ page.at = "open" /\ page'.at = "open" /\ ~page.writing
    /\ page' \in Page /\ PageIsShut'
    /\ page'.acking = page.acking /\ page'.read = page.read /\ page'.marker = page.marker
    /\ Puts \/ Misses

LEMMA HearsStays == Inv /\ Hears => Inv'
<1> SUFFICES ASSUME Inv, Hears PROVE Inv'
  OBVIOUS
<1> USE DEF Hears
<1> DEFINE k == Len(sounds)
           x == IF Puts THEN page.next ELSE 0
<1>t. Types
  BY DEF Inv
<1>n. /\ k \in Nat /\ DOMAIN sounds = 1..k /\ sounds \in Seq(Nat)
      /\ page.next \in 1..k + 1 /\ cursor \in 1..k + 1 /\ log \in Seq(1..k)
      /\ DOMAIN log = 1..Len(log) /\ Len(log) \in Nat
      /\ \A i \in DOMAIN log : log[i] \in 1..k
      /\ \A s \in DOMAIN outbox : s \in 1..k /\ outbox[s] \in 1..k /\ s < page.next
      /\ \A c \in DOMAIN sounds : sounds[c] \in Nat
  BY <1>t, LengthsAre DEF Types, Inv, Numbers, Recording
<1>a. /\ sounds' = Append(sounds, x) /\ x \in Nat
  BY <1>n DEF Puts, Misses
<1>b. /\ sounds' \in Seq(Nat) /\ Len(sounds') = k + 1 /\ DOMAIN sounds' = 1..k + 1
      /\ \A c \in 1..k : sounds'[c] = sounds[c]
      /\ sounds'[k + 1] = x
  <2>1. /\ sounds' \in Seq(Nat) /\ Len(sounds') = k + 1
        /\ DOMAIN sounds' = DOMAIN sounds \cup {k + 1}
        /\ \A c \in DOMAIN sounds : sounds'[c] = sounds[c]
        /\ sounds'[k + 1] = x
    <3> HIDE DEF x
    <3> QED
      BY <1>a, <1>n, AppendedSet
  <2> HIDE DEF k, x
  <2>2. DOMAIN sounds = 1..k /\ k \in Nat
    BY <1>n
  <2>3. 1..k + 1 = 1..k \cup {k + 1}
    BY <2>2
  <2> QED
    BY <2>1, <2>2, <2>3
<1>x. (Puts /\ x = page.next) \/ (Misses /\ x = 0)
  BY <1>n, <1>a, <1>b DEF Misses
<1>o. \A s \in DOMAIN outbox : s \in DOMAIN outbox' /\ outbox'[s] = outbox[s]
  BY <1>n DEF Puts, Misses
<1>r. Recording /\ Recording' /\ ~Ended'
  BY DEF Recording, Ended
<1> HIDE DEF k, x
<1>1. Types'
  <2>1. \A S, T : S \subseteq T => Seq(S) \subseteq Seq(T)
    OBVIOUS
  <2>2. log' \in Seq(1..Len(sounds'))
    <3>1. 1..k \subseteq 1..k + 1
      BY <1>n
    <3> QED
      BY <1>n, <1>b, <2>1, <3>1
  <2>3. DOMAIN outbox' \subseteq 1..Len(sounds') /\ outbox' \in [DOMAIN outbox' -> 1..Len(sounds')]
    <3>1. CASE Puts
      <4>1. \A s \in DOMAIN outbox' : s \in 1..k + 1 /\ outbox'[s] \in 1..k + 1
        BY <1>n, <3>1 DEF Puts, k
      <4> QED
        BY <1>b, <3>1, <4>1 DEF Puts
    <3>2. CASE Misses
      <4>1. \A s \in DOMAIN outbox : s \in 1..k + 1 /\ outbox[s] \in 1..k + 1
        BY <1>n
      <4>2. outbox = [s \in DOMAIN outbox |-> outbox[s]]
        BY <1>t DEF Types
      <4> QED
        BY <1>b, <3>2, <4>1, <4>2 DEF Misses
    <3> QED
      BY <3>1, <3>2
  <2>4. cursor' \in 1..k + 2 /\ page'.next \in 1..k + 2
    <3>1. CASE Puts
      BY <1>n, <3>1 DEF Puts
    <3>2. CASE Misses
      BY <1>n, <3>2 DEF Misses
    <3> QED
      BY <3>1, <3>2
  <2>5. (k + 1) + 1 = k + 2
    BY <1>n
  <2> QED
    BY <1>t, <1>b, <2>2, <2>3, <2>4, <2>5 DEF Types
<1>2. PageIsShut'
  OBVIOUS
<1>3. SocketIsUsed'
  BY DEF Inv, SocketIsUsed
<1>4. Exchange'
  BY DEF Exchange
<1>5. Numbers'
  <2>1. cursor <= page.next
    BY <1>r DEF Inv, Numbers
  <2>2. CASE Puts
    <3>1. cursor' <= page'.next /\ page'.writing
      BY <1>n, <2>1, <2>2 DEF Puts
    <3>2. \A s \in DOMAIN outbox' : s < page'.next
      BY <1>n, <2>2 DEF Puts
    <3> QED
      BY <3>1, <3>2 DEF Numbers
  <2>3. CASE Misses
    BY <1>n, <2>1, <2>3 DEF Numbers, Misses
  <2> QED
    BY <2>2, <2>3
<1>6. Contiguous'
  <2> SUFFICES ASSUME NEW t \in 1..k + 1, Covered(t)' PROVE t \in DOMAIN log \cup DOMAIN outbox'
    BY <1>b DEF Contiguous
  <2>1. \A u \in 1..k : u < page.next => u \in DOMAIN log \cup DOMAIN outbox'
    BY <1>o, <1>r DEF Inv, Contiguous, Covered, k
  <2>2. cursor <= page.next
    BY <1>r DEF Inv, Numbers
  <2>3. CASE Puts
    <3>1. t <= page.next
      BY <1>n, <2>2, <2>3 DEF Covered, Puts
    <3>2. t = page.next => t \in DOMAIN outbox'
      BY <2>3 DEF Puts
    <3>3. t # page.next => t \in 1..k /\ t < page.next
      BY <1>n, <3>1
    <3> QED
      BY <2>1, <3>2, <3>3
  <2>4. CASE Misses
    <3>1. t < page.next
      BY <1>n, <2>2, <2>4 DEF Covered, Misses
    <3>2. t \in 1..k
      BY <1>n, <3>1
    <3> QED
      BY <2>1, <3>1, <3>2
  <2> QED
    BY <2>3, <2>4
<1>7. FramesHold'
  <2>1. \A f : InOrder(f) => InOrder(f)'
    BY <1>n, <1>b DEF InOrder, k
  <2>2. ASSUME NEW f, f.seq \in Nat, IsOwn(f) PROVE IsOwn(f)'
    <3>1. f.seq < page.next /\ (f.seq \in DOMAIN outbox => outbox[f.seq] = f.chunk)
      BY <2>2 DEF IsOwn
    <3>2. f.seq < page'.next
      BY <1>n, <2>2, <3>1 DEF Puts, Misses
    <3>3. f.seq \in DOMAIN outbox' => f.seq \in DOMAIN outbox
      BY <1>n, <2>2, <3>1 DEF Puts, Misses
    <3> QED
      BY <1>o, <3>1, <3>2, <3>3 DEF IsOwn
  <2>3. \A n \in ToSet(up) : n.seq \in Nat
    BY <1>t, LengthsAre DEF Message
  <2>4. page.read.seq \in Nat
    BY <1>t DEF Types, Page
  <2> QED
    BY <2>1, <2>2, <2>3, <2>4 DEF Inv, FramesHold
<1>8. AcksHold'
  <2>1. ASSUME NEW s \in Nat, s < page.next
        PROVE  s < page'.next /\ (s \in DOMAIN outbox' => s \in DOMAIN outbox)
    BY <1>n, <2>1 DEF Puts, Misses
  <2>2. ASSUME NEW s \in Nat, s < page.next, Archived(s)
        PROVE  s < page'.next /\ Archived(s)'
    BY <1>o, <2>1, <2>2 DEF Archived
  <2>3. \A a \in ToSet(down) : a.seq \in Nat
    BY <1>t, LengthsAre DEF Answer
  <2>4. page.acking \in Nat
    BY <1>t DEF Types, Page
  <2> QED
    BY <1>o, <2>2, <2>3, <2>4 DEF Inv, AcksHold
<1>9. RecoveryHolds'
  BY DEF Inv, RecoveryHolds
<1>10. EndHolds'
  BY <1>r DEF Inv, EndHolds
<1>11. KeptSomewhere'
  <2> SUFFICES ASSUME NEW c \in 1..k + 1, sounds'[c] # 0 PROVE InLog(c)' \/ InOutbox(c)'
    BY <1>b DEF KeptSomewhere
  <2>1. CASE c \in 1..k
    <3>1. sounds'[c] = sounds[c]
      BY <1>b, <2>1
    <3>2. InLog(c) \/ InOutbox(c)
      BY <1>n, <2>1, <3>1 DEF Inv, KeptSomewhere
    <3> QED
      BY <1>o, <3>1, <3>2 DEF InLog, InOutbox
  <2>2. CASE c = k + 1
    BY <1>b, <1>x, <2>2 DEF InOutbox, Puts, k
  <2> QED
    BY <1>n, <2>1, <2>2
<1>12. NumbersAreSingle'
  <2> SUFFICES ASSUME "reused" \notin happened PROVE Single'
    BY DEF NumbersAreSingle
  <2>1. Single
    BY DEF Inv, NumbersAreSingle
  <2>2. \A c \in 1..k : sounds[c] < page.next
    BY <1>n, <1>r, <2>1 DEF Single
  <2>3. \A c, d \in 1..k + 1 : sounds'[c] = sounds'[d] /\ sounds'[c] # 0 => c = d
    <3>1. \A c, d \in 1..k : sounds[c] = sounds[d] /\ sounds[c] # 0 => c = d
      BY <1>n, <2>1 DEF Single
    <3>2. \A c \in 1..k + 1 : c \in 1..k \/ c = k + 1
      BY <1>n
    <3>3. \A c \in 1..k : sounds'[c] = sounds[c] /\ (sounds'[k + 1] = sounds[c] => sounds[c] = 0)
      BY <1>b, <1>x, <1>n, <2>2
    <3> QED
      BY <3>1, <3>2, <3>3
  <2>4. \A i \in DOMAIN log : sounds'[log[i]] = i
    BY <1>b, <1>n, <2>1 DEF Single
  <2>5. \A s \in DOMAIN outbox' : sounds'[outbox'[s]] = s
    <3>1. \A s \in DOMAIN outbox : sounds'[outbox'[s]] = s
      BY <1>b, <1>n, <1>o, <2>1 DEF Single
    <3>2. Puts => sounds'[outbox'[page.next]] = page.next
      BY <1>b, <1>x, <1>n DEF Puts, Misses, k
    <3> QED
      BY <3>1, <3>2 DEF Puts, Misses
  <2>6. \A f : f.chunk \in 1..k /\ NumberOf(f) => NumberOf(f)'
    BY <1>b DEF NumberOf
  <2>7. /\ \A m \in ToSet(up) \cup late : m.type = "frame" => m.chunk \in 1..k
        /\ page.read # NoFrame => page.read.chunk \in 1..k
    BY DEF Inv, FramesHold, InOrder, k
  <2>8. \A c \in 1..k + 1 : sounds'[c] < page'.next
    <3>1. CASE Puts
      <4>1. \A c \in 1..k : sounds'[c] < page'.next
        BY <1>b, <1>n, <2>2, <3>1 DEF Puts
      <4>2. sounds'[k + 1] < page'.next
        BY <1>b, <1>x, <1>n, <3>1 DEF Puts, Misses
      <4>3. \A c \in 1..k + 1 : c \in 1..k \/ c = k + 1
        BY <1>n
      <4> QED
        BY <4>1, <4>2, <4>3
    <3>2. CASE Misses
      <4>1. \A c \in 1..k : sounds'[c] < page'.next
        BY <1>b, <1>n, <2>2, <3>2 DEF Misses
      <4>2. sounds'[k + 1] = 0 \/ Puts
        BY <1>b, <1>x
      <4>3. \A c \in 1..k + 1 : c \in 1..k \/ c = k + 1
        BY <1>n
      <4> QED
        BY <1>n, <3>1, <3>2, <4>1, <4>2, <4>3 DEF Misses
    <3> QED
      BY <3>1, <3>2
  <2> QED
    BY <1>b, <1>r, <2>1, <2>3, <2>4, <2>5, <2>6, <2>7, <2>8 DEF Single
<1>13. EndIsWhole'
  BY <1>r DEF Inv, EndIsWhole, Whole
<1> QED
  BY <1>1, <1>2, <1>3, <1>4, <1>5, <1>6, <1>7, <1>8, <1>9, <1>10, <1>11, <1>12, <1>13 DEF Inv

LEMMA HearActions ==
  ASSUME Inv
  PROVE  /\ PutFrame => Hears
         /\ PutFails => Hears
<1> USE DEF NoTrouble, Trouble, Stored, ingressVars, Hear
<1>1. page \in Page /\ PageIsShut /\ Types
  BY DEF Inv, Types
<1>2. PutFrame => Hears
  <2> SUFFICES ASSUME PutFrame PROVE Hears
    OBVIOUS
  <2> DEFINE n == page.next
             k == Len(sounds)
  <2>0. page.at = "open" /\ ~page.writing
    BY <1>1 DEF PutFrame, PageIsShut, Ended
  <2>1. n \in Nat /\ k \in Nat /\ sounds \in Seq(Nat)
    BY <1>1, LengthsAre DEF Page, Types
  <2>2. sounds' = Append(sounds, n)
    BY DEF PutFrame
  <2>3. Len(sounds') = k + 1
    BY <2>1, <2>2, AppendedSet
  <2>4. outbox' = With(n, k + 1)
    BY <2>3 DEF PutFrame
  <2>5. page' = [page EXCEPT !.writing = TRUE, !.next = n + 1]
    BY DEF PutFrame
  <2> HIDE DEF n, k
  <2>6. /\ DOMAIN outbox' = DOMAIN outbox \cup {n} /\ outbox'[n] = k + 1
        /\ \A s \in DOMAIN outbox : s # n => outbox'[s] = outbox[s]
        /\ outbox' = [s \in DOMAIN outbox' |-> outbox'[s]]
    BY <2>4 DEF With
  <2>7. /\ page' \in Page /\ page'.at = "open" /\ page'.next = n + 1
        /\ page'.writing = TRUE
        /\ page'.acking = page.acking /\ page'.read = page.read /\ page'.marker = page.marker
    <3>1. n + 1 \in Nat
      BY <2>1
    <3>2. ASSUME NEW i \in Nat
          PROVE  LET q == [page EXCEPT !.writing = TRUE, !.next = i]
                 IN  /\ q \in Page /\ q.at = page.at /\ q.next = i /\ q.writing = TRUE
                     /\ q.acking = page.acking /\ q.read = page.read /\ q.marker = page.marker
      BY <1>1 DEF Page
    <3> QED
      BY <2>0, <2>5, <3>1, <3>2
  <2>8. PageIsShut'
    BY <2>7 DEF PageIsShut, Ended
  <2> QED
    BY <2>0, <2>2, <2>6, <2>7, <2>8 DEF PutFrame, Hears, Puts, n, k
<1>3. PutFails => Hears
  <2> SUFFICES ASSUME PutFails PROVE Hears
    OBVIOUS
  <2>0. page.at = "open" /\ ~page.writing
    BY <1>1 DEF PutFails, PageIsShut, Ended
  <2>1. page' \in Page /\ Alike(page, page') /\ page'.failed = TRUE
    BY <1>1, <2>0, FailedPage DEF PutFails
  <2>2. PageIsShut'
    BY <2>0, <2>1 DEF PageIsShut, Ended, Alike
  <2> QED
    BY <2>0, <2>1, <2>2 DEF PutFails, Hears, Misses, Alike
<1> QED
  BY <1>2, <1>3

--------------------------------------------------------------------------------
(* The invariant holds of every behaviour, and with it what it was made for. *)

LEMMA InitHolds == Init => Inv
<1> SUFFICES ASSUME Init PROVE Inv
  OBVIOUS
<1> USE DEF Init, IngressInit
<1>1. /\ sounds = <<>> /\ DOMAIN sounds = {} /\ Len(sounds) = 0 /\ 1..Len(sounds) = {}
      /\ DOMAIN log = {} /\ DOMAIN outbox = {}
      /\ ToSet(up) = {} /\ ToSet(down) = {} /\ late = {}
  BY EmptySet
<1>2. Types
  <2>1. outbox \in [DOMAIN outbox -> 1..Len(sounds)]
    BY NoOutbox
  <2>2. /\ sounds \in Seq(Nat) /\ log \in Seq(1..Len(sounds))
        /\ up \in Seq(Message) /\ down \in Seq(Answer)
    OBVIOUS
  <2>3. page.next \in 1..Len(sounds) + 1 /\ cursor \in 1..Len(sounds) + 1
    BY <1>1, NoPageFields
  <2> QED
    BY <1>1, <2>1, <2>2, <2>3, NoPageType DEF Types
<1>3. PageIsShut /\ SocketIsUsed /\ Exchange /\ Numbers
  BY <1>1, NoPageFields DEF PageIsShut, SocketIsUsed, Exchange, Numbers, Ended, Recording
<1>4. Contiguous /\ FramesHold /\ AcksHold /\ RecoveryHolds /\ EndHolds /\ KeptSomewhere
  BY <1>1, NoPageFields
  DEF Contiguous, FramesHold, AcksHold, RecoveryHolds, EndHolds, KeptSomewhere, Ended
<1>5. NumbersAreSingle /\ EndIsWhole
  BY <1>1, NoPageFields DEF NumbersAreSingle, Single, EndIsWhole, Whole, Recording
<1> QED
  BY <1>2, <1>3, <1>4, <1>5 DEF Inv

LEMMA StutterHolds == Inv /\ UNCHANGED vars => Inv'
<1> SUFFICES ASSUME Inv, UNCHANGED vars PROVE Inv'
  OBVIOUS
<1>1. PageIsShut'
  BY DEF Inv, PageIsShut, Ended, vars
<1>2. Quiet
  BY <1>1 DEF Inv, Types, Quiet, vars
<1> QED
  BY <1>2, QuietStays

LEMMA NextHolds == Inv /\ Next => Inv'
<1> SUFFICES ASSUME Inv, Next PROVE Inv'
  OBVIOUS
<1>1. CASE \/ StartFails \/ OpenMicrophone \/ SaveCursor \/ SaveFails \/ PumpReads
           \/ PumpCannotRead \/ PumpIsCut \/ DeleteFails \/ Stop \/ Drain
           \/ Reconnect \/ ReconnectFails
  BY <1>1, QuietActions, QuietStays
<1>2. CASE \/ LoseSocket \/ AckTimeout \/ Reconnected \/ ReceiveClose \/ Stopped \/ ConfirmFinalized
           \/ Recovered \/ RecoveryRefused \/ RecoveryFails \/ Reload \/ Restart
  BY <1>2, CutActions, CutStays
<1>3. CASE DeleteFrame \/ RecoverAck
  BY <1>3, DeleteActions, DeletesStays
<1>4. CASE ServerStep \/ ServerFails
  BY <1>4, ServeActions, ServesStays
<1>5. CASE PumpSends \/ RecoverFrame \/ RecoverEnd
  BY <1>5, PostActions, PostsStays, QuietStays
<1>6. CASE Start \/ Connect \/ Recover
  BY <1>6, OpenActions, OpensStays
<1>7. CASE ReceiveAck \/ ReceiveTold
  BY <1>7, TakeActions, TakesStays
<1>8. CASE FinishCapture \/ StopElsewhere
  BY <1>8, FinishActions, FinishesStays
<1>9. CASE PutFrame \/ PutFails
  BY <1>9, HearActions, HearsStays
<1> QED
  BY <1>1, <1>2, <1>3, <1>4, <1>5, <1>6, <1>7, <1>8, <1>9 DEF Next

LEMMA InvHolds == Spec => []Inv
<1>1. Inv /\ [Next]_vars => Inv'
  BY NextHolds, StutterHolds
<1> QED
  BY <1>1, InitHolds, PTL DEF Spec

LEMMA StoredSoundHolds == Inv => NothingStoredIsLost
<1> SUFFICES ASSUME Inv PROVE NothingStoredIsLost
  OBVIOUS
<1>1. Types /\ KeptSomewhere
  BY DEF Inv
<1>2. DOMAIN sounds = 1..Len(sounds) /\ Range(up) = ToSet(up)
  BY <1>1, LengthsAre, RangeIsToSet
<1>3. log \in Seq(DOMAIN sounds)
  BY <1>1, <1>2 DEF Types
<1>4. \A m \in Range(up) \cup late : m.type = "frame" => m.chunk \in DOMAIN sounds
  BY <1>2 DEF Inv, FramesHold, InOrder
<1>5. Range(outbox) \subseteq DOMAIN sounds
  BY <1>1, <1>2, LengthsAre DEF Range
<1>6. /\ ~socket => up = <<>> /\ down = <<>>
      /\ \A s \in DOMAIN outbox : page.at \in {"starting", "open"} => s < page.next
      /\ page.acking # 0 => page.acking \in DOMAIN outbox
  BY DEF Inv, SocketIsUsed, Numbers, Recording, AcksHold
<1>7. /\ page.at \in {"closed", "starting", "open", "stopped", "finished", "recovering"}
      /\ page.marker \in {"none", "sent", "confirmed"}
      /\ page.pump \in {"idle", "reading", "read"}
  BY <1>1 DEF Types, Page
<1>8. TypeOK
  BY <1>1, <1>3, <1>4, <1>5, <1>6, <1>7 DEF TypeOK, Types
<1> QED
  BY <1>1, <1>8 DEF NothingStoredIsLost

LEMMA RecordingHolds == Inv => ArchiveIsTheRecording
<1> SUFFICES ASSUME Inv PROVE ArchiveIsTheRecording
  OBVIOUS
<1>1. Types /\ DOMAIN sounds = 1..Len(sounds) /\ DOMAIN log = 1..Len(log) /\ Len(log) \in Nat
      /\ \A i \in DOMAIN log : log[i] \in DOMAIN sounds
  BY LengthsAre DEF Inv
<1>2. NoConflict
  <2> SUFFICES ASSUME "reused" \notin happened, NEW m \in Range(up) \cup late, m.type = "frame"
               PROVE  (m.seq \in DOMAIN log /\ log[m.seq] = m.chunk) \/ m.seq = Len(log) + 1
    BY DEF NoConflict
  <2>1. m \in ToSet(up) \cup late /\ m.seq \in Nat
    BY <1>1, RangeIsToSet, LengthsAre DEF Types, Message
  <2>2. m.seq # 0 /\ m.seq <= Len(log) + 1 /\ m.chunk \in DOMAIN sounds
    BY <1>1, <2>1 DEF Inv, FramesHold, InOrder
  <2>3. Single /\ sounds[m.chunk] = m.seq
    BY <2>1 DEF Inv, NumbersAreSingle, Single, NumberOf
  <2>4. m.seq # Len(log) + 1 => m.seq \in DOMAIN log
    BY <1>1, <2>1, <2>2
  <2>5. m.seq \in DOMAIN log => log[m.seq] = m.chunk
    BY <1>1, <2>2, <2>3 DEF Single
  <2> QED
    BY <2>4, <2>5
<1>3. CompleteIsWhole
  <2> SUFFICES ASSUME "elsewhere" \notin happened
               PROVE  /\ status = "COMPLETE" => \A c \in DOMAIN sounds : sounds[c] = 0 \/ InLog(c)
                      /\ page.failed /\ page.at \in {"stopped", "finished"} => status = "INCOMPLETE"
    BY DEF CompleteIsWhole
  <2>1. Whole
    BY DEF Inv, EndIsWhole
  <2>2. status = "COMPLETE" => \A c \in DOMAIN sounds : sounds[c] = 0 \/ InLog(c)
    BY <2>1 DEF Inv, KeptSomewhere, InOutbox, Whole, Empty
  <2>3. page.failed /\ page.at \in {"stopped", "finished"} => status = "INCOMPLETE"
    BY <2>1 DEF Inv, EndHolds, Ended, Whole
  <2> QED
    BY <2>2, <2>3
<1> QED
  BY <1>2, <1>3 DEF ArchiveIsTheRecording

\* Sound that was stored in the browser is in its outbox or in the archive, however long the
\* recording is and whatever becomes of the page, the sockets and the server, and the
\* state is well formed (BoundedBrowserAsrOutbox, handleFormalAck, recoverBrowserFormalOutbox).
THEOREM StoredSoundIsKept == Spec => []NothingStoredIsLost
BY InvHolds, StoredSoundHolds, PTL

\* The server never sees a gap, or another sound under a number that it has, unless a page
\* was left before the number of an acknowledged frame was saved as used, and COMPLETE means
\* the whole recording unless the capture was ended elsewhere (pumpFormalOutbox,
\* append_audio, complete_browser_capture_recovery).
THEOREM ArchiveIsAlwaysTheRecording == Spec => []ArchiveIsTheRecording
BY InvHolds, RecordingHolds, PTL
================================================================================
