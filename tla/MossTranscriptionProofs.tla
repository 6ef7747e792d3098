------------------------ MODULE MossTranscriptionProofs ------------------------
(***************************************************************************)
(* Proofs about MossTranscription: for any recordings, plans, troubles and *)
(* any number of calls, jobs and rows keep their promises, and what the    *)
(* user is shown implements MossTranscript.                                *)
(***************************************************************************)
EXTENDS MossTranscription, FiniteSetTheorems, SequenceTheorems, WellFoundedInduction, TLAPS

--------------------------------------------------------------------------------
(* A job as a value: what With, Done, Published, Pending and NextWindow say *)
(* of the job that has it.                                                  *)

JobStates == {"QUEUED", "RUNNING"} \cup Settled
Results == {"done", "too long", "invalid", "crashed"}
Checks == UNION {[D -> Results] : D \in SUBSET Windows}
JobRecord == [state : JobStates, asked : BOOLEAN, checks : Checks,
              text : SUBSET Pieces, plan : SUBSET Windows]

Found(b, result) == {w \in DOMAIN b.checks : b.checks[w] = result}
TextOf(b) == UNION {w.pieces : w \in Found(b, "done") \cap b.plan}
OpenOf(b) == b.plan \ Found(b, "done")
IsFirst(w, W) == w \in W /\ \A v \in W : Min(w.pieces) <= Min(v.pieces)
First(W) == CHOOSE w \in W : \A v \in W : Min(w.pieces) <= Min(v.pieces)
FirstOf(b) == First(OpenOf(b))

--------------------------------------------------------------------------------
(* The inductive invariant.                                                 *)

\* The plan covers the recording.
Planned(b) ==
    /\ \A w \in b.plan : w.pieces # {}
    /\ UNION {w.pieces : w \in b.plan} = Pieces

\* A second crash has been of the window that is next, which then fails the job.
CrashesCounted(b) ==
    /\ IsFiniteSet(DOMAIN b.checks)
    /\ Cardinality(Found(b, "crashed")) <= 2
    /\ Cardinality(Found(b, "crashed")) = 2 =>
          OpenOf(b) # {} /\ FirstOf(b) \in Found(b, "crashed")

\* A job that has completed has nothing left to do.
EndIsWhole(b) == b.state = "COMPLETED" => OpenOf(b) = {} /\ b.text = TextOf(b)

JobGood(b) == Planned(b) /\ CrashesCounted(b) /\ EndIsWhole(b)

\* What the scheduler knows, at each of its steps, of the job it has.
Stage(at, b) ==
    /\ at = "infer" => OpenOf(b) # {} /\ FirstOf(b) \notin DOMAIN b.checks
    /\ at \in {"merge", "finish"} => OpenOf(b) = {}
    /\ at = "finish" => b.text = TextOf(b)
    /\ at \in {"loop", "infer", "merge", "finish"} => b.state # "COMPLETED"

WorkerShape ==
    /\ jobs \in Seq(JobRecord)
    /\ queue \in Seq(DOMAIN jobs)
    /\ scheduler \in [at : {"idle", "taken", "loop", "infer", "merge", "finish"}, job : Nat]
    /\ scheduler.at # "idle" => scheduler.job \in DOMAIN jobs
    /\ events \subseteq DOMAIN jobs /\ acked \subseteq DOMAIN jobs
    /\ stranded \subseteq DOMAIN jobs /\ changed \subseteq DOMAIN jobs
    /\ recording \in Recordings

JobsGood == \A j \in DOMAIN jobs : JobGood(jobs[j])

SchedulerKnows == \A j \in DOMAIN jobs : scheduler.job = j => Stage(scheduler.at, jobs[j])

\* A cancel that was answered is recorded as long as the job has not ended, and the job
\* has its event or nobody is going to work on it.
CancelsKept ==
    /\ \A j \in acked : jobs[j].state # "COMPLETED" /\ (jobs[j].asked \/ Ended(j))
    /\ \A j \in DOMAIN jobs :
          jobs[j].asked => Ended(j) \/ j \in events \/ (j \notin ToSet(queue) /\ scheduler.job # j)

WorkerInv == WorkerShape /\ JobsGood /\ SchedulerKnows /\ CancelsKept

RowRecord == [job : Nat, state : JobStates, text : SUBSET Pieces, final : BOOLEAN]

AppShape ==
    /\ rows \in Seq(RowRecord)
    /\ calls \in [Callers -> [at : {"none", "submitting", "submitted"}, job : Nat]]
    /\ poll \in [row : Nat, state : JobStates \cup {""}, text : SUBSET Pieces]

\* A row is of a job and shows text that this job has; it is final with its job.
RowGood(row, js) ==
    /\ row.job \in DOMAIN js
    /\ row.text \subseteq TextOf(js[row.job])
    /\ row.final <=> row.state = "COMPLETED"
    /\ row.final => row.text = Pieces /\ js[row.job].state = "COMPLETED"

\* What was read of the worker is of a row that is not settled, is not less than the row
\* shows, and has not been taken back since.
PollGood ==
    poll # NoPoll =>
        /\ poll.row \in DOMAIN rows
        /\ poll.state \in JobStates
        /\ rows[poll.row].state \notin Settled
        /\ poll.text = {} \/ rows[poll.row].text \subseteq poll.text
        /\ poll.text \subseteq TextOf(jobs[rows[poll.row].job])
        /\ poll.state = "COMPLETED" =>
              poll.text = Pieces /\ jobs[rows[poll.row].job].state = "COMPLETED"

AppInv ==
    /\ AppShape
    /\ \A t \in Callers : calls[t].at = "submitted" => calls[t].job \in DOMAIN jobs
    /\ \A r \in DOMAIN rows : RowGood(rows[r], jobs)
    /\ PollGood

MossInv == WorkerInv /\ AppInv

--------------------------------------------------------------------------------
(* Lemmas about a job as a value.                                           *)

LEMMA ChecksAre ==
    /\ \A c \in Checks : DOMAIN c \subseteq Windows /\ c \in [DOMAIN c -> Results]
    /\ \A D \in SUBSET Windows : [D -> Results] \subseteq Checks
<1>1. ASSUME NEW c \in Checks PROVE DOMAIN c \subseteq Windows /\ c \in [DOMAIN c -> Results]
  <2>1. PICK D \in SUBSET Windows : c \in [D -> Results]
    BY <1>1 DEF Checks
  <2> QED BY <2>1
<1>2. ASSUME NEW D \in SUBSET Windows PROVE [D -> Results] \subseteq Checks
  BY DEF Checks
<1> QED BY <1>1, <1>2

\* A set of natural numbers that is not empty has a smallest element.
LEMMA Smallest ==
    ASSUME NEW T, T \subseteq Nat, T # {}
    PROVE  \E x \in T : \A y \in T : x <= y
<1> DEFINE Less == {p \in Nat \X Nat : p[1] < p[2]}
<1>1. IsWellFoundedOn(Less, Nat)
  BY NatLessThanWellFounded, Zenon DEF OpToRel
<1>2. \A x \in T, y \in T : y < x => <<y, x>> \in Less
  OBVIOUS
<1> HIDE DEF Less
<1>3. PICK x \in T : \A y \in T : ~(<<y, x>> \in Less)
  BY <1>1, WFMin
<1>4. ASSUME NEW y \in T PROVE x <= y
  <2>1. ~(y < x)
    BY <1>2, <1>3
  <2>2. x \in Nat /\ y \in Nat
    OBVIOUS
  <2> QED BY <2>1, <2>2
<1> QED BY <1>4

LEMMA MinIsNat ==
    ASSUME NEW S, S \subseteq Nat, S # {}
    PROVE  Min(S) \in Nat
<1>1. \E x \in S : \A y \in S : x <= y
  BY Smallest
<1> QED BY <1>1 DEF Min

\* Among windows that are not empty there is a first one.
LEMMA FirstExists ==
    ASSUME NEW W, W \subseteq Windows, W # {}, \A w \in W : w.pieces # {}
    PROVE  First(W) \in W
<1>1. ASSUME NEW w \in W PROVE Min(w.pieces) \in Nat
  <2>1. w.pieces \subseteq Nat /\ w.pieces # {}
    BY MossAssumption DEF Windows
  <2> QED BY <2>1, MinIsNat
<1> DEFINE T == {Min(w.pieces) : w \in W}
<1>2. T \subseteq Nat /\ T # {}
  BY <1>1
<1>3. PICK x \in T : \A y \in T : x <= y
  <2> HIDE DEF T
  <2> QED BY <1>2, Smallest
<1>4. PICK w \in W : x = Min(w.pieces)
  OBVIOUS
<1>5. \A v \in W : Min(w.pieces) <= Min(v.pieces)
  BY <1>3, <1>4
<1> QED BY <1>5 DEF First

\* The next window of a job is one of its plan and is not done.
LEMMA FirstIsOpen ==
    ASSUME NEW b \in JobRecord, Planned(b), OpenOf(b) # {}
    PROVE  FirstOf(b) \in OpenOf(b) /\ FirstOf(b) \in b.plan /\ FirstOf(b) \in Windows
           /\ FirstOf(b).pieces # {}
<1>1. OpenOf(b) \subseteq b.plan /\ b.plan \subseteq Windows
  BY DEF OpenOf, JobRecord
<1>2. \A w \in OpenOf(b) : w.pieces # {}
  BY <1>1 DEF Planned
<1>3. FirstOf(b) \in OpenOf(b)
  BY <1>1, <1>2, FirstExists DEF FirstOf
<1> QED BY <1>1, <1>2, <1>3

\* A job with nothing left has the whole text.
LEMMA ClosedIsWhole ==
    ASSUME NEW b \in JobRecord, Planned(b), OpenOf(b) = {}
    PROVE  TextOf(b) = Pieces
<1>1. Found(b, "done") \cap b.plan = b.plan
  BY DEF OpenOf
<1> QED BY <1>1 DEF TextOf, Planned

LEMMA TextIsPieces ==
    ASSUME NEW b \in JobRecord
    PROVE  TextOf(b) \subseteq Pieces
<1>1. \A w \in b.plan : w.pieces \subseteq Pieces
  BY DEF JobRecord, Windows
<1> QED BY <1>1 DEF TextOf

\* What the checkpoints and the plan determine.
LEMMA SameWork ==
    ASSUME NEW b, NEW c, c.checks = b.checks, c.plan = b.plan
    PROVE  /\ TextOf(c) = TextOf(b) /\ OpenOf(c) = OpenOf(b) /\ FirstOf(c) = FirstOf(b)
           /\ \A x : Found(c, x) = Found(b, x)
           /\ Planned(c) <=> Planned(b)
           /\ CrashesCounted(c) <=> CrashesCounted(b)
<1>1. \A x : Found(c, x) = Found(b, x)
  BY DEF Found
<1>2. TextOf(c) = TextOf(b) /\ OpenOf(c) = OpenOf(b)
  BY <1>1 DEF TextOf, OpenOf
<1>3. FirstOf(c) = FirstOf(b)
  BY <1>2 DEF FirstOf
<1> QED BY <1>1, <1>2, <1>3 DEF Planned, CrashesCounted

\* The state, the request of a cancel and the merged text change nothing of that.
LEMMA MarkedIsGood ==
    ASSUME NEW b \in JobRecord, JobGood(b), NEW c \in JobRecord,
           c.checks = b.checks, c.plan = b.plan,
           c.state = "COMPLETED" => OpenOf(b) = {} /\ c.text = TextOf(b)
    PROVE  JobGood(c)
<1> QED BY SameWork DEF JobGood, EndIsWhole

\* A checkpoint of the next window: text is only added, and only a crash counts as one.
LEMMA CommittedIsGood ==
    ASSUME NEW b \in JobRecord, JobGood(b), b.state # "COMPLETED", OpenOf(b) # {},
           FirstOf(b) \notin DOMAIN b.checks, NEW result \in Results, NEW c,
           c = [b EXCEPT !.checks = [v \in DOMAIN b.checks \cup {FirstOf(b)} |->
                                        IF v = FirstOf(b) THEN result ELSE b.checks[v]]]
    PROVE  /\ c \in JobRecord /\ JobGood(c)
           /\ TextOf(b) \subseteq TextOf(c)
           /\ c.state = b.state /\ c.asked = b.asked /\ c.text = b.text /\ c.plan = b.plan
<1> DEFINE w == FirstOf(b)
           D == DOMAIN b.checks \cup {w}
           checks == [v \in D |-> IF v = w THEN result ELSE b.checks[v]]
<1>1. w \in OpenOf(b) /\ w \in Windows
  BY FirstIsOpen DEF JobGood
<1>2. b.checks \in Checks /\ DOMAIN b.checks \subseteq Windows /\ b.checks \in [DOMAIN b.checks -> Results]
  BY ChecksAre DEF JobRecord
<1> HIDE DEF w
<1>3. checks \in [D -> Results] /\ D \in SUBSET Windows
  BY <1>1, <1>2
<1>4. checks \in Checks
  BY <1>3, ChecksAre
<1>5. /\ c = [state |-> b.state, asked |-> b.asked, checks |-> checks, text |-> b.text, plan |-> b.plan]
  BY DEF JobRecord, w
<1>6. /\ c.state = b.state /\ c.asked = b.asked /\ c.text = b.text /\ c.plan = b.plan
      /\ c.checks = checks
  BY <1>5
<1>7. c \in JobRecord
  BY <1>4, <1>5 DEF JobRecord
<1>8. w \notin DOMAIN b.checks
  BY DEF w
<1>9. \A x : Found(c, x) = IF x = result THEN Found(b, x) \cup {w} ELSE Found(b, x)
  BY <1>6, <1>8 DEF Found
<1>10. TextOf(b) \subseteq TextOf(c)
  BY <1>6, <1>9 DEF TextOf
<1>11. IsFiniteSet(DOMAIN b.checks) /\ IsFiniteSet(DOMAIN c.checks)
  BY <1>6, FS_AddElement DEF JobGood, CrashesCounted
<1>12. Found(b, "crashed") \subseteq DOMAIN b.checks
  BY DEF Found
<1>13. IsFiniteSet(Found(b, "crashed")) /\ Cardinality(Found(b, "crashed")) \in Nat
  BY <1>11, <1>12, FS_Subset, FS_CardinalityType
<1>14. Cardinality(Found(b, "crashed")) <= 1
  BY <1>8, <1>12, <1>13 DEF JobGood, CrashesCounted, w
<1>15. CrashesCounted(c)
  <2>1. CASE result = "crashed"
    <3>1. Found(c, "crashed") = Found(b, "crashed") \cup {w} /\ w \notin Found(b, "crashed")
      BY <1>8, <1>9, <1>12, <2>1
    <3>2. Cardinality(Found(c, "crashed")) = Cardinality(Found(b, "crashed")) + 1
      BY <1>13, <3>1, FS_AddElement
    <3>3. OpenOf(c) = OpenOf(b)
      BY <1>6, <1>9, <2>1 DEF OpenOf
    <3>4. FirstOf(c) = w
      BY <3>3 DEF FirstOf, w
    <3>5. Cardinality(Found(c, "crashed")) <= 2
      BY <1>13, <1>14, <3>2
    <3>6. FirstOf(c) \in Found(c, "crashed") /\ OpenOf(c) # {}
      BY <3>1, <3>3, <3>4
    <3> QED BY <1>11, <3>5, <3>6 DEF CrashesCounted
  <2>2. CASE result # "crashed"
    <3>1. Found(c, "crashed") = Found(b, "crashed")
      BY <1>9, <2>2
    <3> QED BY <1>11, <1>13, <1>14, <3>1 DEF CrashesCounted
  <2> QED BY <2>1, <2>2
<1>16. JobGood(c)
  BY <1>6, <1>15 DEF JobGood, Planned, EndIsWhole
<1> QED BY <1>6, <1>7, <1>10, <1>16

\* A window that was tried is replaced by windows with the same pieces.
LEMMA ReplacedIsGood ==
    ASSUME NEW b \in JobRecord, JobGood(b), OpenOf(b) # {}, Cardinality(Found(b, "crashed")) <= 1,
           NEW new \in SUBSET Windows, \A n \in new : n.pieces # {},
           UNION {n.pieces : n \in new} = FirstOf(b).pieces,
           NEW c \in JobRecord, c.state = "RUNNING", c.checks = b.checks,
           c.plan = (b.plan \ {FirstOf(b)}) \cup new
    PROVE  JobGood(c) /\ TextOf(b) \subseteq TextOf(c)
<1> DEFINE w == FirstOf(b)
           plan == (b.plan \ {w}) \cup new
<1>1. w \in OpenOf(b) /\ w \in b.plan
  BY FirstIsOpen DEF JobGood
<1> HIDE DEF w
<1>3. c.plan = plan
  BY DEF w
<1>6. \A x : Found(c, x) = Found(b, x)
  BY <1>3 DEF Found
<1>7. Found(b, "done") \cap b.plan \subseteq Found(c, "done") \cap c.plan
  BY <1>1, <1>3, <1>6 DEF OpenOf
<1>8. TextOf(b) \subseteq TextOf(c)
  BY <1>7 DEF TextOf
<1>9. UNION {v.pieces : v \in plan} = Pieces
  <2>1. UNION {v.pieces : v \in b.plan} = Pieces
    BY DEF JobGood, Planned
  <2>2. UNION {v.pieces : v \in new} = w.pieces
    BY DEF w
  <2>3. ASSUME NEW x \in UNION {v.pieces : v \in plan} PROVE x \in Pieces
    <3>1. PICK v \in plan : x \in v.pieces
      OBVIOUS
    <3>2. CASE v \in b.plan
      BY <2>1, <3>1, <3>2
    <3>3. CASE v \in new
      <4>1. x \in w.pieces
        BY <2>2, <3>1, <3>3
      <4> QED BY <1>1, <2>1, <4>1
    <3> QED BY <3>2, <3>3
  <2>4. ASSUME NEW x \in Pieces PROVE x \in UNION {v.pieces : v \in plan}
    <3>1. PICK v \in b.plan : x \in v.pieces
      BY <2>1
    <3>2. CASE v = w
      <4>1. PICK n \in new : x \in n.pieces
        BY <2>2, <3>1, <3>2
      <4> QED BY <4>1
    <3> QED BY <3>1, <3>2
  <2> QED BY <2>3, <2>4
<1>10. Planned(c)
  BY <1>3, <1>9 DEF JobGood, Planned
<1>11. Found(b, "crashed") \subseteq DOMAIN b.checks
  BY DEF Found
<1>12. IsFiniteSet(DOMAIN b.checks) /\ Cardinality(Found(b, "crashed")) \in Nat
  BY <1>11, FS_Subset, FS_CardinalityType DEF JobGood, CrashesCounted
<1>13. CrashesCounted(c)
  BY <1>3, <1>6, <1>12 DEF CrashesCounted
<1>14. JobGood(c)
  BY <1>3, <1>10, <1>13 DEF JobGood, EndIsWhole
<1> QED BY <1>8, <1>14

\* What a job still has to survive: two crashes are never of one that has completed, or
\* of one whose next window has not been tried.
LEMMA CrashesBound ==
    ASSUME NEW b \in JobRecord, JobGood(b)
    PROVE  /\ Cardinality(Found(b, "crashed")) \in Nat
           /\ Cardinality(Found(b, "crashed")) <= 2
           /\ b.state = "COMPLETED" => Cardinality(Found(b, "crashed")) <= 1
           /\ FirstOf(b) \notin Found(b, "crashed") => Cardinality(Found(b, "crashed")) <= 1
<1>1. Found(b, "crashed") \subseteq DOMAIN b.checks
  BY DEF Found
<1>2. Cardinality(Found(b, "crashed")) \in Nat
  BY <1>1, FS_Subset, FS_CardinalityType DEF JobGood, CrashesCounted
<1>3. Cardinality(Found(b, "crashed")) <= 2 /\ (Cardinality(Found(b, "crashed")) = 2 => OpenOf(b) # {} /\ FirstOf(b) \in Found(b, "crashed"))
  BY DEF JobGood, CrashesCounted
<1>4. b.state = "COMPLETED" => OpenOf(b) = {}
  BY DEF JobGood, EndIsWhole
<1> QED BY <1>2, <1>3, <1>4

--------------------------------------------------------------------------------
(* Steps of one job.                                                        *)

\* What a step of a job may do: text is only added, a job that has ended stays as it
\* ended, and one that has completed keeps its text.
JobStep(b, c) ==
    /\ c \in JobRecord /\ JobGood(c)
    /\ TextOf(b) \subseteq TextOf(c)
    /\ b.state \in Terminal => c.state = b.state
    /\ b.state = "COMPLETED" => TextOf(c) = TextOf(b)
    /\ TextOf(c) = TextOf(b) \/ (c.state \in Terminal <=> b.state \in Terminal)
    /\ b.asked => c.asked

SameWindows(b, c) == c.checks = b.checks /\ c.plan = b.plan /\ c.text = b.text

LEMMA NoStep ==
    ASSUME NEW b \in JobRecord, JobGood(b)
    PROVE  JobStep(b, b)
BY DEF JobStep

LEMMA WithState ==
    ASSUME NEW b \in JobRecord, JobGood(b), NEW s \in JobStates, NEW c,
           c = [b EXCEPT !.state = s], b.state \notin Terminal,
           s = "COMPLETED" => OpenOf(b) = {} /\ b.text = TextOf(b)
    PROVE  JobStep(b, c) /\ c.state = s /\ c.asked = b.asked /\ SameWindows(b, c)
<1>1. c = [state |-> s, asked |-> b.asked, checks |-> b.checks, text |-> b.text, plan |-> b.plan]
  BY DEF JobRecord
<1>2. c.state = s /\ c.asked = b.asked /\ c.checks = b.checks /\ c.plan = b.plan /\ c.text = b.text
  BY <1>1
<1>3. c \in JobRecord
  BY <1>1 DEF JobRecord
<1>4. JobGood(c)
  BY <1>2, <1>3, MarkedIsGood
<1>5. TextOf(c) = TextOf(b)
  BY <1>2, SameWork
<1> QED BY <1>2, <1>3, <1>4, <1>5 DEF JobStep, SameWindows, Terminal

LEMMA WithAsked ==
    ASSUME NEW b \in JobRecord, JobGood(b), NEW c, c = [b EXCEPT !.asked = TRUE]
    PROVE  JobStep(b, c) /\ c.state = b.state /\ c.asked /\ SameWindows(b, c)
<1>1. c = [state |-> b.state, asked |-> TRUE, checks |-> b.checks, text |-> b.text, plan |-> b.plan]
  BY DEF JobRecord
<1>2. c.state = b.state /\ c.asked = TRUE /\ c.checks = b.checks /\ c.plan = b.plan /\ c.text = b.text
  BY <1>1
<1>3. c \in JobRecord
  BY <1>1 DEF JobRecord
<1>4. TextOf(c) = TextOf(b) /\ OpenOf(c) = OpenOf(b)
  BY <1>2, SameWork
<1>5. c.state = "COMPLETED" => OpenOf(b) = {} /\ c.text = TextOf(b)
  BY <1>2 DEF JobGood, EndIsWhole
<1>6. JobGood(c)
  BY <1>2, <1>3, <1>5, MarkedIsGood
<1> QED BY <1>2, <1>3, <1>4, <1>6 DEF JobStep, SameWindows

LEMMA WithText ==
    ASSUME NEW b \in JobRecord, JobGood(b), b.state # "COMPLETED", NEW c,
           c = [b EXCEPT !.text = TextOf(b)]
    PROVE  /\ JobStep(b, c) /\ c.state = b.state /\ c.asked = b.asked
           /\ c.checks = b.checks /\ c.plan = b.plan /\ c.text = TextOf(c)
<1> DEFINE text == TextOf(b)
<1> HIDE DEF text
<1>1. c = [state |-> b.state, asked |-> b.asked, checks |-> b.checks, text |-> text, plan |-> b.plan]
  BY DEF JobRecord, text
<1>2. c.state = b.state /\ c.asked = b.asked /\ c.checks = b.checks /\ c.plan = b.plan /\ c.text = text
  BY <1>1
<1>3. text \in SUBSET Pieces
  BY TextIsPieces DEF text
<1>4. c \in JobRecord
  BY <1>1, <1>3 DEF JobRecord
<1>5. JobGood(c)
  BY <1>2, <1>4, MarkedIsGood
<1>6. TextOf(c) = text
  BY <1>2, SameWork DEF text
<1> QED BY <1>2, <1>4, <1>5, <1>6 DEF JobStep, text

LEMMA WithCheck ==
    ASSUME NEW b \in JobRecord, JobGood(b), b.state # "COMPLETED", OpenOf(b) # {},
           FirstOf(b) \notin DOMAIN b.checks, NEW result \in Results, NEW c,
           c = [b EXCEPT !.checks = [v \in DOMAIN b.checks \cup {FirstOf(b)} |->
                                        IF v = FirstOf(b) THEN result ELSE b.checks[v]]]
    PROVE  JobStep(b, c) /\ c.state = b.state /\ c.asked = b.asked
<1>1. /\ c \in JobRecord /\ JobGood(c)
      /\ TextOf(b) \subseteq TextOf(c)
      /\ c.state = b.state /\ c.asked = b.asked /\ c.text = b.text /\ c.plan = b.plan
  BY CommittedIsGood
<1> QED BY <1>1 DEF JobStep

\* The record of a job whose plan is replaced.
Replanned(b, p) == [b EXCEPT !.plan = p, !.state = "RUNNING"]

LEMMA WithPlan ==
    ASSUME NEW b \in JobRecord, NEW p \in SUBSET Windows, NEW c, c = Replanned(b, p)
    PROVE  /\ c \in JobRecord
           /\ c.state = "RUNNING" /\ c.asked = b.asked /\ c.checks = b.checks /\ c.text = b.text
           /\ c.plan = p
<1> DEFINE Fields == {"state", "asked", "checks", "text", "plan"}
<1>1. b = [state |-> b.state, asked |-> b.asked, checks |-> b.checks, text |-> b.text, plan |-> b.plan]
  BY DEF JobRecord
<1>2. DOMAIN b = Fields
  BY <1>1
<1>3. c = [f \in Fields |-> IF f = "state" THEN "RUNNING" ELSE IF f = "plan" THEN p ELSE b[f]]
  BY <1>2, Zenon DEF Replanned
<1>4. c = [state |-> "RUNNING", asked |-> b.asked, checks |-> b.checks, text |-> b.text, plan |-> p]
  BY <1>3
<1>5. c.state = "RUNNING" /\ c.asked = b.asked /\ c.checks = b.checks /\ c.text = b.text /\ c.plan = p
  BY <1>3
<1>6. c \in JobRecord
  BY <1>4 DEF JobRecord, JobStates
<1> QED BY <1>5, <1>6

LEMMA WithWindows ==
    ASSUME NEW b \in JobRecord, JobGood(b), OpenOf(b) # {}, Cardinality(Found(b, "crashed")) <= 1,
           b.state \notin Terminal,
           NEW new \in SUBSET Windows, \A n \in new : n.pieces # {},
           UNION {n.pieces : n \in new} = FirstOf(b).pieces,
           NEW c \in JobRecord, c.state = "RUNNING", c.asked = b.asked, c.checks = b.checks,
           c.plan = (b.plan \ {FirstOf(b)}) \cup new
    PROVE  JobStep(b, c)
<1>1. JobGood(c) /\ TextOf(b) \subseteq TextOf(c)
  BY ReplacedIsGood
<1> QED BY <1>1 DEF JobStep, Terminal

--------------------------------------------------------------------------------
(* Steps of the spool and of the scheduler.                                 *)

LEMMA ReadAsValue ==
    \A j :
        /\ \A result : With(j, result) = Found(jobs[j], result)
        /\ Published(j) = TextOf(jobs[j])
        /\ Pending(j) = OpenOf(jobs[j])
        /\ NextWindow(j) = FirstOf(jobs[j])
<1> TAKE j
<1>1. \A result : With(j, result) = Found(jobs[j], result)
  BY DEF With, Found
<1>2. Published(j) = TextOf(jobs[j])
  BY <1>1 DEF Published, Done, TextOf
<1>3. Pending(j) = OpenOf(jobs[j])
  BY <1>1 DEF Pending, OpenOf
<1>4. NextWindow(j) = FirstOf(jobs[j])
  BY <1>3 DEF NextWindow, FirstOf, First
<1> QED BY <1>1, <1>2, <1>3, <1>4

Changes(j, c) ==
    /\ j \in DOMAIN jobs
    /\ JobStep(jobs[j], c)
    /\ jobs' = [jobs EXCEPT ![j] = c]

LEMMA OthersKept ==
    ASSUME WorkerShape, JobsGood, NEW j, NEW c, Changes(j, c)
    PROVE  /\ jobs' \in Seq(JobRecord) /\ DOMAIN jobs' = DOMAIN jobs
           /\ jobs'[j] = c
           /\ \A k \in DOMAIN jobs : k # j => jobs'[k] = jobs[k]
           /\ \A k \in DOMAIN jobs : JobStep(jobs[k], jobs'[k])
           /\ JobsGood'
<1>1. jobs \in Seq(JobRecord) /\ c \in JobRecord /\ j \in DOMAIN jobs
  BY DEF WorkerShape, Changes, JobStep
<1>2. jobs' \in Seq(JobRecord) /\ DOMAIN jobs' = DOMAIN jobs
  BY <1>1 DEF Changes
<1>3. jobs'[j] = c /\ \A k \in DOMAIN jobs : k # j => jobs'[k] = jobs[k]
  BY <1>1 DEF Changes
<1>4. ASSUME NEW k \in DOMAIN jobs PROVE JobStep(jobs[k], jobs'[k])
  <2>1. CASE k = j
    BY <1>3, <2>1 DEF Changes
  <2>2. CASE k # j
    <3>1. jobs[k] \in JobRecord /\ JobGood(jobs[k])
      BY <1>1, <1>4 DEF JobsGood
    <3>2. jobs'[k] = jobs[k]
      BY <1>3, <2>2
    <3> QED BY <3>1, <3>2, NoStep
  <2> QED BY <2>1, <2>2
<1>5. \A k \in DOMAIN jobs' : JobGood(jobs'[k])
  BY <1>2, <1>4 DEF JobStep
<1> QED BY <1>2, <1>3, <1>4, <1>5 DEF JobsGood

LEMMA JobIsGood ==
    ASSUME WorkerShape, JobsGood, NEW j \in DOMAIN jobs
    PROVE  jobs[j] \in JobRecord /\ JobGood(jobs[j])
BY DEF WorkerShape, JobsGood

LEMMA StateChanges ==
    ASSUME WorkerShape, JobsGood, NEW j \in DOMAIN jobs, NEW s \in JobStates, ~Ended(j),
           s = "COMPLETED" => OpenOf(jobs[j]) = {} /\ jobs[j].text = TextOf(jobs[j]),
           jobs' = [jobs EXCEPT ![j].state = s]
    PROVE  \E c : /\ Changes(j, c) /\ c.state = s /\ c.asked = jobs[j].asked
                  /\ SameWindows(jobs[j], c)
<1> DEFINE c == [jobs[j] EXCEPT !.state = s]
<1>1. jobs' = [jobs EXCEPT ![j] = c]
  OBVIOUS
<1>2. jobs[j] \in JobRecord /\ JobGood(jobs[j]) /\ jobs[j].state \notin Terminal
  BY JobIsGood DEF Ended
<1>3. JobStep(jobs[j], c) /\ c.state = s /\ c.asked = jobs[j].asked /\ SameWindows(jobs[j], c)
  BY <1>2, WithState
<1> HIDE DEF c
<1> QED BY <1>1, <1>3 DEF Changes

LEMMA AskedChanges ==
    ASSUME WorkerShape, JobsGood, NEW j \in DOMAIN jobs, jobs' = [jobs EXCEPT ![j].asked = TRUE]
    PROVE  \E c : Changes(j, c) /\ c.state = jobs[j].state /\ c.asked /\ SameWindows(jobs[j], c)
<1> DEFINE c == [jobs[j] EXCEPT !.asked = TRUE]
<1>1. jobs' = [jobs EXCEPT ![j] = c]
  OBVIOUS
<1>2. jobs[j] \in JobRecord /\ JobGood(jobs[j])
  BY JobIsGood
<1>3. JobStep(jobs[j], c) /\ c.state = jobs[j].state /\ c.asked /\ SameWindows(jobs[j], c)
  BY <1>2, WithAsked
<1> HIDE DEF c
<1> QED BY <1>1, <1>3 DEF Changes

Working == {"loop", "infer", "merge", "finish"}

\* What one step of the scheduler may do with its job: go on with it, end it, leave it.
Stays(j, c, at) ==
    /\ Changes(j, c)
    /\ scheduler' = [at |-> at, job |-> j] /\ at \in Working /\ Stage(at, c)
    /\ c.asked = jobs[j].asked /\ (c.state \in Terminal <=> jobs[j].state \in Terminal)
Ends(j, c) ==
    /\ Changes(j, c)
    /\ scheduler' = NoJob
    /\ c.asked = jobs[j].asked /\ c.state \in Terminal /\ jobs[j].state \notin Terminal
    /\ c.state = "COMPLETED" => j \notin events
Leaves == jobs' = jobs /\ scheduler' = NoJob

\* The scheduler has j and is at one of its steps.
At(j, at) ==
    /\ WorkerShape /\ JobsGood /\ SchedulerKnows
    /\ scheduler = [at |-> at, job |-> j] /\ j \in DOMAIN jobs

LEMMA SettleEnds ==
    ASSUME NEW j, NEW at, At(j, at), NEW s \in Terminal, Settle(j, s),
           s = "COMPLETED" => /\ OpenOf(jobs[j]) = {} /\ jobs[j].text = TextOf(jobs[j])
                              /\ j \notin events
    PROVE  \E c : Ends(j, c)
<1>1. ~Ended(j) /\ jobs' = [jobs EXCEPT ![j].state = s] /\ scheduler' = NoJob
  BY DEF Settle, Leave
<1>2. s \in JobStates /\ j \in DOMAIN jobs /\ WorkerShape /\ JobsGood
  BY DEF JobStates, Settled, At
<1>3. PICK c : /\ Changes(j, c) /\ c.state = s /\ c.asked = jobs[j].asked
               /\ SameWindows(jobs[j], c)
  BY <1>1, <1>2, StateChanges
<1> QED BY <1>1, <1>3 DEF Ends, Ended

LEMMA ReplaceStays ==
    ASSUME NEW j, At(j, "loop"), OpenOf(jobs[j]) # {}, Cardinality(Found(jobs[j], "crashed")) <= 1,
           NEW new \in SUBSET Windows, \A n \in new : n.pieces # {},
           UNION {n.pieces : n \in new} = FirstOf(jobs[j]).pieces,
           Replace(j, FirstOf(jobs[j]), new)
    PROVE  \E c : Stays(j, c, "loop")
<1> DEFINE w == FirstOf(jobs[j])
           p == (jobs[j].plan \ {w}) \cup new
           c == Replanned(jobs[j], p)
<1>1. j \in DOMAIN jobs /\ WorkerShape /\ JobsGood /\ jobs[j].state \notin Terminal
  BY DEF At, Replace, Ended
<1>2. jobs[j] \in JobRecord /\ JobGood(jobs[j])
  BY <1>1, JobIsGood
<1>3. jobs' = [jobs EXCEPT ![j].plan = p, ![j].state = "RUNNING"]
  BY DEF Replace
<1>4. p \in SUBSET Windows /\ p = (jobs[j].plan \ {FirstOf(jobs[j])}) \cup new
  BY <1>2 DEF JobRecord
<1>5. jobs' = [jobs EXCEPT ![j] = c]
  <2> HIDE DEF p
  <2>1. jobs \in Seq(JobRecord)
    BY <1>1 DEF WorkerShape
  <2> QED BY <1>1, <1>3, <2>1 DEF Replanned
<1> HIDE DEF p
<1>6. /\ c \in JobRecord
      /\ c.state = "RUNNING" /\ c.asked = jobs[j].asked /\ c.checks = jobs[j].checks
      /\ c.text = jobs[j].text /\ c.plan = p
  BY <1>2, <1>4, WithPlan
<1> HIDE DEF c
<1>7. JobStep(jobs[j], c)
  BY <1>1, <1>2, <1>4, <1>6, WithWindows
<1>8. scheduler' = [at |-> "loop", job |-> j]
  BY DEF Replace, At
<1>9. Stage("loop", c) /\ c.state \notin Terminal
  BY <1>6 DEF Stage, Terminal
<1> QED BY <1>1, <1>5, <1>6, <1>7, <1>8, <1>9 DEF Stays, Changes, Working

LEMMA FreshWindow ==
    ASSUME WorkerShape, JobsGood, NEW j \in DOMAIN jobs, NEW p \in SUBSET Pieces, NEW minutes \in {8, 10}
    PROVE  Fresh(j, p, minutes) \in Windows /\ Fresh(j, p, minutes).pieces = p
<1>1. jobs[j] \in JobRecord /\ JobGood(jobs[j])
  BY JobIsGood
<1>2. Cardinality(DOMAIN jobs[j].checks) \in Nat
  BY <1>1, FS_CardinalityType DEF JobGood, CrashesCounted
<1> QED BY <1>2 DEF Fresh, Windows

\* A window that failed is replaced, or the job fails.
LEMMA RetryEffect ==
    ASSUME NEW j, At(j, "loop"), OpenOf(jobs[j]) # {}, NEW w, w = FirstOf(jobs[j]),
           w \in DOMAIN jobs[j].checks, Retry(j, w)
    PROVE  (\E c : Stays(j, c, "loop")) \/ (\E c : Ends(j, c))
<1>1. j \in DOMAIN jobs /\ WorkerShape /\ JobsGood
  BY DEF At
<1>2. jobs[j] \in JobRecord /\ JobGood(jobs[j])
  BY <1>1, JobIsGood
<1>3. w \in Windows /\ w.pieces # {}
  BY <1>2, FirstIsOpen DEF JobGood
<1>4. w.pieces \in SUBSET Pieces /\ w.minutes \in {8, 10}
  BY <1>3 DEF Windows
<1>5. CASE Settle(j, "FAILED")
  BY <1>5, SettleEnds DEF Terminal
<1>6. CASE /\ jobs[j].checks[w] = "crashed" /\ ~(Cardinality(With(j, "crashed")) > 1)
           /\ Replace(j, w, {Fresh(j, w.pieces, w.minutes)})
  <2> DEFINE f == Fresh(j, w.pieces, w.minutes)
  <2>1. f \in Windows /\ f.pieces = w.pieces
    BY <1>1, <1>4, FreshWindow
  <2>2. Replace(j, w, {f})
    BY <1>6
  <2> HIDE DEF f
  <2>3. {f} \in SUBSET Windows /\ (\A n \in {f} : n.pieces # {}) /\ UNION {n.pieces : n \in {f}} = w.pieces
    BY <1>3, <2>1
  <2>4. Cardinality(Found(jobs[j], "crashed")) \in Nat /\ ~(Cardinality(Found(jobs[j], "crashed")) > 1)
    BY <1>2, <1>6, CrashesBound, ReadAsValue
  <2>5. Cardinality(Found(jobs[j], "crashed")) <= 1
    BY <2>4
  <2> QED BY <2>2, <2>3, <2>5, ReplaceStays
<1>7. CASE /\ jobs[j].checks[w] = "too long" /\ Replace(j, w, {Fresh(j, {p}, 8) : p \in w.pieces})
  <2> DEFINE new == {Fresh(j, {p}, 8) : p \in w.pieces}
  <2>1. ASSUME NEW p \in w.pieces PROVE Fresh(j, {p}, 8) \in Windows /\ Fresh(j, {p}, 8).pieces = {p}
    <3>1. {p} \in SUBSET Pieces
      BY <1>4
    <3> QED BY <1>1, <3>1, FreshWindow
  <2>2. new \in SUBSET Windows /\ \A n \in new : n.pieces # {}
    BY <2>1
  <2>3. UNION {n.pieces : n \in new} = w.pieces
    <3>1. ASSUME NEW x \in UNION {n.pieces : n \in new} PROVE x \in w.pieces
      <4>1. PICK p \in w.pieces : x \in Fresh(j, {p}, 8).pieces
        OBVIOUS
      <4> QED BY <2>1, <4>1
    <3>2. ASSUME NEW x \in w.pieces PROVE x \in UNION {n.pieces : n \in new}
      <4>1. Fresh(j, {x}, 8) \in new /\ x \in Fresh(j, {x}, 8).pieces
        BY <2>1
      <4> HIDE DEF new
      <4> QED BY <4>1
    <3> HIDE DEF new
    <3> QED BY <3>1, <3>2
  <2>4. Replace(j, w, new)
    BY <1>7
  <2> HIDE DEF new
  <2>5. FirstOf(jobs[j]) \notin Found(jobs[j], "crashed")
    BY <1>7 DEF Found
  <2>6. Cardinality(Found(jobs[j], "crashed")) <= 1
    BY <1>2, <2>5, CrashesBound
  <2> QED BY <2>2, <2>3, <2>4, <2>6, ReplaceStays
<1>8. CASE jobs[j].checks[w] = "crashed"
  BY <1>5, <1>6, <1>8 DEF Retry
<1>9. CASE jobs[j].checks[w] = "too long"
  BY <1>5, <1>7, <1>9 DEF Retry
<1>10. CASE jobs[j].checks[w] # "crashed" /\ jobs[j].checks[w] # "too long"
  BY <1>5, <1>10 DEF Retry
<1> QED BY <1>8, <1>9, <1>10

\* A checkpoint of the next window.
LEMMA CommitChanges ==
    ASSUME NEW j, NEW at \in Working, At(j, at), OpenOf(jobs[j]) # {},
           NextWindow(j) \notin DOMAIN jobs[j].checks, NEW result \in Results,
           Commit(j, NextWindow(j), result), scheduler' = [at |-> "loop", job |-> j]
    PROVE  \E c : Stays(j, c, "loop")
<1> DEFINE w == FirstOf(jobs[j])
           c == [jobs[j] EXCEPT !.checks = [v \in DOMAIN jobs[j].checks \cup {w} |->
                                               IF v = w THEN result ELSE jobs[j].checks[v]]]
<1>1. j \in DOMAIN jobs /\ WorkerShape /\ JobsGood
  BY DEF At
<1>2. jobs[j] \in JobRecord /\ JobGood(jobs[j])
  BY <1>1, JobIsGood
<1>3. jobs[j].state # "COMPLETED"
  BY <1>1 DEF At, SchedulerKnows, Stage, Working
<1>4. NextWindow(j) = w
  BY ReadAsValue
<1>5. jobs' = [jobs EXCEPT ![j] = c]
  BY <1>1, <1>4 DEF Commit
<1>6. JobStep(jobs[j], c) /\ c.state = jobs[j].state /\ c.asked = jobs[j].asked
  <2>1. w \notin DOMAIN jobs[j].checks
    BY <1>4
  <2> QED BY <1>2, <1>3, <2>1, WithCheck
<1> HIDE DEF c
<1>7. Stage("loop", c)
  BY <1>3, <1>6 DEF Stage
<1> QED BY <1>1, <1>5, <1>6, <1>7 DEF Stays, Changes, Working

LEMMA NothingChanges ==
    ASSUME NEW j, NEW at \in Working, At(j, at), NEW to \in Working, Stage(to, jobs[j]), jobs' = jobs,
           scheduler' = [at |-> to, job |-> j]
    PROVE  \E c : Stays(j, c, to)
<1> DEFINE c == jobs[j]
<1>1. j \in DOMAIN jobs /\ jobs[j] \in JobRecord /\ JobGood(jobs[j]) /\ jobs \in Seq(JobRecord)
  BY JobIsGood DEF At, WorkerShape
<1>2. jobs' = [jobs EXCEPT ![j] = c]
  BY <1>1
<1>3. JobStep(jobs[j], c)
  BY <1>1, NoStep
<1>4. Stays(j, c, to)
  BY <1>1, <1>2, <1>3 DEF Stays, Changes
<1> QED BY <1>4

LEMMA LoopEffect ==
    ASSUME NEW j, At(j, "loop"), Loop(j)
    PROVE  (\E c, at : Stays(j, c, at)) \/ (\E c : Ends(j, c))
<1>1. j \in DOMAIN jobs /\ jobs[j] \in JobRecord /\ JobGood(jobs[j]) /\ jobs[j].state # "COMPLETED"
  BY JobIsGood DEF At, SchedulerKnows, Stage
<1>2. CASE Pending(j) = {}
  <2>1. jobs' = jobs /\ scheduler' = [at |-> "merge", job |-> j]
    BY <1>2 DEF Loop, Go, At
  <2>2. Stage("merge", jobs[j])
    BY <1>1, <1>2, ReadAsValue DEF Stage
  <2> QED BY <2>1, <2>2, NothingChanges DEF Working
<1>3. CASE Pending(j) # {}
  <2> DEFINE w == NextWindow(j)
  <2>1. OpenOf(jobs[j]) # {} /\ w = FirstOf(jobs[j])
    BY <1>3, ReadAsValue
  <2>2. CASE w \in DOMAIN jobs[j].checks
    <3>1. Retry(j, w)
      BY <1>3, <2>2 DEF Loop
    <3> HIDE DEF w
    <3> QED BY <2>1, <2>2, <3>1, RetryEffect
  <2>3. CASE w \notin DOMAIN jobs[j].checks /\ Commit(j, w, "too long") /\ scheduler' = scheduler
    <3>1. scheduler' = [at |-> "loop", job |-> j]
      BY <2>3 DEF At
    <3> QED BY <2>1, <2>3, <3>1, CommitChanges DEF Working, Results
  <2>4. CASE w \notin DOMAIN jobs[j].checks /\ Go("infer") /\ jobs' = jobs
    <3>1. scheduler' = [at |-> "infer", job |-> j]
      BY <2>4 DEF At, Go
    <3>2. Stage("infer", jobs[j])
      BY <1>1, <2>1, <2>4 DEF Stage
    <3> QED BY <2>4, <3>1, <3>2, NothingChanges DEF Working
  <2> QED BY <1>3, <2>2, <2>3, <2>4 DEF Loop
<1> QED BY <1>2, <1>3

LEMMA InferEffect ==
    ASSUME NEW j, At(j, "infer"), Infer(j)
    PROVE  \E c : Stays(j, c, "loop")
<1>1. PICK result \in Results : Commit(j, NextWindow(j), result)
  BY DEF Infer, Results
<1>2. scheduler' = [at |-> "loop", job |-> j]
  BY DEF Infer, Go, At
<1>3. OpenOf(jobs[j]) # {} /\ NextWindow(j) \notin DOMAIN jobs[j].checks
  BY ReadAsValue DEF At, SchedulerKnows, Stage
<1> QED BY <1>1, <1>2, <1>3, CommitChanges DEF Working

LEMMA MergeEffect ==
    ASSUME NEW j, At(j, "merge"), Merge(j)
    PROVE  \E c : Stays(j, c, "finish")
<1> DEFINE c == [jobs[j] EXCEPT !.text = TextOf(jobs[j])]
<1>1. /\ j \in DOMAIN jobs /\ jobs[j] \in JobRecord /\ JobGood(jobs[j]) /\ jobs[j].state # "COMPLETED"
      /\ OpenOf(jobs[j]) = {}
  BY JobIsGood DEF At, SchedulerKnows, Stage
<1>2. jobs' = [jobs EXCEPT ![j] = c]
  BY <1>1, ReadAsValue DEF Merge
<1>3. scheduler' = [at |-> "finish", job |-> j]
  BY DEF Merge, Go, At
<1>4. /\ JobStep(jobs[j], c) /\ c.state = jobs[j].state /\ c.asked = jobs[j].asked
      /\ c.checks = jobs[j].checks /\ c.plan = jobs[j].plan /\ c.text = TextOf(c)
  BY <1>1, WithText
<1> HIDE DEF c
<1>5. Stage("finish", c)
  BY <1>1, <1>4, SameWork DEF Stage
<1> QED BY <1>1, <1>2, <1>3, <1>4, <1>5 DEF Stays, Changes, Working

LEMMA RunEffect ==
    ASSUME NEW j, NEW at, At(j, at), Run(j)
    PROVE  (\E c, to : Stays(j, c, to)) \/ (\E c : Ends(j, c))
<1>1. scheduler.at = at
  BY DEF At
<1>2. CASE SeeCancel(j)
  BY <1>2, SettleEnds DEF SeeCancel, Terminal
<1>3. CASE Loop(j)
  BY <1>1, <1>3, LoopEffect DEF Loop
<1>4. CASE Infer(j)
  BY <1>1, <1>4, InferEffect DEF Infer
<1>5. CASE Merge(j)
  BY <1>1, <1>5, MergeEffect DEF Merge
<1>6. CASE Finish(j)
  <2>1. at = "finish"
    BY <1>1, <1>6 DEF Finish
  <2>2. OpenOf(jobs[j]) = {} /\ jobs[j].text = TextOf(jobs[j])
    BY <2>1 DEF At, SchedulerKnows, Stage
  <2>3. CASE j \in events
    BY <1>6, <2>3, SettleEnds DEF Finish, Terminal
  <2>4. CASE j \notin events
    BY <1>6, <2>2, <2>4, SettleEnds DEF Finish, Terminal
  <2> QED BY <2>3, <2>4
<1> QED BY <1>2, <1>3, <1>4, <1>5, <1>6 DEF Run

LEMMA ClaimEffect ==
    ASSUME NEW j, At(j, "taken"), Claim(j)
    PROVE  (\E c : Stays(j, c, "loop")) \/ Leaves
<1>1. CASE ~(Readable(j) /\ ~Ended(j))
  BY <1>1 DEF Claim, Leave, Leaves
<1>2. CASE Readable(j) /\ ~Ended(j)
  <2>1. jobs' = [jobs EXCEPT ![j].state = "RUNNING"] /\ scheduler' = [at |-> "loop", job |-> j]
    BY <1>2 DEF Claim, Go, At
  <2>2. PICK c : /\ Changes(j, c) /\ c.state = "RUNNING" /\ c.asked = jobs[j].asked
                 /\ SameWindows(jobs[j], c)
    BY <1>2, <2>1, StateChanges DEF At, JobStates
  <2>3. Stage("loop", c) /\ c.state \notin Terminal /\ jobs[j].state \notin Terminal
    BY <1>2, <2>2 DEF Stage, Terminal, Ended
  <2>4. Stays(j, c, "loop")
    BY <2>1, <2>2, <2>3 DEF Stays, Working
  <2> QED BY <2>4
<1> QED BY <1>1, <1>2

LEMMA BreakEffect ==
    ASSUME NEW j, NEW at, At(j, at), Break(j)
    PROVE  /\ (\E c : Ends(j, c)) \/ Leaves
           /\ stranded' \subseteq DOMAIN jobs
<1>1. scheduler' = NoJob /\ j \in DOMAIN jobs /\ stranded \subseteq DOMAIN jobs
  BY DEF Break, Leave, At, WorkerShape
<1>2. CASE jobs' = jobs /\ stranded' = IF Ended(j) THEN stranded ELSE stranded \cup {j}
  BY <1>1, <1>2 DEF Leaves
<1>3. CASE ~Ended(j) /\ jobs' = [jobs EXCEPT ![j].state = "FAILED"] /\ stranded' = stranded
  <2>1. Settle(j, "FAILED")
    BY <1>1, <1>3 DEF Settle, Leave, NoJob
  <2>2. \E c : Ends(j, c)
    BY <2>1, SettleEnds DEF Terminal
  <2> QED BY <1>1, <1>3, <2>2
<1> QED BY <1>2, <1>3 DEF Break

--------------------------------------------------------------------------------
(* The worker keeps its invariant.                                          *)

LEMMA StaysInv ==
    ASSUME WorkerInv, NEW j, NEW c, NEW at, Stays(j, c, at), scheduler.job = j,
           UNCHANGED <<queue, events, acked, changed, recording>>, stranded' \subseteq DOMAIN jobs
    PROVE  WorkerInv'
<1>1. WorkerShape /\ JobsGood /\ CancelsKept /\ Changes(j, c)
  BY DEF WorkerInv, Stays
<1>2. /\ jobs' \in Seq(JobRecord) /\ DOMAIN jobs' = DOMAIN jobs
      /\ jobs'[j] = c
      /\ \A k \in DOMAIN jobs : k # j => jobs'[k] = jobs[k]
      /\ JobsGood'
  BY <1>1, OthersKept
<1>3. j \in DOMAIN jobs /\ scheduler' = [at |-> at, job |-> j] /\ at \in Working /\ Stage(at, c)
  BY DEF Stays, Changes
<1>4. DOMAIN jobs \subseteq Nat
  BY <1>1 DEF WorkerShape
<1>5. WorkerShape'
  BY <1>1, <1>2, <1>3, <1>4 DEF WorkerShape, Working
<1>6. SchedulerKnows'
  BY <1>2, <1>3 DEF SchedulerKnows
<1>7. c.asked = jobs[j].asked /\ (c.state \in Terminal <=> jobs[j].state \in Terminal) /\ c.state # "COMPLETED"
  BY <1>3 DEF Stays, Stage, Working
<1>8. \A i \in acked' : jobs'[i].state # "COMPLETED" /\ (jobs'[i].asked \/ jobs'[i].state \in Terminal)
  <2> TAKE i \in acked'
  <2>1. i \in DOMAIN jobs /\ i \in acked
    BY <1>1 DEF WorkerShape
  <2>2. jobs[i].state # "COMPLETED" /\ (jobs[i].asked \/ jobs[i].state \in Terminal)
    BY <1>1, <2>1 DEF CancelsKept, Ended
  <2>3. CASE i = j
    BY <1>2, <1>7, <2>2, <2>3
  <2>4. CASE i # j
    BY <1>2, <2>1, <2>2, <2>4
  <2> QED BY <2>3, <2>4
<1>9. \A k \in DOMAIN jobs' :
         jobs'[k].asked => \/ jobs'[k].state \in Terminal \/ k \in events'
                           \/ (k \notin ToSet(queue') /\ scheduler'.job # k)
  <2> TAKE k \in DOMAIN jobs'
  <2>1. k \in DOMAIN jobs
    BY <1>2
  <2>2. jobs[k].asked => \/ jobs[k].state \in Terminal \/ k \in events
                         \/ (k \notin ToSet(queue) /\ scheduler.job # k)
    BY <1>1, <2>1 DEF CancelsKept, Ended
  <2>3. (jobs'[k].asked <=> jobs[k].asked) /\ (jobs'[k].state \in Terminal <=> jobs[k].state \in Terminal)
    BY <1>2, <1>7, <2>1
  <2>4. scheduler'.job = scheduler.job /\ queue' = queue /\ events' = events
    BY <1>3
  <2> QED BY <2>2, <2>3, <2>4
<1>10. CancelsKept'
  BY <1>8, <1>9 DEF CancelsKept, Ended
<1> QED BY <1>2, <1>5, <1>6, <1>10 DEF WorkerInv

LEMMA EndsInv ==
    ASSUME WorkerInv, NEW j, NEW c, Ends(j, c), scheduler.job = j,
           UNCHANGED <<queue, events, acked, changed, recording>>, stranded' \subseteq DOMAIN jobs
    PROVE  WorkerInv'
<1>1. WorkerShape /\ JobsGood /\ CancelsKept /\ Changes(j, c)
  BY DEF WorkerInv, Ends
<1>2. /\ jobs' \in Seq(JobRecord) /\ DOMAIN jobs' = DOMAIN jobs
      /\ jobs'[j] = c
      /\ \A k \in DOMAIN jobs : k # j => jobs'[k] = jobs[k]
      /\ JobsGood'
  BY <1>1, OthersKept
<1>3. j \in DOMAIN jobs /\ scheduler' = [at |-> "idle", job |-> 0]
  BY DEF Ends, Changes, NoJob
<1>4. DOMAIN jobs \subseteq Nat \ {0}
  BY <1>1 DEF WorkerShape
<1>5. WorkerShape'
  BY <1>1, <1>2, <1>3, <1>4 DEF WorkerShape
<1>6. SchedulerKnows'
  BY <1>2, <1>3, <1>4 DEF SchedulerKnows
<1>7. /\ c.asked = jobs[j].asked /\ c.state \in Terminal /\ jobs[j].state \notin Terminal
      /\ c.state = "COMPLETED" => j \notin events
  BY DEF Ends
<1>8. \A i \in acked' : jobs'[i].state # "COMPLETED" /\ (jobs'[i].asked \/ jobs'[i].state \in Terminal)
  <2> TAKE i \in acked'
  <2>1. i \in DOMAIN jobs /\ i \in acked
    BY <1>1 DEF WorkerShape
  <2>2. jobs[i].state # "COMPLETED" /\ (jobs[i].asked \/ jobs[i].state \in Terminal)
    BY <1>1, <2>1 DEF CancelsKept, Ended
  <2>3. CASE i = j
    <3>1. jobs[j].asked /\ j \in events
      BY <1>1, <1>3, <1>7, <2>2, <2>3 DEF CancelsKept, Ended
    <3> QED BY <1>2, <1>7, <2>3, <3>1
  <2>4. CASE i # j
    BY <1>2, <2>1, <2>2, <2>4
  <2> QED BY <2>3, <2>4
<1>9. \A k \in DOMAIN jobs' :
         jobs'[k].asked => \/ jobs'[k].state \in Terminal \/ k \in events'
                           \/ (k \notin ToSet(queue') /\ scheduler'.job # k)
  <2> TAKE k \in DOMAIN jobs'
  <2>1. k \in DOMAIN jobs
    BY <1>2
  <2>2. jobs[k].asked => \/ jobs[k].state \in Terminal \/ k \in events
                         \/ (k \notin ToSet(queue) /\ scheduler.job # k)
    BY <1>1, <2>1 DEF CancelsKept, Ended
  <2>3. k # j => jobs'[k] = jobs[k]
    BY <1>2, <2>1
  <2>4. scheduler'.job # k /\ queue' = queue /\ events' = events
    BY <1>3, <1>4, <2>1
  <2> QED BY <1>2, <1>7, <2>2, <2>3, <2>4
<1>10. CancelsKept'
  BY <1>8, <1>9 DEF CancelsKept, Ended
<1> QED BY <1>2, <1>5, <1>6, <1>10 DEF WorkerInv

LEMMA LeavesInv ==
    ASSUME WorkerInv, Leaves,
           UNCHANGED <<queue, events, acked, changed, recording>>, stranded' \subseteq DOMAIN jobs
    PROVE  WorkerInv'
<1>1. WorkerShape /\ JobsGood /\ CancelsKept
  BY DEF WorkerInv
<1>2. jobs' = jobs /\ scheduler' = [at |-> "idle", job |-> 0]
  BY DEF Leaves, NoJob
<1>3. DOMAIN jobs \subseteq Nat \ {0}
  BY <1>1 DEF WorkerShape
<1>4. WorkerShape'
  BY <1>1, <1>2 DEF WorkerShape
<1>5. JobsGood'
  BY <1>1, <1>2 DEF JobsGood
<1>6. SchedulerKnows'
  BY <1>2, <1>3 DEF SchedulerKnows
<1>7. CancelsKept'
  BY <1>1, <1>2, <1>3 DEF CancelsKept, Ended
<1> QED BY <1>4, <1>5, <1>6, <1>7 DEF WorkerInv

LEMMA TakeInv ==
    ASSUME WorkerInv, Take, UNCHANGED <<stranded, events, acked, changed, recording>>
    PROVE  WorkerInv'
<1>1. WorkerShape /\ JobsGood /\ CancelsKept
  BY DEF WorkerInv
<1>2. /\ jobs' = jobs /\ scheduler' = [at |-> "taken", job |-> Head(queue)] /\ queue' = Tail(queue)
      /\ queue # <<>> /\ queue \in Seq(DOMAIN jobs)
  BY <1>1 DEF Take, WorkerShape
<1>3. Head(queue) \in DOMAIN jobs /\ Tail(queue) \in Seq(DOMAIN jobs)
  BY <1>2
<1>4. Head(queue) \in ToSet(queue) /\ ToSet(Tail(queue)) \subseteq ToSet(queue)
  BY <1>2 DEF ToSet
<1>5. DOMAIN jobs \subseteq Nat
  BY <1>1 DEF WorkerShape
<1>6. WorkerShape'
  BY <1>1, <1>2, <1>3, <1>5 DEF WorkerShape
<1>7. JobsGood'
  BY <1>1, <1>2 DEF JobsGood
<1>8. SchedulerKnows'
  BY <1>2 DEF SchedulerKnows, Stage
<1>9. CancelsKept'
  BY <1>1, <1>2, <1>4 DEF CancelsKept, Ended
<1> QED BY <1>6, <1>7, <1>8, <1>9 DEF WorkerInv

\* A step that changes one job at most.
OneChange == jobs' = jobs \/ \E j, c : Changes(j, c)

LEMMA ScheduleInv == ASSUME WorkerInv, Schedule PROVE WorkerInv' /\ OneChange
<1>1. UNCHANGED <<events, acked, changed, troubles, recording>>
  BY DEF Schedule
<1>2. WorkerShape /\ JobsGood /\ SchedulerKnows /\ stranded \subseteq DOMAIN jobs
  BY DEF WorkerInv, WorkerShape
<1>3. ASSUME scheduler.at # "idle" PROVE At(scheduler.job, scheduler.at)
  <2>1. scheduler = [at |-> scheduler.at, job |-> scheduler.job] /\ scheduler.job \in DOMAIN jobs
    BY <1>2, <1>3 DEF WorkerShape
  <2> QED BY <1>2, <2>1 DEF At
<1>4. CASE Take /\ UNCHANGED stranded
  BY <1>1, <1>4, TakeInv DEF Take, OneChange
<1>5. CASE Claim(scheduler.job) /\ UNCHANGED <<queue, stranded>>
  <2>1. scheduler.at = "taken"
    BY <1>5 DEF Claim
  <2>2. (\E c : Stays(scheduler.job, c, "loop")) \/ Leaves
    BY <1>3, <1>5, <2>1, ClaimEffect
  <2>3. queue' = queue /\ stranded' \subseteq DOMAIN jobs
    BY <1>2, <1>5
  <2> QED BY <1>1, <2>2, <2>3, StaysInv, LeavesInv DEF Stays, Leaves, OneChange
<1>6. CASE Readable(scheduler.job) /\ Run(scheduler.job) /\ UNCHANGED <<queue, stranded>>
  <2>1. scheduler.at # "idle"
    BY <1>6 DEF Run, SeeCancel, Loop, Infer, Merge, Finish
  <2>2. (\E c, to : Stays(scheduler.job, c, to)) \/ (\E c : Ends(scheduler.job, c))
    BY <1>3, <1>6, <2>1, RunEffect
  <2>3. queue' = queue /\ stranded' \subseteq DOMAIN jobs
    BY <1>2, <1>6
  <2> QED BY <1>1, <2>2, <2>3, StaysInv, EndsInv DEF Stays, Ends, OneChange
<1>7. CASE Break(scheduler.job) /\ UNCHANGED queue
  <2>1. scheduler.at # "idle"
    BY <1>7 DEF Break
  <2>2. (\E c : Ends(scheduler.job, c)) \/ Leaves
    BY <1>3, <1>7, <2>1, BreakEffect
  <2>3. stranded' \subseteq DOMAIN jobs
    BY <1>3, <1>7, <2>1, BreakEffect
  <2> QED BY <1>1, <1>7, <2>2, <2>3, EndsInv, LeavesInv DEF Ends, Leaves, OneChange
<1> QED BY <1>4, <1>5, <1>6, <1>7 DEF Schedule

LEMMA CancelInv == ASSUME WorkerInv, NEW j \in DOMAIN jobs, Cancel(j) PROVE WorkerInv' /\ OneChange
<1>1. WorkerShape /\ JobsGood /\ SchedulerKnows /\ CancelsKept
  BY DEF WorkerInv
<1>2. /\ events' = events \cup {j} /\ acked' = acked \cup {j} /\ ~Ended(j)
      /\ queue' = queue /\ scheduler' = scheduler /\ stranded' = stranded /\ changed' = changed
      /\ recording' = recording
  BY DEF Cancel
<1>3. \E c : /\ Changes(j, c) /\ SameWindows(jobs[j], c) /\ c.state # "COMPLETED"
             /\ c.asked \/ c.state \in Terminal
             /\ c.asked => jobs[j].asked \/ j \in events'
  <2>1. CASE Active(j)
    <3>1. jobs' = [jobs EXCEPT ![j].asked = TRUE]
      BY <2>1 DEF Cancel
    <3>2. PICK c : Changes(j, c) /\ c.state = jobs[j].state /\ c.asked /\ SameWindows(jobs[j], c)
      BY <1>1, <3>1, AskedChanges
    <3> QED BY <1>2, <3>2 DEF Ended, Terminal
  <2>2. CASE ~Active(j)
    <3>1. jobs' = [jobs EXCEPT ![j].state = "CANCELLED"]
      BY <2>2 DEF Cancel
    <3>2. PICK c : /\ Changes(j, c) /\ c.state = "CANCELLED" /\ c.asked = jobs[j].asked
                   /\ SameWindows(jobs[j], c)
      BY <1>1, <1>2, <3>1, StateChanges DEF JobStates, Settled, Terminal
    <3> QED BY <1>2, <3>2 DEF Terminal
  <2> QED BY <2>1, <2>2
<1>4. PICK c : /\ Changes(j, c) /\ SameWindows(jobs[j], c) /\ c.state # "COMPLETED"
               /\ c.asked \/ c.state \in Terminal
               /\ c.asked => jobs[j].asked \/ j \in events'
  BY <1>3
<1>5. /\ jobs' \in Seq(JobRecord) /\ DOMAIN jobs' = DOMAIN jobs
      /\ jobs'[j] = c
      /\ \A k \in DOMAIN jobs : k # j => jobs'[k] = jobs[k]
      /\ JobsGood'
  BY <1>1, <1>4, OthersKept
<1>6. WorkerShape'
  BY <1>1, <1>2, <1>5 DEF WorkerShape
<1>7. \A k \in DOMAIN jobs : scheduler.job = k => Stage(scheduler.at, jobs'[k])
  <2> SUFFICES ASSUME NEW k \in DOMAIN jobs, scheduler.job = k PROVE Stage(scheduler.at, jobs'[k])
    OBVIOUS
  <2>1. Stage(scheduler.at, jobs[k])
    BY <1>1 DEF SchedulerKnows
  <2>2. CASE k = j
    <3>1. TextOf(c) = TextOf(jobs[j]) /\ OpenOf(c) = OpenOf(jobs[j]) /\ FirstOf(c) = FirstOf(jobs[j])
          /\ c.checks = jobs[j].checks /\ c.text = jobs[j].text
      BY <1>4, SameWork DEF SameWindows
    <3> QED BY <1>4, <1>5, <2>1, <2>2, <3>1 DEF Stage
  <2>3. CASE k # j
    BY <1>5, <2>1, <2>3
  <2> QED BY <2>2, <2>3
<1>8. SchedulerKnows'
  BY <1>2, <1>5, <1>7 DEF SchedulerKnows
<1>9. \A i \in acked' : jobs'[i].state # "COMPLETED" /\ (jobs'[i].asked \/ jobs'[i].state \in Terminal)
  <2> TAKE i \in acked'
  <2>1. CASE i = j
    BY <1>4, <1>5, <2>1
  <2>2. CASE i # j
    BY <1>1, <1>2, <1>5, <2>2 DEF CancelsKept, Ended, WorkerShape
  <2> QED BY <2>1, <2>2
<1>10. \A k \in DOMAIN jobs' :
          jobs'[k].asked => \/ jobs'[k].state \in Terminal \/ k \in events'
                            \/ (k \notin ToSet(queue') /\ scheduler'.job # k)
  <2> TAKE k \in DOMAIN jobs'
  <2>1. CASE k = j
    BY <1>2, <2>1
  <2>2. CASE k # j
    <3>1. jobs'[k] = jobs[k] /\ k \in DOMAIN jobs
      BY <1>5, <2>2
    <3> QED BY <1>1, <1>2, <3>1 DEF CancelsKept, Ended
  <2> QED BY <2>1, <2>2
<1>11. CancelsKept'
  BY <1>9, <1>10 DEF CancelsKept, Ended
<1> QED BY <1>4, <1>5, <1>6, <1>8, <1>11 DEF WorkerInv, OneChange

LEMMA ResumeInv == ASSUME WorkerInv, NEW j \in DOMAIN jobs, Resume(j) PROVE WorkerInv' /\ OneChange
<1>1. WorkerShape /\ JobsGood /\ SchedulerKnows /\ CancelsKept
  BY DEF WorkerInv
<1>2. /\ ~Ended(j)
      /\ scheduler' = scheduler /\ acked' = acked /\ stranded' = stranded /\ changed' = changed
      /\ recording' = recording
  BY DEF Resume
<1>3. CASE jobs[j].asked
  <2>1. queue' = queue /\ events' = events /\ jobs' = [jobs EXCEPT ![j].state = "CANCELLED"]
    BY <1>3 DEF Resume
  <2>2. PICK c : /\ Changes(j, c) /\ c.state = "CANCELLED" /\ c.asked = jobs[j].asked
                 /\ SameWindows(jobs[j], c)
    BY <1>1, <1>2, <2>1, StateChanges DEF JobStates, Settled, Terminal
  <2>3. /\ jobs' \in Seq(JobRecord) /\ DOMAIN jobs' = DOMAIN jobs
        /\ jobs'[j] = c
        /\ \A k \in DOMAIN jobs : k # j => jobs'[k] = jobs[k]
        /\ JobsGood'
    BY <1>1, <2>2, OthersKept
  <2>4. WorkerShape'
    BY <1>1, <1>2, <2>1, <2>3 DEF WorkerShape
  <2>5. \A k \in DOMAIN jobs : scheduler.job = k => Stage(scheduler.at, jobs'[k])
    <3> SUFFICES ASSUME NEW k \in DOMAIN jobs, scheduler.job = k PROVE Stage(scheduler.at, jobs'[k])
      OBVIOUS
    <3>1. Stage(scheduler.at, jobs[k])
      BY <1>1 DEF SchedulerKnows
    <3>2. CASE k = j
      <4>1. TextOf(c) = TextOf(jobs[j]) /\ OpenOf(c) = OpenOf(jobs[j]) /\ FirstOf(c) = FirstOf(jobs[j])
            /\ c.checks = jobs[j].checks /\ c.text = jobs[j].text
        BY <2>2, SameWork DEF SameWindows
      <4> QED BY <2>2, <2>3, <3>1, <3>2, <4>1 DEF Stage
    <3>3. CASE k # j
      BY <2>3, <3>1, <3>3
    <3> QED BY <3>2, <3>3
  <2>6. SchedulerKnows'
    BY <1>2, <2>3, <2>5 DEF SchedulerKnows
  <2>7. \A k \in DOMAIN jobs : /\ jobs[k].state # "COMPLETED" => jobs'[k].state # "COMPLETED"
                               /\ jobs[k].state \in Terminal => jobs'[k].state \in Terminal
                               /\ jobs'[k].asked = jobs[k].asked
    BY <2>2, <2>3 DEF Terminal
  <2>8. CancelsKept'
    BY <1>1, <1>2, <2>1, <2>3, <2>7 DEF CancelsKept, Ended, WorkerShape
  <2> QED BY <2>2, <2>3, <2>4, <2>6, <2>8 DEF WorkerInv, OneChange
<1>4. CASE ~jobs[j].asked
  <2>1. queue' = Append(queue, j) /\ events' = events \ {j} /\ jobs' = jobs
    BY <1>4 DEF Resume
  <2>2. queue \in Seq(DOMAIN jobs)
    BY <1>1 DEF WorkerShape
  <2>3. queue' \in Seq(DOMAIN jobs)
    BY <2>1, <2>2
  <2>4. \A k : k \in ToSet(queue') => k \in ToSet(queue) \/ k = j
    BY <2>1, <2>2 DEF ToSet
  <2>5. WorkerShape'
    BY <1>1, <1>2, <2>1, <2>3 DEF WorkerShape
  <2>6. JobsGood' /\ SchedulerKnows'
    BY <1>1, <1>2, <2>1 DEF JobsGood, SchedulerKnows
  <2>7. CancelsKept'
    BY <1>1, <1>2, <1>4, <2>1, <2>4 DEF CancelsKept, Ended
  <2> QED BY <2>1, <2>5, <2>6, <2>7 DEF WorkerInv, OneChange
<1> QED BY <1>3, <1>4

LEMMA ChangeAudioInv == ASSUME WorkerInv, ChangeAudio PROVE WorkerInv' /\ OneChange
<1>1. WorkerShape /\ JobsGood /\ SchedulerKnows /\ CancelsKept
  BY DEF WorkerInv
<1>2. /\ changed' = DOMAIN jobs
      /\ UNCHANGED <<jobs, queue, scheduler, events, acked, stranded, recording>>
  BY DEF ChangeAudio
<1>3. WorkerShape'
  BY <1>1, <1>2 DEF WorkerShape
<1>4. JobsGood' /\ SchedulerKnows'
  BY <1>1, <1>2 DEF JobsGood, SchedulerKnows
<1>5. CancelsKept'
  BY <1>1, <1>2 DEF CancelsKept, Ended
<1> QED BY <1>2, <1>3, <1>4, <1>5 DEF WorkerInv, OneChange

LEMMA UnchangedInv == ASSUME WorkerInv, UNCHANGED workerVars PROVE WorkerInv'
<1>1. WorkerShape /\ JobsGood /\ SchedulerKnows /\ CancelsKept
  BY DEF WorkerInv
<1>2. UNCHANGED <<jobs, queue, scheduler, events, acked, stranded, changed, recording>>
  BY DEF workerVars
<1>3. WorkerShape'
  BY <1>1, <1>2 DEF WorkerShape
<1>4. JobsGood' /\ SchedulerKnows'
  BY <1>1, <1>2 DEF JobsGood, SchedulerKnows
<1>5. CancelsKept'
  BY <1>1, <1>2 DEF CancelsKept, Ended
<1> QED BY <1>3, <1>4, <1>5 DEF WorkerInv

LEMMA NewJobIsGood ==
    ASSUME recording \in Recordings
    PROVE  /\ Job \in JobRecord /\ JobGood(Job)
           /\ Job.state = "QUEUED" /\ Job.asked = FALSE /\ TextOf(Job) = {}
<1>1. /\ Job.state = "QUEUED" /\ Job.asked = FALSE /\ Job.checks = <<>> /\ Job.text = {}
      /\ Job.plan = recording.plan
  BY DEF Job
<1>2. DOMAIN Job.checks = {}
  BY <1>1
<1>3. <<>> \in Checks
  <2>1. <<>> \in [{} -> Results]
    OBVIOUS
  <2> QED BY <2>1, ChecksAre
<1>4. /\ recording.plan \subseteq Windows /\ \A w \in recording.plan : w.pieces # {}
      /\ UNION {w.pieces : w \in recording.plan} = Pieces
  BY MossAssumption
<1>5. Job \in JobRecord
  BY <1>3, <1>4 DEF Job, JobRecord, JobStates
<1>6. \A x : Found(Job, x) = {}
  BY <1>2 DEF Found
<1>7. TextOf(Job) = {}
  BY <1>6 DEF TextOf
<1>8. Planned(Job)
  BY <1>1, <1>4 DEF Planned
<1>9. CrashesCounted(Job)
  BY <1>2, <1>6, FS_EmptySet DEF CrashesCounted
<1> QED BY <1>1, <1>5, <1>7, <1>8, <1>9 DEF JobGood, EndIsWhole

LEMMA NewJobInv ==
    ASSUME WorkerInv, NewJob
    PROVE  WorkerInv' /\ jobs' = Append(jobs, Job) /\ jobs \in Seq(JobRecord)
<1> DEFINE n == Len(jobs) + 1
<1>1. WorkerShape /\ JobsGood /\ SchedulerKnows /\ CancelsKept
  BY DEF WorkerInv
<1>2. /\ jobs' = Append(jobs, Job) /\ queue' = Append(queue, n)
      /\ UNCHANGED <<scheduler, events, acked, stranded, changed, recording>>
  BY DEF NewJob
<1>3. jobs \in Seq(JobRecord) /\ queue \in Seq(DOMAIN jobs) /\ recording \in Recordings
  BY <1>1 DEF WorkerShape
<1>4. /\ Job \in JobRecord /\ JobGood(Job)
      /\ Job.state = "QUEUED" /\ Job.asked = FALSE
  BY <1>3, NewJobIsGood
<1>5. /\ jobs' \in Seq(JobRecord) /\ DOMAIN jobs' = DOMAIN jobs \cup {n} /\ n \notin DOMAIN jobs
      /\ jobs'[n] = Job /\ \A k \in DOMAIN jobs : jobs'[k] = jobs[k]
  BY <1>2, <1>3, <1>4
<1>6. queue' \in Seq(DOMAIN jobs')
  <2>1. queue \in Seq(DOMAIN jobs')
    BY <1>3, <1>5
  <2> QED BY <1>2, <1>5, <2>1
<1>7. \A k : k \in ToSet(queue') => k \in ToSet(queue) \/ k = n
  BY <1>2, <1>3 DEF ToSet
<1> HIDE DEF n
<1>8. WorkerShape'
  BY <1>1, <1>2, <1>5, <1>6 DEF WorkerShape
<1>9. JobsGood'
  BY <1>1, <1>4, <1>5 DEF JobsGood
<1>10. SchedulerKnows'
  <2>1. scheduler.at = "idle" \/ (scheduler.job # n /\ scheduler.job \in DOMAIN jobs)
    BY <1>1, <1>5 DEF WorkerShape
  <2>2. \A b : Stage("idle", b)
    BY DEF Stage
  <2> QED BY <1>1, <1>2, <1>5, <2>1, <2>2 DEF SchedulerKnows
<1>11. CancelsKept'
  BY <1>1, <1>2, <1>4, <1>5, <1>7 DEF CancelsKept, Ended, WorkerShape
<1> QED BY <1>2, <1>3, <1>8, <1>9, <1>10, <1>11 DEF WorkerInv

\* Every job is marked, and none goes on.
Marks ==
    /\ jobs' \in Seq(JobRecord) /\ DOMAIN jobs' = DOMAIN jobs
    /\ \A k \in DOMAIN jobs :
          /\ JobStep(jobs[k], jobs'[k]) /\ SameWindows(jobs[k], jobs'[k])
          /\ jobs'[k].state \in Terminal <=> jobs[k].state \in Terminal
          /\ jobs'[k].asked = jobs[k].asked

LEMMA RecoveredMarks ==
    ASSUME WorkerShape, JobsGood, jobs' = [j \in DOMAIN jobs |-> Recovered(j)] PROVE Marks
<1>1. ASSUME NEW k \in DOMAIN jobs
      PROVE  /\ JobStep(jobs[k], Recovered(k)) /\ SameWindows(jobs[k], Recovered(k))
             /\ Recovered(k).state \in Terminal <=> jobs[k].state \in Terminal
             /\ Recovered(k).asked = jobs[k].asked
  <2>1. jobs[k] \in JobRecord /\ JobGood(jobs[k])
    BY <1>1, JobIsGood
  <2>2. CASE Recovered(k) = jobs[k]
    BY <2>1, <2>2, NoStep DEF SameWindows
  <2>3. CASE jobs[k].state \notin Terminal /\ Recovered(k) = [jobs[k] EXCEPT !.state = "RECOVERY_REQUIRED"]
    <3> DEFINE c == Recovered(k)
    <3>1. c = [jobs[k] EXCEPT !.state = "RECOVERY_REQUIRED"]
      BY <2>3
    <3> HIDE DEF c
    <3>2. JobStep(jobs[k], c) /\ c.state = "RECOVERY_REQUIRED" /\ c.asked = jobs[k].asked /\ SameWindows(jobs[k], c)
      BY <2>1, <2>3, <3>1, WithState DEF JobStates, Settled
    <3> QED BY <2>3, <3>2 DEF c, Terminal
  <2> QED BY <2>2, <2>3 DEF Recovered, Ended
<1>2. jobs \in Seq(JobRecord)
  BY DEF WorkerShape
<1>3. \A k \in DOMAIN jobs : Recovered(k) \in JobRecord
  BY <1>1 DEF JobStep
<1>4. jobs' \in Seq(JobRecord) /\ DOMAIN jobs' = DOMAIN jobs
  BY <1>2, <1>3
<1>5. \A k \in DOMAIN jobs : jobs'[k] = Recovered(k)
  OBVIOUS
<1> QED BY <1>1, <1>4, <1>5 DEF Marks

LEMMA RestartWorkerInv == ASSUME WorkerInv, RestartWorker PROVE WorkerInv' /\ Marks
<1>1. WorkerShape /\ JobsGood /\ CancelsKept
  BY DEF WorkerInv
<1>2. /\ jobs' = [j \in DOMAIN jobs |-> Recovered(j)]
      /\ queue' = <<>> /\ scheduler' = [at |-> "idle", job |-> 0] /\ events' = {}
      /\ UNCHANGED <<acked, stranded, changed, recording>>
  BY DEF RestartWorker, NoJob
<1>3. Marks
  BY <1>1, <1>2, RecoveredMarks
<1>4. DOMAIN jobs' = DOMAIN jobs /\ jobs' \in Seq(JobRecord) /\ DOMAIN jobs \subseteq Nat \ {0}
  BY <1>1, <1>3 DEF Marks, WorkerShape
<1>5. WorkerShape'
  BY <1>1, <1>2, <1>4 DEF WorkerShape
<1>6. JobsGood'
  BY <1>3, <1>4 DEF JobsGood, Marks, JobStep
<1>7. SchedulerKnows'
  BY <1>2, <1>4 DEF SchedulerKnows
<1>8. \A i \in acked' : jobs'[i].state # "COMPLETED" /\ (jobs'[i].asked \/ jobs'[i].state \in Terminal)
  <2> TAKE i \in acked'
  <2>1. i \in DOMAIN jobs /\ jobs[i].state # "COMPLETED" /\ (jobs[i].asked \/ jobs[i].state \in Terminal)
    BY <1>1, <1>2 DEF CancelsKept, Ended, WorkerShape
  <2>2. /\ JobStep(jobs[i], jobs'[i])
        /\ jobs'[i].state \in Terminal <=> jobs[i].state \in Terminal
        /\ jobs'[i].asked = jobs[i].asked
    BY <1>3, <2>1 DEF Marks
  <2> QED BY <2>1, <2>2 DEF JobStep, Terminal
<1>9. CancelsKept'
  <2>1. ToSet(queue') = {}
    BY <1>2 DEF ToSet
  <2>2. \A k \in DOMAIN jobs' : k \notin ToSet(queue') /\ scheduler'.job # k
    BY <1>2, <1>4, <2>1
  <2> QED BY <1>8, <2>2 DEF CancelsKept, Ended
<1> QED BY <1>3, <1>5, <1>6, <1>7, <1>9 DEF WorkerInv

--------------------------------------------------------------------------------
(* The application keeps its invariant.                                     *)

\* No job goes back.
Onward ==
    /\ DOMAIN jobs \subseteq DOMAIN jobs'
    /\ \A k \in DOMAIN jobs : JobStep(jobs[k], jobs'[k])

LEMMA OnwardHolds ==
    ASSUME WorkerInv, OneChange \/ Marks \/ (NewJob /\ jobs' = Append(jobs, Job))
    PROVE  Onward
<1>1. WorkerShape /\ JobsGood /\ jobs \in Seq(JobRecord)
  BY DEF WorkerInv, WorkerShape
<1>2. \A k \in DOMAIN jobs : JobStep(jobs[k], jobs[k])
  BY <1>1, JobIsGood, NoStep
<1>3. CASE jobs' = jobs
  BY <1>2, <1>3 DEF Onward
<1>4. ASSUME NEW j, NEW c, Changes(j, c) PROVE Onward
  BY <1>1, <1>4, OthersKept DEF Onward
<1>5. CASE Marks
  BY <1>5 DEF Marks, Onward
<1>6. CASE jobs' = Append(jobs, Job)
  <2>1. DOMAIN jobs \subseteq DOMAIN jobs' /\ \A k \in DOMAIN jobs : jobs'[k] = jobs[k]
    BY <1>1, <1>6
  <2> QED BY <1>2, <2>1 DEF Onward
<1> QED BY <1>3, <1>4, <1>5, <1>6 DEF OneChange

LEMMA RowKept ==
    ASSUME Onward, NEW row, RowGood(row, jobs)
    PROVE  RowGood(row, jobs')
<1>1. row.job \in DOMAIN jobs /\ row.job \in DOMAIN jobs' /\ JobStep(jobs[row.job], jobs'[row.job])
  BY DEF Onward, RowGood
<1>2. /\ TextOf(jobs[row.job]) \subseteq TextOf(jobs'[row.job])
      /\ jobs[row.job].state = "COMPLETED" => jobs'[row.job].state = "COMPLETED"
  BY <1>1 DEF JobStep, Terminal
<1> QED BY <1>1, <1>2 DEF RowGood

\* What the rows show, and what was read for one of them, is still there.
LEMMA RowsKept ==
    ASSUME AppInv, Onward, UNCHANGED <<rows, poll>>
    PROVE  (\A r \in DOMAIN rows' : RowGood(rows'[r], jobs')) /\ PollGood'
<1>1. \A r \in DOMAIN rows' : RowGood(rows'[r], jobs')
  BY RowKept DEF AppInv
<1>2. PollGood'
  <2> SUFFICES ASSUME poll # NoPoll
               PROVE  /\ poll.row \in DOMAIN rows /\ poll.state \in JobStates
                      /\ rows[poll.row].state \notin Settled
                      /\ poll.text = {} \/ rows[poll.row].text \subseteq poll.text
                      /\ poll.text \subseteq TextOf(jobs'[rows[poll.row].job])
                      /\ poll.state = "COMPLETED" =>
                            poll.text = Pieces /\ jobs'[rows[poll.row].job].state = "COMPLETED"
    BY DEF PollGood
  <2> DEFINE j == rows[poll.row].job
  <2>1. j \in DOMAIN jobs /\ poll.row \in DOMAIN rows
    BY DEF AppInv, PollGood, RowGood
  <2>2. JobStep(jobs[j], jobs'[j])
    BY <2>1 DEF Onward
  <2>3. /\ TextOf(jobs[j]) \subseteq TextOf(jobs'[j])
        /\ jobs[j].state = "COMPLETED" => jobs'[j].state = "COMPLETED"
    BY <2>2 DEF JobStep, Terminal
  <2> QED BY <2>3 DEF AppInv, PollGood
<1> QED BY <1>1, <1>2

LEMMA AppKept ==
    ASSUME AppInv, Onward, UNCHANGED <<rows, calls, poll>>
    PROVE  AppInv'
<1>1. AppShape'
  BY DEF AppInv, AppShape
<1>2. \A t \in Callers : calls'[t].at = "submitted" => calls'[t].job \in DOMAIN jobs'
  BY DEF AppInv, Onward
<1> QED BY <1>1, <1>2, RowsKept DEF AppInv

\* A call moves on, and the rows and the poll do not.
LEMMA CallMoves ==
    ASSUME AppInv, Onward, UNCHANGED <<rows, poll>>, NEW t \in Callers, NEW at, NEW j \in Nat,
           at \in {"none", "submitting", "submitted"}, at = "submitted" => j \in DOMAIN jobs',
           To(t, at, j)
    PROVE  AppInv'
<1>1. calls \in [Callers -> [at : {"none", "submitting", "submitted"}, job : Nat]]
  BY DEF AppInv, AppShape
<1>2. calls' = [calls EXCEPT ![t] = [at |-> at, job |-> j]]
  BY DEF To
<1>3. AppShape'
  BY <1>1, <1>2 DEF AppInv, AppShape
<1>4. \A s \in Callers : calls'[s].at = "submitted" => calls'[s].job \in DOMAIN jobs'
  <2> TAKE s \in Callers
  <2>1. CASE s = t
    BY <1>1, <1>2, <2>1
  <2>2. CASE s # t
    BY <1>1, <1>2, <2>2 DEF AppInv, Onward
  <2> QED BY <2>1, <2>2
<1> QED BY <1>3, <1>4, RowsKept DEF AppInv

\* The call that has submitted a job begins a row for it.
LEMMA CreateRowInv ==
    ASSUME MossInv, NEW t \in Callers, CreateRow(t)
    PROVE  AppInv'
<1> DEFINE row == [job |-> calls[t].job, state |-> "QUEUED", text |-> {}, final |-> FALSE]
<1>1. /\ calls[t].at = "submitted" /\ rows' = Append(rows, row)
      /\ calls' = [calls EXCEPT ![t] = [at |-> "none", job |-> 0]]
      /\ jobs' = jobs /\ poll' = poll
  BY DEF CreateRow, To, workerVars
<1>2. /\ rows \in Seq(RowRecord)
      /\ calls \in [Callers -> [at : {"none", "submitting", "submitted"}, job : Nat]]
  BY DEF MossInv, AppInv, AppShape
<1>3. calls[t].job \in DOMAIN jobs /\ calls[t].job \in Nat
  BY <1>1, <1>2 DEF MossInv, AppInv
<1>4. row \in RowRecord /\ RowGood(row, jobs)
  BY <1>3 DEF RowRecord, RowGood, JobStates
<1> HIDE DEF row
<1>5. /\ rows' \in Seq(RowRecord) /\ Len(rows') = Len(rows) + 1
      /\ \A r \in DOMAIN rows : r \in DOMAIN rows' /\ rows'[r] = rows[r]
      /\ \A r \in DOMAIN rows' : r \in DOMAIN rows \/ rows'[r] = row
  BY <1>1, <1>2, <1>4
<1>6. AppShape'
  BY <1>1, <1>2, <1>5 DEF MossInv, AppInv, AppShape
<1>7. \A s \in Callers : calls'[s].at = "submitted" => calls'[s].job \in DOMAIN jobs'
  BY <1>1, <1>2 DEF MossInv, AppInv
<1>8. \A r \in DOMAIN rows' : RowGood(rows'[r], jobs')
  BY <1>1, <1>4, <1>5 DEF MossInv, AppInv
<1>9. PollGood'
  BY <1>1, <1>5 DEF MossInv, AppInv, PollGood
<1> QED BY <1>6, <1>7, <1>8, <1>9 DEF AppInv

\* What is read of a job is all of its text, unless it has failed or been cancelled.
LEMMA PollJobInv ==
    ASSUME MossInv, NEW r \in DOMAIN rows, PollJob(r)
    PROVE  AppInv'
<1> DEFINE j == rows[r].job
           b == jobs[j]
<1>1. rows \in Seq(RowRecord) /\ RowGood(rows[r], jobs) /\ WorkerShape /\ JobsGood
  BY DEF MossInv, AppInv, AppShape, WorkerInv
<1>2. j \in DOMAIN jobs /\ r \in Nat /\ rows[r].text \subseteq TextOf(b)
  BY <1>1 DEF RowGood
<1>3. b \in JobRecord /\ JobGood(b)
  BY <1>1, <1>2, JobIsGood
<1>4. /\ poll'.row = r /\ poll'.state = b.state /\ rows[r].state \notin Settled
      /\ poll' = [row |-> poll'.row, state |-> poll'.state, text |-> poll'.text]
      /\ UNCHANGED <<workerVars, rows, calls>>
  BY DEF PollJob
<1>5. poll'.text = CASE b.state = "COMPLETED" -> b.text
                     [] b.state \in Settled \ {"COMPLETED"} -> {}
                     [] OTHER -> TextOf(b)
  BY ReadAsValue DEF PollJob
<1>6. b.state = "COMPLETED" => b.text = TextOf(b) /\ TextOf(b) = Pieces
  BY <1>3, ClosedIsWhole DEF JobGood, EndIsWhole
<1>7. /\ poll'.text = {} \/ poll'.text = TextOf(b)
      /\ b.state = "COMPLETED" => poll'.text = Pieces
  <2> HIDE DEF b
  <2>1. CASE b.state = "COMPLETED"
    BY <1>5, <1>6, <2>1
  <2>2. CASE b.state # "COMPLETED" /\ b.state \in Settled
    BY <1>5, <2>2
  <2>3. CASE b.state # "COMPLETED" /\ b.state \notin Settled
    BY <1>5, <2>3
  <2> QED BY <2>1, <2>2, <2>3
<1>8. TextOf(b) \subseteq Pieces /\ b.state \in JobStates
  BY <1>3, TextIsPieces DEF JobRecord
<1>9. jobs' = jobs /\ rows' = rows /\ calls' = calls
  BY <1>4 DEF workerVars
<1> HIDE DEF b
<1>10. AppShape'
  <2>1. poll' \in [row : Nat, state : JobStates \cup {""}, text : SUBSET Pieces]
    BY <1>2, <1>4, <1>7, <1>8
  <2> QED BY <1>9, <2>1 DEF MossInv, AppInv, AppShape
<1>11. PollGood'
  <2>1. /\ poll'.row \in DOMAIN rows' /\ poll'.state \in JobStates /\ rows'[poll'.row].state \notin Settled
        /\ poll'.text = {} \/ rows'[poll'.row].text \subseteq poll'.text
    BY <1>2, <1>4, <1>7, <1>8, <1>9
  <2>2. /\ poll'.text \subseteq TextOf(jobs'[rows'[poll'.row].job])
        /\ poll'.state = "COMPLETED" =>
              poll'.text = Pieces /\ jobs'[rows'[poll'.row].job].state = "COMPLETED"
    BY <1>4, <1>7, <1>9 DEF b
  <2> QED BY <2>1, <2>2 DEF PollGood
<1>12. /\ \A t \in Callers : calls'[t].at = "submitted" => calls'[t].job \in DOMAIN jobs'
       /\ \A s \in DOMAIN rows' : RowGood(rows'[s], jobs')
  BY <1>9 DEF MossInv, AppInv
<1> QED BY <1>10, <1>11, <1>12 DEF AppInv

\* The row a poll makes of the old one.
Polled(old) ==
    [job |-> old.job, state |-> poll.state,
     text |-> IF poll.state = "COMPLETED" \/ Cardinality(poll.text) > Cardinality(old.text)
                THEN poll.text ELSE old.text,
     final |-> poll.state = "COMPLETED"]

LEMMA PollRowChanges ==
    ASSUME MossInv, PollRow
    PROVE  /\ poll' = NoPoll /\ UNCHANGED <<workerVars, calls>>
           /\ poll.row \in DOMAIN rows /\ rows[poll.row].state \notin Settled /\ rows \in Seq(RowRecord)
           /\ rows' = [rows EXCEPT ![poll.row] = Polled(rows[poll.row])]
<1> DEFINE r == poll.row
           text == IF poll.state = "COMPLETED" \/ Cardinality(poll.text) > Cardinality(rows[r].text)
                     THEN poll.text ELSE rows[r].text
           final == poll.state = "COMPLETED"
           v1 == [job |-> rows[r].job, state |-> poll.state, text |-> rows[r].text, final |-> rows[r].final]
           v2 == [job |-> rows[r].job, state |-> poll.state, text |-> text, final |-> rows[r].final]
           new == [job |-> rows[r].job, state |-> poll.state, text |-> text, final |-> final]
           rows1 == [rows EXCEPT ![r].state = poll.state]
           rows2 == [rows1 EXCEPT ![r].text = text]
           rows3 == [rows2 EXCEPT ![r].final = final]
<1>1. r \in DOMAIN rows /\ rows[r].state \notin Settled /\ rows \in Seq(RowRecord)
  BY DEF MossInv, AppInv, AppShape, PollGood, PollRow
<1>2. poll' = NoPoll /\ UNCHANGED <<workerVars, calls>>
  BY DEF PollRow
<1>3. rows[r] \in RowRecord
  BY <1>1
<1>4. rows' = [rows EXCEPT ![r].state = poll.state, ![r].text = text, ![r].final = final]
  BY <1>1 DEF PollRow
<1> HIDE DEF text, final
<1>5. rows' = rows3
  BY <1>1, <1>4
<1>6. rows3 = [rows EXCEPT ![r] = new]
  <2>1. [rows[r] EXCEPT !.state = poll.state] = v1
    BY <1>3 DEF RowRecord
  <2>2. [v1 EXCEPT !.text = text] = v2 /\ [v2 EXCEPT !.final = final] = new
    OBVIOUS
  <2> HIDE DEF v1, v2, new
  <2>3. DOMAIN rows1 = DOMAIN rows /\ rows1[r] = v1 /\ \A k \in DOMAIN rows : k # r => rows1[k] = rows[k]
    BY <1>1, <2>1
  <2> HIDE DEF rows1
  <2>4. DOMAIN rows2 = DOMAIN rows /\ rows2[r] = v2 /\ \A k \in DOMAIN rows : k # r => rows2[k] = rows[k]
    BY <1>1, <2>2, <2>3
  <2> HIDE DEF rows2
  <2>5. rows3 = [rows2 EXCEPT ![r] = new]
    BY <2>2, <2>4
  <2>6. rows3 = [k \in DOMAIN rows |-> IF k = r THEN new ELSE rows[k]]
    BY <1>1, <2>4, <2>5
  <2> QED BY <1>1, <2>6
<1>7. Polled(rows[r]) = new
  BY DEF Polled, text, final
<1> HIDE DEF r, rows3, new
<1>8. rows' = [rows EXCEPT ![r] = Polled(rows[r])]
  BY <1>5, <1>6, <1>7
<1> QED BY <1>1, <1>2, <1>8 DEF r

\* The text of a row that is polled is not less than before, and exists.
LEMMA PolledText ==
    ASSUME MossInv, poll # NoPoll, NEW old, old = rows[poll.row]
    PROVE  /\ old \in RowRecord /\ RowGood(old, jobs) /\ ~old.final
           /\ Polled(old) \in RowRecord /\ RowGood(Polled(old), jobs)
           /\ Polled(old).job = old.job /\ old.text \subseteq Polled(old).text
           /\ Polled(old).final <=> poll.state = "COMPLETED"
<1> DEFINE new == Polled(old)
<1>1. poll.row \in DOMAIN rows /\ rows \in Seq(RowRecord) /\ poll.state \in JobStates /\ poll.text \in SUBSET Pieces
  BY DEF MossInv, AppInv, AppShape, PollGood
<1>2. old \in RowRecord /\ RowGood(old, jobs) /\ old.state \notin Settled
  BY <1>1 DEF MossInv, AppInv, PollGood
<1>3. ~old.final /\ old.text \in SUBSET Pieces /\ old.job \in Nat
  BY <1>2 DEF RowGood, RowRecord, Settled, Terminal
<1>4. /\ poll.text = {} \/ old.text \subseteq poll.text
      /\ poll.text \subseteq TextOf(jobs[old.job])
      /\ poll.state = "COMPLETED" => poll.text = Pieces /\ jobs[old.job].state = "COMPLETED"
  BY DEF MossInv, AppInv, PollGood
<1>5. Cardinality(poll.text) > Cardinality(old.text) => poll.text # {}
  <2>1. IsFiniteSet(old.text)
    BY <1>3, FS_Subset, MossAssumption
  <2>2. Cardinality(old.text) \in Nat /\ Cardinality({}) = 0
    BY <2>1, FS_CardinalityType, FS_EmptySet
  <2> QED BY <2>2
<1>6. /\ new.job = old.job /\ new.state = poll.state /\ (new.final <=> poll.state = "COMPLETED")
      /\ new.final \in BOOLEAN
      /\ new.text = IF poll.state = "COMPLETED" \/ Cardinality(poll.text) > Cardinality(old.text)
                      THEN poll.text ELSE old.text
  BY DEF Polled
<1>7. new \in RowRecord
  <2>1. new = [job |-> new.job, state |-> new.state, text |-> new.text, final |-> new.final]
    BY DEF Polled
  <2>2. new.job \in Nat /\ new.state \in JobStates /\ new.text \in SUBSET Pieces /\ new.final \in BOOLEAN
    BY <1>1, <1>3, <1>6
  <2> HIDE DEF new
  <2> QED BY <2>1, <2>2 DEF RowRecord
<1> HIDE DEF new
<1>8. old.text \subseteq new.text
  BY <1>3, <1>4, <1>5, <1>6
<1>9. new.text \subseteq TextOf(jobs[old.job]) /\ (poll.state = "COMPLETED" => new.text = Pieces)
  BY <1>2, <1>4, <1>6 DEF RowGood
<1>10. RowGood(new, jobs)
  BY <1>2, <1>4, <1>6, <1>9 DEF RowGood
<1> QED BY <1>2, <1>3, <1>6, <1>7, <1>8, <1>10 DEF new

LEMMA PollRowInv ==
    ASSUME MossInv, PollRow
    PROVE  AppInv'
<1> DEFINE r == poll.row
           new == Polled(rows[r])
<1>1. /\ poll' = NoPoll /\ jobs' = jobs /\ calls' = calls /\ poll # NoPoll
      /\ r \in DOMAIN rows /\ rows \in Seq(RowRecord)
      /\ rows' = [rows EXCEPT ![r] = new]
  BY PollRowChanges DEF workerVars, PollRow
<1>2. new \in RowRecord /\ RowGood(new, jobs)
  BY <1>1, PolledText
<1> HIDE DEF r, new
<1>3. /\ rows' \in Seq(RowRecord) /\ DOMAIN rows' = DOMAIN rows
      /\ \A s \in DOMAIN rows : rows'[s] = IF s = r THEN new ELSE rows[s]
  BY <1>1, <1>2
<1>4. AppShape'
  <2>1. poll' \in [row : Nat, state : JobStates \cup {""}, text : SUBSET Pieces]
    BY <1>1 DEF NoPoll
  <2> QED BY <1>1, <1>3, <2>1 DEF MossInv, AppInv, AppShape
<1>5. \A t \in Callers : calls'[t].at = "submitted" => calls'[t].job \in DOMAIN jobs'
  BY <1>1 DEF MossInv, AppInv
<1>6. \A s \in DOMAIN rows' : RowGood(rows'[s], jobs')
  <2> TAKE s \in DOMAIN rows'
  <2>1. CASE s = r
    BY <1>1, <1>2, <1>3, <2>1
  <2>2. CASE s # r
    BY <1>1, <1>3, <2>2 DEF MossInv, AppInv
  <2> QED BY <2>1, <2>2
<1>7. PollGood'
  BY <1>1 DEF PollGood, NoPoll
<1> QED BY <1>4, <1>5, <1>6, <1>7 DEF AppInv

LEMMA RestartApplicationInv ==
    ASSUME MossInv, RestartApplication
    PROVE  MossInv' /\ jobs' = jobs /\ rows' = rows
<1>1. /\ calls' = [t \in Callers |-> NoCall] /\ poll' = NoPoll
      /\ UNCHANGED <<jobs, queue, scheduler, events, acked, stranded, changed, recording, rows>>
  BY DEF RestartApplication
<1>2. WorkerShape' /\ JobsGood' /\ SchedulerKnows' /\ CancelsKept'
  BY <1>1 DEF MossInv, WorkerInv, WorkerShape, JobsGood, SchedulerKnows, CancelsKept, Ended
<1>3. AppShape'
  <2>1. poll' \in [row : Nat, state : JobStates \cup {""}, text : SUBSET Pieces]
    BY <1>1 DEF NoPoll
  <2>2. calls' \in [Callers -> [at : {"none", "submitting", "submitted"}, job : Nat]]
    BY <1>1 DEF NoCall
  <2> QED BY <1>1, <2>1, <2>2 DEF MossInv, AppInv, AppShape
<1>4. \A t \in Callers : calls'[t].at = "submitted" => calls'[t].job \in DOMAIN jobs'
  BY <1>1 DEF NoCall
<1>5. \A s \in DOMAIN rows' : RowGood(rows'[s], jobs')
  BY <1>1 DEF MossInv, AppInv
<1>6. PollGood'
  BY <1>1 DEF PollGood, NoPoll
<1> QED BY <1>1, <1>2, <1>3, <1>4, <1>5, <1>6 DEF MossInv, WorkerInv, AppInv

--------------------------------------------------------------------------------
(* Every step keeps the invariant and maps to a step of MossTranscript, or  *)
(* to none.                                                                 *)

\* The kinds of step that the refinement tells apart.
MapsToStep ==
    \/ rows' = rows /\ (OneChange \/ Marks \/ jobs' = Append(jobs, Job))
    \/ jobs' = jobs /\ \E t \in Callers : CreateRow(t)
    \/ jobs' = jobs /\ PollRow

LEMMA MossStep == ASSUME MossInv, [Next]_vars PROVE MossInv' /\ MapsToStep
<1>1. WorkerInv /\ AppInv
  BY DEF MossInv
<1>2. ASSUME UNCHANGED <<workerVars, rows, poll>>, NEW t \in Callers, NEW at, NEW j \in Nat,
             at \in {"none", "submitting", "submitted"}, at = "submitted" => j \in DOMAIN jobs', To(t, at, j)
      PROVE  MossInv' /\ MapsToStep
  <2>1. WorkerInv' /\ OneChange
    BY <1>1, <1>2, UnchangedInv DEF OneChange, workerVars
  <2>2. AppInv'
    BY <1>1, <1>2, <2>1, OnwardHolds, CallMoves
  <2> QED BY <1>2, <2>1, <2>2 DEF MossInv, MapsToStep
<1>3. ASSUME WorkerInv', OneChange \/ Marks, UNCHANGED <<rows, calls, poll>> PROVE MossInv' /\ MapsToStep
  <2>1. AppInv'
    BY <1>1, <1>3, OnwardHolds, AppKept
  <2> QED BY <1>3, <2>1 DEF MossInv, MapsToStep
<1>4. ASSUME NEW t \in Callers, Submit(t) PROVE MossInv' /\ MapsToStep
  BY <1>2, <1>4 DEF Submit
<1>5. ASSUME NEW t \in Callers, Resubmit(t) PROVE MossInv' /\ MapsToStep
  <2>1. rows \in Seq(RowRecord) /\ rows # <<>>
    BY <1>1, <1>5 DEF AppInv, AppShape, Resubmit
  <2>2. Last(rows).job \in Nat
    <3>1. Len(rows) \in DOMAIN rows
      BY <2>1
    <3>2. Last(rows) \in RowRecord
      BY <2>1, <3>1 DEF Last
    <3> QED BY <3>2 DEF RowRecord
  <2> QED BY <1>2, <1>5, <2>2 DEF Resubmit
<1>6. ASSUME NEW t \in Callers, SubmitJob(t) PROVE MossInv' /\ MapsToStep
  <2>1. NewJob /\ To(t, "submitted", Len(jobs) + 1) /\ UNCHANGED <<rows, poll>>
    BY <1>6 DEF SubmitJob
  <2>2. WorkerInv' /\ jobs' = Append(jobs, Job) /\ jobs \in Seq(JobRecord)
    BY <1>1, <2>1, NewJobInv
  <2>3. Len(jobs) + 1 \in Nat /\ Len(jobs) + 1 \in DOMAIN jobs'
    BY <2>2
  <2>4. Onward
    BY <1>1, <2>1, <2>2, OnwardHolds
  <2>5. AppInv'
    BY <1>1, <2>1, <2>3, <2>4, CallMoves
  <2> QED BY <2>1, <2>2, <2>5 DEF MossInv, MapsToStep
<1>7. ASSUME NEW t \in Callers, CreateRow(t) PROVE MossInv' /\ MapsToStep
  <2>1. UNCHANGED workerVars /\ jobs' = jobs
    BY <1>7 DEF CreateRow, workerVars
  <2> QED BY <1>1, <1>7, <2>1, UnchangedInv, CreateRowInv DEF MossInv, MapsToStep
<1>8. ASSUME NEW t \in Callers, CallFails(t) PROVE MossInv' /\ MapsToStep
  BY <1>2, <1>8 DEF CallFails
<1>9. ASSUME NEW r \in DOMAIN rows, PollJob(r) PROVE MossInv' /\ MapsToStep
  <2>1. UNCHANGED workerVars /\ jobs' = jobs /\ rows' = rows
    BY <1>9 DEF PollJob, workerVars
  <2> QED BY <1>1, <1>9, <2>1, UnchangedInv, PollJobInv DEF MossInv, MapsToStep, OneChange
<1>10. CASE PollRow
  <2>1. UNCHANGED workerVars /\ jobs' = jobs
    BY <1>10 DEF PollRow, workerVars
  <2> QED BY <1>1, <1>10, <2>1, UnchangedInv, PollRowInv DEF MossInv, MapsToStep
<1>11. CASE RestartApplication
  BY <1>11, RestartApplicationInv DEF MapsToStep, OneChange
<1>12. CASE Schedule /\ UNCHANGED <<rows, calls, poll>>
  BY <1>1, <1>3, <1>12, ScheduleInv
<1>13. CASE RestartWorker /\ UNCHANGED <<rows, calls, poll>>
  BY <1>1, <1>3, <1>13, RestartWorkerInv
<1>14. CASE ChangeAudio /\ UNCHANGED <<rows, calls, poll>>
  BY <1>1, <1>3, <1>14, ChangeAudioInv
<1>15. ASSUME NEW j \in DOMAIN jobs, Cancel(j), UNCHANGED <<rows, calls, poll>> PROVE MossInv' /\ MapsToStep
  BY <1>1, <1>3, <1>15, CancelInv
<1>16. ASSUME NEW j \in DOMAIN jobs, Resume(j), UNCHANGED <<rows, calls, poll>> PROVE MossInv' /\ MapsToStep
  BY <1>1, <1>3, <1>16, ResumeInv
<1>17. CASE UNCHANGED vars
  <2>1. UNCHANGED workerVars /\ jobs' = jobs /\ UNCHANGED <<rows, calls, poll>>
    BY <1>17 DEF vars, workerVars
  <2> QED BY <1>1, <1>3, <2>1, UnchangedInv DEF OneChange
<1> QED BY <1>4, <1>5, <1>6, <1>7, <1>8, <1>9, <1>10, <1>11, <1>12, <1>13, <1>14, <1>15, <1>16, <1>17 DEF Next

LEMMA MossBegins == Init => MossInv
<1> SUFFICES ASSUME Init PROVE MossInv
  OBVIOUS
<1>1. /\ jobs = <<>> /\ queue = <<>> /\ scheduler = NoJob
      /\ events = {} /\ acked = {} /\ stranded = {} /\ changed = {}
      /\ recording \in Recordings
      /\ rows = <<>> /\ calls = [t \in Callers |-> NoCall] /\ poll = NoPoll
  BY DEF Init, WorkerInit
<1>2. WorkerShape
  BY <1>1 DEF WorkerShape, NoJob
<1>3. JobsGood /\ SchedulerKnows /\ CancelsKept
  BY <1>1 DEF JobsGood, SchedulerKnows, CancelsKept
<1>4. AppShape
  <2>1. poll \in [row : Nat, state : JobStates \cup {""}, text : SUBSET Pieces]
    BY <1>1 DEF NoPoll
  <2>2. calls \in [Callers -> [at : {"none", "submitting", "submitted"}, job : Nat]]
    BY <1>1 DEF NoCall
  <2>3. rows \in Seq(RowRecord)
    BY <1>1
  <2> QED BY <2>1, <2>2, <2>3 DEF AppShape
<1>5. AppInv
  BY <1>1, <1>4 DEF AppInv, PollGood, NoCall
<1> QED BY <1>2, <1>3, <1>5 DEF MossInv, WorkerInv

LEMMA MossInvariance == Spec => []MossInv
<1>1. MossInv /\ [Next]_vars => MossInv'
  BY MossStep
<1> QED BY <1>1, MossBegins, PTL DEF Spec

--------------------------------------------------------------------------------
(* The theorems.                                                            *)

LEMMA MossInvImplies == MossInv => JobsAndRowsHold
<1> SUFFICES ASSUME MossInv PROVE JobsAndRowsHold
  OBVIOUS
<1>1. WorkerShape /\ JobsGood /\ CancelsKept /\ AppShape /\ PollGood
  BY DEF MossInv, WorkerInv, AppInv
<1>2. ASSUME NEW j \in DOMAIN jobs PROVE jobs[j] \in JobRecord /\ JobGood(jobs[j])
  BY <1>1, <1>2, JobIsGood
<1>3. WorkerTypeOK
  <2>1. ASSUME NEW j \in DOMAIN jobs
        PROVE  /\ jobs[j].state \in {"QUEUED", "RUNNING", "RECOVERY_REQUIRED"} \cup Terminal
               /\ jobs[j].plan \subseteq Windows /\ DOMAIN jobs[j].checks \subseteq Windows
               /\ UNION {w.pieces : w \in jobs[j].plan} = Pieces
    <3>1. jobs[j].state \in JobStates /\ jobs[j].plan \subseteq Windows /\ jobs[j].checks \in Checks
      BY <1>2 DEF JobRecord
    <3>2. UNION {w.pieces : w \in jobs[j].plan} = Pieces
      BY <1>2 DEF JobGood, Planned
    <3> QED BY <3>1, <3>2, ChecksAre DEF JobStates, Settled
  <2>2. ToSet(queue) \subseteq DOMAIN jobs
    BY <1>1 DEF WorkerShape, ToSet
  <2> QED BY <1>1, <2>1, <2>2 DEF WorkerTypeOK, WorkerShape
<1>4. TypeOK
  <2>1. ASSUME NEW r \in DOMAIN rows
        PROVE  /\ rows[r].job \in DOMAIN jobs
               /\ rows[r].state \in {"QUEUED", "RUNNING"} \cup Settled
               /\ rows[r].text \subseteq Pieces
    <3>1. rows[r] \in RowRecord
      <4>1. rows \in Seq(RowRecord)
        BY <1>1 DEF AppShape
      <4> QED BY <4>1
    <3>2. RowGood(rows[r], jobs)
      BY <2>1 DEF MossInv, AppInv
    <3> QED BY <3>1, <3>2 DEF RowRecord, RowGood, JobStates
  <2>2. poll.row \in 0..Len(rows)
    <3>1. rows \in Seq(RowRecord) /\ (poll = NoPoll \/ poll.row \in DOMAIN rows)
      BY <1>1 DEF AppShape, PollGood
    <3>2. CASE poll = NoPoll
      <4>1. poll.row = 0
        BY <3>2 DEF NoPoll
      <4>2. Len(rows) \in Nat
        BY <3>1
      <4> QED BY <4>1, <4>2
    <3>3. CASE poll.row \in DOMAIN rows
      BY <3>1, <3>3
    <3> QED BY <3>1, <3>2, <3>3
  <2> QED BY <1>3, <2>1, <2>2 DEF TypeOK
<1>5. CancelHolds
  BY <1>1 DEF CancelHolds, CancelsKept
<1>6. OneRecovery
  BY <1>2, CrashesBound, ReadAsValue DEF OneRecovery
<1>7. RowIsWhole
  BY DEF RowIsWhole, MossInv, AppInv, RowGood
<1> QED BY <1>4, <1>5, <1>6, <1>7 DEF JobsAndRowsHold, JobsHold

\* However recordings are planned, whatever troubles the worker and the application and
\* however many calls there are: a job is well formed, a cancel that was answered holds,
\* one crash of the child is recovered from and not more, and a row that says COMPLETED
\* shows the whole text of a job that has completed (MossSupervisor.cancel, run_pending,
\* _recover_spool; MossTranscriptionCoordinator._poll_row).
THEOREM MossJobsAndRowsHold == Spec => []JobsAndRowsHold
BY MossInvariance, MossInvImplies, PTL

--------------------------------------------------------------------------------
(* The refinement.                                                          *)

OutcomeOf(b) == IF b.state \in Terminal THEN b.state ELSE "open"
ShownOf(row) == [job |-> row.job, text |-> row.text, final |-> row.final]

TextMap == [j \in DOMAIN jobs |-> Published(j)]
OutcomeMap == [j \in DOMAIN jobs |-> Outcome(j)]
ShownMap == [r \in DOMAIN rows |-> Shown(r)]

\* What MossTranscript sees, from the jobs and the rows as values.
Mapped ==
    /\ TextMap = [j \in DOMAIN jobs |-> TextOf(jobs[j])]
    /\ OutcomeMap = [j \in DOMAIN jobs |-> OutcomeOf(jobs[j])]
    /\ ShownMap = [r \in DOMAIN rows |-> ShownOf(rows[r])]

LEMMA IsMapped == Mapped
<1>1. TextMap = [j \in DOMAIN jobs |-> TextOf(jobs[j])]
  BY ReadAsValue DEF TextMap
<1>2. OutcomeMap = [j \in DOMAIN jobs |-> OutcomeOf(jobs[j])]
  BY DEF OutcomeMap, Outcome, OutcomeOf
<1>3. ShownMap = [r \in DOMAIN rows |-> ShownOf(rows[r])]
  BY DEF ShownMap, Shown, ShownOf
<1> QED BY <1>1, <1>2, <1>3 DEF Mapped

LEMMA WillBeMapped == Mapped'
BY IsMapped, PTL

\* MossTranscript, of what it sees.
LEMMA Unmap ==
    /\ Transcript!Submit <=>
          /\ TextMap' = Append(TextMap, {}) /\ OutcomeMap' = Append(OutcomeMap, "open")
          /\ UNCHANGED ShownMap
    /\ \A j : Transcript!Transcribe(j) <=>
          /\ OutcomeMap[j] # "COMPLETED"
          /\ \E more \in SUBSET (Pieces \ TextMap[j]) : TextMap' = [TextMap EXCEPT ![j] = @ \cup more]
          /\ UNCHANGED <<OutcomeMap, ShownMap>>
    /\ \A j : Transcript!Settle(j) <=>
          /\ OutcomeMap[j] = "open"
          /\ \E o \in {"COMPLETED", "FAILED", "CANCELLED"} :
             /\ o = "COMPLETED" => TextMap[j] = Pieces
             /\ OutcomeMap' = [OutcomeMap EXCEPT ![j] = o]
          /\ UNCHANGED <<TextMap, ShownMap>>
    /\ \A j : Transcript!Follow(j) <=>
          /\ ShownMap' = Append(ShownMap, [job |-> j, text |-> {}, final |-> FALSE])
          /\ UNCHANGED <<TextMap, OutcomeMap>>
BY DEF Transcript!Submit, Transcript!Transcribe, Transcript!Settle, Transcript!Follow,
       TextMap, OutcomeMap, ShownMap

\* What is shown grows by more, and is final or not.
Grown(old, more, final) == [old EXCEPT !.text = @ \cup more, !.final = final]

LEMMA UnmapShow ==
    \A r : Transcript!Show(r) <=>
       /\ ~ShownMap[r].final
       /\ \E more \in SUBSET (TextMap[ShownMap[r].job] \ ShownMap[r].text), final \in BOOLEAN :
          /\ final => OutcomeMap[ShownMap[r].job] = "COMPLETED" /\ ShownMap[r].text \cup more = Pieces
          /\ ShownMap' = [ShownMap EXCEPT ![r] = Grown(ShownMap[r], more, final)]
       /\ UNCHANGED <<TextMap, OutcomeMap>>
BY DEF Transcript!Show, TextMap, OutcomeMap, ShownMap, Grown

LEMMA GrownIs ==
    ASSUME NEW j, NEW text, NEW was, NEW more, NEW final
    PROVE  Grown([job |-> j, text |-> text, final |-> was], more, final)
             = [job |-> j, text |-> text \cup more, final |-> final]
<1> DEFINE old == [job |-> j, text |-> text, final |-> was]
           all == text \cup more
<1>1. Grown(old, more, final) = [[old EXCEPT !.text = all] EXCEPT !.final = final]
  BY DEF Grown
<1> HIDE DEF all
<1>2. [old EXCEPT !.text = all] = [job |-> j, text |-> all, final |-> was]
  OBVIOUS
<1>3. [[job |-> j, text |-> all, final |-> was] EXCEPT !.final = final]
        = [job |-> j, text |-> all, final |-> final]
  OBVIOUS
<1> QED BY <1>1, <1>2, <1>3 DEF all

LEMMA UnmapNext ==
    /\ Transcript!Next <=>
          \/ Transcript!Submit
          \/ \E j \in DOMAIN TextMap : Transcript!Transcribe(j) \/ Transcript!Settle(j) \/ Transcript!Follow(j)
          \/ \E r \in DOMAIN ShownMap : Transcript!Show(r)
    /\ UNCHANGED Transcript!vars <=> UNCHANGED <<TextMap, OutcomeMap, ShownMap>>
BY DEF Transcript!Next, Transcript!vars, TextMap, OutcomeMap, ShownMap

LEMMA AppendIs ==
    ASSUME NEW S, NEW s \in Seq(S), NEW e \in S, NEW t,
           t = [k \in 1..(Len(s) + 1) |-> IF k = Len(s) + 1 THEN e ELSE s[k]]
    PROVE  t = Append(s, e)
<1> DEFINE n == Len(s) + 1
<1>1. n \in Nat /\ Len(s) \in Nat /\ \A k \in 1..n : k \in 1..Len(s) \/ k = n
  OBVIOUS
<1>2. \A k \in 1..Len(s) : s[k] \in S /\ k # n
  OBVIOUS
<1>3. t \in [1..n -> S]
  BY <1>1, <1>2
<1>4. t \in Seq(S) /\ Len(t) = n
  BY <1>1, <1>3
<1>5. /\ Append(s, e) \in Seq(S) /\ Len(Append(s, e)) = n
      /\ \A k \in 1..Len(s) : Append(s, e)[k] = s[k]
      /\ Append(s, e)[n] = e
  BY AppendProperties
<1>6. \A k \in 1..n : t[k] = Append(s, e)[k]
  BY <1>1, <1>2, <1>5
<1> HIDE DEF n
<1> QED BY <1>4, <1>5, <1>6, SeqEqual

\* A step of one job adds to its text, settles it, or shows nothing of itself.
LEMMA JobMaps ==
    ASSUME MossInv, rows' = rows, NEW j, NEW c, Changes(j, c)
    PROVE  Transcript!Next \/ UNCHANGED Transcript!vars
<1> DEFINE b == jobs[j]
<1>1. WorkerShape /\ JobsGood
  BY DEF MossInv, WorkerInv
<1>2. /\ DOMAIN jobs' = DOMAIN jobs /\ jobs'[j] = c /\ j \in DOMAIN jobs
      /\ \A k \in DOMAIN jobs : k # j => jobs'[k] = jobs[k]
  BY <1>1, OthersKept DEF Changes
<1>3. /\ c \in JobRecord /\ JobGood(c)
      /\ TextOf(b) \subseteq TextOf(c)
      /\ b.state \in Terminal => c.state = b.state
      /\ b.state = "COMPLETED" => TextOf(c) = TextOf(b)
      /\ TextOf(c) = TextOf(b) \/ (c.state \in Terminal <=> b.state \in Terminal)
  BY DEF Changes, JobStep
<1> HIDE DEF b
<1>4. UNCHANGED ShownMap
  BY IsMapped, WillBeMapped DEF Mapped
<1>5. /\ TextMap = [k \in DOMAIN jobs |-> TextOf(jobs[k])]
      /\ OutcomeMap = [k \in DOMAIN jobs |-> OutcomeOf(jobs[k])]
      /\ TextMap' = [k \in DOMAIN jobs |-> TextOf(jobs'[k])]
      /\ OutcomeMap' = [k \in DOMAIN jobs |-> OutcomeOf(jobs'[k])]
  BY <1>2, IsMapped, WillBeMapped DEF Mapped
<1>6. TextMap[j] = TextOf(b) /\ OutcomeMap[j] = OutcomeOf(b) /\ DOMAIN TextMap = DOMAIN jobs
  BY <1>2, <1>5 DEF b
<1>7. OutcomeOf(c) = OutcomeOf(b) => UNCHANGED OutcomeMap
  BY <1>2, <1>5 DEF b
<1>8. TextOf(c) = TextOf(b) => UNCHANGED TextMap
  BY <1>2, <1>5 DEF b
<1>9. CASE TextOf(c) = TextOf(b) /\ OutcomeOf(c) = OutcomeOf(b)
  BY <1>4, <1>7, <1>8, <1>9, UnmapNext
<1>10. CASE TextOf(c) = TextOf(b) /\ OutcomeOf(c) # OutcomeOf(b)
  <2>1. OutcomeOf(b) = "open" /\ OutcomeOf(c) = c.state /\ c.state \in Terminal
    BY <1>3, <1>10 DEF OutcomeOf
  <2>2. c.state = "COMPLETED" => TextMap[j] = Pieces
    BY <1>3, <1>6, <1>10, ClosedIsWhole DEF JobGood, EndIsWhole
  <2>3. OutcomeMap' = [OutcomeMap EXCEPT ![j] = c.state]
    BY <1>2, <1>5, <2>1
  <2>4. Transcript!Settle(j)
    BY <1>4, <1>6, <1>8, <1>10, <2>1, <2>2, <2>3, Unmap DEF Terminal
  <2> QED BY <1>2, <1>6, <2>4, UnmapNext
<1>11. CASE TextOf(c) # TextOf(b)
  <2>1. OutcomeOf(c) = OutcomeOf(b) /\ OutcomeOf(b) # "COMPLETED"
    BY <1>3, <1>11 DEF OutcomeOf
  <2> DEFINE more == TextOf(c) \ TextOf(b)
  <2>2. more \in SUBSET (Pieces \ TextMap[j])
    BY <1>3, <1>6, TextIsPieces
  <2>3. TextOf(c) = TextOf(b) \cup more
    BY <1>3
  <2> HIDE DEF more
  <2>4. TextMap' = [TextMap EXCEPT ![j] = @ \cup more]
    BY <1>2, <1>5, <1>6, <2>3
  <2>5. Transcript!Transcribe(j)
    BY <1>4, <1>6, <1>7, <2>1, <2>2, <2>4, Unmap
  <2> QED BY <1>2, <1>6, <2>5, UnmapNext
<1> QED BY <1>9, <1>10, <1>11

\* Marking the jobs after a restart shows nothing of itself.
LEMMA MarksMaps ==
    ASSUME MossInv, rows' = rows, Marks
    PROVE  UNCHANGED Transcript!vars
<1>1. \A k \in DOMAIN jobs : TextOf(jobs'[k]) = TextOf(jobs[k]) /\ OutcomeOf(jobs'[k]) = OutcomeOf(jobs[k])
  BY SameWork DEF Marks, SameWindows, JobStep, OutcomeOf
<1>2. DOMAIN jobs' = DOMAIN jobs
  BY DEF Marks
<1>3. UNCHANGED <<TextMap, OutcomeMap, ShownMap>>
  BY <1>1, <1>2, IsMapped, WillBeMapped DEF Mapped
<1> QED BY <1>3, UnmapNext

LEMMA SubmitMaps ==
    ASSUME MossInv, rows' = rows, jobs' = Append(jobs, Job)
    PROVE  Transcript!Submit
<1>1. jobs \in Seq(JobRecord) /\ recording \in Recordings
  BY DEF MossInv, WorkerInv, WorkerShape
<1>2. Job \in JobRecord /\ TextOf(Job) = {} /\ OutcomeOf(Job) = "open"
  BY <1>1, NewJobIsGood DEF OutcomeOf, Terminal
<1> DEFINE n == Len(jobs) + 1
<1>3. /\ n \in Nat /\ DOMAIN jobs = 1..(n - 1) /\ DOMAIN jobs' = 1..n
      /\ jobs'[n] = Job /\ \A k \in 1..(n - 1) : jobs'[k] = jobs[k]
  BY <1>1
<1>4. Len(jobs) = n - 1
  BY <1>1
<1> HIDE DEF n
<1>5. /\ TextMap = [k \in 1..(n - 1) |-> TextOf(jobs[k])]
      /\ OutcomeMap = [k \in 1..(n - 1) |-> OutcomeOf(jobs[k])]
      /\ TextMap' = [k \in 1..n |-> TextOf(jobs'[k])]
      /\ OutcomeMap' = [k \in 1..n |-> OutcomeOf(jobs'[k])]
      /\ UNCHANGED ShownMap
  BY <1>3, IsMapped, WillBeMapped DEF Mapped
<1>6. n - 1 \in Nat
  BY <1>1, <1>4
<1> DEFINE Outcomes == {"open"} \cup Terminal
<1>7. \A k \in 1..(n - 1) : TextOf(jobs[k]) \in SUBSET Pieces /\ OutcomeOf(jobs[k]) \in Outcomes
  BY <1>1, <1>3, TextIsPieces DEF OutcomeOf
<1>8. TextMap' = Append(TextMap, {})
  <2>1. TextMap' = [k \in 1..n |-> IF k = n THEN {} ELSE TextMap[k]]
    <3>1. \A k \in 1..n : k = n \/ k \in 1..(n - 1)
      BY <1>3
    <3>2. TextOf(jobs'[n]) = {} /\ \A k \in 1..(n - 1) : TextOf(jobs'[k]) = TextMap[k]
      BY <1>2, <1>3, <1>5
    <3> QED BY <1>5, <3>1, <3>2
  <2>2. TextMap \in Seq(SUBSET Pieces) /\ Len(TextMap) + 1 = n
    BY <1>3, <1>5, <1>6, <1>7
  <2>3. {} \in SUBSET Pieces
    OBVIOUS
  <2>4. TextMap' = [k \in 1..(Len(TextMap) + 1) |-> IF k = Len(TextMap) + 1 THEN {} ELSE TextMap[k]]
    BY <2>1, <2>2
  <2> HIDE DEF TextMap
  <2> QED BY <2>2, <2>3, <2>4, AppendIs
<1>9. OutcomeMap' = Append(OutcomeMap, "open")
  <2>1. OutcomeMap' = [k \in 1..n |-> IF k = n THEN "open" ELSE OutcomeMap[k]]
    BY <1>2, <1>3, <1>5
  <2>2. OutcomeMap \in Seq(Outcomes) /\ Len(OutcomeMap) + 1 = n /\ "open" \in Outcomes
    BY <1>3, <1>5, <1>6, <1>7
  <2> QED BY <2>1, <2>2, AppendIs
<1> QED BY <1>5, <1>8, <1>9, Unmap

LEMMA CreateRowMaps ==
    ASSUME MossInv, NEW t \in Callers, CreateRow(t), jobs' = jobs
    PROVE  Transcript!Next
<1> DEFINE j == calls[t].job
           row == [job |-> j, state |-> "QUEUED", text |-> {}, final |-> FALSE]
           n == Len(rows) + 1
<1>1. rows \in Seq(RowRecord) /\ rows' = Append(rows, row) /\ j \in DOMAIN jobs
  BY DEF MossInv, AppInv, AppShape, CreateRow
<1>2. ShownOf(row) = [job |-> j, text |-> {}, final |-> FALSE]
  BY DEF ShownOf
<1> HIDE DEF row
<1>3. /\ n \in Nat /\ DOMAIN rows = 1..(n - 1) /\ DOMAIN rows' = 1..n
      /\ rows'[n] = row /\ \A k \in 1..(n - 1) : rows'[k] = rows[k]
  BY <1>1
<1>4. n - 1 \in Nat
  BY <1>1
<1> HIDE DEF n
<1>5. /\ ShownMap = [k \in 1..(n - 1) |-> ShownOf(rows[k])]
      /\ ShownMap' = [k \in 1..n |-> ShownOf(rows'[k])]
      /\ UNCHANGED <<TextMap, OutcomeMap>>
  BY <1>3, IsMapped, WillBeMapped DEF Mapped
<1>6. ShownMap' = Append(ShownMap, ShownOf(row))
  <2>1. ShownMap' = [k \in 1..n |-> IF k = n THEN ShownOf(row) ELSE ShownMap[k]]
    BY <1>3, <1>5
  <2> DEFINE S == {ShownOf(rows'[k]) : k \in 1..n}
  <2>2. ShownMap \in Seq(S) /\ Len(ShownMap) + 1 = n /\ ShownOf(row) \in S
    BY <1>3, <1>4, <1>5
  <2> HIDE DEF S
  <2> QED BY <2>1, <2>2, AppendIs
<1>7. Transcript!Follow(j)
  BY <1>2, <1>5, <1>6, Unmap
<1>8. j \in DOMAIN TextMap
  BY <1>1, IsMapped DEF Mapped
<1> QED BY <1>7, <1>8, UnmapNext

LEMMA PollRowMaps ==
    ASSUME MossInv, PollRow, jobs' = jobs
    PROVE  Transcript!Next
<1> DEFINE r == poll.row
           old == rows[r]
           new == Polled(old)
           more == new.text \ old.text
           final == new.final
<1>1. /\ r \in DOMAIN rows /\ rows \in Seq(RowRecord) /\ poll # NoPoll
      /\ rows' = [rows EXCEPT ![r] = new]
  BY PollRowChanges DEF PollRow
<1>2. /\ old \in RowRecord /\ RowGood(old, jobs) /\ ~old.final
      /\ new \in RowRecord /\ RowGood(new, jobs)
      /\ new.job = old.job /\ old.text \subseteq new.text
  BY <1>1, PolledText
<1> HIDE DEF r, new
<1>3. /\ ShownMap = [k \in DOMAIN rows |-> ShownOf(rows[k])]
      /\ ShownMap' = [k \in DOMAIN rows |-> IF k = r THEN ShownOf(new) ELSE ShownOf(rows[k])]
      /\ UNCHANGED <<TextMap, OutcomeMap>>
  BY <1>1, IsMapped, WillBeMapped DEF Mapped
<1>4. ShownMap[r] = ShownOf(old) /\ r \in DOMAIN ShownMap
  BY <1>1, <1>3
<1>5. old.job \in DOMAIN jobs /\ new.text \subseteq TextOf(jobs[old.job])
  BY <1>2 DEF RowGood
<1>6. TextMap[old.job] = TextOf(jobs[old.job]) /\ OutcomeMap[old.job] = OutcomeOf(jobs[old.job])
  BY <1>5, IsMapped DEF Mapped
<1>7. more \in SUBSET (TextMap[old.job] \ old.text) /\ final \in BOOLEAN /\ old.text \cup more = new.text
  BY <1>2, <1>5, <1>6 DEF RowRecord
<1>8. final => OutcomeMap[old.job] = "COMPLETED" /\ old.text \cup more = Pieces
  BY <1>2, <1>6, <1>7 DEF RowGood, OutcomeOf, Terminal
<1>9. ShownOf(new) = Grown(ShownOf(old), more, final)
  <2>1. ShownOf(new) = [job |-> old.job, text |-> old.text \cup more, final |-> final]
    BY <1>2, <1>7 DEF ShownOf
  <2>2. ShownOf(old) = [job |-> old.job, text |-> old.text, final |-> old.final]
    BY DEF ShownOf
  <2> HIDE DEF old, more, final
  <2> QED BY <2>1, <2>2, GrownIs
<1>10. ShownMap' = [ShownMap EXCEPT ![r] = Grown(ShownMap[r], more, final)]
  <2>1. ShownMap' = [ShownMap EXCEPT ![r] = ShownOf(new)]
    BY <1>1, <1>3
  <2> HIDE DEF old, more, final
  <2> QED BY <1>4, <1>9, <2>1
<1>11. Transcript!Show(r)
  <2>1. ShownMap[r].job = old.job /\ ShownMap[r].text = old.text /\ ShownMap[r].final = old.final
    BY <1>4 DEF ShownOf
  <2> HIDE DEF old, more, final
  <2> QED BY <1>2, <1>3, <1>7, <1>8, <1>10, <2>1, UnmapShow
<1> QED BY <1>4, <1>11, UnmapNext

LEMMA TranscriptBegins == Init => Transcript!Init
<1> SUFFICES ASSUME Init PROVE Transcript!Init
  OBVIOUS
<1>1. jobs = <<>> /\ rows = <<>>
  BY DEF Init, WorkerInit
<1>2. DOMAIN jobs = {} /\ DOMAIN rows = {}
  BY <1>1
<1>3. TextMap = <<>> /\ OutcomeMap = <<>> /\ ShownMap = <<>>
  BY <1>2 DEF TextMap, OutcomeMap, ShownMap
<1> QED BY <1>3 DEF Transcript!Init, TextMap, OutcomeMap, ShownMap

LEMMA TranscriptStep == MossInv /\ [Next]_vars => [Transcript!Next]_Transcript!vars
<1> SUFFICES ASSUME MossInv, [Next]_vars PROVE Transcript!Next \/ UNCHANGED Transcript!vars
  OBVIOUS
<1>1. MapsToStep
  BY MossStep
<1>2. CASE rows' = rows /\ jobs' = jobs
  <2>1. UNCHANGED <<TextMap, OutcomeMap, ShownMap>>
    BY <1>2, IsMapped, WillBeMapped DEF Mapped
  <2> QED BY <2>1, UnmapNext
<1>3. ASSUME rows' = rows, NEW j, NEW c, Changes(j, c) PROVE Transcript!Next \/ UNCHANGED Transcript!vars
  BY <1>3, JobMaps
<1>4. CASE rows' = rows /\ Marks
  BY <1>4, MarksMaps
<1>5. CASE rows' = rows /\ jobs' = Append(jobs, Job)
  BY <1>5, SubmitMaps, UnmapNext
<1>6. ASSUME jobs' = jobs, NEW t \in Callers, CreateRow(t) PROVE Transcript!Next
  BY <1>6, CreateRowMaps
<1>7. CASE jobs' = jobs /\ PollRow
  BY <1>7, PollRowMaps
<1> QED BY <1>1, <1>2, <1>3, <1>4, <1>5, <1>6, <1>7 DEF MapsToStep, OneChange

\* The worker and the application together keep the promise of MossTranscript, step by
\* step: the text of a recording is only added to until the job has completed, an outcome
\* is final, and what the user is shown exists, never gets less, and is whole when it is
\* final (MossSupervisor._run, MossWorkerServer._window_statuses,
\* MossTranscriptionCoordinator._poll_row).
THEOREM MossImplementsTranscript == Spec => ImplementsTranscript
<1>1. Spec => [][Transcript!Next]_Transcript!vars
  BY TranscriptStep, MossInvariance, PTL DEF Spec
<1>2. Spec => Transcript!Init
  BY TranscriptBegins, PTL DEF Spec
<1> QED BY <1>1, <1>2, PTL DEF ImplementsTranscript, Transcript!Spec
================================================================================
