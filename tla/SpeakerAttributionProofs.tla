------------------------ MODULE SpeakerAttributionProofs ------------------------
(***************************************************************************)
(* Proofs about SpeakerAttribution, for any officers, captures, operating  *)
(* points and similarities.                                                *)
(***************************************************************************)
EXTENDS SpeakerAttribution, TLAPS

--------------------------------------------------------------------------------
(* Who is said to have spoken *)

\* Of some roles one leads.
LEMMA LeaderLeads ==
    ASSUME NEW S \in SUBSET Roles, S # {}, NEW scores, \A r \in S : scores[r] \in Int
    PROVE  /\ Leader(scores, S) \in S
           /\ \A q \in S : scores[Leader(scores, S)] >= scores[q]
<1>1. \A r, q \in S : Ahead(scores, r, q) \/ Ahead(scores, q, r)
  BY DEF Ahead, Roles, OfficerRoles
<1>2. \A r, q, p \in S : Ahead(scores, r, q) /\ Ahead(scores, q, p) => Ahead(scores, r, p)
  BY DEF Ahead, Roles, OfficerRoles
<1>3. \E r \in S : \A q \in S : Ahead(scores, r, q)
  <2>1. \A r, q \in S : \E m \in S : Ahead(scores, m, r) /\ Ahead(scores, m, q)
    BY <1>1
  <2>2. ASSUME NEW r \in S, NEW q \in S, NEW p \in S
        PROVE  \E m \in S : Ahead(scores, m, r) /\ Ahead(scores, m, q) /\ Ahead(scores, m, p)
    <3>1. PICK m \in S : Ahead(scores, m, r) /\ Ahead(scores, m, q)
      BY <2>1
    <3>2. PICK n \in S : Ahead(scores, n, m) /\ Ahead(scores, n, p)
      BY <2>1
    <3> QED BY <1>2, <3>1, <3>2
  <2>3. PICK w \in S : TRUE
    OBVIOUS
  <2> DEFINE Here(r) == IF r \in S THEN r ELSE w
  <2>4. S = {Here("SUSPECT"), Here("INTERROGATOR"), Here("RECORDER")}
    BY DEF Roles, OfficerRoles
  <2>5. Here("SUSPECT") \in S /\ Here("INTERROGATOR") \in S /\ Here("RECORDER") \in S
    OBVIOUS
  <2> HIDE DEF Here
  <2>6. PICK m \in S : Ahead(scores, m, Here("SUSPECT")) /\ Ahead(scores, m, Here("INTERROGATOR"))
                          /\ Ahead(scores, m, Here("RECORDER"))
    BY <2>2, <2>5
  <2> QED BY <2>4, <2>6, Zenon
<1>4. Leader(scores, S) \in S /\ \A q \in S : Ahead(scores, Leader(scores, S), q)
  BY <1>3 DEF Leader
<1> QED BY <1>4 DEF Ahead

\* Whoever is named was heard well enough and, by the margin, better than the others.
LEMMA NamedIsClear ==
    ASSUME NEW scores, DOMAIN scores \in SUBSET Roles, \A r \in DOMAIN scores : scores[r] \in Int,
           NEW threshold \in Int, NEW margin \in Int, NEW usable \in BOOLEAN,
           NEW role, role = DecideSpeaker(scores, threshold, margin, usable).role,
           role # "UNKNOWN"
    PROVE  /\ usable /\ role \in DOMAIN scores /\ scores[role] >= threshold
           /\ \A q \in DOMAIN scores \ {role} : scores[role] - scores[q] >= margin
<1> DEFINE roles == DOMAIN scores
           best == Leader(scores, roles)
           others == roles \ {best}
           second == IF others = {} THEN Nothing ELSE scores[Leader(scores, others)]
           clear == others = {} \/ scores[best] - second >= margin
<1>1. usable /\ roles # {} /\ scores[best] >= threshold /\ clear /\ role = best
  BY DEF DecideSpeaker, Unassigned, Named
<1>2. best \in roles
  BY <1>1, LeaderLeads
<1>3. CASE others = {}
  BY <1>1, <1>2, <1>3
<1>4. CASE others # {}
  <2>1. /\ Leader(scores, others) \in others
        /\ \A q \in others : scores[Leader(scores, others)] >= scores[q]
    BY <1>4, LeaderLeads
  <2>2. scores[best] - second >= margin /\ second = scores[Leader(scores, others)]
    BY <1>1, <1>4
  <2>3. \A q \in others : scores[best] - scores[q] >= margin
    <3> DEFINE next == Leader(scores, others)
    <3>1. scores[best] \in Int /\ scores[next] \in Int /\ \A q \in others : scores[q] \in Int
      BY <1>2, <2>1
    <3> HIDE DEF best, next, others
    <3> QED BY <2>1, <2>2, <3>1 DEF next
  <2> QED BY <1>1, <1>2, <2>3
<1> QED BY <1>3, <1>4

\* An officer is named only where there is a margin, and only in a role that the mode
\* of the bound roles compares.
LEMMA NamedAtPoint ==
    ASSUME NEW point \in Points, NEW bound \in SUBSET Roles, "SUSPECT" \in bound,
           NEW scores, DOMAIN scores \subseteq bound, \A r \in DOMAIN scores : scores[r] \in Int,
           NEW usable \in BOOLEAN,
           NEW role, role = DecideAt(point, scores, bound, usable).role, role # "UNKNOWN"
    PROVE  /\ usable /\ role \in DOMAIN scores /\ scores[role] >= point.threshold
           /\ role \in EffectiveMode(DeclaredFor(bound), point.margin)
           /\ IF point.margin = Uncalibrated THEN role = "SUSPECT"
              ELSE \A q \in DOMAIN scores \ {role} : scores[role] - scores[q] >= point.margin
<1> DEFINE narrowed == Narrowed(scores, DecisionRoles(bound, point.margin))
           margin == IF point.margin = Uncalibrated THEN 0 ELSE point.margin
<1>1. point.threshold \in Int /\ margin \in Int
  BY AttributionAssumption
<1>2. /\ DOMAIN narrowed = DOMAIN scores \cap DecisionRoles(bound, point.margin)
      /\ \A r \in DOMAIN narrowed : narrowed[r] = scores[r]
  BY DEF Narrowed
<1>3. role = DecideSpeaker(narrowed, point.threshold, margin, usable).role
  BY DEF DecideAt
<1> HIDE DEF narrowed, margin
<1>4. /\ usable /\ role \in DOMAIN narrowed /\ narrowed[role] >= point.threshold
      /\ \A q \in DOMAIN narrowed \ {role} : narrowed[role] - narrowed[q] >= margin
  BY <1>1, <1>2, <1>3, NamedIsClear
<1>5. CASE point.margin = Uncalibrated
  BY <1>2, <1>4, <1>5 DEF DecisionRoles, EffectiveMode, SuspectOnly
<1>6. CASE point.margin # Uncalibrated
  <2>1. DecisionRoles(bound, point.margin) = bound
    BY <1>6 DEF DecisionRoles, EffectiveMode, DeclaredFor, SuspectOnly, Roles
  <2>2. DOMAIN narrowed = DOMAIN scores
    BY <1>2, <2>1
  <2>3. margin = point.margin
    BY <1>6 DEF margin
  <2> QED BY <1>2, <1>4, <1>6, <2>1, <2>2, <2>3 DEF DecisionRoles
<1> QED BY <1>5, <1>6

--------------------------------------------------------------------------------
(* The points of a capture *)

\* A runtime in memory and the rows of the fragments have the point that was kept at
\* the capture's start; a capture that runs or is worked on has one.
PointsKept ==
    \A c \in Captures :
        /\ runtimes[c] \in {Nothing, snapshot[c]}
        /\ fragments[c] \subseteq {snapshot[c]}
        /\ snapshot[c] = Nothing => fragments[c] = {}
        /\ c = active => snapshot[c] # Nothing /\ runtimes[c] = snapshot[c]
        /\ c = job.capture => snapshot[c] # Nothing /\ runtimes[c] = snapshot[c]

Invariant == TypeOK /\ PointsKept

LEMMA ResolvedType == TypeOK => Resolved \in Points /\ Resolved # Nothing
BY AttributionAssumption DEF TypeOK, Resolved

\* A voice is compared only if its role is bound.
LEMMA HeardType ==
    ASSUME TypeOK, NEW similar \in Similarities
    PROVE  /\ Bound \in SUBSET Roles /\ "SUSPECT" \in Bound
           /\ DOMAIN Heard(similar) \subseteq Bound
           /\ \A r \in DOMAIN Heard(similar) :
                 Heard(similar)[r] \in Similarity /\ Heard(similar)[r] \in Int
<1>1. PICK heard : similar \in [heard -> Similarity]
  BY DEF Similarities
<1>2. \A r \in DOMAIN Heard(similar) : Heard(similar)[r] \in Similarity
  BY <1>1 DEF Heard
<1> QED BY <1>2, AttributionAssumption DEF Heard, Bound, Roles

\* What is decided is an outcome.
LEMMA DecideAtType ==
    ASSUME NEW point, NEW bound, NEW usable \in BOOLEAN,
           NEW scores, DOMAIN scores \in SUBSET Roles, \A r \in DOMAIN scores : scores[r] \in Similarity
    PROVE  DecideAt(point, scores, bound, usable) \in
               [role : Roles \cup {"UNKNOWN"}, score : Similarity \cup {Nothing},
                second : Similarity \cup {Nothing}]
<1> DEFINE narrowed == Narrowed(scores, DecisionRoles(bound, point.margin))
           best == Leader(narrowed, DOMAIN narrowed)
           next == Leader(narrowed, DOMAIN narrowed \ {best})
<1>1. \A r \in DOMAIN narrowed : narrowed[r] \in Similarity /\ narrowed[r] \in Int
  BY AttributionAssumption DEF Narrowed
<1>2. DOMAIN narrowed \in SUBSET Roles
  BY DEF Narrowed
<1> HIDE DEF narrowed
<1>3. DOMAIN narrowed # {} => best \in DOMAIN narrowed
  BY <1>1, <1>2, LeaderLeads
<1>4. DOMAIN narrowed \ {best} # {} => next \in DOMAIN narrowed \ {best}
  <2> DEFINE others == DOMAIN narrowed \ {best}
  <2>1. others \in SUBSET Roles /\ \A r \in others : narrowed[r] \in Int
    BY <1>1, <1>2
  <2> HIDE DEF others
  <2>2. others # {} => Leader(narrowed, others) \in others
    BY <2>1, LeaderLeads
  <2> QED BY <2>2 DEF others
<1>5. SUFFICES ASSUME NEW threshold, NEW margin
               PROVE  DecideSpeaker(narrowed, threshold, margin, usable) \in
                          [role : Roles \cup {"UNKNOWN"}, score : Similarity \cup {Nothing},
                           second : Similarity \cup {Nothing}]
  BY DEF DecideAt, narrowed
<1> HIDE DEF best, next
<1> QED BY <1>1, <1>2, <1>3, <1>4 DEF DecideSpeaker, Named, Unassigned, best, next

LEMMA InitInvariant ==
    ASSUME Init
    PROVE  Invariant
<1>1. /\ snapshot \in [Captures -> {Nothing}] /\ runtimes \in [Captures -> {Nothing}]
      /\ fragments \in [Captures -> {{}}] /\ assigned \in [OfficerRoles -> {Nobody}]
  BY DEF Init
<1>2. job = [capture |-> Nobody, outcome |-> Nothing] /\ active = Nobody
  BY DEF Init, NoJob
<1>3. PointsKept
  BY <1>1, <1>2, AttributionAssumption DEF PointsKept
<1>4. job \in [capture : Captures \cup {Nobody}, outcome : {Nothing}]
  BY <1>2
<1>5. /\ fragments \in [Captures -> SUBSET Points] /\ snapshot \in [Captures -> Points \cup {Nothing}]
      /\ runtimes \in [Captures -> Points \cup {Nothing}]
      /\ assigned \in [OfficerRoles -> Officers \cup {Nobody}]
  BY <1>1
<1>6. TypeOK
  BY <1>2, <1>4, <1>5, AttributionAssumption DEF Init, TypeOK
<1> QED BY <1>3, <1>6 DEF Invariant

\* The steps that change no role, point or job.
LEMMA RolesInvariant ==
    ASSUME Invariant,
           \/ EnrolSuspect
           \/ \E o \in Officers : Enrol(o) \/ Revoke(o)
           \/ \E roles \in [OfficerRoles -> Officers \cup {Nobody}] : Bind(roles)
           \/ \E p \in Points \cup {Nothing} : Calibrate(p)
           \/ UNCHANGED vars
    PROVE  Invariant'
<1>1. UNCHANGED <<snapshot, runtimes, active, job, fragments>>
  BY DEF EnrolSuspect, Enrol, Revoke, Bind, Calibrate, roleVars, vars
<1>2. /\ live' \subseteq Officers /\ suspect' \in BOOLEAN
      /\ assigned' \in [OfficerRoles -> Officers \cup {Nobody}]
      /\ device' \in Points \cup {Nothing}
  BY DEF EnrolSuspect, Enrol, Revoke, Bind, Calibrate, roleVars, vars, Invariant, TypeOK
<1> QED BY <1>1, <1>2 DEF Invariant, TypeOK, PointsKept

LEMMA StartInvariant ==
    ASSUME Invariant, NEW c \in Captures, Start(c)
    PROVE  Invariant'
<1>1. Resolved \in Points /\ Resolved # Nothing
  BY ResolvedType DEF Invariant
<1>2. TypeOK'
  BY <1>1 DEF Start, roleVars, Invariant, TypeOK
<1>3. PointsKept'
  <2> SUFFICES ASSUME NEW d \in Captures
               PROVE  /\ runtimes'[d] \in {Nothing, snapshot'[d]}
                      /\ fragments'[d] \subseteq {snapshot'[d]}
                      /\ snapshot'[d] = Nothing => fragments'[d] = {}
                      /\ d = active' => snapshot'[d] # Nothing /\ runtimes'[d] = snapshot'[d]
                      /\ d = job'.capture => snapshot'[d] # Nothing /\ runtimes'[d] = snapshot'[d]
    BY DEF PointsKept
  <2>1. /\ snapshot'[d] = IF d = c THEN Resolved ELSE snapshot[d]
        /\ runtimes'[d] = IF d = c THEN Resolved ELSE runtimes[d]
        /\ fragments' = fragments /\ job' = job /\ active' = c /\ snapshot[c] = Nothing
    BY DEF Start, Invariant, TypeOK
  <2> QED BY <1>1, <2>1 DEF Invariant, PointsKept
<1> QED BY <1>2, <1>3 DEF Invariant

\* What a capture has again after a restart, or for a job, is what was kept.
LEMMA RecoveredIsKept ==
    ASSUME Invariant, NEW c \in Captures
    PROVE  /\ Recovered(c) \in Points
           /\ snapshot[c] # Nothing => Recovered(c) = snapshot[c]
BY AttributionAssumption DEF Recovered, Invariant, TypeOK

LEMMA RestartInvariant ==
    ASSUME Invariant, NEW resumed \in BOOLEAN, Restart(resumed)
    PROVE  Invariant'
<1>1. \A c \in Captures : runtimes'[c] = IF c = active THEN Recovered(c) ELSE Nothing
  BY DEF Restart
<1>2. runtimes' \in [Captures -> Points \cup {Nothing}]
  BY <1>1, RecoveredIsKept DEF Restart
<1>3. TypeOK'
  BY <1>2 DEF Restart, NoJob, roleVars, Invariant, TypeOK
<1>4. PointsKept'
  <2>1. job'.capture = Nobody /\ snapshot' = snapshot /\ fragments' = fragments
        /\ active' \in {active, Nobody}
    BY DEF Restart, NoJob
  <2> QED BY <1>1, <2>1, RecoveredIsKept, AttributionAssumption DEF Invariant, PointsKept
<1> QED BY <1>3, <1>4 DEF Invariant

LEMMA TakeJobInvariant ==
    ASSUME Invariant, NEW c \in Captures, TakeJob(c)
    PROVE  Invariant'
<1>1. /\ job' = [capture |-> c, outcome |-> Nothing]
      /\ UNCHANGED <<roleVars, device, snapshot, active, fragments>> /\ snapshot[c] # Nothing
  BY DEF TakeJob, NoJob
<1>2. \A d \in Captures : runtimes'[d] = IF d = c /\ runtimes[d] = Nothing THEN Recovered(d) ELSE runtimes[d]
  BY DEF TakeJob, Invariant, TypeOK
<1>3. runtimes' \in [Captures -> Points \cup {Nothing}]
  BY RecoveredIsKept DEF TakeJob, Invariant, TypeOK
<1>4. TypeOK'
  BY <1>1, <1>3 DEF roleVars, Invariant, TypeOK
<1>5. PointsKept'
  BY <1>1, <1>2, RecoveredIsKept DEF Invariant, PointsKept
<1> QED BY <1>4, <1>5 DEF Invariant

LEMMA DecideInvariant ==
    ASSUME Invariant, NEW similar \in Similarities, NEW usable \in BOOLEAN, Decide(similar, usable)
    PROVE  Invariant'
<1>1. job.capture \in Captures
  BY DEF Decide, Invariant, TypeOK
<1>2. CASE ~suspect
  BY <1>2, AttributionAssumption DEF Decide, NoJob, roleVars, Invariant, TypeOK, PointsKept
<1>3. CASE suspect
  <2> DEFINE point == runtimes[job.capture]
             outcome == DecideAt(point, Heard(similar), Bound, usable)
  <2>1. point \in Points /\ point = snapshot[job.capture]
    BY <1>1 DEF Invariant, TypeOK, PointsKept
  <2>2. outcome \in [role : Roles \cup {"UNKNOWN"}, score : Similarity \cup {Nothing},
                     second : Similarity \cup {Nothing}]
    <3>1. DOMAIN Heard(similar) \in SUBSET Roles
          /\ \A r \in DOMAIN Heard(similar) : Heard(similar)[r] \in Similarity
      BY HeardType DEF Invariant
    <3> QED BY <3>1, DecideAtType
  <2>3. /\ job' = [job EXCEPT !.outcome = outcome]
        /\ fragments' = [fragments EXCEPT ![job.capture] = @ \cup {point}]
        /\ UNCHANGED <<live, suspect, assigned, device, snapshot, runtimes, active>>
    BY <1>3 DEF Decide, roleVars
  <2> HIDE DEF point, outcome
  <2>4. job' = [capture |-> job.capture, outcome |-> outcome]
    BY <2>3 DEF Decide, Invariant, TypeOK
  <2>5. TypeOK'
    BY <1>1, <2>1, <2>2, <2>3, <2>4 DEF Invariant, TypeOK
  <2>6. \A c \in Captures : fragments'[c] \subseteq fragments[c] \cup (IF c = job.capture THEN {point} ELSE {})
    BY <2>3 DEF Invariant, TypeOK
  <2>7. PointsKept'
    BY <1>1, <2>1, <2>3, <2>4, <2>6 DEF Invariant, PointsKept
  <2> QED BY <2>5, <2>7 DEF Invariant
<1> QED BY <1>2, <1>3

LEMMA EndsInvariant ==
    ASSUME Invariant, Stop \/ EndJob
    PROVE  Invariant'
<1>1. /\ UNCHANGED <<roleVars, device, snapshot, runtimes, fragments>>
      /\ active' \in {active, Nobody} /\ job' \in {job, NoJob}
  BY DEF Stop, EndJob
<1> QED BY <1>1, AttributionAssumption DEF Invariant, TypeOK, PointsKept, NoJob, roleVars

LEMMA StepInvariant == Invariant /\ [Next]_vars => Invariant'
BY RolesInvariant, StartInvariant, RestartInvariant, TakeJobInvariant, DecideInvariant,
   EndsInvariant DEF Next

LEMMA Invariance == Spec => []Invariant
BY InitInvariant, StepInvariant, PTL DEF Spec

\* Every fragment of a capture is judged at the point of the capture's start, for any
\* number of officers, captures, calibrations and restarts.
THEOREM OnePointPerCapture == Spec => []OnePoint
<1>1. Invariant => OnePoint
  BY DEF Invariant, PointsKept, OnePoint
<1> QED BY <1>1, Invariance, PTL

--------------------------------------------------------------------------------
(* What a step that decides may say *)

\* An outcome comes of a comparison at the point of the job's capture.
LEMMA DecidedAt ==
    ASSUME Invariant, NEW similar \in Similarities, NEW usable \in BOOLEAN,
           Decide(similar, usable), Decides
    PROVE  /\ job.capture \in Captures
           /\ snapshot[job.capture] \in Points
           /\ runtimes[job.capture] = snapshot[job.capture]
           /\ job'.outcome.role =
                  DecideAt(snapshot[job.capture], Heard(similar), Bound, usable).role
<1>1. suspect
  BY DEF Decide, Decides, NoJob
<1>2. job.capture \in Captures
  BY DEF Decide, Invariant, TypeOK
<1>3. runtimes[job.capture] = snapshot[job.capture] /\ snapshot[job.capture] \in Points
  BY <1>2 DEF Invariant, TypeOK, PointsKept
<1>4. job' = [job EXCEPT !.outcome =
                  DecideAt(snapshot[job.capture], Heard(similar), Bound, usable)]
  BY <1>1, <1>3 DEF Decide
<1>5. DOMAIN job = {"capture", "outcome"}
  BY DEF Invariant, TypeOK
<1> QED BY <1>2, <1>3, <1>4, <1>5

\* Only a comparison decides.
LEMMA DecidesIsDecide ==
    ASSUME Invariant, Next, Decides
    PROVE  \E similar \in Similarities, usable \in BOOLEAN : Decide(similar, usable)
<1>1. ASSUME EndJob \/ \E resumed \in BOOLEAN : Restart(resumed)
      PROVE  FALSE
  BY <1>1 DEF EndJob, Restart, Decides, NoJob
<1>2. ASSUME \E c \in Captures : TakeJob(c)
      PROVE  FALSE
  BY <1>2 DEF TakeJob, Decides, NoJob
<1>3. ASSUME UNCHANGED job
      PROVE  FALSE
  BY <1>3 DEF Decides
<1> QED BY <1>1, <1>2, <1>3 DEF Next, EnrolSuspect, Stop, Enrol, Revoke, Bind, Calibrate, Start

\* An officer is named only where there is a margin, and there only who was ahead of
\* all the others by it: for any similarities.
THEOREM NobodyIsNamedByDefault == Spec => NobodyByDefault
<1> DEFINE Clear(similar, usable) ==
               LET scores == Heard(similar)
                   role == job'.outcome.role
                   point == snapshot[job.capture] IN
               /\ usable /\ role \in DOMAIN scores /\ scores[role] >= point.threshold
               /\ IF point.margin = Uncalibrated THEN role = "SUSPECT"
                  ELSE \A q \in DOMAIN scores \ {role} : scores[role] - scores[q] >= point.margin
           Kept == Decides /\ job'.outcome.role # "UNKNOWN" =>
                       \A similar \in Similarities, usable \in BOOLEAN :
                           Decide(similar, usable) => Clear(similar, usable)
<1>1. ASSUME Invariant, NEW similar \in Similarities, NEW usable \in BOOLEAN,
             Decide(similar, usable), Decides, job'.outcome.role # "UNKNOWN"
      PROVE  Clear(similar, usable)
  <2>1. /\ snapshot[job.capture] \in Points
        /\ job'.outcome.role = DecideAt(snapshot[job.capture], Heard(similar), Bound, usable).role
    BY <1>1, DecidedAt
  <2>2. /\ Bound \in SUBSET Roles /\ "SUSPECT" \in Bound
        /\ DOMAIN Heard(similar) \subseteq Bound
        /\ \A r \in DOMAIN Heard(similar) : Heard(similar)[r] \in Int
    BY <1>1, HeardType DEF Invariant
  <2> QED BY <1>1, <2>1, <2>2, NamedAtPoint
<1> HIDE DEF Clear
<1>2. Invariant /\ [Next]_vars => [Kept]_vars
  BY <1>1
<1> USE DEF Clear
<1> QED BY <1>2, Invariance, PTL DEF Spec, NobodyByDefault

\* While the bound officers are in use, the roles that readiness shows are all that a
\* fragment of the running capture may be attributed to.
THEOREM ShownModeIsInForce == Spec => ShownIsInForce
<1> DEFINE Asked == Decides /\ job.capture = active /\ Verified
                      /\ (\A r \in OfficerRoles : assigned[r] \in live \cup {Nobody})
           Told == job'.outcome.role \in ShownMode \cup {"UNKNOWN"}
<1>1. ASSUME Invariant, Next, Asked, job'.outcome.role # "UNKNOWN"
      PROVE  Told
  <2>1. PICK similar \in Similarities, usable \in BOOLEAN : Decide(similar, usable)
    BY <1>1, DecidesIsDecide
  <2> DEFINE point == snapshot[job.capture]
             role == job'.outcome.role
  <2>2. /\ job.capture \in Captures /\ point \in Points /\ runtimes[job.capture] = point
        /\ role = DecideAt(point, Heard(similar), Bound, usable).role
    BY <1>1, <2>1, DecidedAt
  <2>3. /\ Bound \in SUBSET Roles /\ "SUSPECT" \in Bound
        /\ DOMAIN Heard(similar) \subseteq Bound
        /\ \A r \in DOMAIN Heard(similar) : Heard(similar)[r] \in Int
    BY <1>1, HeardType DEF Invariant
  <2>4. role \in EffectiveMode(DeclaredFor(Bound), point.margin)
    BY <1>1, <2>2, <2>3, NamedAtPoint
  <2>5. DeclaredFor(Bound) \subseteq DeclaredMode
    BY <1>1 DEF Bound, DeclaredFor, DeclaredMode, OfficerReady, SuspectOnly, OfficerRoles
  <2>6. role \in EffectiveMode(DeclaredMode, point.margin)
    BY <2>4, <2>5 DEF EffectiveMode
  <2>7. active = job.capture /\ active # Nobody
    BY <1>1, <2>2, AttributionAssumption
  <2>8. RuntimeMode.margin = point.margin
    BY <2>2, <2>7 DEF RuntimeMode, FromCapture
  <2> QED BY <1>1, <2>6, <2>8 DEF ShownMode
<1> HIDE DEF Asked, Told
<1>2. Invariant /\ [Next]_vars => [Asked => Told]_vars
  <2>1. job'.outcome.role = "UNKNOWN" => Told
    BY DEF Told
  <2> QED BY <1>1, <2>1
<1> USE DEF Asked, Told
<1> QED BY <1>2, Invariance, PTL DEF Spec, ShownIsInForce
================================================================================
