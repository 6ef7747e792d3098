--------------------------- MODULE SpeakerAttribution ---------------------------
(***************************************************************************)
(* Who is said to have spoken, as operators (app/services/                 *)
(* speaker_policy.py, speaker_mode.py), and the roles of a session while   *)
(* officers are revoked, devices are calibrated anew and the application   *)
(* restarts (app/services/asr_capture_service.py, voiceprint_service.py,   *)
(* live_speech_coordinator.py), and what the operator is told of it        *)
(* (speaker_mode.py).  One case with one session; whether an outcome is    *)
(* still wanted when it is written is SpeakerJobs' concern.  A recognition *)
(* mode is the set of the roles whose references it compares; a similarity *)
(* is a whole number.                                                      *)
(***************************************************************************)
EXTENDS Integers, FiniteSets

CONSTANTS Officers, Captures, Nobody,
    Nothing,
    Uncalibrated,   \* the margin of a device that has none
    Points,     \* what a device may be calibrated to: [threshold, margin]
    Baseline,   \* the model's own threshold, with no margin
    Similarity  \* what comparing two voices may give

ASSUME AttributionAssumption ==
    /\ Points \subseteq [threshold : Int, margin : Nat \cup {Uncalibrated}]
    /\ Baseline \in Points /\ Baseline.margin = Uncalibrated
    /\ Similarity \subseteq Int
    /\ Uncalibrated \notin Nat /\ Nothing \notin Points
    /\ Nobody \notin Officers \cup Captures

--------------------------------------------------------------------------------
(* Who has spoken *)

OfficerRoles == {"INTERROGATOR", "RECORDER"}
Roles == OfficerRoles \cup {"SUSPECT"}
SuspectOnly == {"SUSPECT"}

\* Mutant: a device without a margin compares all the same.
EffectiveModeMutant(declared, margin) == declared

\* resolve_effective_recognition_mode: the threshold is not asked
EffectiveMode(declared, margin) ==
    IF margin = Uncalibrated THEN SuspectOnly ELSE declared

\* declared_mode_for_roles: the suspect is always among the roles that are bound.
DeclaredFor(bound) == SuspectOnly \cup (bound \cap OfficerRoles)

\* narrow_decision_roles
DecisionRoles(bound, margin) == bound \cap EffectiveMode(DeclaredFor(bound), margin)

\* _narrow_decision: references outside the mode are dropped before the comparison.
Narrowed(scores, roles) == [r \in DOMAIN scores \cap roles |-> scores[r]]

Named(role, score, second) == [role |-> role, score |-> score, second |-> second]
Unassigned(score, second) == Named("UNKNOWN", score, second)

\* The sort is stable: of equal scores the reference that was looked up first leads.
Ahead(scores, r, q) ==
    LET place == [SUSPECT |-> 1, INTERROGATOR |-> 2, RECORDER |-> 3] IN
    scores[r] > scores[q] \/ (scores[r] = scores[q] /\ place[r] <= place[q])

Leader(scores, roles) == CHOOSE r \in roles : \A q \in roles : Ahead(scores, r, q)

\* decide_speaker; with the suspect alone there is nobody to be ahead of.
DecideSpeaker(scores, threshold, margin, usable) ==
    LET roles == DOMAIN scores
        best == Leader(scores, roles)
        others == roles \ {best}
        second == IF others = {} THEN Nothing ELSE scores[Leader(scores, others)]
        clear == others = {} \/ scores[best] - second >= margin
    IN
    IF ~usable \/ roles = {} THEN Unassigned(Nothing, Nothing)
    ELSE IF scores[best] >= threshold /\ clear
         THEN Named(best, scores[best], second)
         ELSE Unassigned(scores[best], second)

\* _decide_with_operating_point
DecideAt(point, scores, bound, usable) ==
    DecideSpeaker(Narrowed(scores, DecisionRoles(bound, point.margin)), point.threshold,
                  IF point.margin = Uncalibrated THEN 0 ELSE point.margin, usable)

--------------------------------------------------------------------------------
VARIABLES
    live,       \* the officers whose reference is in use
    suspect,    \* the suspect's reference exists
    assigned,   \* session_voice_assignments: for each role, of whom it has a copy
    device,     \* what the calibration resolver answers; Nothing when it raises
    snapshot,   \* session_speaker_calibration_snapshots
    runtimes,   \* the operating points in memory, by capture
    active,     \* the capture whose thread runs
    job,        \* the job of the speaker thread: its capture
    fragments   \* for each capture, the operating points on its fragments' rows

vars == <<live, suspect, assigned, device, snapshot, runtimes, active, job, fragments>>
roleVars == <<live, suspect, assigned>>

TypeOK ==
    /\ live \subseteq Officers /\ suspect \in BOOLEAN
    /\ assigned \in [OfficerRoles -> Officers \cup {Nobody}]
    /\ device \in Points \cup {Nothing}
    /\ snapshot \in [Captures -> Points \cup {Nothing}]
    /\ runtimes \in [Captures -> Points \cup {Nothing}]
    /\ active \in Captures \cup {Nobody}
    /\ job \in [capture : Captures \cup {Nobody}, outcome : {Nothing}]
           \cup [capture : Captures, outcome : [role : Roles \cup {"UNKNOWN"},
                    score : Similarity \cup {Nothing}, second : Similarity \cup {Nothing}]]
    /\ fragments \in [Captures -> SUBSET Points]

NoJob == [capture |-> Nobody, outcome |-> Nothing]

Init ==
    /\ live = {} /\ suspect = FALSE /\ device = Baseline
    /\ assigned = [r \in OfficerRoles |-> Nobody]
    /\ snapshot = [c \in Captures |-> Nothing] /\ runtimes = snapshot
    /\ active = Nobody /\ job = NoJob
    /\ fragments = [c \in Captures |-> {}]
--------------------------------------------------------------------------------
EnrolSuspect ==
    /\ ~suspect /\ suspect' = TRUE
    /\ UNCHANGED <<live, assigned, device, snapshot, runtimes, active, job, fragments>>

Enrol(o) ==
    /\ o \notin live /\ live' = live \cup {o}
    /\ UNCHANGED <<suspect, assigned, device, snapshot, runtimes, active, job, fragments>>

\* The session's copies stay in use.
Revoke(o) ==
    /\ o \in live /\ live' = live \ {o}
    /\ UNCHANGED <<suspect, assigned, device, snapshot, runtimes, active, job, fragments>>

Bind(roles) ==
    /\ suspect /\ roles # assigned
    /\ \A r \in OfficerRoles : roles[r] \in live \cup {Nobody}
    /\ assigned' = roles
    /\ UNCHANGED <<live, suspect, device, snapshot, runtimes, active, job, fragments>>

Calibrate(p) ==
    /\ device # p /\ device' = p
    /\ UNCHANGED <<roleVars, snapshot, runtimes, active, job, fragments>>

\* _resolve_calibration: with none to be had the capture runs without a margin.
Resolved == IF device = Nothing THEN Baseline ELSE device

Start(c) ==
    /\ active = Nobody /\ snapshot[c] = Nothing
    /\ active' = c
    /\ snapshot' = [snapshot EXCEPT ![c] = Resolved]
    /\ runtimes' = [runtimes EXCEPT ![c] = Resolved]
    /\ UNCHANGED <<roleVars, device, job, fragments>>

Stop ==
    /\ active # Nobody /\ active' = Nobody
    /\ UNCHANGED <<roleVars, device, snapshot, runtimes, job, fragments>>

\* Mutant: the calibration is looked up again.
RecoveredMutant(c) == Resolved

\* build_recovery_runtime
Recovered(c) == IF snapshot[c] = Nothing THEN Baseline ELSE snapshot[c]

\* A crash and the start after it: the capture of a browser may go on, and has its
\* runtime again; the job in hand is pending again.
Restart(resumed) ==
    /\ active' = IF resumed THEN active ELSE Nobody
    /\ runtimes' = [c \in Captures |-> IF c = active THEN Recovered(c) ELSE Nothing]
    /\ job' = NoJob
    /\ UNCHANGED <<roleVars, device, snapshot, fragments>>
--------------------------------------------------------------------------------
\* process_speaker_job until it has the runtime
TakeJob(c) ==
    /\ job.capture = Nobody /\ snapshot[c] # Nothing
    /\ job' = [NoJob EXCEPT !.capture = c]
    /\ runtimes' = [runtimes EXCEPT ![c] = IF @ = Nothing THEN Recovered(c) ELSE @]
    /\ UNCHANGED <<roleVars, device, snapshot, active, fragments>>

\* _speaker_candidates: whose copies the session has, whatever has become of the officers
Bound == {"SUSPECT"} \cup {r \in OfficerRoles : assigned[r] # Nobody}
Voice(r) == IF r = "SUSPECT" THEN "SUSPECT" ELSE assigned[r]

\* A vector that cannot be compared makes no candidate; one officer in two roles is
\* twice as similar.
Heard(similar) == [r \in {q \in Bound : Voice(q) \in DOMAIN similar} |-> similar[Voice(r)]]

\* Without the suspect's reference the job only needs a review.
Decide(similar, usable) ==
    /\ job.capture # Nobody /\ job.outcome = Nothing
    /\ IF suspect
         THEN LET point == runtimes[job.capture] IN
              /\ job' = [job EXCEPT !.outcome = DecideAt(point, Heard(similar), Bound, usable)]
              /\ fragments' = [fragments EXCEPT ![job.capture] = @ \cup {point}]
         ELSE job' = NoJob /\ UNCHANGED fragments
    /\ UNCHANGED <<roleVars, device, snapshot, runtimes, active>>

EndJob ==
    /\ job.outcome # Nothing /\ job' = NoJob
    /\ UNCHANGED <<roleVars, device, snapshot, runtimes, active, fragments>>

Similarities == UNION {[heard -> Similarity] :
                       heard \in SUBSET ({"SUSPECT"} \cup ({assigned[r] : r \in OfficerRoles} \ {Nobody}))}

Next ==
    \/ EnrolSuspect \/ Stop \/ EndJob
    \/ \E o \in Officers : Enrol(o) \/ Revoke(o)
    \/ \E roles \in [OfficerRoles -> Officers \cup {Nobody}] : Bind(roles)
    \/ \E p \in Points \cup {Nothing} : Calibrate(p)
    \/ \E c \in Captures : Start(c) \/ TakeJob(c)
    \/ \E resumed \in BOOLEAN : Restart(resumed)
    \/ \E similar \in Similarities, usable \in BOOLEAN : Decide(similar, usable)

Spec == Init /\ [][Next]_vars
--------------------------------------------------------------------------------
(* What readiness tells the operator *)

\* from_runtime_status, from_resolved_calibration, from_sources: the environment's
\* margin, which only the last would show, is never shown as effective
FromCapture == [margin |-> runtimes[active].margin, source |-> "LIVE_CAPTURE"]
FromDevice == [margin |-> device.margin, source |-> "DEVICE_CALIBRATION"]
FromSources == [margin |-> Uncalibrated, source |-> "UNVERIFIED"]

\* Mutant: the device is asked before the capture that runs.
RuntimeModeMutant == IF device # Nothing THEN FromDevice ELSE FromSources

\* resolve_runtime_speaker_mode
RuntimeMode == IF active # Nobody THEN FromCapture
               ELSE IF device # Nothing THEN FromDevice ELSE FromSources

Verified == RuntimeMode.source # "UNVERIFIED"

\* _officer_active: by the officer's own reference
OfficerReady(r) == assigned[r] \in live

\* readiness and _recognition_mode: the roles of the session's officers who are in use
DeclaredMode == DeclaredFor(SuspectOnly \cup {r \in OfficerRoles : OfficerReady(r)})

\* as_readiness_fields
ShownMode == IF Verified THEN EffectiveMode(DeclaredMode, RuntimeMode.margin) ELSE Nothing

Decides == job'.outcome # Nothing /\ job.outcome = Nothing

\* Every fragment of a capture is judged at one operating point, that of its start,
\* whatever is calibrated meanwhile and however often the application restarts (start,
\* build_recovery_runtime).
OnePoint == TypeOK /\ \A c \in Captures : fragments[c] \subseteq {snapshot[c]}

\* An officer is said to have spoken only on a device that has a margin; and there
\* whoever is said to have spoken was more similar, by the margin, than everybody else
\* bound who could be compared (decide_speaker, _narrow_decision).
NobodyByDefault ==
    [][Decides /\ job'.outcome.role # "UNKNOWN" =>
        \A similar \in Similarities, usable \in BOOLEAN : Decide(similar, usable) =>
            LET scores == Heard(similar)
                role == job'.outcome.role
                point == snapshot[job.capture] IN
            /\ usable /\ role \in DOMAIN scores /\ scores[role] >= point.threshold
            /\ IF point.margin = Uncalibrated THEN role = "SUSPECT"
               ELSE \A q \in DOMAIN scores \ {role} : scores[role] - scores[q] >= point.margin]_vars

\* The mode that is shown as verified is the one in force: while the officers who are
\* bound are in use, a fragment of the running capture is attributed to no other role
\* than that mode's (resolve_runtime_speaker_mode, process_speaker_job).
ShownIsInForce ==
    [][Decides /\ job.capture = active /\ Verified
        /\ (\A r \in OfficerRoles : assigned[r] \in live \cup {Nobody})
            => job'.outcome.role \in ShownMode \cup {"UNKNOWN"}]_vars
================================================================================
