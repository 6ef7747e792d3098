-------------------------- MODULE SpeakerCalibration --------------------------
(***************************************************************************)
(* The acceptance threshold for a setup, that is a model and a microphone  *)
(* (app/services/speaker_calibration_service.py,                           *)
(* speaker_calibration_runtime.py): it is computed from the officers'      *)
(* samples, and frozen for a capture that starts                           *)
(* (asr_capture_service.py).                                               *)
(***************************************************************************)
EXTENDS VoiceprintLibrary, Sequences

CONSTANTS
    MinOfficers, MinSamplesPerOfficer,
    MaxCalibrations,    \* bound: rows of speaker_device_calibrations
    Captures

ASSUME CalibrationAssumption ==
    MinOfficers \in Nat \ {0} /\ MinSamplesPerOfficer \in Nat \ {0} /\ MaxCalibrations \in Nat

VARIABLES
    calibrations,   \* the rows in the order of created_at, each with its corpus
    legacyEnv,      \* a threshold is set in the environment
    starting,       \* what the start of a capture has read
    frozen          \* session_speaker_calibration_snapshots

vars == <<libraryVars, calibrations, legacyEnv, starting, frozen>>

Calibration == [setup : Setups, corpus : SUBSET Samples, officers : Nat]
Frozen == [source : {"DEVICE_CALIBRATED", "MODEL_BASELINE", "LEGACY_ENV", "UNAVAILABLE"},
           setup : Setups \cup {Unknown}, calibration : 0..MaxCalibrations]
Looked == [at : {"corpus"}, setup : Setups, ready : BOOLEAN]
Resolved == [at : {"resolved"}, row : Frozen]

CalibrationTypeOK ==
    /\ calibrations \in Seq(Calibration) /\ Len(calibrations) <= MaxCalibrations
    /\ legacyEnv \in BOOLEAN /\ frozen \in [Captures -> {None} \cup Frozen]
    /\ starting \in [Captures -> {None} \cup Looked \cup Resolved]

Init ==
    /\ LibraryInit /\ calibrations = <<>> /\ legacyEnv \in BOOLEAN
    /\ starting = [c \in Captures |-> None] /\ frozen = [c \in Captures |-> None]
--------------------------------------------------------------------------------
\* _compatible_corpus: samples made with this setup, of officers who have enough
Compatible(o, x) ==
    {s \in Enabled(samples, o) : InUse(profiles[o]) /\ samples[s].setup = x}
Eligible(x) == {o \in Officers : Cardinality(Compatible(o, x)) >= MinSamplesPerOfficer}
Corpus(x) == UNION {Compatible(o, x) : o \in Eligible(x)}
Ready(x) ==
    /\ Cardinality(Eligible(x)) >= MinOfficers
    /\ Cardinality(Corpus(x)) >= MinOfficers * MinSamplesPerOfficer

\* latest_calibration
Latest(x) ==
    LET rows == {i \in DOMAIN calibrations : calibrations[i].setup = x}
    IN  IF rows = {} THEN 0 ELSE CHOOSE i \in rows : \A j \in rows : j <= i

\* status, with the corpus that was read first.  Whether it has grown so much that a new
\* computation is recommended makes no difference to what is resolved.
Status(x, ready) ==
    CASE calibrations = <<>> -> "NOT_CALIBRATED"
      [] calibrations # <<>> /\ Latest(x) = 0 -> "STALE"
      [] Latest(x) # 0 /\ ~ready -> "INSUFFICIENT_DATA"
      [] OTHER -> "USABLE"

\* resolve_speaker_calibration: the environment counts only before any calibration.
Row(x, ready) ==
    [setup |-> x,
     source |-> CASE Status(x, ready) = "USABLE" -> "DEVICE_CALIBRATED"
                  [] Status(x, ready) = "NOT_CALIBRATED" /\ legacyEnv -> "LEGACY_ENV"
                  [] OTHER -> "MODEL_BASELINE",
     calibration |-> IF Status(x, ready) = "USABLE" THEN Latest(x) ELSE 0]

Unavailable == [setup |-> Unknown, source |-> "UNAVAILABLE", calibration |-> 0]
--------------------------------------------------------------------------------
\* recompute: the trials over the corpus come between the reading and the writing.
LoadRecompute(r) ==
    /\ Captures \cap party # {} /\ Ready(setup) /\ Len(calibrations) < MaxCalibrations
    /\ Load(r, [op |-> "recompute", setup |-> setup, corpus |-> Corpus(setup),
                officers |-> Cardinality(Eligible(setup))])
    /\ UNCHANGED <<writer, calibrations, legacyEnv, starting, frozen>>

CommitRecompute(r) ==
    /\ requests[r].op = "recompute" /\ MayWrite(r) /\ Len(calibrations) < MaxCalibrations
    /\ calibrations' = Append(calibrations,
          [setup |-> requests[r].setup, corpus |-> requests[r].corpus,
           officers |-> requests[r].officers])
    /\ Ends(r)
    /\ UNCHANGED <<samples, profiles, references, suspect, bound, setup, party, legacyEnv, starting, frozen>>

\* start resolves the calibration outside any transaction: the setup and the corpus are
\* read, then the calibrations.
LookAtCorpus(c) ==
    /\ frozen[c] = None /\ starting[c] = None
    /\ starting' = [starting EXCEPT ![c] = [at |-> "corpus", setup |-> setup, ready |-> Ready(setup)]]
    /\ UNCHANGED <<libraryVars, calibrations, legacyEnv, frozen>>

Resolve(c) ==
    /\ starting[c] # None /\ starting[c].at = "corpus"
    /\ \E row \in {Row(starting[c].setup, starting[c].ready), Unavailable} :
          starting' = [starting EXCEPT ![c] = [at |-> "resolved", row |-> row]]
    /\ UNCHANGED <<libraryVars, calibrations, legacyEnv, frozen>>

\* Mutant: the microphone and the model are asked for again.
FreezeMutant(c) ==
    /\ starting[c] # None /\ starting[c].at = "resolved" /\ writer = Nobody
    /\ frozen' = [frozen EXCEPT ![c] = [starting[c].row EXCEPT !.setup = setup]]
    /\ starting' = [starting EXCEPT ![c] = None]
    /\ UNCHANGED <<libraryVars, calibrations, legacyEnv>>

\* The capture's row and its snapshot are one transaction.
Freeze(c) ==
    /\ starting[c] # None /\ starting[c].at = "resolved" /\ writer = Nobody
    /\ frozen' = [frozen EXCEPT ![c] = starting[c].row]
    /\ starting' = [starting EXCEPT ![c] = None]
    /\ UNCHANGED <<libraryVars, calibrations, legacyEnv>>

Next ==
    \/ LibraryStep /\ UNCHANGED <<calibrations, legacyEnv, starting, frozen>>
    \/ \E r \in Requests \cap party : LoadRecompute(r) \/ CommitRecompute(r)
    \/ \E c \in Captures \cap party : LookAtCorpus(c) \/ Resolve(c) \/ Freeze(c)

Spec == Init /\ [][Next]_vars
--------------------------------------------------------------------------------
TypeOK == LibraryTypeOK /\ CalibrationTypeOK

Commits(r) == requests[r] # Idle /\ requests'[r] = Idle /\ profiles' # profiles

\* The reference that recognition uses is the one of the profile, and averages every
\* enabled sample.
Agree(o) ==
    /\ profiles[o] # None /\ references[o] # None
    /\ references[o].aggregate = profiles[o].aggregate
    /\ InUse(references[o]) = InUse(profiles[o])
    /\ Enabled(samples, o) \subseteq profiles[o].aggregate

\* What the request has read of o is still what there is.
Fresh(r, o) ==
    /\ requests[r].profile = ProfilesOf(r)[o]
    /\ requests[r].op = "disable" => requests[r].list = Enabled(SamplesOf(r), o)

\* A sample added or disabled by a request that nobody overtook makes the reference
\* agree with the profile again, whatever earlier races have left; and whatever races
\* there are, an officer whose profile has just been revoked is recognised no more
\* (_rebuild_profile, _sync_bridge, revoke_profile).
LibraryAgrees ==
    [][\A r \in Requests, o \in Officers : Commits(r) /\ requests[r].of = o =>
        /\ requests[r].op \in {"add", "disable"} /\ Fresh(r, o) => Agree(o)'
        /\ requests[r].op = "revoke" => ~InUse(references[o])' /\ ~InUse(profiles[o])']_vars

\* The reference that a session was bound to stays what it was, whatever is done to the
\* officer's samples, until the session is bound anew (assign_session_roles).
BoundStays ==
    [][\A x \in Sessions :
        bound[x] # None /\ references'[bound[x].row] # references[bound[x].row] =>
            \E r \in Requests : requests[r].op = "bind" /\ requests[r].session = x
                               /\ requests'[r] = Idle]_vars

\* Who has enough samples in a corpus
Heard(corpus) ==
    {o \in Officers : Cardinality({s \in corpus : samples[s].of = o}) >= MinSamplesPerOfficer}

\* Whatever is changed while a capture starts, the computed threshold that it is given was
\* computed from recordings made with the very model and microphone that its snapshot
\* names, enough of each of enough officers; and once a capture has had one, that of the
\* environment is resolved for none.
FrozenIsFit ==
    [][\A c \in Captures :
        /\ frozen'[c] # frozen[c] /\ frozen'[c].source = "DEVICE_CALIBRATED" =>
              LET corpus == calibrations[frozen'[c].calibration].corpus IN
              /\ \A s \in corpus : samples[s].setup = frozen'[c].setup
              /\ Cardinality(Heard(corpus)) >= MinOfficers
        /\ starting'[c] \in Resolved \ {starting[c]} /\ starting'[c].row.source = "LEGACY_ENV" =>
              \A d \in Captures : frozen[d] # None => frozen[d].source # "DEVICE_CALIBRATED"]_vars

===============================================================================
