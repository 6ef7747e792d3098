--------------------------- MODULE VoiceprintLibrary ---------------------------
(***************************************************************************)
(* The voiceprints of the officers                                         *)
(* (app/services/officer_voiceprint_library.py,                            *)
(* app/repositories/voiceprints.py and the roles of a session in           *)
(* app/services/voiceprint_service.py).  A request reads outside any       *)
(* transaction (Load); its first write takes SQLite's write lock and what  *)
(* it reads from then on is fresh (Commit).  A reference is the set of the *)
(* samples that it averages.                                               *)
(***************************************************************************)
EXTENDS Naturals, FiniteSets

CONSTANTS
    Officers, Samples, Sessions, Requests,
    Setups,         \* a speech model with a microphone: their fingerprints
    OldReference,   \* for an officer whom the first releases knew, the sample its reference is
    MaxVersion,     \* bound: versions of a profile
    MaxSuspect,     \* bound: editions of the suspect's reference
    Parties,        \* bound: the requests, officers, sessions, setups and captures of one behaviour
    Unknown, Nobody

Legacy == DOMAIN OldReference
OldSamples == {OldReference[o] : o \in Legacy}

ASSUME LibraryAssumption ==
    /\ Legacy \subseteq Officers /\ OldReference \in [Legacy -> Samples]
    /\ \A o1, o2 \in Legacy : OldReference[o1] = OldReference[o2] => o1 = o2
    /\ IsFiniteSet(Officers) /\ IsFiniteSet(Samples) /\ Officers \cap Sessions = {}
    /\ MaxVersion \in Nat \ {0} /\ MaxSuspect \in Nat
    /\ Unknown \notin Setups /\ Nobody \notin Requests \cup Officers

VARIABLES
    samples,      \* officer_voice_samples
    profiles,     \* officer_voice_profiles
    references,   \* officer_voiceprints: a reference per officer, and copies for sessions
    suspect,      \* the suspect's reference: 0, or its edition
    bound,        \* session_voice_assignments: whose reference, which row, which version
    requests,     \* for each request, what it has loaded
    writer,       \* the request that holds the write lock between two steps
    setup,        \* the model and the microphone in use
    party         \* one of the Parties: never changes

libraryVars == <<samples, profiles, references, suspect, bound, requests, writer, setup, party>>

None == [none |-> TRUE]
Idle == [op |-> "idle"]

\* officer_id and model_key are unique: one profile and one reference per officer.
SampleRow == [of : Officers, active : BOOLEAN, setup : Setups \cup {Unknown}]
ProfileRow == [active : BOOLEAN, revoked : BOOLEAN, version : 1..(MaxVersion + 1),
               count : 0..Cardinality(Samples), aggregate : SUBSET Samples]
ReferenceRow == [active : BOOLEAN, revoked : BOOLEAN, aggregate : SUBSET Samples]

LibraryTypeOK ==
    /\ samples \in [Samples -> {None} \cup SampleRow]
    /\ profiles \in [Officers -> {None} \cup ProfileRow]
    /\ references \in [Officers \cup Sessions -> {None} \cup ReferenceRow]
    /\ suspect \in 0..MaxSuspect /\ writer \in Requests \cup {Nobody} /\ setup \in Setups
    /\ bound \in [Sessions -> {None} \cup
                  [officer : Officers, row : Officers \cup Sessions, version : 1..(MaxVersion + 1)]]

LibraryInit ==
    /\ samples = [s \in Samples |-> None]
    /\ profiles = [o \in Officers |-> None]
    /\ party \in Parties
    /\ \E old \in SUBSET (Legacy \cap party) :
          references = [o \in Officers \cup Sessions |->
              IF o \in old
              THEN [active |-> TRUE, revoked |-> FALSE, aggregate |-> {OldReference[o]}]
              ELSE None]
    /\ suspect = 0 /\ writer = Nobody /\ setup \in Setups \cap party
    /\ bound = [x \in Sessions |-> None]
    /\ requests = [r \in Requests |-> Idle]

\* An UPDATE writes the columns that differ from what the request had loaded.
Net(loaded, changed, row) ==
    [c \in DOMAIN row |-> IF changed[c] # loaded[c] THEN changed[c] ELSE row[c]]

InUse(row) == row # None /\ row.active /\ ~row.revoked
Enabled(rows, o) == {s \in Samples : rows[s] # None /\ rows[s].of = o /\ rows[s].active}
--------------------------------------------------------------------------------
\* References of the first releases have neither a profile nor a sample; every
\* request makes them up, and so holds the write lock until it ends.
Missing == {o \in Officers : references[o] # None /\ profiles[o] = None}
OldRow(o) == [of |-> o, active |-> TRUE, setup |-> Unknown]
OldProfile(o) ==
    [active |-> InUse(references[o]), revoked |-> references[o].revoked, version |-> 1,
     count |-> 1, aggregate |-> references[o].aggregate]

\* The tables as the transaction of r sees them
SamplesOf(r) ==
    IF writer # r THEN samples
    ELSE [s \in Samples |-> IF \E o \in Missing : s = OldReference[o]
                            THEN OldRow(CHOOSE o \in Missing : s = OldReference[o])
                            ELSE samples[s]]
ProfilesOf(r) ==
    IF writer # r THEN profiles
    ELSE [o \in Officers |-> IF o \in Missing THEN OldProfile(o) ELSE profiles[o]]

Profile(o) == IF o \in Missing THEN OldProfile(o) ELSE profiles[o]

Load(r, request) ==
    /\ requests[r] = Idle
    /\ requests' = [requests EXCEPT ![r] = request]
    /\ UNCHANGED <<samples, profiles, references, suspect, bound, setup, party>>

Materialize(r) ==
    \/ Missing = {} /\ UNCHANGED writer
    \/ Missing # {} /\ writer = Nobody /\ writer' = r

MayWrite(r) == writer \in {Nobody, r}
Ends(r) ==
    /\ requests' = [requests EXCEPT ![r] = Idle]
    /\ writer' = IF writer = r THEN Nobody ELSE writer

\* _sync_bridge: from the profile in memory, whatever its row says
ReferenceFrom(p) ==
    [active |-> p.active /\ p.count > 0 /\ ~p.revoked, revoked |-> p.revoked,
     aggregate |-> p.aggregate]

\* _rebuild_profile
Rebuilt(p, list, reactivate) ==
    IF list = {} THEN [p EXCEPT !.version = @ + 1, !.count = 0, !.active = FALSE]
    ELSE [p EXCEPT !.version = @ + 1, !.count = Cardinality(list), !.aggregate = list,
                   !.active = reactivate \/ ~p.revoked \/ @,
                   !.revoked = ~reactivate /\ @]
--------------------------------------------------------------------------------
\* add_sample: the speech worker makes the reference before the profile is read, and
\* is asked for its fingerprint between the reading and the first write.
LoadAdd(r, o) ==
    /\ Materialize(r)
    /\ Profile(o) # None => Profile(o).version < MaxVersion
    /\ Load(r, [op |-> "add", of |-> o, profile |-> Profile(o), setup |-> setup])

CommitAdd(r, s) ==
    LET p == requests[r].profile
        o == requests[r].of
        rows == [SamplesOf(r) EXCEPT ![s] = [of |-> o, active |-> TRUE,
                                             setup |-> requests[r].setup]]
        new == Rebuilt(IF p = None THEN [active |-> TRUE, revoked |-> FALSE, version |-> 0,
                                         count |-> 0, aggregate |-> {}]
                       ELSE [p EXCEPT !.active = TRUE, !.revoked = FALSE],
                       Enabled(rows, o), TRUE)
    IN
    /\ requests[r].op = "add" /\ MayWrite(r)
    /\ samples[s] = None /\ s \notin OldSamples
    /\ p = None => profiles[o] = None
    /\ samples' = rows
    /\ profiles' = [ProfilesOf(r) EXCEPT ![o] = IF p = None THEN new ELSE Net(p, new, @)]
    /\ references' = [references EXCEPT ![o] = ReferenceFrom(new)]
    /\ Ends(r)
    /\ UNCHANGED <<suspect, bound, setup, party>>

\* disable_sample.  The change of the sample is flushed after the list of the enabled
\* samples is read (the sessions do not flush by themselves): the list still has it.
LoadDisable(r, s) ==
    LET o == samples[s].of IN
    /\ samples[s] # None /\ samples[s].active /\ profiles[o].version < MaxVersion
    /\ Materialize(r)
    /\ Load(r, [op |-> "disable", of |-> o, sample |-> s, profile |-> profiles[o],
                list |-> Enabled(samples, o)])

\* Mutant: the reference is put back into use whatever the profile says.
CommitDisableMutant(r) ==
    LET p == requests[r].profile
        o == requests[r].of
        new == Rebuilt(p, requests[r].list, FALSE)
    IN
    /\ requests[r].op = "disable" /\ MayWrite(r)
    /\ samples' = [SamplesOf(r) EXCEPT ![requests[r].sample].active = FALSE]
    /\ profiles' = [ProfilesOf(r) EXCEPT ![o] = Net(p, new, @)]
    /\ references' = [references EXCEPT ![o] = 
          [ReferenceFrom(new) EXCEPT !.active = TRUE, !.revoked = FALSE]]
    /\ Ends(r)
    /\ UNCHANGED <<suspect, bound, setup, party>>

CommitDisable(r) ==
    LET p == requests[r].profile
        o == requests[r].of
        new == Rebuilt(p, requests[r].list, FALSE)
    IN
    /\ requests[r].op = "disable" /\ MayWrite(r)
    /\ samples' = [SamplesOf(r) EXCEPT ![requests[r].sample].active = FALSE]
    /\ profiles' = [ProfilesOf(r) EXCEPT ![o] = Net(p, new, @)]
    /\ references' = [references EXCEPT ![o] = ReferenceFrom(new)]
    /\ Ends(r)
    /\ UNCHANGED <<suspect, bound, setup, party>>

\* revoke_profile; revoked_at is written each time
LoadRevoke(r, o) ==
    /\ Materialize(r)
    /\ Profile(o) # None
    /\ Load(r, [op |-> "revoke", of |-> o, profile |-> Profile(o),
                reference |-> references[o]])

Revoked(loaded, row) == [row EXCEPT !.active = @ /\ ~loaded.active, !.revoked = TRUE]

CommitRevoke(r) ==
    LET o == requests[r].of
        ref == requests[r].reference
    IN
    /\ requests[r].op = "revoke" /\ MayWrite(r)
    /\ samples' = SamplesOf(r)
    /\ profiles' = [ProfilesOf(r) EXCEPT ![o] = Revoked(requests[r].profile, @)]
    /\ references' = IF ref = None THEN references
                     ELSE [references EXCEPT ![o] = Revoked(ref, @)]
    /\ Ends(r)
    /\ UNCHANGED <<suspect, bound, setup, party>>

\* AIError, 409, the unique index, a database that stays locked: all is rolled back.
Fails(r) ==
    /\ requests[r] # Idle /\ Ends(r)
    /\ UNCHANGED <<samples, profiles, references, suspect, bound, setup, party>>
--------------------------------------------------------------------------------
\* VoiceprintService.enroll_suspect: the row is replaced in place.
EnrolSuspect ==
    /\ Sessions \cap party # {} /\ writer = Nobody /\ suspect < MaxSuspect /\ suspect' = suspect + 1
    /\ UNCHANGED <<samples, profiles, references, bound, requests, writer, setup, party>>

\* bind_roles and assign_session_roles.  Of the two roles of an officer one is enough.
LoadBind(r, x, o) ==
    /\ suspect > 0 /\ InUse(references[o])
    /\ Load(r, [op |-> "bind", session |-> x, officer |-> o,
                reference |-> references[o],
                version |-> IF profiles[o] = None THEN 1 ELSE profiles[o].version])
    /\ UNCHANGED writer

\* Mutant: the session refers to the officer's reference itself.
CommitBindMutant(r) ==
    /\ requests[r].op = "bind" /\ MayWrite(r)
    /\ bound' = [bound EXCEPT ![requests[r].session] =
          [officer |-> requests[r].officer, row |-> requests[r].officer,
           version |-> requests[r].version]]
    /\ Ends(r)
    /\ UNCHANGED <<samples, profiles, references, suspect, setup, party>>

\* _snapshot_officer_reference: the copy is a row of its own, which nothing that
\* looks for an officer's row finds.
CommitBind(r) ==
    LET x == requests[r].session IN
    /\ requests[r].op = "bind" /\ MayWrite(r)
    /\ references' = [references EXCEPT ![x] =
          [active |-> TRUE, revoked |-> FALSE, aggregate |-> requests[r].reference.aggregate]]
    /\ bound' = [bound EXCEPT ![x] =
          [officer |-> requests[r].officer, row |-> x, version |-> requests[r].version]]
    /\ Ends(r)
    /\ UNCHANGED <<samples, profiles, suspect, setup, party>>

BindNobody(x) ==
    /\ writer = Nobody /\ suspect > 0 /\ bound[x] # None
    /\ bound' = [bound EXCEPT ![x] = None]
    /\ UNCHANGED <<samples, profiles, references, suspect, requests, writer, setup, party>>

\* Another microphone is plugged in, or another model installed.
ChangeSetup(x) ==
    /\ x # setup /\ setup' = x
    /\ UNCHANGED <<samples, profiles, references, suspect, bound, requests, writer, party>>

LibraryStep ==
    \/ \E r \in Requests \cap party :
       \/ \E o \in Officers \cap party : LoadAdd(r, o) \/ LoadRevoke(r, o)
       \/ \E s \in Samples : CommitAdd(r, s) \/ LoadDisable(r, s)
       \/ \E x \in Sessions \cap party, o \in Officers \cap party : LoadBind(r, x, o)
       \/ CommitDisable(r) \/ CommitRevoke(r) \/ CommitBind(r) \/ Fails(r)
    \/ EnrolSuspect
    \/ \E x \in Sessions \cap party : BindNobody(x)
    \/ \E x \in Setups \cap party : ChangeSetup(x)
===============================================================================
