------------------------ MODULE SpeakerCalibrationProofs ------------------------
(***************************************************************************)
(* Proofs about VoiceprintLibrary and SpeakerCalibration, for any number   *)
(* of officers, samples, sessions, requests and captures.                  *)
(***************************************************************************)
EXTENDS SpeakerCalibration, FiniteSetTheorems, TLAPS

--------------------------------------------------------------------------------
(* The inductive invariant *)

Request ==
    {Idle}
    \cup [op : {"add"}, of : Officers, profile : {None} \cup ProfileRow, setup : Setups]
    \cup [op : {"disable"}, of : Officers, sample : Samples, profile : ProfileRow,
          list : SUBSET Samples]
    \cup [op : {"revoke"}, of : Officers, profile : ProfileRow, reference : ReferenceRow]
    \cup [op : {"bind"}, session : Sessions, officer : Officers, reference : ReferenceRow,
          version : 1..(MaxVersion + 1)]
    \cup [op : {"recompute"}, setup : Setups, corpus : SUBSET Samples, officers : Nat]

\* The profile that a request has loaded is there when it writes.
LoadedStays ==
    \A r \in Requests :
        /\ requests[r].op = "add" /\ requests[r].profile # None =>
              /\ requests[r].profile.version < MaxVersion
              /\ ProfilesOf(r)[requests[r].of] # None
        /\ requests[r].op = "disable" =>
              /\ requests[r].profile.version < MaxVersion
              /\ profiles[requests[r].of] # None
              /\ samples[requests[r].sample] # None
              /\ samples[requests[r].sample].of = requests[r].of
        /\ requests[r].op = "revoke" => ProfilesOf(r)[requests[r].of] # None

\* Who has a sample has a profile, and who has a profile has a reference; a reference
\* alone is one of the first releases, and the sample made of it is of its officer and of
\* no known setup.
RowsBelong ==
    /\ \A s \in Samples : samples[s] # None => profiles[samples[s].of] # None
    /\ \A o \in Officers : profiles[o] # None => references[o] # None
    /\ Missing \subseteq Legacy
    /\ \A o \in Legacy :
          samples[OldReference[o]] # None =>
              samples[OldReference[o]].of = o /\ samples[OldReference[o]].setup = Unknown

CopiesAreOwn == \A x \in Sessions : bound[x] = None \/ bound[x].row = x

\* The samples of a computed threshold stay, and were made with its setup, enough of each
\* of enough officers.
Fit(computed) ==
    /\ \A s \in computed.corpus : samples[s] # None /\ samples[s].setup = computed.setup
    /\ Cardinality(Heard(computed.corpus)) >= MinOfficers

CorporaFit ==
    /\ \A i \in DOMAIN calibrations : Fit(calibrations[i])
    /\ \A r \in Requests : requests[r].op = "recompute" => Fit(requests[r])

\* Of the rows of a setup one is the last.
RowsOf(x) == {i \in DOMAIN calibrations : calibrations[i].setup = x}
HasLast == \A x : RowsOf(x) # {} => \E i \in RowsOf(x) : \A j \in RowsOf(x) : j <= i

\* What a capture is to be given, or was, is a calibration of the setup that goes with it.
RowThere(f) == f.source = "DEVICE_CALIBRATED" => f.calibration \in RowsOf(f.setup)
RowsThere ==
    \A c \in Captures :
        /\ frozen[c] # None => RowThere(frozen[c])
        /\ starting[c] \in Resolved => RowThere(starting[c].row)

Invariant ==
    /\ TypeOK
    /\ requests \in [Requests -> Request]
    /\ LoadedStays /\ RowsBelong /\ CopiesAreOwn /\ CorporaFit /\ HasLast /\ RowsThere

--------------------------------------------------------------------------------
(* The rows *)

LEMMA RowsAreSome ==
    /\ None \notin ProfileRow /\ None \notin ReferenceRow /\ None \notin SampleRow
    /\ None \notin [officer : Officers, row : Officers \cup Sessions, version : 1..(MaxVersion + 1)]
    /\ None \notin Frozen
BY DEF None, ProfileRow, ReferenceRow, SampleRow, Frozen

\* How many rows there are
LEMMA Counts ==
    /\ Cardinality(Samples) \in Nat
    /\ \A S \in SUBSET Samples : Cardinality(S) \in 0..Cardinality(Samples)
    /\ \A S \in SUBSET Samples : S # {} => Cardinality(S) > 0
<1>1. IsFiniteSet(Samples) /\ Cardinality(Samples) \in Nat
  BY LibraryAssumption, FS_CardinalityType
<1>2. \A S \in SUBSET Samples : IsFiniteSet(S) /\ Cardinality(S) <= Cardinality(Samples)
  BY <1>1, FS_Subset
<1>3. \A S \in SUBSET Samples : Cardinality(S) \in Nat
  BY <1>2, FS_CardinalityType
<1>4. \A S \in SUBSET Samples : S # {} => Cardinality(S) # 0
  BY <1>2, FS_EmptySet
<1> QED BY <1>1, <1>2, <1>3, <1>4

\* A column is written if the request has changed it; so a row that is as it was loaded
\* becomes what the request makes of it.
LEMMA NetWrites ==
    ASSUME NEW loaded \in ProfileRow, NEW changed \in ProfileRow, NEW row \in ProfileRow
    PROVE  /\ Net(loaded, changed, row) \in ProfileRow
           /\ row = loaded => Net(loaded, changed, row) = changed
<1>1. Net(loaded, changed, row) =
          [active |-> IF changed.active # loaded.active THEN changed.active ELSE row.active,
           revoked |-> IF changed.revoked # loaded.revoked THEN changed.revoked ELSE row.revoked,
           version |-> IF changed.version # loaded.version THEN changed.version ELSE row.version,
           count |-> IF changed.count # loaded.count THEN changed.count ELSE row.count,
           aggregate |-> IF changed.aggregate # loaded.aggregate THEN changed.aggregate
                         ELSE row.aggregate]
  BY DEF Net, ProfileRow
<1>2. changed = [active |-> changed.active, revoked |-> changed.revoked,
                 version |-> changed.version, count |-> changed.count,
                 aggregate |-> changed.aggregate]
  BY DEF ProfileRow
<1>3. Net(loaded, changed, row) \in ProfileRow
  BY <1>1 DEF ProfileRow
<1> QED BY <1>1, <1>2, <1>3

LEMMA ReferenceRecord ==
    ASSUME NEW active \in BOOLEAN, NEW revoked \in BOOLEAN, NEW aggregate \in SUBSET Samples
    PROVE  LET row == [active |-> active, revoked |-> revoked, aggregate |-> aggregate] IN
           /\ row \in ReferenceRow
           /\ row.active = active /\ row.revoked = revoked /\ row.aggregate = aggregate
BY DEF ReferenceRow

LEMMA ProfileRecord ==
    ASSUME NEW active \in BOOLEAN, NEW revoked \in BOOLEAN, NEW version \in 1..(MaxVersion + 1),
           NEW count \in 0..Cardinality(Samples), NEW aggregate \in SUBSET Samples
    PROVE  LET row == [active |-> active, revoked |-> revoked, version |-> version,
                       count |-> count, aggregate |-> aggregate] IN
           /\ row \in ProfileRow
           /\ row.active = active /\ row.revoked = revoked /\ row.version = version
           /\ row.count = count /\ row.aggregate = aggregate
BY DEF ProfileRow

\* The reference made of a profile is in use if the profile is, as long as a profile
\* in use counts a sample.
LEMMA BridgedRow ==
    ASSUME NEW p \in ProfileRow, p.active => p.count > 0
    PROVE  /\ ReferenceFrom(p) \in ReferenceRow
           /\ ReferenceFrom(p).aggregate = p.aggregate
           /\ InUse(ReferenceFrom(p)) = InUse(p)
<1> DEFINE active == p.active /\ p.count > 0 /\ ~p.revoked
<1>1. active \in BOOLEAN /\ p.revoked \in BOOLEAN /\ p.aggregate \in SUBSET Samples
  BY DEF ProfileRow
<1>2. active <=> (p.active /\ ~p.revoked)
  OBVIOUS
<1>3. ReferenceFrom(p) = [active |-> active, revoked |-> p.revoked, aggregate |-> p.aggregate]
  BY DEF ReferenceFrom
<1> HIDE DEF active
<1>4. /\ ReferenceFrom(p) \in ReferenceRow /\ ReferenceFrom(p).aggregate = p.aggregate
      /\ ReferenceFrom(p).active = active /\ ReferenceFrom(p).revoked = p.revoked
  BY <1>1, <1>3, ReferenceRecord
<1>5. p # None /\ ReferenceFrom(p) # None
  BY <1>4, RowsAreSome
<1> QED BY <1>2, <1>4, <1>5 DEF InUse

LEMMA SampleRecord ==
    ASSUME NEW of \in Officers, NEW made \in Setups
    PROVE  LET row == [of |-> of, active |-> TRUE, setup |-> made] IN
           row \in SampleRow /\ row.of = of /\ row # None
BY DEF SampleRow, None

\* What add_sample starts from
LEMMA LoadedRow ==
    ASSUME NEW p \in {None} \cup ProfileRow, p # None => p.version < MaxVersion
    PROVE  (IF p = None THEN [active |-> TRUE, revoked |-> FALSE, version |-> 0, count |-> 0,
                              aggregate |-> {}]
            ELSE [p EXCEPT !.active = TRUE, !.revoked = FALSE])
           \in [active : BOOLEAN, revoked : BOOLEAN, version : 0..MaxVersion,
                count : 0..Cardinality(Samples), aggregate : SUBSET Samples]
<1>1. 0 \in 0..MaxVersion /\ 0 \in 0..Cardinality(Samples)
  BY Counts, LibraryAssumption
<1>2. CASE p = None
  BY <1>1, <1>2
<1>3. CASE p # None
  <2>0. p \in ProfileRow
    BY <1>3
  <2>1. p.version \in 0..MaxVersion
    BY <1>3, <2>0, LibraryAssumption DEF ProfileRow
  <2>2. p.count \in 0..Cardinality(Samples) /\ p.aggregate \in SUBSET Samples
    BY <2>0 DEF ProfileRow
  <2>3. DOMAIN p = {"active", "revoked", "version", "count", "aggregate"}
    BY <2>0 DEF ProfileRow
  <2> DEFINE q == [p EXCEPT !.active = TRUE, !.revoked = FALSE]
  <2>4. /\ DOMAIN q = {"active", "revoked", "version", "count", "aggregate"}
        /\ q = [c \in {"active", "revoked", "version", "count", "aggregate"} |->
                   IF c = "revoked" THEN FALSE ELSE IF c = "active" THEN TRUE ELSE p[c]]
    BY <2>3
  <2>5. q \in [active : BOOLEAN, revoked : BOOLEAN, version : 0..MaxVersion,
               count : 0..Cardinality(Samples), aggregate : SUBSET Samples]
    BY <2>1, <2>2, <2>4
  <2> QED BY <1>3, <2>5
<1> QED BY <1>2, <1>3

\* A profile is rebuilt from the samples it is given.
LEMMA RebuiltRow ==
    ASSUME NEW p \in [active : BOOLEAN, revoked : BOOLEAN, version : 0..MaxVersion,
                      count : 0..Cardinality(Samples), aggregate : SUBSET Samples],
           NEW list \in SUBSET Samples, NEW reactivate \in BOOLEAN
    PROVE  /\ Rebuilt(p, list, reactivate) \in ProfileRow
           /\ Rebuilt(p, list, reactivate).active => Rebuilt(p, list, reactivate).count > 0
           /\ list # {} => Rebuilt(p, list, reactivate).aggregate = list
<1> DEFINE active == reactivate \/ ~p.revoked \/ p.active
           revoked == ~reactivate /\ p.revoked
<1>1. /\ p.revoked \in BOOLEAN /\ p.version + 1 \in 1..(MaxVersion + 1)
      /\ p.aggregate \in SUBSET Samples /\ active \in BOOLEAN /\ revoked \in BOOLEAN
  BY LibraryAssumption
<1>2. /\ Cardinality(list) \in 0..Cardinality(Samples) /\ 0 \in 0..Cardinality(Samples)
      /\ list # {} => Cardinality(list) > 0
  BY Counts
<1>3. CASE list = {}
  <2> DEFINE off == FALSE
  <2>1. Rebuilt(p, list, reactivate) =
            [active |-> off, revoked |-> p.revoked, version |-> p.version + 1, count |-> 0,
             aggregate |-> p.aggregate]
    BY <1>3 DEF Rebuilt
  <2>2. off \in BOOLEAN /\ ~off
    OBVIOUS
  <2> HIDE DEF off
  <2> QED BY <1>1, <1>2, <1>3, <2>1, <2>2, ProfileRecord
<1>4. CASE list # {}
  <2>1. Rebuilt(p, list, reactivate) =
            [active |-> active, revoked |-> revoked, version |-> p.version + 1,
             count |-> Cardinality(list), aggregate |-> list]
    BY <1>4 DEF Rebuilt
  <2> HIDE DEF active, revoked
  <2> QED BY <1>1, <1>2, <1>4, <2>1, ProfileRecord
<1> QED BY <1>3, <1>4

LEMMA OldProfileRow ==
    ASSUME Invariant, NEW o \in Officers, o \in Missing
    PROVE  OldProfile(o) \in ProfileRow
<1>1. references[o] \in ReferenceRow /\ OldReference[o] \in Samples
  BY LibraryAssumption DEF Missing, Invariant, TypeOK, LibraryTypeOK, RowsBelong
<1>2. 1 \in 0..Cardinality(Samples) /\ 1 \in 1..(MaxVersion + 1)
  BY <1>1, Counts, LibraryAssumption
<1>3. /\ InUse(references[o]) \in BOOLEAN /\ references[o].revoked \in BOOLEAN
      /\ references[o].aggregate \in SUBSET Samples
  BY <1>1 DEF InUse, ReferenceRow
<1> QED BY <1>2, <1>3, ProfileRecord DEF OldProfile

\* The tables as a transaction sees them have what is stored, and besides what it has
\* made of the references of the first releases.
LEMMA SeenTables ==
    ASSUME Invariant, NEW r \in Requests
    PROVE  /\ SamplesOf(r) \in [Samples -> {None} \cup SampleRow]
           /\ ProfilesOf(r) \in [Officers -> {None} \cup ProfileRow]
           /\ \A s \in Samples : samples[s] # None => SamplesOf(r)[s] = samples[s]
           /\ \A s \in Samples : SamplesOf(r)[s] # None =>
                 \/ SamplesOf(r)[s] = samples[s]
                 \/ \E o \in Legacy : /\ s = OldReference[o] /\ SamplesOf(r)[s] = OldRow(o)
                                      /\ ProfilesOf(r)[o] # None
           /\ \A o \in Officers : profiles[o] # None => ProfilesOf(r)[o] = profiles[o]
           /\ \A o \in Officers : ProfilesOf(r)[o] # None => references[o] # None
<1>1. \A o \in Officers : o \in Missing => OldProfile(o) \in ProfileRow
  BY OldProfileRow
<1>2. \A o \in Officers : OldRow(o) \in SampleRow
  BY DEF OldRow, SampleRow
<1>3. \A o \in Missing : o \in Officers /\ o \in Legacy /\ OldReference[o] \in Samples
                         /\ samples[OldReference[o]] = None
  BY LibraryAssumption DEF Missing, Invariant, RowsBelong
<1>4. ProfilesOf(r) \in [Officers -> {None} \cup ProfileRow]
  BY <1>1 DEF ProfilesOf, Invariant, TypeOK, LibraryTypeOK
<1>5. SamplesOf(r) \in [Samples -> {None} \cup SampleRow]
  BY <1>2, <1>3 DEF SamplesOf, Invariant, TypeOK, LibraryTypeOK
<1>6. \A s \in Samples : samples[s] # None => SamplesOf(r)[s] = samples[s]
  BY <1>3 DEF SamplesOf
<1>7. \A o \in Officers : profiles[o] # None => ProfilesOf(r)[o] = profiles[o]
  BY DEF ProfilesOf, Missing
<1>8. \A o \in Officers : ProfilesOf(r)[o] # None => references[o] # None
  BY DEF ProfilesOf, Missing, Invariant, RowsBelong
<1>9. ASSUME NEW s \in Samples, SamplesOf(r)[s] # samples[s]
      PROVE  \E o \in Legacy : /\ s = OldReference[o] /\ SamplesOf(r)[s] = OldRow(o)
                               /\ ProfilesOf(r)[o] # None
  <2>1. writer = r /\ \E o \in Missing : s = OldReference[o]
    BY <1>9 DEF SamplesOf
  <2> DEFINE o == CHOOSE o \in Missing : s = OldReference[o]
  <2>2. o \in Missing /\ s = OldReference[o]
    BY <2>1
  <2>3. SamplesOf(r)[s] = OldRow(o)
    BY <2>1 DEF SamplesOf
  <2>4. ProfilesOf(r)[o] = OldProfile(o)
    BY <1>3, <2>1, <2>2 DEF ProfilesOf
  <2> HIDE DEF o
  <2> QED BY <1>1, <1>3, <2>2, <2>3, <2>4, RowsAreSome
<1> QED BY <1>4, <1>5, <1>6, <1>7, <1>8, <1>9

--------------------------------------------------------------------------------
(* What the invariant says of the requests *)

\* Samples keep their officer and their setup.
Kept ==
    \A s \in Samples :
        samples[s] # None =>
            samples'[s] # None /\ samples'[s].of = samples[s].of /\ samples'[s].setup = samples[s].setup

LEMMA RowsStayThere ==
    ASSUME RowsThere, UNCHANGED <<calibrations, starting, frozen>>
    PROVE  RowsThere'
BY DEF RowsThere, RowThere, RowsOf

LEMMA FitStays ==
    ASSUME NEW computed, computed.corpus \subseteq Samples, Fit(computed), Kept
    PROVE  Fit(computed)'
<1>1. \A s \in computed.corpus : samples'[s] # None /\ samples'[s].setup = computed.setup
                                 /\ samples'[s].of = samples[s].of
  BY DEF Fit, Kept
<1>2. \A o \in Officers : {s \in computed.corpus : samples'[s].of = o} = {s \in computed.corpus : samples[s].of = o}
  BY <1>1
<1>3. {o \in Officers : Cardinality({s \in computed.corpus : samples'[s].of = o}) >= MinSamplesPerOfficer}
      = Heard(computed.corpus)
  BY <1>2 DEF Heard
<1> QED BY <1>1, <1>3 DEF Fit, Heard

LEMMA RequestParts ==
    ASSUME NEW q \in Request
    PROVE  /\ q.op = "add" => q.of \in Officers /\ q.profile \in {None} \cup ProfileRow /\ q.setup \in Setups
           /\ q.op = "disable" => /\ q.of \in Officers /\ q.sample \in Samples
                                  /\ q.profile \in ProfileRow /\ q.list \in SUBSET Samples
           /\ q.op = "revoke" => /\ q.of \in Officers /\ q.profile \in ProfileRow
                                 /\ q.reference \in ReferenceRow
           /\ q.op = "bind" => /\ q.session \in Sessions /\ q.officer \in Officers
                               /\ q.reference \in ReferenceRow /\ q.version \in 1..(MaxVersion + 1)
           /\ q.op = "recompute" => /\ q.setup \in Setups /\ q.corpus \in SUBSET Samples
                                    /\ q.officers \in Nat
           /\ q = Idle => q.op = "idle"
BY DEF Request, Idle

\* A request ends: the others still find what they have loaded.
LEMMA OthersKeep ==
    ASSUME Invariant, NEW r \in Requests, Ends(r), Kept,
           MayWrite(r) \/ UNCHANGED <<profiles, references>>,
           \A o \in Officers : profiles[o] # None => profiles'[o] # None,
           samples' \in [Samples -> {None} \cup SampleRow],
           profiles' \in [Officers -> {None} \cup ProfileRow]
    PROVE  /\ requests' \in [Requests -> Request] /\ LoadedStays'
           /\ \A q \in Requests : requests[q].op = "recompute" /\ q # r => Fit(requests[q])'
           /\ \A q \in Requests : requests'[q] = IF q = r THEN Idle ELSE requests[q]
           /\ writer' \in Requests \cup {Nobody}
<1>1. Idle \in Request /\ Idle.op = "idle"
  BY DEF Request, Idle
<1>2. \A q \in Requests : requests'[q] = IF q = r THEN Idle ELSE requests[q]
  BY DEF Ends, Invariant
<1>3. requests' \in [Requests -> Request]
  BY <1>1 DEF Ends, Invariant
<1>4. \A q \in Requests : requests[q] \in Request
  BY DEF Invariant
<1>5. ASSUME NEW q \in Requests, q # r, NEW o \in Officers, ProfilesOf(q)[o] # None
      PROVE  ProfilesOf(q)'[o] # None
  <2>1. CASE writer = q
    <3>1. UNCHANGED <<profiles, references>> /\ writer' = writer
      BY <1>5, <2>1, LibraryAssumption DEF MayWrite, Ends
    <3> QED BY <1>5, <3>1 DEF ProfilesOf, Missing, OldProfile
  <2>2. CASE writer # q
    <3>1. writer' # q
      BY <1>5, <2>2, LibraryAssumption DEF Ends
    <3> QED BY <1>5, <2>2, <3>1 DEF ProfilesOf
  <2> QED BY <2>1, <2>2
<1>6. LoadedStays'
  <2> SUFFICES ASSUME NEW q \in Requests
               PROVE  /\ requests'[q].op = "add" /\ requests'[q].profile # None =>
                            /\ requests'[q].profile.version < MaxVersion
                            /\ ProfilesOf(q)'[requests'[q].of] # None
                      /\ requests'[q].op = "disable" =>
                            /\ requests'[q].profile.version < MaxVersion
                            /\ profiles'[requests'[q].of] # None
                            /\ samples'[requests'[q].sample] # None
                            /\ samples'[requests'[q].sample].of = requests'[q].of
                      /\ requests'[q].op = "revoke" => ProfilesOf(q)'[requests'[q].of] # None
    BY DEF LoadedStays
  <2>1. CASE q = r
    BY <1>1, <1>2, <2>1
  <2>2. CASE q # r
    <3>1. requests'[q] = requests[q] /\ requests[q] \in Request
      BY <1>2, <1>4, <2>2
    <3>2. requests[q].op = "add" /\ requests[q].profile # None =>
              requests[q].of \in Officers /\ requests[q].profile.version < MaxVersion
              /\ ProfilesOf(q)[requests[q].of] # None
      BY <3>1, RequestParts DEF Invariant, LoadedStays
    <3>3. requests[q].op = "disable" =>
              /\ requests[q].of \in Officers /\ requests[q].sample \in Samples
              /\ requests[q].profile.version < MaxVersion
              /\ profiles[requests[q].of] # None
              /\ samples[requests[q].sample] # None
              /\ samples[requests[q].sample].of = requests[q].of
      BY <3>1, RequestParts DEF Invariant, LoadedStays
    <3>4. requests[q].op = "revoke" =>
              requests[q].of \in Officers /\ ProfilesOf(q)[requests[q].of] # None
      BY <3>1, RequestParts DEF Invariant, LoadedStays
    <3> QED BY <1>5, <2>2, <3>1, <3>2, <3>3, <3>4 DEF Kept
  <2> QED BY <2>1, <2>2
<1>7. ASSUME NEW q \in Requests, requests[q].op = "recompute", q # r
      PROVE  Fit(requests[q])'
  <2>1. Fit(requests[q]) /\ requests[q].corpus \subseteq Samples /\ requests'[q] = requests[q]
    BY <1>2, <1>4, <1>7, RequestParts DEF Invariant, CorporaFit
  <2>2. \A computed : computed = requests[q] => Fit(computed)'
    BY <2>1, FitStays
  <2> QED BY <2>1, <2>2 DEF Fit
<1>8. writer' \in Requests \cup {Nobody}
  BY DEF Ends, Invariant, TypeOK, LibraryTypeOK
<1> QED BY <1>2, <1>3, <1>6, <1>7, <1>8

LEMMA CalibrationParts ==
    ASSUME CalibrationTypeOK, NEW i \in DOMAIN calibrations
    PROVE  /\ calibrations[i].corpus \in SUBSET Samples
           /\ calibrations[i].setup \in Setups /\ calibrations[i].officers \in Nat
<1>1. calibrations[i] \in Calibration
  BY DEF CalibrationTypeOK
<1> QED BY <1>1 DEF Calibration

\* A request ends that leaves the calibrations as they are.
LEMMA EndInvariant ==
    ASSUME Invariant, NEW r \in Requests, Ends(r), Kept,
           MayWrite(r) \/ UNCHANGED <<profiles, references>>,
           \A o \in Officers : profiles[o] # None => profiles'[o] # None,
           samples' \in [Samples -> {None} \cup SampleRow],
           profiles' \in [Officers -> {None} \cup ProfileRow],
           references' \in [Officers \cup Sessions -> {None} \cup ReferenceRow],
           bound' \in [Sessions -> {None} \cup [officer : Officers, row : Officers \cup Sessions,
                                                version : 1..(MaxVersion + 1)]],
           RowsBelong', CopiesAreOwn',
           UNCHANGED <<suspect, setup, party, calibrations, legacyEnv, starting, frozen>>
    PROVE  Invariant'
<1>1. /\ requests' \in [Requests -> Request] /\ LoadedStays' /\ writer' \in Requests \cup {Nobody}
      /\ \A q \in Requests : requests[q].op = "recompute" /\ q # r => Fit(requests[q])'
      /\ \A q \in Requests : requests'[q] = IF q = r THEN Idle ELSE requests[q]
  BY OthersKeep
<1>2. TypeOK'
  BY <1>1 DEF Invariant, TypeOK, LibraryTypeOK, CalibrationTypeOK
<1>3. CorporaFit'
  <2>1. ASSUME NEW i \in DOMAIN calibrations
        PROVE  Fit(calibrations[i])'
    <3>1. Fit(calibrations[i]) /\ calibrations[i].corpus \subseteq Samples /\ calibrations' = calibrations
      BY CalibrationParts DEF Invariant, TypeOK, CorporaFit
    <3>2. \A computed : computed = calibrations[i] => Fit(computed)'
      BY <3>1, FitStays
    <3> QED BY <3>1, <3>2 DEF Fit
  <2>2. ASSUME NEW q \in Requests, requests'[q].op = "recompute"
        PROVE  Fit(requests[q])'
    <3>1. q # r /\ requests'[q] = requests[q]
      BY <1>1, <2>2 DEF Idle
    <3> QED BY <1>1, <2>2, <3>1
  <2> QED BY <2>1, <2>2 DEF CorporaFit
<1>4. HasLast' /\ RowsThere'
  BY RowsStayThere DEF Invariant, HasLast, RowsOf
<1> QED BY <1>1, <1>2, <1>3, <1>4 DEF Invariant

\* A request starts with what it loads.
LEMMA LoadInvariant ==
    ASSUME Invariant, NEW r \in Requests, NEW q \in Request, Load(r, q),
           UNCHANGED <<calibrations, legacyEnv, starting, frozen>>,
           UNCHANGED writer \/ (writer = Nobody /\ writer' = r),
           q.op = "add" /\ q.profile # None =>
               q.profile.version < MaxVersion /\ ProfilesOf(r)'[q.of] # None,
           q.op = "disable" =>
               /\ q.profile.version < MaxVersion /\ profiles[q.of] # None
               /\ samples[q.sample] # None /\ samples[q.sample].of = q.of,
           q.op = "revoke" => ProfilesOf(r)'[q.of] # None,
           q.op = "recompute" => Fit(q)
    PROVE  Invariant'
<1>1. \A p \in Requests : requests'[p] = IF p = r THEN q ELSE requests[p]
  BY DEF Load, Invariant
<1>2. requests' \in [Requests -> Request]
  BY DEF Load, Invariant
<1>3. UNCHANGED <<samples, profiles, references, suspect, bound, setup, party>>
  BY DEF Load
<1>4. TypeOK'
  BY <1>3 DEF Invariant, TypeOK, LibraryTypeOK, CalibrationTypeOK
<1>5. \A p \in Requests : p # r => ProfilesOf(p)' = ProfilesOf(p)
  BY <1>3, LibraryAssumption DEF ProfilesOf, Missing, OldProfile
<1>6. LoadedStays'
  BY <1>1, <1>3, <1>5 DEF Invariant, LoadedStays
<1>7. RowsBelong' /\ CopiesAreOwn' /\ HasLast' /\ RowsThere'
  BY <1>3, RowsStayThere DEF Invariant, RowsBelong, Missing, CopiesAreOwn, HasLast, RowsOf
<1>8. CorporaFit'
  <2>1. ASSUME NEW i \in DOMAIN calibrations
        PROVE  Fit(calibrations[i])'
    BY <1>3 DEF Invariant, CorporaFit, Fit, Heard
  <2>2. ASSUME NEW p \in Requests, requests'[p].op = "recompute"
        PROVE  Fit(requests[p])'
    <3>1. \A computed : Fit(computed) <=> Fit(computed)'
      BY <1>3 DEF Fit, Heard
    <3>2. Fit(requests'[p])
      BY <1>1, <2>2 DEF Invariant, CorporaFit
    <3> QED BY <1>3, <3>2 DEF Fit, Heard
  <2> QED BY <2>1, <2>2 DEF CorporaFit
<1> QED BY <1>2, <1>4, <1>6, <1>7, <1>8 DEF Invariant

\* While a request holds the lock it sees a profile for everybody who has a reference.
LEMMA LoadedProfile ==
    ASSUME Invariant, NEW r \in Requests, NEW o \in Officers, Materialize(r), Profile(o) # None,
           UNCHANGED <<profiles, references>>
    PROVE  /\ ProfilesOf(r)'[o] # None
           /\ Profile(o) \in ProfileRow /\ references[o] \in ReferenceRow
<1>1. Profile(o) \in ProfileRow
  <2>1. o \in Missing => Profile(o) \in ProfileRow
    BY OldProfileRow DEF Profile
  <2> QED BY <2>1 DEF Profile, Invariant, TypeOK, LibraryTypeOK
<1>2. references[o] # None
  BY DEF Profile, Missing, Invariant, RowsBelong
<1>3. references[o] \in ReferenceRow
  BY <1>2 DEF Invariant, TypeOK, LibraryTypeOK
<1>4. ProfilesOf(r)'[o] # None
  <2>1. CASE Missing = {}
    BY <2>1, RowsAreSome, <1>1 DEF ProfilesOf, Profile, Missing
  <2>2. CASE Missing # {}
    <3>1. writer' = r /\ Missing' = Missing
      BY <2>2 DEF Materialize, Missing
    <3>2. o \in Missing => ProfilesOf(r)'[o] = Profile(o)
      BY <3>1 DEF ProfilesOf, Profile, OldProfile
    <3>3. o \notin Missing => ProfilesOf(r)'[o] = Profile(o)
      BY <3>1 DEF ProfilesOf, Profile
    <3> QED BY <1>1, <3>2, <3>3, RowsAreSome
  <2> QED BY <2>1, <2>2
<1> QED BY <1>1, <1>3, <1>4

--------------------------------------------------------------------------------
(* The steps *)

LEMMA InitInvariant ==
    ASSUME Init
    PROVE  Invariant
<1>1. /\ samples = [s \in Samples |-> None] /\ profiles = [o \in Officers |-> None]
      /\ bound = [x \in Sessions |-> None] /\ requests = [r \in Requests |-> Idle]
      /\ calibrations = <<>> /\ frozen = [c \in Captures |-> None]
      /\ starting = [c \in Captures |-> None]
  BY DEF Init, LibraryInit
<1>2. PICK old \in SUBSET Legacy :
          references = [o \in Officers \cup Sessions |->
              IF o \in old
              THEN [active |-> TRUE, revoked |-> FALSE, aggregate |-> {OldReference[o]}]
              ELSE None]
  BY DEF Init, LibraryInit
<1>3. \A o \in Legacy : [active |-> TRUE, revoked |-> FALSE, aggregate |-> {OldReference[o]}] \in ReferenceRow
  <2>1. \A o \in Legacy : {OldReference[o]} \in SUBSET Samples
    BY LibraryAssumption
  <2> QED BY <2>1 DEF ReferenceRow
<1>4. references \in [Officers \cup Sessions -> {None} \cup ReferenceRow]
  BY <1>2, <1>3
<1>5. LibraryTypeOK
  BY <1>1, <1>4, LibraryAssumption DEF Init, LibraryInit, LibraryTypeOK
<1>6. CalibrationTypeOK
  BY <1>1, CalibrationAssumption DEF Init, CalibrationTypeOK
<1>7. Idle \in Request /\ Idle.op = "idle"
  BY DEF Idle, Request
<1>8. requests \in [Requests -> Request] /\ LoadedStays
  BY <1>1, <1>7 DEF LoadedStays
<1>9. RowsBelong
  BY <1>1, <1>2, LibraryAssumption DEF RowsBelong, Missing
<1>10. CopiesAreOwn /\ CorporaFit /\ HasLast
  BY <1>1, <1>7 DEF CopiesAreOwn, CorporaFit, HasLast, RowsOf
<1>11. None \notin Resolved
  BY DEF None, Resolved
<1>12. RowsThere
  BY <1>1, <1>11 DEF RowsThere
<1> QED BY <1>5, <1>6, <1>8, <1>9, <1>10, <1>12 DEF Invariant, TypeOK

LEMMA LoadAddInvariant ==
    ASSUME Invariant, NEW r \in Requests, NEW o \in Officers, LoadAdd(r, o),
           UNCHANGED <<calibrations, legacyEnv, starting, frozen>>
    PROVE  Invariant'
<1> DEFINE q == [op |-> "add", of |-> o, profile |-> Profile(o), setup |-> setup]
<1>1. /\ Materialize(r) /\ Load(r, q)
      /\ Profile(o) # None => Profile(o).version < MaxVersion
  BY DEF LoadAdd
<1>2. UNCHANGED <<profiles, references>>
  BY <1>1 DEF Load
<1>3. Profile(o) # None => Profile(o) \in ProfileRow /\ ProfilesOf(r)'[o] # None
  BY <1>1, <1>2, LoadedProfile
<1>4. setup \in Setups
  BY DEF Invariant, TypeOK, LibraryTypeOK
<1>5. /\ q \in Request /\ q.op = "add" /\ q.profile = Profile(o) /\ q.of = o
  BY <1>3, <1>4 DEF Request
<1>6. UNCHANGED writer \/ (writer = Nobody /\ writer' = r)
  BY <1>1 DEF Materialize
<1> HIDE DEF q
<1> QED BY <1>1, <1>3, <1>5, <1>6, LoadInvariant

LEMMA LoadDisableInvariant ==
    ASSUME Invariant, NEW r \in Requests, NEW s \in Samples, LoadDisable(r, s),
           UNCHANGED <<calibrations, legacyEnv, starting, frozen>>
    PROVE  Invariant'
<1> DEFINE o == samples[s].of
           q == [op |-> "disable", of |-> o, sample |-> s, profile |-> profiles[o],
                 list |-> Enabled(samples, o)]
<1>1. /\ samples[s] # None /\ profiles[o].version < MaxVersion /\ Materialize(r) /\ Load(r, q)
  BY DEF LoadDisable
<1>2. o \in Officers
  BY <1>1 DEF Invariant, TypeOK, LibraryTypeOK, SampleRow
<1>3. profiles[o] # None
  BY <1>1 DEF Invariant, RowsBelong
<1>4. profiles[o] \in ProfileRow
  BY <1>2, <1>3 DEF Invariant, TypeOK, LibraryTypeOK
<1>5. Enabled(samples, o) \in SUBSET Samples
  BY DEF Enabled
<1>6. /\ q \in Request /\ q.op = "disable" /\ q.profile = profiles[o] /\ q.of = o /\ q.sample = s
  BY <1>2, <1>4, <1>5 DEF Request
<1>7. UNCHANGED writer \/ (writer = Nobody /\ writer' = r)
  BY <1>1 DEF Materialize
<1> HIDE DEF q, o
<1>8. samples[s].of = o
  BY DEF o
<1> QED BY <1>1, <1>3, <1>6, <1>7, <1>8, LoadInvariant

LEMMA LoadRevokeInvariant ==
    ASSUME Invariant, NEW r \in Requests, NEW o \in Officers, LoadRevoke(r, o),
           UNCHANGED <<calibrations, legacyEnv, starting, frozen>>
    PROVE  Invariant'
<1> DEFINE q == [op |-> "revoke", of |-> o, profile |-> Profile(o), reference |-> references[o]]
<1>1. Materialize(r) /\ Load(r, q) /\ Profile(o) # None
  BY DEF LoadRevoke
<1>2. UNCHANGED <<profiles, references>>
  BY <1>1 DEF Load
<1>3. Profile(o) \in ProfileRow /\ references[o] \in ReferenceRow /\ ProfilesOf(r)'[o] # None
  BY <1>1, <1>2, LoadedProfile
<1>4. q \in Request /\ q.op = "revoke" /\ q.of = o
  BY <1>3 DEF Request
<1>5. UNCHANGED writer \/ (writer = Nobody /\ writer' = r)
  BY <1>1 DEF Materialize
<1> HIDE DEF q
<1> QED BY <1>1, <1>3, <1>4, <1>5, LoadInvariant

LEMMA LoadBindInvariant ==
    ASSUME Invariant, NEW r \in Requests, NEW x \in Sessions, NEW o \in Officers, LoadBind(r, x, o),
           UNCHANGED <<calibrations, legacyEnv, starting, frozen>>
    PROVE  Invariant'
<1> DEFINE version == IF profiles[o] = None THEN 1 ELSE profiles[o].version
           q == [op |-> "bind", session |-> x, officer |-> o, reference |-> references[o],
                 version |-> version]
<1>1. InUse(references[o]) /\ Load(r, q) /\ UNCHANGED writer
  BY DEF LoadBind
<1>2. references[o] \in ReferenceRow
  BY <1>1 DEF InUse, Invariant, TypeOK, LibraryTypeOK
<1>3. version \in 1..(MaxVersion + 1)
  BY LibraryAssumption DEF Invariant, TypeOK, LibraryTypeOK, ProfileRow
<1> HIDE DEF version
<1>4. q \in Request /\ q.op = "bind"
  BY <1>2, <1>3 DEF Request
<1> HIDE DEF q
<1> QED BY <1>1, <1>4, LoadInvariant

\* A transaction that keeps what it sees, and gives a profile to whom it gives a sample
\* and a reference to whom it gives a profile, keeps the rows together.
LEMMA RowsStayBelong ==
    ASSUME Invariant, NEW r \in Requests,
           \A t \in Samples : SamplesOf(r)[t] # None =>
               /\ samples'[t] # None /\ samples'[t].of = SamplesOf(r)[t].of
               /\ samples'[t].setup = SamplesOf(r)[t].setup,
           \A t \in Samples : SamplesOf(r)[t] = None /\ samples'[t] # None =>
               t \notin OldSamples /\ profiles'[samples'[t].of] # None,
           \A q \in Officers : ProfilesOf(r)[q] # None => profiles'[q] # None,
           \A q \in Officers : profiles'[q] # None => references'[q] # None,
           \A q \in Officers : references'[q] # None /\ profiles'[q] = None => references[q] # None
    PROVE  /\ Kept /\ RowsBelong'
           /\ \A q \in Officers : profiles[q] # None => profiles'[q] # None
<1>1. Kept
  BY SeenTables DEF Kept
<1>2. \A q \in Officers : profiles[q] # None => profiles'[q] # None
  BY SeenTables
<1>3. ASSUME NEW t \in Samples, samples'[t] # None
      PROVE  profiles'[samples'[t].of] # None
  <2>1. CASE SamplesOf(r)[t] = None
    BY <1>3, <2>1
  <2>2. CASE SamplesOf(r)[t] # None /\ SamplesOf(r)[t] = samples[t]
    <3>1. samples[t].of \in Officers /\ profiles[samples[t].of] # None
      BY <2>2 DEF Invariant, RowsBelong, TypeOK, LibraryTypeOK, SampleRow
    <3> QED BY <1>2, <2>2, <3>1
  <2>3. CASE SamplesOf(r)[t] # None /\ SamplesOf(r)[t] # samples[t]
    <3>1. PICK q \in Legacy : SamplesOf(r)[t] = OldRow(q) /\ ProfilesOf(r)[q] # None
      BY <2>3, SeenTables
    <3>2. q \in Officers /\ samples'[t].of = q
      BY <2>3, <3>1, LibraryAssumption DEF OldRow
    <3> QED BY <3>1, <3>2
  <2> QED BY <2>1, <2>2, <2>3
<1>4. Missing' \subseteq Legacy
  <2> SUFFICES ASSUME NEW q \in Officers, references'[q] # None, profiles'[q] = None
               PROVE  q \in Legacy
    BY DEF Missing
  <2> QED BY <1>2 DEF Invariant, RowsBelong, Missing
<1>5. ASSUME NEW q \in Legacy, samples'[OldReference[q]] # None
      PROVE  samples'[OldReference[q]].of = q /\ samples'[OldReference[q]].setup = Unknown
  <2> DEFINE t == OldReference[q]
  <2>1. t \in Samples /\ t \in OldSamples /\ SamplesOf(r)[t] # None
    BY <1>5, LibraryAssumption DEF OldSamples
  <2>2. CASE SamplesOf(r)[t] = samples[t]
    BY <2>1, <2>2 DEF Invariant, RowsBelong
  <2>3. CASE SamplesOf(r)[t] # samples[t]
    <3>1. PICK c \in Legacy : t = OldReference[c] /\ SamplesOf(r)[t] = OldRow(c)
      BY <2>1, <2>3, SeenTables
    <3>2. c = q
      BY <3>1, LibraryAssumption
    <3> QED BY <2>1, <3>1, <3>2 DEF OldRow
  <2> QED BY <2>2, <2>3
<1> QED BY <1>1, <1>2, <1>3, <1>4, <1>5 DEF RowsBelong

LEMMA CommitAddInvariant ==
    ASSUME Invariant, NEW r \in Requests, NEW s \in Samples, CommitAdd(r, s),
           UNCHANGED <<calibrations, legacyEnv, starting, frozen>>
    PROVE  Invariant'
<1> DEFINE p == requests[r].profile
           o == requests[r].of
           row == [of |-> o, active |-> TRUE, setup |-> requests[r].setup]
           rows == [SamplesOf(r) EXCEPT ![s] = row]
           base == IF p = None THEN [active |-> TRUE, revoked |-> FALSE, version |-> 0, count |-> 0,
                                     aggregate |-> {}]
                   ELSE [p EXCEPT !.active = TRUE, !.revoked = FALSE]
           new == Rebuilt(base, Enabled(rows, o), TRUE)
<1>1. /\ requests[r].op = "add" /\ MayWrite(r) /\ samples[s] = None /\ s \notin OldSamples
      /\ p = None => profiles[o] = None
      /\ samples' = rows
      /\ profiles' = [ProfilesOf(r) EXCEPT ![o] = IF p = None THEN new ELSE Net(p, new, @)]
      /\ references' = [references EXCEPT ![o] = ReferenceFrom(new)]
      /\ Ends(r) /\ UNCHANGED <<suspect, bound, setup, party>>
  BY DEF CommitAdd
<1>2. requests[r] \in Request
  BY DEF Invariant
<1>3. /\ o \in Officers /\ p \in {None} \cup ProfileRow /\ requests[r].setup \in Setups
      /\ p # None => p.version < MaxVersion /\ ProfilesOf(r)[o] # None
  BY <1>1, <1>2, RequestParts DEF Invariant, LoadedStays
<1>4. row \in SampleRow /\ row.of = o /\ row # None
  BY <1>3, SampleRecord
<1>5. base \in [active : BOOLEAN, revoked : BOOLEAN, version : 0..MaxVersion,
                count : 0..Cardinality(Samples), aggregate : SUBSET Samples]
  BY <1>3, LoadedRow
<1>6. Enabled(rows, o) \in SUBSET Samples
  BY DEF Enabled
<1> HIDE DEF base, row
<1>8. new \in ProfileRow
  BY <1>5, <1>6, RebuiltRow
<1>9. ReferenceFrom(new) \in ReferenceRow
  BY <1>5, <1>6, <1>8, RebuiltRow, BridgedRow
<1> DEFINE kept == IF p = None THEN new ELSE Net(p, new, ProfilesOf(r)[o])
<1> HIDE DEF new
<1>7. p # None => p \in ProfileRow /\ ProfilesOf(r)[o] \in ProfileRow
  BY <1>3, SeenTables
<1>10. kept \in ProfileRow
  <2>1. p # None => Net(p, new, ProfilesOf(r)[o]) \in ProfileRow
    BY <1>7, <1>8, NetWrites
  <2> QED BY <1>8, <2>1
<1> HIDE DEF kept
<1>11. profiles' = [ProfilesOf(r) EXCEPT ![o] = kept]
  BY <1>1 DEF kept
<1>12. /\ samples' \in [Samples -> {None} \cup SampleRow]
       /\ profiles' \in [Officers -> {None} \cup ProfileRow]
       /\ references' \in [Officers \cup Sessions -> {None} \cup ReferenceRow]
  BY <1>1, <1>3, <1>4, <1>9, <1>10, <1>11, SeenTables DEF Invariant, TypeOK, LibraryTypeOK
<1>13. \A t \in Samples : samples'[t] = IF t = s THEN row ELSE SamplesOf(r)[t]
  BY <1>1, SeenTables
<1>14. \A q \in Officers : profiles'[q] = IF q = o THEN kept ELSE ProfilesOf(r)[q]
  BY <1>11, SeenTables
<1>15. \A q \in Officers : references'[q] = IF q = o THEN ReferenceFrom(new) ELSE references[q]
  BY <1>1 DEF Invariant, TypeOK, LibraryTypeOK
<1>16. kept # None /\ ReferenceFrom(new) # None
  BY <1>9, <1>10, RowsAreSome
<1>17. /\ Kept /\ RowsBelong'
       /\ \A q \in Officers : profiles[q] # None => profiles'[q] # None
  <2>1. SamplesOf(r)[s] = None
    BY <1>1, LibraryAssumption, SeenTables DEF OldSamples
  <2>2. \A t \in Samples : SamplesOf(r)[t] # None => samples'[t] = SamplesOf(r)[t]
    BY <1>13, <2>1
  <2>3. \A t \in Samples : SamplesOf(r)[t] = None /\ samples'[t] # None =>
            t \notin OldSamples /\ profiles'[samples'[t].of] # None
    BY <1>1, <1>3, <1>4, <1>13, <1>14, <1>16
  <2>4. \A q \in Officers : ProfilesOf(r)[q] # None => profiles'[q] # None
    BY <1>14, <1>16
  <2>5. \A q \in Officers : profiles'[q] # None => references'[q] # None
    BY <1>14, <1>15, <1>16, SeenTables
  <2>6. \A q \in Officers : references'[q] # None /\ profiles'[q] = None => references[q] # None
    BY <1>14, <1>15, <1>16
  <2> QED BY <2>2, <2>3, <2>4, <2>5, <2>6, RowsStayBelong
<1>20. CopiesAreOwn'
  BY <1>1 DEF Invariant, CopiesAreOwn
<1>21. bound' \in [Sessions -> {None} \cup [officer : Officers, row : Officers \cup Sessions,
                                            version : 1..(MaxVersion + 1)]]
  BY <1>1 DEF Invariant, TypeOK, LibraryTypeOK
<1> QED BY <1>1, <1>12, <1>17, <1>20, <1>21, EndInvariant

LEMMA CommitDisableInvariant ==
    ASSUME Invariant, NEW r \in Requests, CommitDisable(r),
           UNCHANGED <<calibrations, legacyEnv, starting, frozen>>
    PROVE  Invariant'
<1> DEFINE p == requests[r].profile
           o == requests[r].of
           s == requests[r].sample
           new == Rebuilt(p, requests[r].list, FALSE)
           kept == Net(p, new, ProfilesOf(r)[o])
           row == [SamplesOf(r)[s] EXCEPT !.active = FALSE]
<1>1. /\ requests[r].op = "disable" /\ MayWrite(r)
      /\ samples' = [SamplesOf(r) EXCEPT ![s].active = FALSE]
      /\ profiles' = [ProfilesOf(r) EXCEPT ![o] = kept]
      /\ references' = [references EXCEPT ![o] = ReferenceFrom(new)]
      /\ Ends(r) /\ UNCHANGED <<suspect, bound, setup, party>>
  BY DEF CommitDisable
<1>2. requests[r] \in Request
  BY DEF Invariant
<1>3. /\ o \in Officers /\ s \in Samples /\ p \in ProfileRow /\ requests[r].list \in SUBSET Samples
      /\ p.version < MaxVersion /\ profiles[o] # None /\ samples[s] # None
  BY <1>1, <1>2, RequestParts DEF Invariant, LoadedStays
<1>4. SamplesOf(r)[s] \in SampleRow /\ ProfilesOf(r)[o] \in ProfileRow
  BY <1>3, SeenTables
<1>5. p \in [active : BOOLEAN, revoked : BOOLEAN, version : 0..MaxVersion,
             count : 0..Cardinality(Samples), aggregate : SUBSET Samples]
  BY <1>3, LibraryAssumption DEF ProfileRow
<1>6. new \in ProfileRow /\ ReferenceFrom(new) \in ReferenceRow
  <2>1. new \in ProfileRow /\ (new.active => new.count > 0)
    BY <1>3, <1>5, RebuiltRow
  <2> HIDE DEF new
  <2> QED BY <2>1, BridgedRow
<1> HIDE DEF new
<1>7. kept \in ProfileRow
  BY <1>3, <1>4, <1>6, NetWrites
<1> HIDE DEF kept
<1>8. row \in SampleRow /\ row.of = SamplesOf(r)[s].of /\ row.setup = SamplesOf(r)[s].setup
  BY <1>4 DEF SampleRow
<1>9. \A t \in Samples : samples'[t] = IF t = s THEN row ELSE SamplesOf(r)[t]
  BY <1>1, SeenTables
<1>10. samples' = [SamplesOf(r) EXCEPT ![s] = row]
  BY <1>1
<1> HIDE DEF row
<1>11. \A q \in Officers : profiles'[q] = IF q = o THEN kept ELSE ProfilesOf(r)[q]
  BY <1>1, SeenTables
<1>12. \A q \in Officers : references'[q] = IF q = o THEN ReferenceFrom(new) ELSE references[q]
  BY <1>1 DEF Invariant, TypeOK, LibraryTypeOK
<1>13. /\ samples' \in [Samples -> {None} \cup SampleRow]
       /\ profiles' \in [Officers -> {None} \cup ProfileRow]
       /\ references' \in [Officers \cup Sessions -> {None} \cup ReferenceRow]
  BY <1>1, <1>3, <1>6, <1>7, <1>8, <1>10, SeenTables DEF Invariant, TypeOK, LibraryTypeOK
<1>14. row # None /\ kept # None /\ ReferenceFrom(new) # None /\ SamplesOf(r)[s] # None
  BY <1>4, <1>6, <1>7, <1>8, RowsAreSome
<1>15. /\ Kept /\ RowsBelong'
       /\ \A q \in Officers : profiles[q] # None => profiles'[q] # None
  <2>1. \A t \in Samples : SamplesOf(r)[t] # None =>
            /\ samples'[t] # None /\ samples'[t].of = SamplesOf(r)[t].of
            /\ samples'[t].setup = SamplesOf(r)[t].setup
    BY <1>8, <1>9, <1>14
  <2>2. \A t \in Samples : SamplesOf(r)[t] = None => samples'[t] = None
    BY <1>9, <1>14
  <2>3. \A q \in Officers : ProfilesOf(r)[q] # None => profiles'[q] # None
    BY <1>11, <1>14
  <2>4. \A q \in Officers : profiles'[q] # None => references'[q] # None
    BY <1>11, <1>12, <1>14, SeenTables
  <2>5. \A q \in Officers : references'[q] # None /\ profiles'[q] = None => references[q] # None
    BY <1>11, <1>12, <1>14
  <2> QED BY <2>1, <2>2, <2>3, <2>4, <2>5, RowsStayBelong
<1>16. CopiesAreOwn'
  BY <1>1 DEF Invariant, CopiesAreOwn
<1>17. bound' \in [Sessions -> {None} \cup [officer : Officers, row : Officers \cup Sessions,
                                            version : 1..(MaxVersion + 1)]]
  BY <1>1 DEF Invariant, TypeOK, LibraryTypeOK
<1> QED BY <1>1, <1>13, <1>15, <1>16, <1>17, EndInvariant

LEMMA RevokedProfile ==
    ASSUME NEW loaded \in ProfileRow, NEW row \in ProfileRow
    PROVE  Revoked(loaded, row) \in ProfileRow /\ Revoked(loaded, row).revoked
<1> DEFINE active == row.active /\ ~loaded.active
           fields == {"active", "revoked", "version", "count", "aggregate"}
<1>1. active \in BOOLEAN
  BY DEF ProfileRow
<1>2. Revoked(loaded, row) = [row EXCEPT !.active = active, !.revoked = TRUE]
  BY DEF Revoked
<1> HIDE DEF active
<1>3. DOMAIN row = fields
  BY DEF ProfileRow
<1>4. Revoked(loaded, row) =
          [c \in fields |-> IF c = "revoked" THEN TRUE ELSE IF c = "active" THEN active ELSE row[c]]
  BY <1>2, <1>3
<1>5. /\ row.version \in 1..(MaxVersion + 1) /\ row.count \in 0..Cardinality(Samples)
      /\ row.aggregate \in SUBSET Samples
  BY DEF ProfileRow
<1> QED BY <1>1, <1>4, <1>5 DEF ProfileRow

LEMMA RevokedReference ==
    ASSUME NEW loaded \in ReferenceRow, NEW row \in ReferenceRow
    PROVE  Revoked(loaded, row) \in ReferenceRow /\ Revoked(loaded, row).revoked
<1> DEFINE active == row.active /\ ~loaded.active
           fields == {"active", "revoked", "aggregate"}
<1>1. active \in BOOLEAN
  BY DEF ReferenceRow
<1>2. Revoked(loaded, row) = [row EXCEPT !.active = active, !.revoked = TRUE]
  BY DEF Revoked
<1> HIDE DEF active
<1>3. DOMAIN row = fields
  BY DEF ReferenceRow
<1>4. Revoked(loaded, row) =
          [c \in fields |-> IF c = "revoked" THEN TRUE ELSE IF c = "active" THEN active ELSE row[c]]
  BY <1>2, <1>3
<1>5. row.aggregate \in SUBSET Samples
  BY DEF ReferenceRow
<1> QED BY <1>1, <1>4, <1>5 DEF ReferenceRow

LEMMA CommitRevokeInvariant ==
    ASSUME Invariant, NEW r \in Requests, CommitRevoke(r),
           UNCHANGED <<calibrations, legacyEnv, starting, frozen>>
    PROVE  Invariant'
<1> DEFINE o == requests[r].of
           profile == Revoked(requests[r].profile, ProfilesOf(r)[o])
           reference == Revoked(requests[r].reference, references[o])
<1>1. requests[r].op = "revoke" /\ requests[r] \in Request
  BY DEF CommitRevoke, Invariant
<1>2. /\ o \in Officers /\ requests[r].profile \in ProfileRow
      /\ requests[r].reference \in ReferenceRow /\ ProfilesOf(r)[o] # None
  BY <1>1, RequestParts DEF Invariant, LoadedStays
<1>3. /\ MayWrite(r) /\ samples' = SamplesOf(r)
      /\ profiles' = [ProfilesOf(r) EXCEPT ![o] = profile]
      /\ references' = [references EXCEPT ![o] = reference]
      /\ Ends(r) /\ UNCHANGED <<suspect, bound, setup, party>>
  BY <1>2, RowsAreSome DEF CommitRevoke
<1>4. ProfilesOf(r)[o] \in ProfileRow /\ references[o] # None
  BY <1>2, SeenTables
<1>5. references[o] \in ReferenceRow
  BY <1>2, <1>4 DEF Invariant, TypeOK, LibraryTypeOK
<1>6. profile \in ProfileRow /\ reference \in ReferenceRow
  BY <1>2, <1>4, <1>5, RevokedProfile, RevokedReference
<1> HIDE DEF profile, reference
<1>7. /\ samples' \in [Samples -> {None} \cup SampleRow]
      /\ profiles' \in [Officers -> {None} \cup ProfileRow]
      /\ references' \in [Officers \cup Sessions -> {None} \cup ReferenceRow]
  BY <1>2, <1>3, <1>6, SeenTables DEF Invariant, TypeOK, LibraryTypeOK
<1>8. \A q \in Officers : profiles'[q] = IF q = o THEN profile ELSE ProfilesOf(r)[q]
  BY <1>3, SeenTables
<1>9. \A q \in Officers : references'[q] = IF q = o THEN reference ELSE references[q]
  BY <1>3 DEF Invariant, TypeOK, LibraryTypeOK
<1>10. profile # None /\ reference # None
  BY <1>6, RowsAreSome
<1>11. /\ Kept /\ RowsBelong'
       /\ \A q \in Officers : profiles[q] # None => profiles'[q] # None
  <2>1. \A q \in Officers : ProfilesOf(r)[q] # None => profiles'[q] # None
    BY <1>8, <1>10
  <2>2. \A q \in Officers : profiles'[q] # None => references'[q] # None
    BY <1>8, <1>9, <1>10, SeenTables
  <2>3. \A q \in Officers : references'[q] # None /\ profiles'[q] = None => references[q] # None
    BY <1>8, <1>9, <1>10
  <2> QED BY <1>3, <2>1, <2>2, <2>3, RowsStayBelong
<1>12. CopiesAreOwn'
  BY <1>3 DEF Invariant, CopiesAreOwn
<1>13. bound' \in [Sessions -> {None} \cup [officer : Officers, row : Officers \cup Sessions,
                                            version : 1..(MaxVersion + 1)]]
  BY <1>3 DEF Invariant, TypeOK, LibraryTypeOK
<1> QED BY <1>3, <1>7, <1>11, <1>12, <1>13, EndInvariant

LEMMA FailsInvariant ==
    ASSUME Invariant, NEW r \in Requests, Fails(r), UNCHANGED <<calibrations, legacyEnv, starting, frozen>>
    PROVE  Invariant'
<1>1. Ends(r) /\ UNCHANGED <<samples, profiles, references, suspect, bound, setup, party>>
  BY DEF Fails
<1>2. Kept
  BY <1>1 DEF Kept
<1>3. RowsBelong' /\ CopiesAreOwn'
  BY <1>1 DEF Invariant, RowsBelong, Missing, CopiesAreOwn
<1>4. /\ samples' \in [Samples -> {None} \cup SampleRow]
      /\ profiles' \in [Officers -> {None} \cup ProfileRow]
      /\ references' \in [Officers \cup Sessions -> {None} \cup ReferenceRow]
      /\ bound' \in [Sessions -> {None} \cup [officer : Officers, row : Officers \cup Sessions,
                                              version : 1..(MaxVersion + 1)]]
  BY <1>1 DEF Invariant, TypeOK, LibraryTypeOK
<1> QED BY <1>1, <1>2, <1>3, <1>4, EndInvariant

LEMMA CommitBindInvariant ==
    ASSUME Invariant, NEW r \in Requests, CommitBind(r),
           UNCHANGED <<calibrations, legacyEnv, starting, frozen>>
    PROVE  Invariant'
<1> DEFINE x == requests[r].session
           copy == [active |-> TRUE, revoked |-> FALSE, aggregate |-> requests[r].reference.aggregate]
           binding == [officer |-> requests[r].officer, row |-> x, version |-> requests[r].version]
<1>1. /\ requests[r].op = "bind" /\ MayWrite(r) /\ Ends(r)
      /\ references' = [references EXCEPT ![x] = copy]
      /\ bound' = [bound EXCEPT ![x] = binding]
      /\ UNCHANGED <<samples, profiles, suspect, setup, party>>
  BY DEF CommitBind
<1>2. requests[r] \in Request
  BY DEF Invariant
<1>3. /\ x \in Sessions /\ requests[r].officer \in Officers
      /\ requests[r].reference \in ReferenceRow /\ requests[r].version \in 1..(MaxVersion + 1)
  BY <1>1, <1>2, RequestParts
<1>4. copy \in ReferenceRow
  <2>1. requests[r].reference.aggregate \in SUBSET Samples
    BY <1>3 DEF ReferenceRow
  <2> QED BY <2>1 DEF ReferenceRow
<1>5. /\ binding \in [officer : Officers, row : Officers \cup Sessions, version : 1..(MaxVersion + 1)]
      /\ binding.row = x
  BY <1>3
<1> HIDE DEF copy, binding
<1>6. \A o \in Officers : references'[o] = references[o]
  BY <1>1, <1>3, LibraryAssumption DEF Invariant, TypeOK, LibraryTypeOK
<1>7. RowsBelong'
  BY <1>1, <1>6 DEF Invariant, RowsBelong, Missing
<1>8. CopiesAreOwn'
  BY <1>1, <1>5 DEF Invariant, CopiesAreOwn, TypeOK, LibraryTypeOK
<1>9. /\ samples' \in [Samples -> {None} \cup SampleRow]
      /\ profiles' \in [Officers -> {None} \cup ProfileRow]
      /\ references' \in [Officers \cup Sessions -> {None} \cup ReferenceRow]
      /\ bound' \in [Sessions -> {None} \cup [officer : Officers, row : Officers \cup Sessions,
                                              version : 1..(MaxVersion + 1)]]
  BY <1>1, <1>3, <1>4, <1>5 DEF Invariant, TypeOK, LibraryTypeOK
<1>10. Kept /\ \A q \in Officers : profiles[q] # None => profiles'[q] # None
  BY <1>1 DEF Kept
<1> QED BY <1>1, <1>7, <1>8, <1>9, <1>10, EndInvariant

\* The corpus of a setup is made with it, and the officers who have enough samples are
\* those who have samples in it.
LEMMA CorpusIsFit ==
    ASSUME Invariant, NEW x \in Setups
    PROVE  /\ Corpus(x) \in SUBSET Samples /\ Cardinality(Eligible(x)) \in Nat
           /\ \A s \in Corpus(x) : samples[s] # None /\ samples[s].setup = x
           /\ Heard(Corpus(x)) = Eligible(x)
<1>1. \A o \in Officers : \A s \in Compatible(o, x) :
          /\ s \in Samples /\ samples[s] # None /\ samples[s].of = o /\ samples[s].setup = x
          /\ samples[s].active /\ InUse(profiles[o])
  BY DEF Compatible, Enabled
<1>3. Corpus(x) \in SUBSET Samples
  BY <1>1 DEF Corpus, Eligible
<1>4. Eligible(x) \in SUBSET Officers
  BY DEF Eligible
<1>5. IsFiniteSet(Eligible(x)) /\ Cardinality(Eligible(x)) \in Nat
  BY <1>4, LibraryAssumption, FS_Subset, FS_CardinalityType
<1>6. \A s \in Corpus(x) : samples[s] # None /\ samples[s].setup = x /\ samples[s].of \in Eligible(x)
  BY <1>1, <1>4 DEF Corpus
<1>7. ASSUME NEW o \in Eligible(x)
      PROVE  o \in Heard(Corpus(x))
  <2>1. {s \in Corpus(x) : samples[s].of = o} = Compatible(o, x)
    BY <1>1, <1>4 DEF Corpus
  <2> QED BY <1>4, <2>1 DEF Heard, Eligible
<1>8. ASSUME NEW o \in Officers, o \notin Eligible(x)
      PROVE  o \notin Heard(Corpus(x))
  <2>1. {s \in Corpus(x) : samples[s].of = o} = {}
    BY <1>6, <1>8
  <2>2. Cardinality({s \in Corpus(x) : samples[s].of = o}) = 0
    BY <2>1, FS_EmptySet
  <2> QED BY <2>2, CalibrationAssumption DEF Heard
<1>9. Heard(Corpus(x)) = Eligible(x)
  BY <1>4, <1>7, <1>8 DEF Heard
<1> QED BY <1>3, <1>5, <1>6, <1>9

LEMMA LoadRecomputeInvariant ==
    ASSUME Invariant, NEW r \in Requests, LoadRecompute(r)
    PROVE  Invariant'
<1> DEFINE q == [op |-> "recompute", setup |-> setup, corpus |-> Corpus(setup),
                 officers |-> Cardinality(Eligible(setup))]
<1>1. Ready(setup) /\ Load(r, q) /\ UNCHANGED <<writer, calibrations, legacyEnv, starting, frozen>>
  BY DEF LoadRecompute
<1>2. setup \in Setups
  BY DEF Invariant, TypeOK, LibraryTypeOK
<1>3. Corpus(setup) \in SUBSET Samples /\ Cardinality(Eligible(setup)) \in Nat
  BY <1>2, CorpusIsFit
<1>4. q \in Request /\ q.op = "recompute"
  BY <1>2, <1>3 DEF Request
<1>5. Fit(q)
  <2>1. q.corpus = Corpus(setup) /\ q.setup = setup
    OBVIOUS
  <2>2. Cardinality(Eligible(setup)) >= MinOfficers
    BY <1>1 DEF Ready
  <2>3. \A s \in Corpus(setup) : samples[s] # None /\ samples[s].setup = setup
    BY <1>2, CorpusIsFit
  <2>4. Heard(Corpus(setup)) = Eligible(setup)
    BY <1>2, CorpusIsFit
  <2> HIDE DEF q
  <2> QED BY <2>1, <2>2, <2>3, <2>4 DEF Fit, Heard
<1> HIDE DEF q
<1> QED BY <1>1, <1>4, <1>5, LoadInvariant

LEMMA CommitRecomputeInvariant ==
    ASSUME Invariant, NEW r \in Requests, CommitRecompute(r)
    PROVE  Invariant'
<1> DEFINE new == [setup |-> requests[r].setup, corpus |-> requests[r].corpus,
                   officers |-> requests[r].officers]
           n == Len(calibrations)
<1>1. /\ requests[r].op = "recompute" /\ MayWrite(r) /\ n < MaxCalibrations
      /\ calibrations' = Append(calibrations, new) /\ Ends(r)
      /\ UNCHANGED <<samples, profiles, references, suspect, bound, setup, party, legacyEnv, starting, frozen>>
  BY DEF CommitRecompute
<1>2. requests[r] \in Request /\ Fit(requests[r])
  BY <1>1 DEF Invariant, CorporaFit
<1>3. new \in Calibration
  BY <1>1, <1>2, RequestParts DEF Calibration
<1>4. Fit(new)
  BY <1>2 DEF Fit, Heard
<1> HIDE DEF new
<1>5. calibrations \in Seq(Calibration) /\ n \in Nat
  BY DEF Invariant, TypeOK, CalibrationTypeOK
<1>6. /\ calibrations' \in Seq(Calibration) /\ Len(calibrations') = n + 1
      /\ calibrations'[n + 1] = new
      /\ \A i \in 1..n : calibrations'[i] = calibrations[i]
  BY <1>1, <1>3, <1>5
<1>7. DOMAIN calibrations = 1..n /\ DOMAIN calibrations' = 1..(n + 1) /\ calibrations' # <<>>
  BY <1>5, <1>6
<1>8. Kept /\ (\A o \in Officers : profiles[o] # None => profiles'[o] # None)
      /\ samples' \in [Samples -> {None} \cup SampleRow]
      /\ profiles' \in [Officers -> {None} \cup ProfileRow]
  BY <1>1 DEF Kept, Invariant, TypeOK, LibraryTypeOK
<1>9. /\ requests' \in [Requests -> Request] /\ LoadedStays' /\ writer' \in Requests \cup {Nobody}
      /\ \A q \in Requests : requests[q].op = "recompute" /\ q # r => Fit(requests[q])'
      /\ \A q \in Requests : requests'[q] = IF q = r THEN Idle ELSE requests[q]
  BY <1>1, <1>8, OthersKeep
<1>10. TypeOK'
  <2>1. LibraryTypeOK'
    BY <1>1, <1>9 DEF Invariant, TypeOK, LibraryTypeOK
  <2>2. CalibrationTypeOK'
    BY <1>1, <1>5, <1>6, CalibrationAssumption DEF Invariant, TypeOK, CalibrationTypeOK
  <2> QED BY <2>1, <2>2 DEF TypeOK
<1>11. CorporaFit'
  <2>1. ASSUME NEW i \in DOMAIN calibrations'
        PROVE  Fit(calibrations[i])'
    <3>1. Fit(calibrations'[i])
      BY <1>4, <1>6, <1>7 DEF Invariant, CorporaFit
    <3> QED BY <1>1, <3>1 DEF Fit, Heard
  <2>2. ASSUME NEW q \in Requests, requests'[q].op = "recompute"
        PROVE  Fit(requests[q])'
    <3>1. q # r /\ requests'[q] = requests[q]
      BY <1>9, <2>2 DEF Idle
    <3> QED BY <1>9, <2>2, <3>1
  <2> QED BY <2>1, <2>2 DEF CorporaFit
<1>12. HasLast'
  <2> SUFFICES ASSUME NEW x, RowsOf(x)' # {}
               PROVE  \E i \in RowsOf(x)' : \A j \in RowsOf(x)' : j <= i
    BY DEF HasLast
  <2>1. RowsOf(x)' = IF new.setup = x THEN RowsOf(x) \cup {n + 1} ELSE RowsOf(x)
    BY <1>5, <1>6, <1>7 DEF RowsOf
  <2>2. \A i \in RowsOf(x) : i \in 1..n
    BY <1>7 DEF RowsOf
  <2>3. CASE new.setup = x
    <3>1. n + 1 \in RowsOf(x)'
      BY <2>1, <2>3
    <3>2. \A j \in RowsOf(x) : j <= n + 1
      BY <1>5, <2>2
    <3>3. \A j \in RowsOf(x)' : j <= n + 1
      BY <1>5, <2>1, <2>3, <3>2
    <3> QED BY <3>1, <3>3
  <2>4. CASE new.setup # x
    BY <2>1, <2>4 DEF Invariant, HasLast
  <2> QED BY <2>3, <2>4
<1>13. RowsBelong' /\ CopiesAreOwn'
  BY <1>1 DEF Invariant, RowsBelong, Missing, CopiesAreOwn
<1>14. RowsThere'
  <2>1. \A x : RowsOf(x) \subseteq RowsOf(x)'
    BY <1>5, <1>6, <1>7 DEF RowsOf
  <2>2. \A f : RowThere(f) => RowThere(f)'
    BY <2>1 DEF RowThere
  <2> QED BY <1>1, <2>2 DEF Invariant, RowsThere, RowThere
<1> QED BY <1>9, <1>10, <1>11, <1>12, <1>13, <1>14 DEF Invariant

\* What a start resolves
LEMMA ResolvedIsFit ==
    ASSUME Invariant, NEW x \in Setups, NEW ready \in BOOLEAN
    PROVE  /\ Row(x, ready) \in Frozen /\ RowThere(Row(x, ready))
           /\ Row(x, ready).source = "LEGACY_ENV" => calibrations = <<>>
<1>1. RowsOf(x) # {} => Latest(x) \in RowsOf(x)
  <2>1. ASSUME RowsOf(x) # {}
        PROVE  Latest(x) \in RowsOf(x)
    <3>1. \E i \in RowsOf(x) : \A j \in RowsOf(x) : j <= i
      BY <2>1 DEF Invariant, HasLast
    <3>2. Latest(x) = CHOOSE i \in RowsOf(x) : \A j \in RowsOf(x) : j <= i
      BY <2>1 DEF Latest, RowsOf
    <3> QED BY <3>1, <3>2
  <2> QED BY <2>1
<1>2. RowsOf(x) = {} => Latest(x) = 0
  BY DEF Latest, RowsOf
<1>3. /\ Len(calibrations) <= MaxCalibrations /\ DOMAIN calibrations = 1..Len(calibrations)
      /\ Len(calibrations) \in Nat /\ MaxCalibrations \in Nat
  BY CalibrationAssumption DEF Invariant, TypeOK, CalibrationTypeOK
<1>4. Latest(x) \in 0..MaxCalibrations
  BY <1>1, <1>2, <1>3 DEF RowsOf
<1>5. Status(x, ready) = "USABLE" => Latest(x) # 0
  <2>1. CASE calibrations = <<>>
    BY <2>1 DEF Status
  <2>2. CASE calibrations # <<>> /\ Latest(x) = 0
    BY <2>2 DEF Status
  <2> QED BY <2>1, <2>2
<1>6. Status(x, ready) = "NOT_CALIBRATED" => calibrations = <<>>
  BY DEF Status
<1>7. Row(x, ready).setup = x /\ Row(x, ready).source \in {"DEVICE_CALIBRATED", "MODEL_BASELINE", "LEGACY_ENV"}
      /\ Row(x, ready).calibration \in 0..MaxCalibrations
  BY <1>3, <1>4 DEF Row
<1>8. Row(x, ready) \in Frozen
  BY <1>4, <1>3 DEF Row, Frozen
<1>9. Row(x, ready).source = "DEVICE_CALIBRATED" =>
          Status(x, ready) = "USABLE" /\ Row(x, ready).calibration = Latest(x)
  BY DEF Row
<1>10. Row(x, ready).source = "LEGACY_ENV" => Status(x, ready) = "NOT_CALIBRATED"
  BY DEF Row
<1> QED BY <1>1, <1>2, <1>5, <1>6, <1>7, <1>8, <1>9, <1>10 DEF RowThere

\* What was computed from samples stays fit as long as nothing of it changes.
LEMMA CorporaStay ==
    ASSUME Invariant, UNCHANGED <<samples, requests, calibrations>>
    PROVE  CorporaFit' /\ HasLast'
<1>1. \A computed : Fit(computed) <=> Fit(computed)'
  BY DEF Fit, Heard
<1>2. ASSUME NEW i \in DOMAIN calibrations'
      PROVE  Fit(calibrations[i])'
  <2>1. Fit(calibrations'[i])
    BY <1>2 DEF Invariant, CorporaFit
  <2> QED BY <2>1 DEF Fit, Heard
<1>3. ASSUME NEW r \in Requests, requests'[r].op = "recompute"
      PROVE  Fit(requests[r])'
  <2>1. Fit(requests'[r])
    BY <1>3 DEF Invariant, CorporaFit
  <2> QED BY <2>1 DEF Fit, Heard
<1>4. HasLast'
  BY DEF Invariant, HasLast, RowsOf
<1> QED BY <1>2, <1>3, <1>4 DEF CorporaFit

\* A step of a start leaves the library and the calibrations alone.
LEMMA CaptureInvariant ==
    ASSUME Invariant, UNCHANGED <<libraryVars, calibrations, legacyEnv>>,
           frozen' \in [Captures -> {None} \cup Frozen],
           starting' \in [Captures -> {None} \cup Looked \cup Resolved],
           \A c \in Captures :
               /\ frozen'[c] # None => RowThere(frozen'[c])
               /\ starting'[c] \in Resolved => RowThere(starting'[c].row)
    PROVE  Invariant'
<1>1. UNCHANGED <<samples, profiles, references, suspect, bound, requests, writer, setup, party>>
  BY DEF libraryVars
<1>2. TypeOK'
  BY <1>1 DEF Invariant, TypeOK, LibraryTypeOK, CalibrationTypeOK
<1>3. LoadedStays' /\ RowsBelong' /\ CopiesAreOwn'
  BY <1>1 DEF Invariant, LoadedStays, ProfilesOf, OldProfile, RowsBelong, Missing, CopiesAreOwn
<1>4. CorporaFit' /\ HasLast'
  BY <1>1, CorporaStay
<1>5. RowsThere'
  BY DEF RowsThere, RowThere, RowsOf
<1> QED BY <1>1, <1>2, <1>3, <1>4, <1>5 DEF Invariant

LEMMA StartingOf ==
    ASSUME Invariant, NEW c \in Captures, starting[c] # None
    PROVE  /\ starting[c].at = "corpus" =>
                  /\ starting[c] \notin Resolved
                  /\ starting[c].setup \in Setups /\ starting[c].ready \in BOOLEAN
           /\ starting[c].at = "resolved" =>
                  /\ starting[c] \in Resolved /\ starting[c].row \in Frozen
                  /\ RowThere(starting[c].row)
<1>1. starting[c] \in Looked \/ starting[c] \in Resolved
  BY DEF Invariant, TypeOK, CalibrationTypeOK
<1>2. \A v \in Looked : v.at = "corpus" /\ v.setup \in Setups /\ v.ready \in BOOLEAN
  BY DEF Looked
<1>3. \A v \in Resolved : v.at = "resolved" /\ v.row \in Frozen
  BY DEF Resolved
<1> QED BY <1>1, <1>2, <1>3 DEF Invariant, RowsThere

LEMMA LookAtCorpusInvariant ==
    ASSUME Invariant, NEW c \in Captures, LookAtCorpus(c)
    PROVE  Invariant'
<1> DEFINE look == [at |-> "corpus", setup |-> setup, ready |-> Ready(setup)]
<1>1. /\ starting' = [starting EXCEPT ![c] = look] /\ frozen' = frozen
      /\ UNCHANGED <<libraryVars, calibrations, legacyEnv>>
  BY DEF LookAtCorpus
<1>2. setup \in Setups /\ Ready(setup) \in BOOLEAN
  BY DEF Invariant, TypeOK, LibraryTypeOK, Ready
<1>3. look \in Looked /\ look \notin Resolved
  BY <1>2 DEF Looked, Resolved
<1> HIDE DEF look
<1>4. starting' \in [Captures -> {None} \cup Looked \cup Resolved]
  BY <1>1, <1>3 DEF Invariant, TypeOK, CalibrationTypeOK
<1>5. \A d \in Captures : starting'[d] = IF d = c THEN look ELSE starting[d]
  BY <1>1 DEF Invariant, TypeOK, CalibrationTypeOK
<1> QED BY <1>1, <1>3, <1>4, <1>5, CaptureInvariant DEF Invariant, TypeOK, CalibrationTypeOK, RowsThere

LEMMA ResolveInvariant ==
    ASSUME Invariant, NEW c \in Captures, Resolve(c)
    PROVE  Invariant'
<1>1. PICK row \in {Row(starting[c].setup, starting[c].ready), Unavailable} :
          starting' = [starting EXCEPT ![c] = [at |-> "resolved", row |-> row]]
  BY DEF Resolve
<1>2. UNCHANGED <<libraryVars, calibrations, legacyEnv, frozen>>
  BY DEF Resolve
<1>3. starting[c].setup \in Setups /\ starting[c].ready \in BOOLEAN
  BY StartingOf DEF Resolve
<1>4. Unavailable \in Frozen /\ RowThere(Unavailable)
  BY CalibrationAssumption DEF Unavailable, Frozen, RowThere
<1>5. row \in Frozen /\ RowThere(row)
  BY <1>3, <1>4, ResolvedIsFit
<1> DEFINE done == [at |-> "resolved", row |-> row]
<1>6. done \in Resolved /\ done.row = row
  BY <1>5 DEF Resolved
<1> HIDE DEF done
<1>7. starting' = [starting EXCEPT ![c] = done]
  BY <1>1 DEF done
<1>8. starting' \in [Captures -> {None} \cup Looked \cup Resolved]
  BY <1>6, <1>7 DEF Invariant, TypeOK, CalibrationTypeOK
<1>9. \A d \in Captures : starting'[d] = IF d = c THEN done ELSE starting[d]
  BY <1>7 DEF Invariant, TypeOK, CalibrationTypeOK
<1> QED BY <1>2, <1>5, <1>6, <1>8, <1>9, CaptureInvariant DEF Invariant, TypeOK, CalibrationTypeOK, RowsThere

LEMMA FreezeInvariant ==
    ASSUME Invariant, NEW c \in Captures, Freeze(c)
    PROVE  Invariant'
<1>1. /\ starting[c] # None /\ starting[c].at = "resolved"
      /\ frozen' = [frozen EXCEPT ![c] = starting[c].row] /\ starting' = [starting EXCEPT ![c] = None]
      /\ UNCHANGED <<libraryVars, calibrations, legacyEnv>>
  BY DEF Freeze
<1>2. starting[c].row \in Frozen /\ RowThere(starting[c].row)
  BY <1>1, StartingOf
<1>3. /\ frozen' \in [Captures -> {None} \cup Frozen]
      /\ starting' \in [Captures -> {None} \cup Looked \cup Resolved]
  BY <1>1, <1>2 DEF Invariant, TypeOK, CalibrationTypeOK
<1>4. \A d \in Captures :
          /\ frozen'[d] = IF d = c THEN starting[c].row ELSE frozen[d]
          /\ starting'[d] = IF d = c THEN None ELSE starting[d]
  BY <1>1 DEF Invariant, TypeOK, CalibrationTypeOK
<1>5. None \notin Resolved
  BY DEF None, Resolved
<1> QED BY <1>1, <1>2, <1>3, <1>4, <1>5, CaptureInvariant DEF Invariant, RowsThere

\* The steps that are no request's.
LEMMA OtherInvariant ==
    ASSUME Invariant, UNCHANGED <<calibrations, legacyEnv, starting, frozen>>,
           \/ EnrolSuspect
           \/ \E x \in Sessions : BindNobody(x)
           \/ \E x \in Setups : ChangeSetup(x)
           \/ UNCHANGED libraryVars
    PROVE  Invariant'
<1>1. UNCHANGED <<samples, profiles, references, requests, writer, party>>
  BY DEF EnrolSuspect, BindNobody, ChangeSetup, libraryVars
<1>2. /\ suspect' \in 0..MaxSuspect /\ setup' \in Setups
      /\ \/ bound' = bound
         \/ \E x \in Sessions : bound' = [bound EXCEPT ![x] = None]
  BY LibraryAssumption
     DEF EnrolSuspect, BindNobody, ChangeSetup, libraryVars, Invariant, TypeOK, LibraryTypeOK
<1>3. bound' \in [Sessions -> {None} \cup [officer : Officers, row : Officers \cup Sessions,
                                           version : 1..(MaxVersion + 1)]]
  BY <1>2 DEF Invariant, TypeOK, LibraryTypeOK
<1>4. TypeOK'
  BY <1>1, <1>2, <1>3 DEF Invariant, TypeOK, LibraryTypeOK, CalibrationTypeOK
<1>5. CopiesAreOwn'
  BY <1>2 DEF Invariant, TypeOK, LibraryTypeOK, CopiesAreOwn
<1>6. LoadedStays' /\ RowsBelong'
  BY <1>1 DEF Invariant, LoadedStays, ProfilesOf, OldProfile, RowsBelong, Missing
<1>7. CorporaFit' /\ HasLast' /\ RowsThere'
  BY <1>1, CorporaStay, RowsStayThere DEF Invariant
<1> QED BY <1>1, <1>4, <1>5, <1>6, <1>7 DEF Invariant

LEMMA StepInvariant == Invariant /\ [Next]_vars => Invariant'
<1> SUFFICES ASSUME Invariant, [Next]_vars
             PROVE  Invariant'
  OBVIOUS
<1>1. CASE LibraryStep /\ UNCHANGED <<calibrations, legacyEnv, starting, frozen>>
  BY <1>1, LoadAddInvariant, LoadRevokeInvariant, CommitAddInvariant, LoadDisableInvariant,
     LoadBindInvariant, CommitDisableInvariant, CommitRevokeInvariant, CommitBindInvariant,
     FailsInvariant, OtherInvariant
     DEF LibraryStep
<1>2. CASE \E r \in Requests \cap party : LoadRecompute(r) \/ CommitRecompute(r)
  BY <1>2, LoadRecomputeInvariant, CommitRecomputeInvariant
<1>3. CASE \E c \in Captures \cap party : LookAtCorpus(c) \/ Resolve(c) \/ Freeze(c)
  BY <1>3, LookAtCorpusInvariant, ResolveInvariant, FreezeInvariant
<1>4. CASE UNCHANGED vars
  BY <1>4, OtherInvariant DEF vars
<1> QED BY <1>1, <1>2, <1>3, <1>4 DEF Next

LEMMA Invariance == Spec => []Invariant
BY InitInvariant, StepInvariant, PTL DEF Spec

--------------------------------------------------------------------------------
(* The theorems *)

\* Whatever requests overlap, every row of the library and of the calibrations, and what
\* is frozen for a capture, stays in its type.
THEOREM TypeCorrectness == Spec => []TypeOK
<1>1. Invariant => TypeOK
  BY DEF Invariant
<1> QED BY <1>1, Invariance, PTL

\* The copy that a session is bound to is written by nobody but a binding of that
\* session, for any number of officers, sessions and overlapping requests.
THEOREM BoundReferenceStays == Spec => BoundStays
<1> DEFINE Kept1 == \A x \in Sessions :
               bound[x] # None /\ references'[bound[x].row] # references[bound[x].row] =>
                   \E r \in Requests : requests[r].op = "bind" /\ requests[r].session = x
                                      /\ requests'[r] = Idle
<1>1. ASSUME Invariant, Next, NEW x \in Sessions, bound[x] # None,
             references'[bound[x].row] # references[bound[x].row]
      PROVE  \E r \in Requests : requests[r].op = "bind" /\ requests[r].session = x
                                /\ requests'[r] = Idle
  <2>1. bound[x].row = x /\ references'[x] # references[x] /\ x \notin Officers
    BY <1>1, LibraryAssumption DEF Invariant, CopiesAreOwn
  <2>2. \A r \in Requests : requests[r] \in Request
    BY <1>1 DEF Invariant
  <2>3. ASSUME NEW r \in Requests,
               (\E s \in Samples : CommitAdd(r, s)) \/ CommitDisable(r) \/ CommitRevoke(r)
        PROVE  references'[x] = references[x]
    <3>1. requests[r].of \in Officers
      BY <2>2, <2>3, RequestParts DEF CommitAdd, CommitDisable, CommitRevoke
    <3> QED BY <1>1, <2>1, <2>3, <3>1
            DEF CommitAdd, CommitDisable, CommitRevoke, Invariant, TypeOK, LibraryTypeOK
  <2>4. ASSUME NEW r \in Requests, CommitBind(r)
        PROVE  /\ requests[r].op = "bind" /\ requests'[r] = Idle
               /\ requests[r].session # x => references'[x] = references[x]
    BY <1>1, <2>4 DEF CommitBind, Ends, Invariant, TypeOK, LibraryTypeOK
  <2>5. ASSUME UNCHANGED references
        PROVE  FALSE
    BY <2>1, <2>5
  <2>6. PICK r \in Requests : CommitBind(r)
    BY <1>1, <2>1, <2>3, <2>5
       DEF Next, LibraryStep, LoadAdd, LoadDisable, LoadRevoke, LoadBind, Load, Fails, EnrolSuspect,
           BindNobody, ChangeSetup, LoadRecompute, CommitRecompute, LookAtCorpus, Resolve, Freeze, libraryVars
  <2> QED BY <2>1, <2>4, <2>6
<1> HIDE DEF Kept1
<1>2. Invariant /\ [Next]_vars => [Kept1]_vars
  BY <1>1 DEF Kept1
<1> USE DEF Kept1
<1> QED BY <1>2, Invariance, PTL DEF Spec, BoundStays


\* A sample is added by a request that nobody overtook.
LEMMA CommitAddAgrees ==
    ASSUME Invariant, NEW r \in Requests, NEW o \in Officers, requests[r].of = o,
           NEW s \in Samples, CommitAdd(r, s), Fresh(r, o)
    PROVE  Agree(o)'
<1> DEFINE p == requests[r].profile
           row == [of |-> o, active |-> TRUE, setup |-> requests[r].setup]
           rows == [SamplesOf(r) EXCEPT ![s] = row]
           base == IF p = None THEN [active |-> TRUE, revoked |-> FALSE, version |-> 0, count |-> 0,
                                     aggregate |-> {}]
                   ELSE [p EXCEPT !.active = TRUE, !.revoked = FALSE]
           new == Rebuilt(base, Enabled(rows, o), TRUE)
<1>1. /\ requests[r].op = "add" /\ samples' = rows
      /\ profiles' = [ProfilesOf(r) EXCEPT ![o] = IF p = None THEN new ELSE Net(p, new, @)]
      /\ references' = [references EXCEPT ![o] = ReferenceFrom(new)]
  BY DEF CommitAdd
<1>2. requests[r] \in Request
  BY DEF Invariant
<1>3. /\ o \in Officers /\ p \in {None} \cup ProfileRow /\ requests[r].setup \in Setups
      /\ p # None => p.version < MaxVersion
  BY <1>1, <1>2, RequestParts DEF Invariant, LoadedStays
<1>4. rows[s] # None /\ rows[s].of = o /\ rows[s].active
  BY <1>3, SampleRecord, SeenTables
<1>5. base \in [active : BOOLEAN, revoked : BOOLEAN, version : 0..MaxVersion,
                count : 0..Cardinality(Samples), aggregate : SUBSET Samples]
  BY <1>3, LoadedRow
<1>6. Enabled(rows, o) \in SUBSET Samples /\ s \in Enabled(rows, o)
  BY <1>4 DEF Enabled
<1>7. Enabled(samples, o)' = Enabled(rows, o)
  BY <1>1 DEF Enabled
<1> HIDE DEF base, rows
<1>8. new \in ProfileRow /\ new.aggregate = Enabled(rows, o) /\ (new.active => new.count > 0)
  BY <1>5, <1>6, RebuiltRow
<1> HIDE DEF new
<1>9. /\ ReferenceFrom(new) \in ReferenceRow /\ ReferenceFrom(new).aggregate = new.aggregate
      /\ InUse(ReferenceFrom(new)) = InUse(new)
  BY <1>8, BridgedRow
<1>10. p # None => Net(p, new, ProfilesOf(r)[o]) = new
  BY <1>3, <1>8, NetWrites DEF Fresh
<1>11. profiles'[o] = new
  BY <1>1, <1>3, <1>10, SeenTables
<1>12. references'[o] = ReferenceFrom(new)
  BY <1>1, <1>3 DEF Invariant, TypeOK, LibraryTypeOK
<1>13. new # None /\ ReferenceFrom(new) # None
  BY <1>8, <1>9, RowsAreSome
<1>14. InUse(references[o])' = InUse(profiles[o])'
  BY <1>9, <1>11, <1>12 DEF InUse
<1> QED BY <1>7, <1>8, <1>9, <1>11, <1>12, <1>13, <1>14 DEF Agree

\* A sample is disabled by a request that nobody overtook.
LEMMA CommitDisableAgrees ==
    ASSUME Invariant, NEW r \in Requests, NEW o \in Officers, requests[r].of = o,
           CommitDisable(r), Fresh(r, o)
    PROVE  Agree(o)'
<1> DEFINE p == requests[r].profile
           list == requests[r].list
           s == requests[r].sample
           new == Rebuilt(p, list, FALSE)
<1>1. /\ requests[r].op = "disable"
      /\ samples' = [SamplesOf(r) EXCEPT ![s].active = FALSE]
      /\ profiles' = [ProfilesOf(r) EXCEPT ![o] = Net(p, new, @)]
      /\ references' = [references EXCEPT ![o] = ReferenceFrom(new)]
  BY DEF CommitDisable
<1>2. requests[r] \in Request
  BY DEF Invariant
<1>3. s \in Samples /\ p \in ProfileRow /\ list \in SUBSET Samples /\ p.version < MaxVersion
  BY <1>1, <1>2, RequestParts DEF Invariant, LoadedStays
<1>4. p = ProfilesOf(r)[o] /\ list = Enabled(SamplesOf(r), o)
  BY <1>1 DEF Fresh
<1>5. p \in [active : BOOLEAN, revoked : BOOLEAN, version : 0..MaxVersion,
             count : 0..Cardinality(Samples), aggregate : SUBSET Samples]
  BY <1>3, LibraryAssumption DEF ProfileRow
<1>6. Enabled(samples, o)' \subseteq list
  <2>1. SamplesOf(r) \in [Samples -> {None} \cup SampleRow]
    BY SeenTables
  <2>2. \A t \in Samples : t # s => samples'[t] = SamplesOf(r)[t]
    BY <1>1, <2>1
  <2>3. SamplesOf(r)[s] # None /\ SamplesOf(r)[s] \in SampleRow
    BY <1>1, <1>3, <2>1, SeenTables DEF Invariant, LoadedStays
  <2>4. samples'[s] = [SamplesOf(r)[s] EXCEPT !.active = FALSE]
    BY <1>1, <1>3, <2>1
  <2>5. ~samples'[s].active
    BY <2>3, <2>4 DEF SampleRow
  <2> QED BY <1>4, <2>2, <2>5 DEF Enabled
<1>7. /\ new \in ProfileRow /\ (new.active => new.count > 0)
      /\ list # {} => new.aggregate = list
  BY <1>3, <1>5, RebuiltRow
<1> HIDE DEF new
<1>8. /\ ReferenceFrom(new) \in ReferenceRow /\ ReferenceFrom(new).aggregate = new.aggregate
      /\ InUse(ReferenceFrom(new)) = InUse(new)
  BY <1>7, BridgedRow
<1>9. Net(p, new, ProfilesOf(r)[o]) = new
  BY <1>3, <1>4, <1>7, NetWrites
<1>10. profiles'[o] = new
  BY <1>1, <1>9, SeenTables
<1>11. references'[o] = ReferenceFrom(new)
  BY <1>1 DEF Invariant, TypeOK, LibraryTypeOK
<1>12. new # None /\ ReferenceFrom(new) # None
  BY <1>7, <1>8, RowsAreSome
<1>13. InUse(references[o])' = InUse(profiles[o])'
  BY <1>8, <1>10, <1>11 DEF InUse
<1>14. Enabled(samples, o)' \subseteq new.aggregate
  BY <1>6, <1>7
<1> QED BY <1>8, <1>10, <1>11, <1>12, <1>13, <1>14 DEF Agree

\* An officer is revoked, whoever has written in between.
LEMMA CommitRevokeStops ==
    ASSUME Invariant, NEW r \in Requests, NEW o \in Officers, requests[r].of = o, CommitRevoke(r)
    PROVE  ~InUse(references[o])' /\ ~InUse(profiles[o])'
<1> DEFINE profile == Revoked(requests[r].profile, ProfilesOf(r)[o])
           reference == Revoked(requests[r].reference, references[o])
<1>1. requests[r].op = "revoke" /\ requests[r] \in Request
  BY DEF CommitRevoke, Invariant
<1>2. /\ requests[r].profile \in ProfileRow /\ requests[r].reference \in ReferenceRow
      /\ ProfilesOf(r)[o] # None
  BY <1>1, RequestParts DEF Invariant, LoadedStays
<1>3. /\ profiles' = [ProfilesOf(r) EXCEPT ![o] = profile]
      /\ references' = [references EXCEPT ![o] = reference]
  BY <1>2, RowsAreSome DEF CommitRevoke
<1>4. ProfilesOf(r)[o] \in ProfileRow /\ references[o] # None
  BY <1>2, SeenTables
<1>5. references[o] \in ReferenceRow
  BY <1>4 DEF Invariant, TypeOK, LibraryTypeOK
<1>6. profile.revoked /\ reference.revoked
  BY <1>2, <1>4, <1>5, RevokedProfile, RevokedReference
<1> HIDE DEF profile, reference
<1>7. profiles'[o] = profile /\ references'[o] = reference
  BY <1>3, SeenTables DEF Invariant, TypeOK, LibraryTypeOK
<1> QED BY <1>6, <1>7 DEF InUse

\* Whoever's request commits, it is that request's own step.
LEMMA CommitsItself ==
    ASSUME Invariant, Next, NEW r \in Requests, Commits(r)
    PROVE  (\E s \in Samples : CommitAdd(r, s)) \/ CommitDisable(r) \/ CommitRevoke(r)
<1>1. requests[r] # Idle /\ requests'[r] = Idle /\ profiles' # profiles
  BY DEF Commits
<1>2. \A q \in Requests : Ends(q) => q = r
  BY <1>1 DEF Ends, Invariant
<1>3. PICK q \in Requests : (\E s \in Samples : CommitAdd(q, s)) \/ CommitDisable(q) \/ CommitRevoke(q)
  BY <1>1 DEF Next, LibraryStep, LoadAdd, LoadDisable, LoadRevoke, LoadBind, Load, Fails, EnrolSuspect,
        BindNobody, ChangeSetup, LoadRecompute, CommitRecompute, LookAtCorpus, Resolve, Freeze, libraryVars, CommitBind
<1>4. Ends(q)
  BY <1>3 DEF CommitAdd, CommitDisable, CommitRevoke
<1> QED BY <1>2, <1>3, <1>4

\* For any number of officers, samples and overlapping requests: an addition or a
\* disabling that nobody overtook leaves the reference that recognition uses in agreement
\* with the profile and with every enabled sample, and a revocation always ends the use
\* of both.
THEOREM LibraryAgreement == Spec => LibraryAgrees
<1> DEFINE Kept2 == \A r \in Requests, o \in Officers : Commits(r) /\ requests[r].of = o =>
               /\ requests[r].op \in {"add", "disable"} /\ Fresh(r, o) => Agree(o)'
               /\ requests[r].op = "revoke" => ~InUse(references[o])' /\ ~InUse(profiles[o])'
<1>1. ASSUME Invariant, Next, NEW r \in Requests, NEW o \in Officers, Commits(r), requests[r].of = o
      PROVE  /\ requests[r].op \in {"add", "disable"} /\ Fresh(r, o) => Agree(o)'
             /\ requests[r].op = "revoke" => ~InUse(references[o])' /\ ~InUse(profiles[o])'
  <2>1. CASE \E s \in Samples : CommitAdd(r, s)
    <3>1. requests[r].op = "add"
      BY <2>1 DEF CommitAdd
    <3> QED BY <1>1, <2>1, <3>1, CommitAddAgrees
  <2>2. CASE CommitDisable(r)
    <3>1. requests[r].op = "disable"
      BY <2>2 DEF CommitDisable
    <3> QED BY <1>1, <2>2, <3>1, CommitDisableAgrees
  <2>3. CASE CommitRevoke(r)
    <3>1. requests[r].op = "revoke"
      BY <2>3 DEF CommitRevoke
    <3> QED BY <1>1, <2>3, <3>1, CommitRevokeStops
  <2> QED BY <1>1, <2>1, <2>2, <2>3, CommitsItself
<1> HIDE DEF Kept2
<1>2. Invariant /\ [Next]_vars => [Kept2]_vars
  BY <1>1 DEF Kept2
<1> USE DEF Kept2
<1> QED BY <1>2, Invariance, PTL DEF Spec, LibraryAgrees

\* For any number of officers, samples, setups and captures, and whatever changes while a
\* capture starts: the computed threshold that it is given was computed from samples made
\* with the setup that its snapshot names, enough of each of enough officers, and that of
\* the environment is resolved for none once one has had a computed one.
THEOREM FrozenFits == Spec => FrozenIsFit
<1> DEFINE Fits(c) ==
        /\ frozen'[c] # frozen[c] /\ frozen'[c].source = "DEVICE_CALIBRATED" =>
              LET corpus == calibrations[frozen'[c].calibration].corpus IN
              /\ \A s \in corpus : samples[s].setup = frozen'[c].setup
              /\ Cardinality(Heard(corpus)) >= MinOfficers
        /\ starting'[c] \in Resolved \ {starting[c]} /\ starting'[c].row.source = "LEGACY_ENV" =>
              \A d \in Captures : frozen[d] # None => frozen[d].source # "DEVICE_CALIBRATED"
           AllFit == \A c \in Captures : Fits(c)
<1>1. ASSUME Invariant, Next, NEW c \in Captures,
             frozen'[c] # frozen[c], frozen'[c].source = "DEVICE_CALIBRATED"
      PROVE  LET corpus == calibrations[frozen'[c].calibration].corpus IN
             /\ \A s \in corpus : samples[s].setup = frozen'[c].setup
             /\ Cardinality(Heard(corpus)) >= MinOfficers
  <2>1. PICK b \in Captures : Freeze(b)
    BY <1>1 DEF Next, LoadRecompute, CommitRecompute, LookAtCorpus, Resolve
  <2>2. b = c /\ frozen'[c] = starting[c].row
    BY <1>1, <2>1 DEF Freeze, Invariant, TypeOK, CalibrationTypeOK
  <2>3. RowThere(frozen'[c])
    BY <1>1, <2>1, <2>2, StartingOf DEF Freeze
  <2>4. /\ frozen'[c].calibration \in DOMAIN calibrations
        /\ calibrations[frozen'[c].calibration].setup = frozen'[c].setup
    BY <1>1, <2>3 DEF RowThere, RowsOf
  <2>5. Fit(calibrations[frozen'[c].calibration])
    BY <1>1, <2>4 DEF Invariant, CorporaFit
  <2> QED BY <2>4, <2>5 DEF Fit
<1>2. ASSUME Invariant, Next, NEW c \in Captures,
             starting'[c] \in Resolved, starting'[c] # starting[c],
             starting'[c].row.source = "LEGACY_ENV",
             NEW d \in Captures, frozen[d] # None
      PROVE  frozen[d].source # "DEVICE_CALIBRATED"
  <2>1. None \notin Resolved /\ \A v \in Resolved : v.at = "resolved"
    BY DEF None, Resolved
  <2>2. PICK b \in Captures : LookAtCorpus(b) \/ Resolve(b) \/ Freeze(b)
    BY <1>2 DEF Next, LoadRecompute, CommitRecompute
  <2>3. b = c /\ Resolve(c)
    <3>1. CASE LookAtCorpus(b)
      <4>1. starting' = [starting EXCEPT ![b] = [at |-> "corpus", setup |-> setup, ready |-> Ready(setup)]]
        BY <3>1 DEF LookAtCorpus
      <4>2. starting'[c] = [at |-> "corpus", setup |-> setup, ready |-> Ready(setup)]
        BY <1>2, <4>1 DEF Invariant, TypeOK, CalibrationTypeOK
      <4>3. starting'[c].at = "corpus"
        BY <4>2
      <4> QED BY <1>2, <2>1, <4>3
    <3>2. CASE Freeze(b)
      BY <1>2, <2>1, <3>2 DEF Freeze, Invariant, TypeOK, CalibrationTypeOK
    <3>3. CASE Resolve(b)
      BY <1>2, <3>3 DEF Resolve, Invariant, TypeOK, CalibrationTypeOK
    <3> QED BY <2>2, <3>1, <3>2, <3>3
  <2>4. PICK row \in {Row(starting[c].setup, starting[c].ready), Unavailable} :
            starting' = [starting EXCEPT ![c] = [at |-> "resolved", row |-> row]]
    BY <2>3 DEF Resolve
  <2>5. starting'[c] = [at |-> "resolved", row |-> row]
    BY <1>2, <2>4 DEF Invariant, TypeOK, CalibrationTypeOK
  <2>6. row.source = "LEGACY_ENV"
    BY <1>2, <2>5
  <2>7. row = Row(starting[c].setup, starting[c].ready)
    BY <2>6 DEF Unavailable
  <2>8. starting[c].setup \in Setups /\ starting[c].ready \in BOOLEAN
    BY <1>2, <2>3, StartingOf DEF Resolve
  <2>9. calibrations = <<>>
    BY <1>2, <2>6, <2>7, <2>8, ResolvedIsFit
  <2>10. RowThere(frozen[d])
    BY <1>2 DEF Invariant, RowsThere
  <2> QED BY <2>9, <2>10 DEF RowThere, RowsOf
<1>3. ASSUME Invariant, Next
      PROVE  AllFit
  BY <1>1, <1>2, <1>3
<1> HIDE DEF AllFit
<1>4. Invariant /\ [Next]_vars => [AllFit]_vars
  BY <1>3
<1> USE DEF AllFit
<1> QED BY <1>4, Invariance, PTL DEF Spec, FrozenIsFit
================================================================================
