---------------------------- MODULE SchemaMigration ----------------------------
(***************************************************************************)
(* The upgrade of the database when a release is deployed                  *)
(* (alembic/versions, alembic/env.py, app/database/migration_bootstrap.py, *)
(* deploy/lib/release.sh): the release that runs goes on writing, and the  *)
(* upgrade may be killed and run again.  A migration on SQLite commits     *)
(* each change of the schema by itself until it first changes a row; the   *)
(* rest is one transaction with the number of the revision.                *)
(***************************************************************************)
EXTENDS Naturals, FiniteSets

CONSTANTS
    Officers, Sessions, Fragments,
    Voices,         \* embeddings
    Speakers,
    Releases,       \* the releases from which an upgrade may start, by their revision
    MaxAttempts,    \* bound: upgrades
    MaxWrites       \* bound: what the running release writes

Head == 19

ASSUME MigrationAssumption ==
    /\ Releases \subseteq 0..(Head - 1) /\ MaxAttempts \in Nat /\ MaxWrites \in Nat
    /\ Officers \cap Sessions = {}

VARIABLES
    schema,     \* the tables, columns, unique indexes and triggers there are
    revision,   \* alembic_version, 0 when there is none
    rows,       \* the rows that a migration reads or rewrites
    backup,     \* the copy that 0009 makes of officer_voice_samples
    release,    \* the release that runs, by the revision it was written for
    upgrade,    \* the upgrade in hand
    late,       \* history: the samples written after this upgrade's 0009 looked at them,
                \* and the sessions written after its 0004 had read the assignments
    attempts, writes

vars == <<schema, revision, rows, backup, release, upgrade, late, attempts, writes>>
--------------------------------------------------------------------------------
(* What each migration makes *)

Part(n, k) == {<<n, i>> : i \in 1..k}

CoreSchema == Part(1, 11)
VoiceprintTables == Part(2, 5)
TemplateTables == Part(3, 5)
LibraryTables == Part(4, 3)
CalibrationSchema == Part(5, 5)
EvidenceTables == Part(6, 2)
SectionColumns == Part(7, 4)
RoutingSchema == Part(8, 4)
ModelKeys == Part(9, 5)
BackendKeys == Part(10, 2)
ComparisonTable == Part(11, 1)
MossTables == Part(13, 3)
OneSignature == Part(14, 1)
RoleDrafts == Part(15, 1)
LiveSpeechSchema == Part(16, 14)
UnfinishedStart == Part(17, 1)
FinalizeCheckpoint == Part(18, 1)
AnalysisResults == Part(19, 1)

\* What each migration makes; 0012 only marks rows.
Objects ==
    <<CoreSchema, VoiceprintTables, TemplateTables, LibraryTables, CalibrationSchema,
      EvidenceTables, SectionColumns, RoutingSchema, ModelKeys, BackendKeys, ComparisonTable,
      {}, MossTables, OneSignature, RoleDrafts, LiveSpeechSchema, UnfinishedStart,
      FinalizeCheckpoint, AnalysisResults>>

UpTo(n) == UNION {Objects[m] : m \in 1..n}

\* 0014 first makes a table to take the place of that of the signatures; what else it
\* does, and 0009 does with the tables of the voices, is in the transaction.
Scratch == <<14, 0>>
Alone(n) == IF n \in {9, 14} THEN 0 ELSE Cardinality(Objects[n])

\* 0001 and 0011 pass over what is there.
Resumable == {1, 11}
--------------------------------------------------------------------------------
None == "none"
NoRow == [none |-> TRUE]
Off == [stage |-> "off"]
Empty ==
    [references |-> [x \in Officers \cup Sessions |-> None],
     profiles |-> [o \in Officers |-> None], samples |-> {},
     bound |-> [x \in Sessions |-> NoRow], fragments |-> [f \in Fragments |-> NoRow],
     evidence |-> [f \in Fragments |-> None], signed |-> 0, reenrol |-> {}]

Sample == [of : Officers, voice : Voices]

\* A session's copy of a reference is a row of its own.
Rows ==
    [references : [Officers \cup Sessions -> Voices \cup {None}],
     profiles : [Officers -> Voices \cup {None}], samples : SUBSET Sample,
     bound : [Sessions -> {NoRow} \cup [officer : Officers, row : Officers \cup Sessions]],
     fragments : [Fragments -> {NoRow} \cup [heard : Speakers, speaker : Speakers]],
     evidence : [Fragments -> {None} \cup Speakers],
     signed : 0..2, reenrol : SUBSET (Officers \cup Sessions)]

TypeOK ==
    /\ schema \subseteq UpTo(Head) \cup {Scratch} /\ revision \in 0..Head /\ rows \in Rows
    /\ backup \in {{}} \cup {{s} : s \in SUBSET Sample}
    /\ release \in 0..Head /\ late \subseteq Sample \cup Sessions
    /\ upgrade \in {Off} \cup [stage : {"detect"}] \cup [stage : {"stamp"}, target : 1..3]
           \cup [stage : {"make"}, at : 0..14] \cup [stage : {"finish"}, seen : Rows]
           \cup [stage : {"assignments"}]
           \cup [stage : {"rebind"}, seen : Rows, first : Sessions \cup {None}]
    /\ attempts \in 0..MaxAttempts /\ writes \in 0..MaxWrites

\* A database of a release, or one from before there were revisions, whose tables were
\* made together and perhaps not all.
Init ==
    /\ release \in Releases
    /\ \/ revision = release /\ schema = UpTo(release)
       \/ /\ release <= 3 /\ revision = 0
          /\ \E k \in 0..Cardinality(Objects[release + 1]) :
                schema = UpTo(release) \cup Part(release + 1, k)
    /\ rows = Empty /\ backup = {} /\ upgrade = Off /\ late = {} /\ attempts = 0 /\ writes = 0
--------------------------------------------------------------------------------
(* apply_database_migrations *)

Deploy ==
    /\ upgrade = Off /\ release < Head /\ attempts < MaxAttempts
    /\ attempts' = attempts + 1 /\ upgrade' = [stage |-> "detect"]
    /\ UNCHANGED <<schema, revision, rows, backup, release, late, writes>>

Ends == upgrade' = Off

Partial(group) == group \cap schema # {} /\ ~(group \subseteq schema)

\* Mutant: one of the first tables is enough.
BaselineMutant ==
    IF CoreSchema \cap schema = {} THEN 0
    ELSE IF ~(VoiceprintTables \subseteq schema) THEN 1
    ELSE IF ~(TemplateTables \subseteq schema) THEN 2 ELSE 3

Baseline ==
    IF ~(CoreSchema \subseteq schema) THEN 0
    ELSE IF ~(VoiceprintTables \subseteq schema) THEN 1
    ELSE IF ~(TemplateTables \subseteq schema) THEN 2 ELSE 3

Refused == schema \cap (UpTo(6) \ UpTo(3)) # {} \/ Partial(VoiceprintTables) \/ Partial(TemplateTables)

\* detect_legacy_baseline
Detect ==
    /\ upgrade.stage = "detect"
    /\ \/ revision > 3 /\ upgrade' = [stage |-> "make", at |-> 0]
       \/ revision <= 3 /\ Refused /\ Ends
       \/ /\ revision <= 3 /\ ~Refused
          /\ upgrade' = IF Baseline > revision THEN [stage |-> "stamp", target |-> Baseline]
                        ELSE [stage |-> "make", at |-> 0]
    /\ UNCHANGED <<schema, revision, rows, backup, release, late, attempts, writes>>

Stamp ==
    /\ upgrade.stage = "stamp"
    /\ revision' = upgrade.target /\ upgrade' = [stage |-> "make", at |-> 0]
    /\ UNCHANGED <<schema, rows, backup, release, late, attempts, writes>>

\* A statement fails, or the process is killed, or the new release does not become healthy
\* and the old one is put back: what is not committed is undone.
Undone == Ends /\ UNCHANGED <<schema, revision, rows, backup, release, late, attempts, writes>>
Killed == upgrade # Off /\ Undone

Migration == revision + 1
At(i) == upgrade.stage = "make" /\ revision < Head /\ upgrade.at = i

Make(i) ==
    LET new == <<Migration, i>> IN
    /\ At(i - 1) /\ i <= Alone(Migration)
    /\ IF new \in schema /\ Migration \notin Resumable THEN Undone
       ELSE /\ schema' = schema \cup {new} /\ upgrade' = [upgrade EXCEPT !.at = i]
            /\ UNCHANGED <<revision, rows, backup, release, late, attempts, writes>>

\* Mutant: the copy is kept whatever has come beside it.
CopySamplesMutant ==
    /\ At(0) /\ Migration = 9
    /\ backup' = IF backup = {} THEN {rows.samples} ELSE backup
    /\ late' = {} /\ upgrade' = [upgrade EXCEPT !.at = 1]
    /\ UNCHANGED <<schema, revision, rows, release, attempts, writes>>

\* _backup_and_clear_dependencies, up to its first DELETE: the copy of an upgrade that
\* was killed is kept, unless rows have come or gone beside it.
CopySamples ==
    /\ At(0) /\ Migration = 9
    /\ IF backup # {} /\ rows.samples # {} /\ backup # {rows.samples} THEN Undone
       ELSE /\ backup' = IF backup = {} THEN {rows.samples} ELSE backup
            /\ late' = {} /\ upgrade' = [upgrade EXCEPT !.at = 1]
            /\ UNCHANGED <<schema, revision, rows, release, attempts, writes>>

MakeScratch ==
    /\ At(0) /\ Migration = 14
    /\ IF rows.signed > 1 \/ Scratch \in schema THEN Undone
       ELSE /\ schema' = schema \cup {Scratch} /\ upgrade' = [upgrade EXCEPT !.at = 1]
            /\ UNCHANGED <<revision, rows, backup, release, late, attempts, writes>>

Known(table) == {o \in Officers : table.references[o] # None}
Assigned(table) == {x \in Sessions : table.bound[x] # NoRow}

\* The rows that 0004 and 0006 go through are read before the first is written.  0004
\* writes a row, and then nobody else can, for the first officer it saw.
ReadRows ==
    /\ At(IF Migration \in {9, 14} THEN 1 ELSE Alone(Migration))
    /\ upgrade' = IF Migration = 4 /\ Known(rows) = {} THEN [stage |-> "assignments"]
                  ELSE [stage |-> "finish", seen |-> rows]
    /\ UNCHANGED <<schema, revision, rows, backup, release, late, attempts, writes>>

\* If it saw none, it reads the assignments, and the reference that the first of them
\* uses, before it writes.
ReadAssignments ==
    /\ upgrade.stage = "assignments"
    /\ \E first \in IF Assigned(rows) = {} THEN {None} ELSE Assigned(rows) :
          upgrade' = [stage |-> "rebind", seen |-> rows, first |-> first]
    /\ late' = {}
    /\ UNCHANGED <<schema, revision, rows, backup, release, attempts, writes>>

\* 0004: each assignment that was read gets a copy of the reference it then used; that of
\* session `first` was read with the assignments.
Rebound(seen, first) ==
    [rows EXCEPT
        !.references = [r \in Officers \cup Sessions |->
            IF r \notin Assigned(seen) THEN rows.references[r]
            ELSE (IF r = first THEN seen ELSE rows).references[seen.bound[r].row]],
        !.bound = [x \in Sessions |->
            IF x \in Assigned(seen) THEN [rows.bound[x] EXCEPT !.row = x] ELSE rows.bound[x]]]

\* 0004: each officer's reference gets a profile with one sample.
LibraryOf(seen) ==
    [Rebound(rows, None) EXCEPT
        !.profiles = [o \in Officers |-> seen.references[o]],
        !.samples = {[of |-> o, voice |-> seen.references[o]] : o \in Known(seen)}]

\* 0006: whom the machine heard, by the audit, whatever was corrected since
EvidenceOf(seen) ==
    [rows EXCEPT !.evidence = [f \in Fragments |->
        IF seen.fragments[f] = NoRow THEN None ELSE seen.fragments[f].heard]]

\* 0009: what is copied comes back.
SamplesBack == [rows EXCEPT !.samples = UNION backup]

\* 0012
Reenrolled == [rows EXCEPT !.reenrol = {r \in Officers \cup Sessions : rows.references[r] # None}]

Migrated(seen) ==
    CASE upgrade.stage = "rebind" -> Rebound(seen, upgrade.first)
      [] Migration = 4 /\ upgrade.stage = "finish" -> LibraryOf(seen)
      [] Migration = 6 -> EvidenceOf(seen)
      [] Migration = 9 -> SamplesBack
      [] Migration = 12 -> Reenrolled
      [] OTHER -> rows

\* The transaction at the end of a migration.  A second signature that came meanwhile
\* is refused by the new constraint.
Finish ==
    /\ upgrade.stage \in {"finish", "rebind"}
    /\ IF Migration = 14 /\ rows.signed > 1 THEN Undone
       ELSE /\ rows' = Migrated(upgrade.seen) /\ revision' = Migration
            /\ schema' = (schema \cup Objects[Migration]) \ {Scratch}
            /\ backup' = IF Migration = 9 THEN {} ELSE backup
            /\ upgrade' = [stage |-> "make", at |-> 0]
            /\ UNCHANGED <<release, late, attempts, writes>>

\* atomic_switch and restart_runtime
Switch ==
    /\ upgrade.stage = "make" /\ revision = Head
    /\ release' = Head /\ Ends
    /\ UNCHANGED <<schema, revision, rows, backup, late, attempts, writes>>
--------------------------------------------------------------------------------
(* The release that runs until then; only what it writes in these tables *)

Writes(new) ==
    /\ release < Head /\ writes < MaxWrites /\ writes' = writes + 1 /\ rows' = new
    /\ UNCHANGED <<schema, revision, backup, release, upgrade, attempts>>

\* A session is written while 0004 is about to bind those it read anew.
Late(sessions) == late' = IF upgrade # Off /\ upgrade.stage = "rebind" THEN late \cup sessions ELSE late

\* Since 0004 an officer has samples.
Enrol(o, v) ==
    /\ release >= 2
    /\ IF release < 4
       THEN /\ Writes([rows EXCEPT !.references[o] = v, !.reenrol = @ \ {o}])
            /\ Late({x \in Assigned(rows) : rows.bound[x].row = o})
       ELSE /\ Writes([rows EXCEPT !.references[o] = v, !.profiles[o] = v, !.reenrol = @ \ {o},
                                  !.samples = @ \cup {[of |-> o, voice |-> v]}])
            /\ late' = late \cup {[of |-> o, voice |-> v]}

\* Since 0004 a session has a copy.
Bind(x, o) ==
    /\ release >= 2 /\ rows.references[o] # None
    /\ Writes(IF release < 4
              THEN [rows EXCEPT !.bound[x] = [officer |-> o, row |-> o]]
              ELSE [rows EXCEPT !.bound[x] = [officer |-> o, row |-> x],
                                !.references[x] = rows.references[o], !.reenrol = @ \ {x}])
    /\ Late({x})

Hear(f, who) ==
    /\ release >= 2 /\ rows.fragments[f] = NoRow
    /\ Writes([rows EXCEPT !.fragments[f] = [heard |-> who, speaker |-> who],
                           !.evidence[f] = IF release < 6 THEN None ELSE who])
    /\ UNCHANGED late

Correct(f, who) ==
    /\ rows.fragments[f] # NoRow /\ rows.fragments[f].speaker # who
    /\ Writes([rows EXCEPT !.fragments[f].speaker = who])
    /\ UNCHANGED late

Sign ==
    /\ release >= 1 /\ rows.signed < 2 /\ (rows.signed = 1 => OneSignature \cap schema = {})
    /\ Writes([rows EXCEPT !.signed = @ + 1])
    /\ UNCHANGED late

Next ==
    \/ Deploy \/ Detect \/ Stamp \/ Killed \/ CopySamples \/ MakeScratch \/ ReadRows
    \/ ReadAssignments \/ Finish \/ Switch \/ Sign
    \/ \E i \in 1..14 : Make(i)
    \/ \E o \in Officers, v \in Voices : Enrol(o, v)
    \/ \E x \in Sessions, o \in Officers : Bind(x, o)
    \/ \E f \in Fragments, who \in Speakers : Hear(f, who) \/ Correct(f, who)

Spec == Init /\ [][Next]_vars
--------------------------------------------------------------------------------
\* The recorded revision never promises more than there is, however often an upgrade was
\* killed and from whatever the database was adopted; at the head the schema is that of
\* a new installation, and nothing that a migration sets aside is left.
SchemaInOrder ==
    /\ TypeOK
    /\ UpTo(revision) \subseteq schema
    /\ release = Head => revision = Head
    /\ revision = Head => schema = UpTo(Head) /\ backup = {}

\* The voice with which a session compares
Compared(table, x) == IF table.bound[x] = NoRow THEN None ELSE table.references[table.bound[x].row]

\* A session written between the moment when 0004 read the assignments and its end; only
\* an 0004 that saw no officer lets that happen.
Missed(x) == upgrade.stage = "rebind" /\ x \in late

\* A migration changes neither an officer's reference nor the voice that a session
\* compares with, and no sample is lost but one written while 0009 runs; from 0004 on a
\* session has a copy of its own, both of them but for the sessions that an 0004 which saw
\* no officer missed; from 0006 on a fragment that the migration saw has the evidence of
\* what the machine heard.
NothingIsLost ==
    [][revision' = revision + 1 =>
        /\ \A x \in Sessions : Missed(x) \/ Compared(rows', x) = Compared(rows, x)
        /\ \A o \in Officers : rows'.references[o] = rows.references[o]
        /\ rows.samples \subseteq rows'.samples \cup late
        /\ rows'.fragments = rows.fragments
        /\ revision' = 4 => \A x \in Assigned(rows') : Missed(x) \/ rows'.bound[x].row = x
        /\ revision' = 6 => \A f \in Fragments : upgrade.seen.fragments[f] # NoRow =>
                                rows'.evidence[f] = rows.fragments[f].heard]_vars
================================================================================
