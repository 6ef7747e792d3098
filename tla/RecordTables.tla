----------------------------- MODULE RecordTables -----------------------------
(***************************************************************************)
(* The tables that the threads behind one interrogation share: the ASR     *)
(* fragments with their speaker jobs, the QA units with the fragments      *)
(* linked to them, the rounds of the formal record, the capture and the    *)
(* workflow state of the case (app/database/models.py).                    *)
(*                                                                         *)
(* On SQLite a SELECT neither locks nor keeps a snapshot, so a handler     *)
(* that does not begin with BEGIN IMMEDIATE checks a row in one step and   *)
(* writes it in another (app/database/session.py).                         *)
(***************************************************************************)
EXTENDS Naturals, Sequences, FiniteSets

CONSTANTS
    MaxFragments,   \* bound: fragments of the session; each makes at most one unit
    MaxRounds,      \* bound: rounds of the formal record
    Scenarios       \* bounds on what the environment does, one set of them a run

\* heard: fragments recognised; speakers: those attributed at once, {} if the
\* speaker thread does it; ops: which requests may check a row and write it later,
\* one of them in a run; final: may the record be finalized?
ASSUME TablesAssumption ==
    /\ MaxFragments \in Nat \ {0} /\ MaxRounds \in Nat \ {0}
    /\ Scenarios \subseteq [heard : 1..MaxFragments, speakers : SUBSET {"OFFICER", "SUSPECT", "UNKNOWN"},
                            final : BOOLEAN,
                            ops : SUBSET {"edit", "discard", "resolve", "rollback", "stage"},
                            captures : Nat, crashes : Nat]

VARIABLES
    scenario,   \* which of the Scenarios is explored: never changes
    frags,      \* asr_fragments, in the order they were created
    units,      \* qa_units with qa_unit_fragments, in the order of started_at
    rounds,     \* question_rounds, in the order of round_no
    capture,    \* the session's capture
    workflow,   \* cases.workflow_state
    overtaken   \* history: did a handler write a row that another had changed
                \* since it was checked, or any row after the record was frozen?

tables == <<scenario, frags, units, rounds, capture, workflow, overtaken>>

Roles == {"OFFICER", "SUSPECT"}

\* speaker UNKNOWN with state PENDING and no finished job is PENDING_ANALYSIS
Fragments ==
    [speaker : Roles \cup {"UNKNOWN"},
     state   : {"PENDING", "EDITED", "CONFIRMED", "DISCARDED", "SUPERSEDED"},
     job     : {"NONE", "PENDING", "RUNNING", "OVER"},   \* COMPLETE, NEEDS_REVIEW
     parent  : 0..MaxFragments]

Units ==
    [status   : {"OPEN", "CLOSED", "ROUTING", "APPLIED", "IGNORED",
                 "NEEDS_REVIEW", "ROLLED_BACK"},
     question : SUBSET (1..MaxFragments),
     answer   : SUBSET (1..MaxFragments),
     control  : SUBSET (1..MaxFragments)]

\* what was archived for a unit: answer_fragment_ids and status # DETACHED
Rounds == [unit : 1..MaxFragments, answer : SUBSET (1..MaxFragments), live : BOOLEAN]

Heard == [speaker |-> "UNKNOWN", state |-> "PENDING", job |-> "NONE", parent |-> 0]

Frozen == workflow \in {"FROZEN", "SIGNED", "REPORT_GENERATED"}

LinkedTo(u) == u.question \cup u.answer \cup u.control
Assigned == UNION {LinkedTo(units[u]) : u \in DOMAIN units}

\* _qwen_route_eligibility_filters
Eligible == {f \in DOMAIN frags :
                /\ frags[f].speaker \in Roles
                /\ frags[f].state \in {"PENDING", "EDITED"}
                /\ f \notin Assigned}

\* _parent_is_unedited_pending: still what recognition wrote
Unedited(row) == row.state = "PENDING" /\ row.speaker = "UNKNOWN"

TablesInit ==
    /\ scenario \in Scenarios
    /\ frags = <<>> /\ units = <<>> /\ rounds = <<>>
    /\ capture = "NONE"
    /\ workflow = "QUESTIONING"
    /\ overtaken = FALSE

TablesOK ==
    /\ scenario \in Scenarios
    /\ frags \in Seq(Fragments) /\ Len(frags) <= MaxFragments
    /\ units \in Seq(Units) /\ Len(units) <= MaxFragments
    /\ rounds \in Seq(Rounds) /\ Len(rounds) <= MaxRounds
    /\ capture \in {"NONE", "CAPTURING", "FINALIZING", "ENDING", "COMPLETE"}
    /\ workflow \in {"QUESTIONING", "PAUSED", "SUMMARY", "FROZEN", "SIGNED",
                     "REPORT_GENERATED"}
    /\ overtaken \in BOOLEAN
================================================================================
