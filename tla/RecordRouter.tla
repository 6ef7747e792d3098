----------------------------- MODULE RecordRouter -----------------------------
(***************************************************************************)
(* Where the model's answer may put a unit of question and answer: the     *)
(* checks before the model is asked, what the backend makes of its reply,  *)
(* and what is archived without an officer                                 *)
(* (app/services/formal_record_router.py, apply_auto of                    *)
(* formal_record_routing_service.py, _route_unit of                        *)
(* qa_routing_coordinator.py).                                             *)
(*                                                                         *)
(* A reply names a class and a target and may carry a question ("": none)  *)
(* and an answer; `sure` is a confidence above the threshold.  The         *)
(* answer's words are not modelled, nor that facts it lost are put back.   *)
(***************************************************************************)
EXTENDS QuestionRounds

CONSTANTS
    Chatter,        \* operational remarks
    Vague           \* questions that refer to "that matter"

ASSUME RouterAssumption == Chatter \subseteq Remarks /\ Vague \subseteq Texts

Matching == {"MATCH_FIXED", "MATCH_EXISTING"}

Decisions(targets, texts) ==
    [class : Matching \cup {"CREATE_LIVE", "NEEDS_REVIEW", "IGNORE"},
     target : targets, question : texts \cup {""}, answer : BOOLEAN, sure : BOOLEAN]

Decision(class, target) ==
    [class |-> class, target |-> target, question |-> "", answer |-> FALSE, sure |-> TRUE]

Review == Decision("NEEDS_REVIEW", 0)

Asked(db, u) == IF db.units[u].question = {} THEN "" ELSE db.said[HeadOf(db.units[u])].text
HasQuestion(db, u) == db.units[u].question # {}
HasAnswer(db, u) == db.units[u].answer # {}

\* list_recent_closed of three, without the unit itself
RecentTargets(db, u) ==
    LET last == {v \in DOMAIN db.units : v > Len(db.units) - 3 /\ v # u}
    IN {db.units[v].target : v \in last} \ {0}

\* precheck_routing_decision
Prechecked(db, u) ==
    IF Asked(db, u) \in Chatter THEN {Decision("IGNORE", 0)}
    ELSE IF Asked(db, u) \in Vague /\ Cardinality(RecentTargets(db, u)) > 1 THEN {Review}
    ELSE {}

\* _resolve_target_by_text: the one question that was asked word for word, or none
Resolved(db, u) ==
    LET found == IF HasQuestion(db, u) THEN Matches(db.questions, Asked(db, u)) ELSE {}
    IN IF Cardinality(found) = 1 THEN found ELSE {}

IsFixed(db, q) == db.questions[q].item # 0

\* _deterministic_fixed_decision
Deterministic(db, u) ==
    {Decision("MATCH_FIXED", q) : q \in
        {q \in Resolved(db, u) : HasAnswer(db, u) /\ IsFixed(db, q)}}

\* _case_question
Known(db, q) == q \in Active(db.questions)

\* A question asked word for word beats the target the model picked; for a match
\* the question's own text is the formal one.
Retargeted(db, u, d) ==
    LET exact == Resolved(db, u) IN
    IF d.class \notin Matching THEN d
    ELSE [d EXCEPT !.question = "", !.target = IF exact = {} THEN @ ELSE CHOOSE q \in exact : TRUE]

\* canonicalize_existing_target_decision
Canonical(db, d) ==
    IF d.class \notin Matching \/ ~Known(db, d.target) THEN d
    ELSE IF IsFixed(db, d.target) THEN [d EXCEPT !.class = "MATCH_FIXED"]
    ELSE IF db.questions[d.target].source = "STANDARD" THEN d
    ELSE [d EXCEPT !.class = "MATCH_EXISTING"]

AsksTime(db, q) == {db.questions[q].text} \cap TimeTexts # {}

\* repair_existing_target_intent_mismatch: what was not asked as a question of time is
\* not filed under one, but as the question that was asked.
Repaired(db, u, d) ==
    IF /\ d.class \in Matching /\ Known(db, d.target)
       /\ HasQuestion(db, u) /\ HasAnswer(db, u) /\ Asked(db, u) \notin Remarks
       /\ AsksTime(db, d.target) /\ Asked(db, u) \notin TimeTexts
    THEN [d EXCEPT !.class = "CREATE_LIVE", !.target = 0, !.question = Asked(db, u), !.answer = TRUE]
    ELSE d

\* _policy_valid
Valid(db, u, d) ==
    CASE d.class = "MATCH_FIXED" -> Known(db, d.target) /\ IsFixed(db, d.target) /\ d.question = ""
      [] d.class = "MATCH_EXISTING" ->
           Known(db, d.target) /\ ~IsFixed(db, d.target)
           /\ db.questions[d.target].source \in {"CASE", "LIVE"} /\ d.question = ""
      [] d.class = "CREATE_LIVE" -> d.target = 0 /\ d.question # "" /\ d.answer /\ HasQuestion(db, u)
      [] d.class = "IGNORE" -> d.target = 0 /\ d.question = "" /\ ~d.answer
      [] d.class = "NEEDS_REVIEW" -> d.target = 0 \/ Known(db, d.target)

\* Mutant: the mismatch is repaired before the target is corrected.
UnderstoodMutant(db, u, reply) ==
    Canonical(db, Retargeted(db, u, Repaired(db, u, reply)))

Understood(db, u, reply) ==
    Repaired(db, u, Canonical(db, Retargeted(db, u, reply)))

\* route, before the model is asked: {} if it must be.
Checked(db, u) == IF Prechecked(db, u) # {} THEN Prechecked(db, u) ELSE Deterministic(db, u)

\* route, after it: a reply that cannot be read, or that breaks the policy, leaves the
\* deterministic decision, or none.
Routed(db, u, replies) ==
    LET made == {Understood(db, u, reply) : reply \in replies} IN
    {d \in made : Valid(db, u, d)}
        \cup IF Deterministic(db, u) # {} THEN Deterministic(db, u) ELSE {Review}
--------------------------------------------------------------------------------
(* FormalRecordRoutingService.apply_auto *)

\* _confidence_review_decision: a doubtful decision goes to review.
Gated(d) == IF d.sure \/ d.class \notin Matching \cup {"CREATE_LIVE"} THEN d
            ELSE [d EXCEPT !.class = "NEEDS_REVIEW", !.target = 0]

\* _valid_target: the row may have changed while the model was asked.
ValidTarget(db, d) ==
    /\ Known(db, d.target)
    /\ IF d.class = "MATCH_FIXED" THEN IsFixed(db, d.target)
       ELSE ~IsFixed(db, d.target) /\ db.questions[d.target].source \in {"CASE", "LIVE"}

\* _can_create_live
CanCreateLive(db, u, d) == d.question # "" /\ d.answer /\ HasQuestion(db, u)

\* A known question that got no answer goes to review as well.
ApplyAuto(u, decision, saw, now) ==
    LET d == Gated(decision) IN
    CASE d.class = "IGNORE" -> SetUnit(u, "IGNORED", now)
      [] d.class \in Matching /\ ValidTarget(saw, d) /\ HasAnswer(saw, u) ->
           FileUnit(u, d.target, HeadOf(saw.units[u]), saw, now)
      [] d.class = "CREATE_LIVE" /\ CanCreateLive(saw, u, d) -> FileLive(u, d.question, saw, now)
      [] OTHER -> SetUnit(u, "NEEDS_REVIEW", now)
================================================================================
