--------------------------- MODULE TemplateWorkspace ---------------------------
(***************************************************************************)
(* The formal record of one case while it is written: the officer's page,  *)
(* which lets one change at a time run (stores/templateInterrogation.ts,   *)
(* api/template_workspace.py), and the thread that files what is said,     *)
(* either by matching questions (formal_routing_mode legacy) or by asking  *)
(* the model (qwen).                                                       *)
(*                                                                         *)
(* A handler reads in one step and writes in another.  How units are       *)
(* built, and that a frozen record refuses all this, is FormalRecord's     *)
(* concern.                                                                *)
(***************************************************************************)
EXTENDS RecordRouter

CONSTANTS
    Scenarios       \* bounds: what is said and what the officer may do

\* body: the questions the officer prepared; added: what the officer may write; routed:
\* does the model route?
ASSUME WorkspaceAssumption ==
    Scenarios \subseteq
        [speech : Seq([speaker : {"OFFICER", "SUSPECT"}, text : Texts, unknown : BOOLEAN]),
         body : Seq(Texts), added : SUBSET Texts, routed : BOOLEAN,
         kinds : SUBSET {"ensure", "add", "update", "remove", "reorder", "process", "attach", "type",
                         "fromFragment", "addPending", "linkPending", "ignorePending", "detach",
                         "move", "moveToNew", "resolve", "rollback"},
         requests : Nat]

VARIABLES
    scenario,   \* which of the Scenarios is explored: never changes
    db,         \* the tables
    page,       \* the request the page waits for; mutating is its stage # "idle"
    worker,     \* the filing thread
    requests,   \* how many requests were made
    overtaken,  \* history: did a handler write rounds or pendings after another had
                \* changed some since it read them?
    collided    \* history: was a request that ran alone rolled back by a constraint?

vars == <<scenario, db, page, worker, requests, overtaken, collided>>

Op(kind, a, b) == [kind |-> kind, a |-> a, b |-> b, text |-> "", order |-> <<>>]
Idle == [stage |-> "idle", op |-> Op("", 0, 0), saw |-> Empty]
\* taken: the fragments projected so far, fragment the one in hand (legacy mode)
Rest(taken) == [stage |-> "idle", taken |-> taken, fragment |-> 0, unit |-> 0, decision |-> Review, saw |-> Empty]

\* The record as the page's first request and the officer's preparation leave it.
Prepared(body) ==
    FoldLeft(LAMBDA qs, text : CHOOSE new \in AddCaseQuestion(qs, qs, text, "CASE", 0) : TRUE,
             CHOOSE qs \in EnsureFormalRecord(<<>>, <<>>) : TRUE, body)

Init ==
    /\ scenario \in Scenarios
    /\ db = [Empty EXCEPT !.questions = Prepared(scenario.body)]
    /\ page = Idle /\ worker = Rest({})
    /\ requests = 0 /\ overtaken = FALSE /\ collided = FALSE
--------------------------------------------------------------------------------
(* What is said, and the units it makes *)

Hear ==
    /\ Now(db) < Len(scenario.speech)
    /\ LET word == scenario.speech[Now(db) + 1] IN
       db' = [db EXCEPT !.said = Append(@,
                [speaker |-> IF word.unknown THEN "UNKNOWN" ELSE word.speaker,
                 text |-> word.text, unknown |-> word.unknown, done |-> "NONE"])]
    /\ UNCHANGED <<scenario, page, worker, requests, overtaken, collided>>

\* A fragment nobody was named for is attributed later.
Attribute ==
    /\ \E f \in DOMAIN db.said :
        /\ db.said[f].speaker = "UNKNOWN"
        /\ db' = [db EXCEPT !.said[f].speaker = scenario.speech[f].speaker]
    /\ UNCHANGED <<scenario, page, worker, requests, overtaken, collided>>

\* The turns of speech: one or more questions and what follows them
Starts == {f \in DOMAIN scenario.speech :
             f = 1 \/ (scenario.speech[f].speaker = "OFFICER" /\ scenario.speech[f-1].speaker = "SUSPECT")}
Turn(k) ==
    LET start == Ordered(Starts, <)
        end == IF k = Len(start) THEN Len(scenario.speech) ELSE start[k + 1] - 1
    IN start[k]..end

EndUnit ==
    LET k == Len(db.units) + 1
        by(role) == {f \in Turn(k) : scenario.speech[f].speaker = role}
    IN /\ scenario.routed /\ k <= Cardinality(Starts)
       /\ Max(Turn(k)) < Now(db) \/ Now(db) = Len(scenario.speech)
       /\ db' = [db EXCEPT !.units = Append(@,
                   [status |-> IF by("OFFICER") = {} THEN "NEEDS_REVIEW" ELSE "CLOSED",
                    question |-> by("OFFICER"), answer |-> by("SUSPECT"), target |-> 0])]
       /\ UNCHANGED <<scenario, page, worker, requests, overtaken, collided>>
--------------------------------------------------------------------------------
\* A transaction's writes: what breaks a constraint is rolled back.
Write(results, saw, failed) ==
    \E result \in IF results = {} THEN {db} ELSE results :
        /\ db' = IF Unique(result) THEN result ELSE failed
        /\ collided' = (collided \/ (~Unique(result) /\ saw = db))
        /\ overtaken' = \/ overtaken
                         \/ /\ Unique(result) /\ <<result.rounds, result.pendings>> # <<db.rounds, db.pendings>>
                            /\ <<saw.rounds, saw.pendings>> # <<db.rounds, db.pendings>>

(* The page *)

\* The requests the page can make of the rows there are
Ops ==
    LET qs == DOMAIN db.questions
        rs == DOMAIN db.rounds
        with(op, text) == [op EXCEPT !.text = text]
    IN {Op("ensure", 0, 0)}
       \cup {with(Op("add", 0, after), text) : text \in scenario.added, after \in {0} \cup qs}
       \cup {with(Op("update", q, 0), text) : q \in qs, text \in scenario.added}
       \cup {[Op("reorder", 0, 0) EXCEPT !.order = Reverse(BySort(db.questions, Body(db.questions)))]}
       \cup {Op(kind, q, 0) : kind \in {"remove", "type"}, q \in qs}
       \cup {Op("process", f, 0) : f \in DOMAIN db.said}
       \cup {Op("attach", q, f) : q \in qs, f \in DOMAIN db.said}
       \cup {Op("fromFragment", f, after) : f \in DOMAIN db.said, after \in {0} \cup qs}
       \cup {Op(kind, p, 0) : kind \in {"addPending", "ignorePending"}, p \in DOMAIN db.pendings}
       \cup {with(Op("linkPending", p, q), mode) :
               p \in DOMAIN db.pendings, q \in qs, mode \in {"APPEND_EXISTING", "NEW_ROUND"}}
       \cup {Op("detach", r, 0) : r \in rs} \cup {Op("move", r, q) : r \in rs, q \in qs}
       \cup {with(Op("moveToNew", r, 0), text) : r \in rs, text \in scenario.added}
       \cup {with(Op("resolve", u, q), action) : u \in DOMAIN db.units, q \in qs,
               action \in {"CREATE_LIVE", "LINK_QA", "LINK_ANSWER", "IGNORE"}}
       \cup {Op("rollback", u, 0) : u \in DOMAIN db.units}

\* The handlers of api/template_workspace.py
Outcomes(op, saw) ==
    LET onQuestions(tables) == {[db EXCEPT !.questions = qs] : qs \in tables} IN
    CASE op.kind = "ensure" -> onQuestions(EnsureFormalRecord(saw.questions, db.questions))
      [] op.kind = "add" -> onQuestions(AddCaseQuestion(saw.questions, db.questions, op.text, "CASE", op.b))
      [] op.kind = "update" -> onQuestions(UpdateCaseQuestion(saw.questions, db.questions, op.a, op.text))
      [] op.kind = "remove" -> onQuestions(DeactivateCaseQuestion(saw.questions, db.questions, op.a))
      [] op.kind = "reorder" -> onQuestions(Reorder(saw.questions, db.questions, op.order))
      [] op.kind = "process" -> Process(op.a, saw, db)
      [] op.kind = "attach" -> AttachFragments(op.a, {op.b}, saw, db)
      [] op.kind = "type" -> TypeAnswer(op.a, saw, db)
      [] op.kind = "fromFragment" -> FromFragment(op.a, op.b, saw, db)
      [] op.kind = "addPending" -> AddPending(op.a, op.b, saw, db)
      [] op.kind = "linkPending" -> LinkPending(op.a, op.b, op.text, saw, db)
      [] op.kind = "ignorePending" -> IgnorePending(op.a, saw, db)
      [] op.kind = "detach" -> Detach(op.a, db)
      [] op.kind = "move" -> MoveRound(op.a, op.b, saw, db)
      [] op.kind = "moveToNew" -> MoveRoundToNew(op.a, op.text, saw, db)
      [] op.kind = "resolve" -> Resolve(op.a, op.text, op.b, saw, db)
      [] op.kind = "rollback" -> Rollback(op.a, saw, db)

\* runMutation: nothing while a request runs.  The handler reads.
Request ==
    /\ page.stage = "idle" /\ requests < scenario.requests
    /\ \E op \in {o \in Ops : o.kind \in scenario.kinds} :
        page' = [stage |-> "read", op |-> op, saw |-> db]
    /\ requests' = requests + 1
    /\ UNCHANGED <<scenario, db, worker, overtaken, collided>>

\* The handler writes, commits and answers.
Respond ==
    /\ page.stage = "read"
    /\ Write(Outcomes(page.op, page.saw), page.saw, db)
    /\ page' = Idle
    /\ UNCHANGED <<scenario, worker, requests>>
--------------------------------------------------------------------------------
(* The thread, legacy mode: each fragment is projected once, in order, but one that
   nobody was named for not before it is attributed *)

ReadFragment ==
    /\ ~scenario.routed /\ worker.stage = "idle"
    /\ \E f \in DOMAIN db.said \ worker.taken :
        /\ db.said[f].speaker # "UNKNOWN"
        /\ \A e \in 1..(f - 1) : db.said[e].unknown \/ db.said[f].unknown \/ e \in worker.taken
        /\ worker' = [worker EXCEPT !.stage = "project", !.fragment = f, !.saw = db]
    /\ UNCHANGED <<scenario, db, page, requests, overtaken, collided>>

Project ==
    /\ worker.stage = "project"
    /\ Write(Process(worker.fragment, worker.saw, db), worker.saw, db)
    /\ worker' = Rest(worker.taken \cup {worker.fragment})
    /\ UNCHANGED <<scenario, page, requests>>

(* The thread, qwen mode: _route_unit *)

\* mark_routing, then what needs no model
BeginRoute ==
    /\ worker.stage = "idle"
    /\ \E u \in DOMAIN db.units :
        /\ db.units[u].status = "CLOSED"
        /\ db' = [db EXCEPT !.units[u].status = "ROUTING"]
        /\ IF Checked(db, u) = {} THEN worker' = [worker EXCEPT !.stage = "ask", !.unit = u]
           ELSE \E d \in Checked(db, u) : worker' = [worker EXCEPT !.stage = "decided", !.unit = u, !.decision = d]
    /\ UNCHANGED <<scenario, page, requests, overtaken, collided>>

\* The replies a model may give: any target, one of no question too; the question as it
\* was asked or another
Replies == Decisions(0..(Len(db.questions) + 1), {Asked(db, worker.unit)} \cup scenario.added)

Decide ==
    /\ worker.stage = "ask"
    /\ \E d \in Routed(db, worker.unit, Replies) :
        worker' = [worker EXCEPT !.stage = "decided", !.decision = d]
    /\ UNCHANGED <<scenario, db, page, requests, overtaken, collided>>

ReadTables ==
    /\ worker.stage = "decided"
    /\ worker' = [worker EXCEPT !.stage = "apply", !.saw = db]
    /\ UNCHANGED <<scenario, db, page, requests, overtaken, collided>>

\* A decision that cannot be written leaves the unit to the officer.
Apply ==
    /\ worker.stage = "apply"
    /\ LET u == worker.unit IN
       \E failed \in SetUnit(u, "NEEDS_REVIEW", db) :
           Write(ApplyAuto(u, worker.decision, worker.saw, db), worker.saw, failed)
    /\ worker' = Rest({})
    /\ UNCHANGED <<scenario, page, requests>>

Next == \/ Hear \/ Attribute \/ EndUnit \/ Request \/ Respond
        \/ ReadFragment \/ Project \/ BeginRoute \/ Decide \/ ReadTables \/ Apply

Spec == Init /\ [][Next]_vars
--------------------------------------------------------------------------------
\* The officers' questions stand between the fixed opening and the fixed closing, and each
\* fixed question is there once, whatever two handlers read and wrote in between
\* (uq_case_questions_sort lets only one of them commit).
QuestionsInSections == IsTables(db) /\ InSections(db.questions)

\* What the suspect says next has one place to go: a question that was asked makes the
\* round or the pending question before it stop listening.
OneListener ==
    ~overtaken => Cardinality(Listening(db)) + Cardinality(Waiting(db)) <= 1

\* The questions and the rounds that stand by them stay in order under the filing thread
\* and the officer's requests (template_workspace_service, interrogation_projection_service).
WorkspaceInOrder == QuestionsInSections /\ OneListener

\* What the suspect said and was filed is in the record, or with a question that waits or
\* that the officer ignored; and there once, unless the officer put fragments in by hand.
FiledOnce ==
    LET rounds(f) == {r \in DOMAIN db.rounds : f \in db.rounds[r].answer}
        waits(f) == {p \in DOMAIN db.pendings : /\ f \in db.pendings[p].answer
                                                /\ db.pendings[p].status \notin {"ADDED", "LINKED"}}
        places(f) == Cardinality(rounds(f)) + Cardinality(waits(f))
    IN ~overtaken =>
         \A f \in DOMAIN db.said : db.said[f].done \in {"PENDING_BUFFER", "ROUND_APPEND"} =>
            places(f) >= 1 /\ ("attach" \in scenario.kinds \/ places(f) = 1)

\* Whatever the model replies, an answer to a question that does not ask for a time is not
\* filed under one that does.
TimeNotMisfiled ==
    [][worker'.stage = "decided" /\ worker.stage # "decided" /\ worker'.decision.class \in Matching =>
         LET d == worker'.decision
             u == worker'.unit
         IN HasAnswer(db, u) /\ AsksTime(db, d.target) => Asked(db, u) \in TimeTexts]_vars

================================================================================
