---------------------------- MODULE QuestionRounds ----------------------------
(***************************************************************************)
(* The rounds of a formal record: each is a question of the record asked   *)
(* once, with what was answered.  A question that is not in the record, or *)
(* was asked before, waits as a pending question until the officer files   *)
(* it (app/services/interrogation_projection_service.py,                   *)
(* template_workspace_service.py, formal_record_answer_service.py and      *)
(* formal_record_routing_service.py with repositories/question_rounds.py). *)
(*                                                                         *)
(* The tables are one record `db`.  On SQLite a handler's SELECTs neither  *)
(* lock nor keep a snapshot until its first write: an operation therefore  *)
(* takes the tables `saw` it read first and the tables `now` it writes to, *)
(* and is the set of what it may leave, empty when it refuses.  ORM writes *)
(* the columns it changed, from the rows it read.                          *)
(***************************************************************************)
EXTENDS FormalTemplate

CONSTANTS
    TimeTexts,      \* questions that ask for a time
    Remarks         \* what an officer says that is no question

ASSUME TextsAssumption == TimeTexts \subseteq Texts /\ Remarks \subseteq Texts

\* ASRFragment and its ProcessedSpeechFragment; unknown: did recognition name nobody?
Fragments ==
    [speaker : {"OFFICER", "SUSPECT", "UNKNOWN"}, text : Texts, unknown : BOOLEAN,
     done : {"NONE", "RAW_ONLY", "PENDING", "PENDING_BUFFER", "ROUND_OPEN", "ROUND_APPEND"}]

\* QuestionRound; officer is 0 for no officer_fragment_id, typed says that a hand wrote the answer.
Rounds ==
    [question : Nat, no : Nat, officer : Nat, answer : SUBSET Nat, typed : BOOLEAN,
     status : {"ACTIVE", "CLOSED", "DETACHED"}, inSession : BOOLEAN, started : Nat]

Pendings ==
    [officer : Nat, answer : SUBSET Nat,
     status : {"PENDING", "DEFERRED", "ADDED", "LINKED", "IGNORED"}]

Units ==
    [status : {"CLOSED", "ROUTING", "APPLIED", "IGNORED", "NEEDS_REVIEW", "ROLLED_BACK"},
     question : SUBSET Nat, answer : SUBSET Nat, target : Nat]

Empty == [said |-> <<>>, questions |-> <<>>, rounds |-> <<>>, pendings |-> <<>>, units |-> <<>>]

IsTables(db) ==
    /\ db.said \in Seq(Fragments) /\ db.questions \in Seq(Questions)
    /\ db.rounds \in Seq(Rounds) /\ db.pendings \in Seq(Pendings) /\ db.units \in Seq(Units)

\* uq_case_questions_sort, uq_question_round_no and the two officer_fragment_id:
\* a transaction that breaks one is rolled back.
Unique(db) ==
    LET apart(rows, Same(_, _)) == \A i, j \in DOMAIN rows : i # j => ~Same(rows[i], rows[j])
    IN /\ SortsDiffer(db.questions)
       /\ apart(db.rounds, LAMBDA r, s : r.question = s.question /\ r.no = s.no)
       /\ apart(db.rounds, LAMBDA r, s : r.officer # 0 /\ r.officer = s.officer)
       /\ apart(db.pendings, LAMBDA p, s : p.officer = s.officer)

Now(db) == Len(db.said)     \* the time is counted in fragments heard

\* active_round, active_pending: those that listen to the suspect
Listening(db) == {r \in DOMAIN db.rounds : db.rounds[r].status = "ACTIVE" /\ db.rounds[r].inSession}
Waiting(db) == {p \in DOMAIN db.pendings : db.pendings[p].status = "PENDING"}
Unresolved(db) == {p \in DOMAIN db.pendings : db.pendings[p].status \in {"PENDING", "DEFERRED"}}

\* list_for_question, latest_for_question, next_round_no
RoundsOf(db, q) == {r \in DOMAIN db.rounds : db.rounds[r].question = q /\ db.rounds[r].status # "DETACHED"}
Latest(db, set) == CHOOSE r \in set : \A s \in set : db.rounds[s].no <= db.rounds[r].no
NextNo(db, q) == Max({0} \cup {db.rounds[r].no : r \in {s \in DOMAIN db.rounds : db.rounds[s].question = q}}) + 1

\* create_round
CreateRound(db, q, no, officer, answer, status, started) ==
    [db EXCEPT !.rounds = Append(@, [question |-> q, no |-> no, officer |-> officer, answer |-> answer,
        typed |-> FALSE, status |-> status, inSession |-> TRUE, started |-> started])]

\* Mutant: what was answered before is forgotten.
HeardMutant(db, r, read, fs) == [db EXCEPT !.rounds[r].answer = fs]

\* append_round_answer and append_pending_answer write the whole answer anew.
Heard(db, r, read, fs) == IF fs \subseteq read THEN db ELSE [db EXCEPT !.rounds[r].answer = read \cup fs]

\* Mutant: the round before goes on listening.
StopListeningMutant(saw, now) ==
    [now EXCEPT !.pendings = [p \in DOMAIN @ |-> IF p \in Waiting(saw) THEN [@[p] EXCEPT !.status = "DEFERRED"] ELSE @[p]]]

\* defer_active_pending, then close_active, which reads anew if that wrote.
StopListening(saw, now) ==
    LET read == IF Waiting(saw) # {} THEN now ELSE saw IN
    [now EXCEPT
        !.pendings = [p \in DOMAIN @ |-> IF p \in Waiting(saw) THEN [@[p] EXCEPT !.status = "DEFERRED"] ELSE @[p]],
        !.rounds = [r \in DOMAIN @ |-> IF r \in Listening(read) THEN [@[r] EXCEPT !.status = "CLOSED"] ELSE @[r]]]

\* what a handler reads after `stopped`, which has locked the tables if it wrote
Then(saw, stopped) == IF Waiting(saw) \cup Listening(saw) # {} THEN stopped ELSE saw
--------------------------------------------------------------------------------
(* InterrogationProjectionService.process_fragment *)

\* match_question, without the patterns an officer may add
Matches(qs, text) == {q \in Active(qs) : text \in {qs[q].text} \cup qs[q].aliases}

Processed(db, f, action) == [db EXCEPT !.said[f].done = action]

\* A question asked for the first time opens its round; any other one waits.
Ask(f, saw, now) ==
    LET stopped == StopListening(saw, now)
        read == Then(saw, stopped)
        matched == Matches(read.questions, saw.said[f].text)
    IN IF \E q \in matched : matched = {q} /\ RoundsOf(read, q) = {}
       THEN LET q == CHOOSE q \in matched : TRUE
            IN Processed(CreateRound(stopped, q, NextNo(read, q), f, {}, "ACTIVE", Now(now)), f, "ROUND_OPEN")
       ELSE Processed([stopped EXCEPT !.pendings =
                         Append(@, [officer |-> f, answer |-> {}, status |-> "PENDING"])], f, "PENDING")

\* The pending question hears the suspect first, then the round that listens; its
\* question must still be in the record.
Answer(f, saw, now) ==
    LET last(set, time(_)) == CHOOSE i \in set : \A j \in set : time(j) < time(i) \/ (time(j) = time(i) /\ j <= i)
        p == last(Waiting(saw), LAMBDA i : 0)
        r == last(Listening(saw), LAMBDA i : saw.rounds[i].started)
        q == saw.rounds[r].question
    IN CASE Waiting(saw) # {} ->
              {Processed([now EXCEPT !.pendings[p].answer = saw.pendings[p].answer \cup {f}], f, "PENDING_BUFFER")}
         [] Waiting(saw) = {} /\ Listening(saw) # {} ->
              IF q \notin Active(now.questions) THEN {}
              ELSE {Processed([Heard(now, r, saw.rounds[r].answer, {f}) EXCEPT
                        !.questions = SetFirstAsked(@[q], @, q, saw.rounds[r].started)], f, "ROUND_APPEND")}
         [] OTHER -> {Processed(now, f, "RAW_ONLY")}

Process(f, saw, now) ==
    LET word == saw.said[f]
        retried == word.done = "RAW_ONLY" /\ word.unknown /\ word.speaker # "UNKNOWN"
    IN CASE word.done # "NONE" /\ ~retried -> {now}
         [] word.done = "NONE" /\ now.said[f].done # "NONE" -> {}     \* its row is there
         [] OTHER -> CASE word.speaker = "SUSPECT" -> Answer(f, saw, now)
                       [] word.speaker = "OFFICER" /\ word.text \notin Remarks -> {Ask(f, saw, now)}
                       [] OTHER -> {Processed(now, f, "RAW_ONLY")}
--------------------------------------------------------------------------------
(* What the officer does with pending questions and rounds *)

\* The status the round of a pending question gets
StatusFor(pending) == IF pending.status = "DEFERRED" THEN "CLOSED" ELSE "ACTIVE"

\* add_pending_as_question; after 0 is behind the question asked last.
AddPending(p, after, saw, now) ==
    LET listed == {r \in DOMAIN saw.rounds : saw.rounds[r].inSession /\ saw.rounds[r].status # "DETACHED"}
        last == CHOOSE r \in listed : \A s \in listed :
                    \/ saw.rounds[s].started < saw.rounds[r].started
                    \/ saw.rounds[s].started = saw.rounds[r].started /\ saw.rounds[s].no <= saw.rounds[r].no
        behind == IF after # 0 \/ listed = {} THEN after ELSE saw.rounds[last].question
        pending == saw.pendings[p]
    IN IF p \notin Unresolved(saw) THEN {}
       ELSE {[CreateRound([now EXCEPT !.questions = qs], Len(qs), 1, pending.officer, pending.answer,
                          StatusFor(pending), Now(now)) EXCEPT !.pendings[p].status = "ADDED"] :
             qs \in AddCaseQuestion(saw.questions, now.questions, saw.said[pending.officer].text, "LIVE", behind)}

\* link_pending
LinkPending(p, q, mode, saw, now) ==
    LET pending == saw.pendings[p]
        over == pending.status = "DEFERRED"
        base == IF over THEN now
                ELSE [now EXCEPT !.rounds = [r \in DOMAIN @ |->
                        IF r \in Listening(saw) THEN [@[r] EXCEPT !.status = "CLOSED"] ELSE @[r]]]
        read == IF ~over /\ Listening(saw) # {} THEN base ELSE saw
        r    == Latest(read, RoundsOf(read, q))
        more == Heard(base, r, read.rounds[r].answer, pending.answer)
        linked(db) == [db EXCEPT !.pendings[p].status = "LINKED"]
    IN IF p \notin Unresolved(saw) \/ q \notin Active(saw.questions) THEN {}
       ELSE IF mode # "APPEND_EXISTING" THEN
              {linked(CreateRound(base, q, NextNo(read, q), pending.officer, pending.answer, StatusFor(pending), Now(now)))}
       ELSE IF RoundsOf(read, q) = {} THEN {}
       ELSE {linked(IF over THEN more ELSE [more EXCEPT !.rounds[r].status = "ACTIVE"])}

IgnorePending(p, saw, now) ==
    IF p \in Unresolved(saw) THEN {[now EXCEPT !.pendings[p].status = "IGNORED"]} ELSE {}

\* reassociate_round: without a target the round is taken out of the record.
Detach(r, now) == {[now EXCEPT !.rounds[r].status = "DETACHED"]}

MoveRound(r, q, saw, now) ==
    IF q \notin Active(saw.questions) THEN {}
    ELSE IF q = saw.rounds[r].question THEN {now}
    ELSE {[now EXCEPT !.rounds[r].question = q, !.rounds[r].no = NextNo(saw, q)]}

MoveRoundToNew(r, text, saw, now) ==
    {[now EXCEPT !.questions = qs, !.rounds[r].question = Len(qs), !.rounds[r].no = 1] :
        qs \in AddCaseQuestion(saw.questions, now.questions, text, "LIVE", saw.rounds[r].question)}

\* create_live_question_from_fragment: with its pending question, if it has one
FromFragment(f, after, saw, now) ==
    LET filed == \E r \in DOMAIN saw.rounds : saw.rounds[r].officer = f /\ saw.rounds[r].status # "DETACHED"
        mine == {p \in Unresolved(saw) : saw.pendings[p].officer = f}
        base == IF mine = {} THEN StopListening(saw, now) ELSE now
        read == IF mine = {} THEN Then(saw, base) ELSE saw
        heard == UNION {saw.pendings[p].answer : p \in mine}
        status == IF \E p \in mine : saw.pendings[p].status = "DEFERRED" THEN "CLOSED" ELSE "ACTIVE"
    IN CASE saw.said[f].speaker # "OFFICER" -> {}
         [] saw.said[f].speaker = "OFFICER" /\ filed -> {now}
         [] OTHER ->
              {[CreateRound([base EXCEPT !.questions = SetFirstAsked(qs[Len(qs)], qs, Len(qs), Now(now))],
                            Len(qs), 1, f, heard, status, Now(now)) EXCEPT
                  !.pendings = [p \in DOMAIN @ |-> IF p \in mine THEN [@[p] EXCEPT !.status = "ADDED"] ELSE @[p]]] :
               qs \in AddCaseQuestion(read.questions, base.questions, saw.said[f].text, "LIVE", after)}

\* attach_case_question_answer_fragments: to the question's last round, or to one of its own
AttachFragments(q, fs, saw, now) ==
    LET r == Latest(saw, RoundsOf(saw, q))
        new == RoundsOf(saw, q) = {}
        db == IF new THEN CreateRound(now, q, NextNo(saw, q), 0, fs, "CLOSED", Now(now))
              ELSE Heard(now, r, saw.rounds[r].answer, fs)
        started == IF new THEN Now(now) ELSE saw.rounds[r].started
    IN IF q \notin Active(saw.questions) THEN {}
       ELSE {[db EXCEPT !.questions = SetFirstAsked(saw.questions[q], @, q, started)]}

\* FormalRecordAnswerService.upsert: the canonical answer is written before the rounds are read.
TypeAnswer(q, saw, now) ==
    IF q \notin Active(saw.questions) THEN {}
    ELSE IF RoundsOf(now, q) # {} THEN {[now EXCEPT !.rounds[Latest(now, RoundsOf(now, q))].typed = TRUE]}
    ELSE {[CreateRound(now, q, NextNo(now, q), 0, {}, "CLOSED", Now(now)) EXCEPT
             !.rounds[Len(now.rounds) + 1].typed = TRUE, !.rounds[Len(now.rounds) + 1].inSession = FALSE]}
--------------------------------------------------------------------------------
(* FormalRecordRoutingService *)

HeadOf(unit) == IF unit.question = {} THEN 0 ELSE Min(unit.question)

\* _apply_existing and _apply_answer_only: one more round, then the body in the order
\* it was asked.  read is what was read before the first write.
FileUnit(u, q, head, read, now) ==
    LET unit == read.units[u]
        started == Min(unit.question \cup unit.answer)
        db == CreateRound(now, q, NextNo(read, q), head, unit.answer, "CLOSED", started)
        asked == SetFirstAsked(read.questions[q], now.questions, q, started)
    IN {[db EXCEPT !.questions = qs, !.units[u].status = "APPLIED", !.units[u].target = q] :
            qs \in {ApplyActualBodyOrder(asked)}}

\* a new question from what was said
FileLive(u, text, saw, now) ==
    UNION {LET db == [now EXCEPT !.questions = qs] IN FileUnit(u, Len(qs), HeadOf(saw.units[u]), db, db) :
            qs \in AddCaseQuestion(saw.questions, now.questions, text, "LIVE", 0)}

\* _review, _ignore
SetUnit(u, status, now) == {[now EXCEPT !.units[u].status = status, !.units[u].target = 0]}

\* resolve_manual; the officer may write the answer that nobody gave.
Resolve(u, action, q, saw, now) ==
    LET unit == saw.units[u] IN
    IF unit.status # "NEEDS_REVIEW" THEN {} ELSE
    CASE action = "IGNORE" -> SetUnit(u, "IGNORED", now)
      [] action = "CREATE_LIVE" ->
           IF unit.question = {} THEN {} ELSE FileLive(u, saw.said[HeadOf(unit)].text, saw, now)
      [] action = "LINK_QA" /\ q \in Active(saw.questions) -> FileUnit(u, q, HeadOf(unit), saw, now)
      [] action = "LINK_ANSWER" /\ q \in Active(saw.questions) /\ unit.answer # {} -> FileUnit(u, q, 0, saw, now)
      [] OTHER -> {}

\* find_for_qa_unit: the same fragments count 4, some of them 2, the same question 3 and
\* the same words 1; the latest of the best.
FindForUnit(db, u, q) ==
    LET unit == db.units[u]
        words(fs) == LET order == Ordered(fs, <) IN [i \in DOMAIN order |-> db.said[order[i]].text]
        score(r) ==
            LET row == db.rounds[r] IN
              (IF unit.answer # {} /\ row.answer = unit.answer THEN 4
               ELSE IF row.answer \cap unit.answer # {} THEN 2 ELSE 0)
              + (IF row.officer \in unit.question THEN 3 ELSE 0)
              + (IF unit.answer # {} /\ ~row.typed /\ words(row.answer) = words(unit.answer) THEN 1 ELSE 0)
        found == {r \in RoundsOf(db, q) : score(r) > 0}
    IN {r \in found : \A s \in found : \/ score(s) < score(r)
                                       \/ score(s) = score(r) /\ db.rounds[s].no <= db.rounds[r].no}

\* rollback_qa_unit
Rollback(u, saw, now) ==
    LET unit == saw.units[u] IN
    IF unit.status # "APPLIED" \/ unit.target \notin Active(saw.questions) THEN {}
    ELSE {[now EXCEPT !.rounds[r].status = "DETACHED", !.units[u].status = "ROLLED_BACK"] :
            r \in FindForUnit(saw, u, unit.target)}
================================================================================
