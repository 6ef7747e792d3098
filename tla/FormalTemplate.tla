---------------------------- MODULE FormalTemplate ----------------------------
(***************************************************************************)
(* The questions of one case's formal record and their order: a fixed      *)
(* opening, what the officers add, a fixed closing                         *)
(* (app/services/template_workspace_service.py with                        *)
(* app/repositories/template_questions.py).                                *)
(*                                                                         *)
(* A table is the sequence of its rows in the order of creation; an        *)
(* operation is the set of tables it may leave, empty when it refuses.     *)
(* Whether the case is still mutable is FormalRecord's concern.            *)
(***************************************************************************)
EXTENDS Naturals, FiniteSets, SequencesExt, FiniteSetsExt

CONSTANTS
    Texts,          \* what a question may say
    Opening,        \* the fixed questions, in order
    Closing

ASSUME TemplateAssumption ==
    /\ Opening \in Seq(Texts) /\ Closing \in Seq(Texts) /\ Len(Closing) > 0

Fixed == Opening \o Closing

\* CaseQuestion: item is the place in Fixed, 0 for a question of the body; sort is
\* sort_order in tens; asked is first_asked_at, 0 for never.
Questions ==
    [text : Texts, aliases : SUBSET Texts, item : 0..Len(Fixed),
     source : {"CASE", "LIVE", "STANDARD"}, sort : Nat, asked : Nat, active : BOOLEAN]

NewQuestion(text, item, source) ==
    [text |-> text, aliases |-> {}, item |-> item, source |-> source,
     sort |-> 0, asked |-> 0, active |-> TRUE]

Active(qs) == {q \in DOMAIN qs : qs[q].active}
Body(qs) == {q \in Active(qs) : qs[q].item = 0}

\* uq_case_questions_sort: a table that breaks it is not committed.
SortsDiffer(qs) == \A q, p \in DOMAIN qs : q # p => qs[q].sort # qs[p].sort

\* The rows of a set in order, equals in the order of creation
Ordered(set, Earlier(_, _)) ==
    [i \in 1..Cardinality(set) |-> CHOOSE q \in set :
        Cardinality({p \in set : Earlier(p, q) \/ (~Earlier(q, p) /\ p < q)}) = i - 1]

\* list_case
BySort(qs, set) == Ordered(set, LAMBDA q, p : qs[q].sort < qs[p].sort)
Listed(qs) == BySort(qs, Active(qs))

\* create_case: next_case_sort_order may have read an earlier table than it inserts into.
CreateCase(saw, qs, row) ==
    Append(qs, [row EXCEPT !.sort = Max({0} \cup {saw[q].sort : q \in DOMAIN saw}) + 1])

\* _apply_order: the rows are first given negative places, so that they do not
\* collide with one another.
ApplyOrder(qs, order) ==
    [q \in DOMAIN qs |-> IF Contains(order, q)
                         THEN [qs[q] EXCEPT !.sort = SelectInSeq(order, LAMBDA p : p = q)] ELSE qs[q]]

HasTemplate(qs) == \E q \in Active(qs) : qs[q].item # 0

\* _apply_section_order: the opening, the body in the given order, the closing.
SectionOrder(qs, body) ==
    LET items(set) == Ordered({q \in Active(qs) : qs[q].item \in set},
                                   LAMBDA q, p : qs[q].item < qs[p].item)
    IN items(1..Len(Opening)) \o body \o items(Len(Opening)+1..Len(Fixed))

NewOrder(qs, body) == IF HasTemplate(qs) THEN SectionOrder(qs, body) ELSE body
--------------------------------------------------------------------------------
\* ensure_formal_record: the fixed questions that were missing are added, then all are ordered.
EnsureFormalRecord(saw, qs) ==
    LET missing == SelectSeq([i \in 1..Len(Fixed) |-> i],
                             LAMBDA i : \A q \in Active(saw) : saw[q].item # i)
        add(acc, i) == CreateCase(IF acc = qs THEN saw ELSE acc, acc, NewQuestion(Fixed[i], i, "CASE"))
        all  == FoldLeft(add, qs, missing)
        read == IF missing = <<>> THEN saw ELSE all
    IN {ApplyOrder(all, SectionOrder(read, BySort(read, Body(read))))}

\* add_case_question: at the end of the body, or behind the question `after` (0: none).
AddCaseQuestion(saw, qs, text, source, after) ==
    LET new  == CreateCase(saw, qs, NewQuestion(text, 0, source))
        body == BySort(qs, Body(qs))
        at   == IF after = 0 THEN Len(body) ELSE SelectInSeq(body, LAMBDA q : q = after)
    IN CASE after # 0 /\ after \notin Active(qs) -> {}
         [] after # 0 /\ qs[after].item > Len(Opening) -> {}
         [] after = 0 /\ ~HasTemplate(qs) -> {new}
         [] OTHER -> {ApplyOrder(new, NewOrder(qs, InsertAt(body, at + 1, Len(new))))}

\* update_case_question: the old text stays an alias.
UpdateCaseQuestion(saw, qs, q, text) ==
    IF q \notin Body(saw) THEN {}
    ELSE IF saw[q].text = text THEN {qs}
    ELSE {[qs EXCEPT ![q].text = text, ![q].aliases = (saw[q].aliases \cup {saw[q].text}) \ {text}]}

\* deactivate_case_question: the row keeps its place.
DeactivateCaseQuestion(saw, qs, q) ==
    IF q \notin Body(saw) THEN {} ELSE {[qs EXCEPT ![q].active = FALSE]}

\* reorder, of the rows listed earlier as `saw`
Reorder(saw, qs, order) ==
    IF ToSet(order) # Body(saw) THEN {} ELSE {ApplyOrder(qs, NewOrder(saw, order))}

\* apply_actual_body_order: what was asked, in the order it was first asked, then the rest.
ApplyActualBodyOrder(qs) ==
    LET asked == {q \in Body(qs) : qs[q].asked > 0}
        earlier(q, p) == \/ qs[q].asked < qs[p].asked
                         \/ qs[q].asked = qs[p].asked /\ qs[q].sort < qs[p].sort
    IN ApplyOrder(qs, NewOrder(qs, Ordered(asked, earlier) \o BySort(qs, Body(qs) \ asked)))

\* set_canonical_answer, on a row read as `row`; the answer's text is not modelled.
SetFirstAsked(row, qs, q, time) ==
    IF row.asked = 0 THEN [qs EXCEPT ![q].asked = time] ELSE qs

\* The officers' questions stand between the opening and the closing, each fixed
\* question is there once and in its place.
InSections(qs) ==
    LET order == [i \in DOMAIN Listed(qs) |-> qs[Listed(qs)[i]].item]
    IN HasTemplate(qs) =>
         SelectSeq(order, LAMBDA item : item # 0) = [i \in 1..Len(Fixed) |-> i]
         /\ \A i \in DOMAIN order : order[i] = 0 =>
              i > Len(Opening) /\ i <= Len(order) - Len(Closing)
================================================================================
