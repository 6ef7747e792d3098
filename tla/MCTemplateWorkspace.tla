-------------------------- MODULE MCTemplateWorkspace --------------------------
(* Small instances of TemplateWorkspace for TLC. *)
EXTENDS TemplateWorkspace

CONSTANTS Narrow        \* what the run explores: "hands" or "removal"

MCTexts == {"rights", "sign", "a", "b", "when", "go on", "that matter", "yes"}
MCOpening == <<"rights">>
MCClosing == <<"sign">>
MCTimeTexts == {"when"}
MCRemarks == {"go on", "yes"}
MCChatter == {"go on"}
MCVague == {"that matter"}

Says(speaker, text) == [speaker |-> speaker, text |-> text, unknown |-> FALSE]
Asks(text) == Says("OFFICER", text)
Yes == Says("SUSPECT", "yes")
Unattributed(word) == [word EXCEPT !.unknown = TRUE]

Scene(speech, body, added, routed, kinds, number) ==
    [speech |-> speech, body |-> body, added |-> added, routed |-> routed, kinds |-> kinds,
     requests |-> number]

TableKinds == {"ensure", "add", "update", "remove", "reorder"}

Hands ==
    { \* the questions' order, while a unit is archived
      Scene(<<Asks("a"), Yes, Asks("b"), Yes>>, <<"a">>, {"b"}, TRUE, {"ensure", "add", "reorder"}, 1),
      \* a question asked again and one that is new, filed by hand; legacy mode
      Scene(<<Asks("a"), Yes, Asks("b"), Yes>>, <<"a">>, {}, FALSE,
            {"addPending", "linkPending", "ignorePending", "fromFragment"}, 2),
      Scene(<<Asks("a"), Yes, Asks("a"), Yes>>, <<"a">>, {}, FALSE,
            {"addPending", "linkPending", "ignorePending", "type", "attach"}, 2),
      \* a late attribution, rounds moved
      Scene(<<Asks("a"), Unattributed(Yes), Yes>>, <<"a", "b">>, {"when"}, FALSE,
            {"process", "detach", "move", "moveToNew", "remove"}, 2),
      \* the model's replies, a question that became one of time
      Scene(<<Asks("a"), Yes, Asks("that matter")>>, <<"a">>, {"when"}, TRUE,
            {"update", "resolve", "rollback"}, 2),
      Scene(<<Asks("go on"), Yes, Asks("b")>>, <<"a", "when">>, {}, TRUE, {"resolve"}, 1),
      Scene(<<Asks("a"), Yes, Asks("when"), Yes, Asks("that matter")>>, <<"a", "when">>, {}, TRUE, {}, 0) }

Removal == {Scene(<<Asks("a"), Yes>>, <<"a", "b">>, {"b"}, TRUE, TableKinds, 2)}

MCScenarios == IF Narrow = "hands" THEN Hands ELSE Removal
================================================================================
