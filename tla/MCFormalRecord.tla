----------------------------- MODULE MCFormalRecord -----------------------------
(***************************************************************************)
(* Scenarios for model checking FormalRecord, each with one kind of        *)
(* disturbance: none, decisions on units, changes of the stage with a      *)
(* second capture, edits of fragments before the record is frozen and      *)
(* while they are analysed, and crashes.                                   *)
(***************************************************************************)
EXTENDS FormalRecord

Quiet == [heard |-> 2, speakers |-> Roles, final |-> TRUE, ops |-> {},
          captures |-> 1, crashes |-> 0]
Spoken == [Quiet EXCEPT !.heard = 3, !.final = FALSE]
Filed == [Quiet EXCEPT !.final = FALSE, !.ops = {"resolve", "rollback"}]
Judged == [Quiet EXCEPT !.heard = 1, !.ops = {"resolve", "rollback"}]
Staged == [Quiet EXCEPT !.heard = 1, !.speakers = {"SUSPECT"}, !.captures = 2,
                        !.ops = {"stage"}]
Corrected == [Quiet EXCEPT !.heard = 1, !.speakers = {"SUSPECT", "UNKNOWN"},
                           !.ops = {"edit", "discard"}]
Crashed == [Quiet EXCEPT !.final = FALSE, !.crashes = 1]
Interrupted == [Quiet EXCEPT !.heard = 1, !.crashes = 1]
Edited == [Quiet EXCEPT !.heard = 1, !.speakers = {}, !.final = FALSE, !.ops = {"edit"}]
Analysed == [Quiet EXCEPT !.heard = 1, !.speakers = {}, !.final = FALSE, !.crashes = 1]

MCScenarios == {Quiet, Spoken, Filed, Judged, Staged, Corrected, Crashed,
                Interrupted, Edited, Analysed}
================================================================================
