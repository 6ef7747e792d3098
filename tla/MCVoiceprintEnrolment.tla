------------------------- MODULE MCVoiceprintEnrolment -------------------------
(***************************************************************************)
(* The instance of VoiceprintEnrolment that TLC checks: two persons are    *)
(* recorded by the browser, or one person twice by the terminal.           *)
(***************************************************************************)
EXTENDS VoiceprintEnrolment, TLC

CONSTANTS anna, bert
MCScenarios == {[mode |-> "BROWSER", subject |-> 1 :> anna @@ 2 :> bert],
                [mode |-> "ALSA", subject |-> 1 :> anna @@ 2 :> anna]}
================================================================================
