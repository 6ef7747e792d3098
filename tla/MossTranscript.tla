----------------------------- MODULE MossTranscript -----------------------------
(***************************************************************************)
(* What the long transcription promises, whatever windows, retries, polls  *)
(* and restarts it is made of: the text of a recording only grows until it *)
(* is complete, an outcome is final, and what the user is shown is text    *)
(* that exists, never less than before, and whole at the end.              *)
(***************************************************************************)
EXTENDS Naturals, Sequences

CONSTANT Whole      \* all the pieces of a recording

VARIABLES
    text,       \* per job, the pieces of the recording that have been transcribed
    outcome,    \* per job, "open" or how it ended
    shown       \* per row of the user's list: its job, the text, whether it is final

vars == <<text, outcome, shown>>

Init == text = <<>> /\ outcome = <<>> /\ shown = <<>>

Submit ==
    /\ text' = Append(text, {})
    /\ outcome' = Append(outcome, "open")
    /\ UNCHANGED shown

Transcribe(j) ==
    /\ outcome[j] # "COMPLETED"
    /\ \E more \in SUBSET (Whole \ text[j]) : text' = [text EXCEPT ![j] = @ \cup more]
    /\ UNCHANGED <<outcome, shown>>

Settle(j) ==
    /\ outcome[j] = "open"
    /\ \E o \in {"COMPLETED", "FAILED", "CANCELLED"} :
       /\ o = "COMPLETED" => text[j] = Whole
       /\ outcome' = [outcome EXCEPT ![j] = o]
    /\ UNCHANGED <<text, shown>>

Follow(j) ==
    /\ shown' = Append(shown, [job |-> j, text |-> {}, final |-> FALSE])
    /\ UNCHANGED <<text, outcome>>

Show(r) ==
    LET old == shown[r] IN
    /\ ~old.final
    /\ \E more \in SUBSET (text[old.job] \ old.text), final \in BOOLEAN :
       /\ final => outcome[old.job] = "COMPLETED" /\ old.text \cup more = Whole
       /\ shown' = [shown EXCEPT ![r] = [old EXCEPT !.text = @ \cup more, !.final = final]]
    /\ UNCHANGED <<text, outcome>>

Next ==
    \/ Submit
    \/ \E j \in DOMAIN text : Transcribe(j) \/ Settle(j) \/ Follow(j)
    \/ \E r \in DOMAIN shown : Show(r)

Spec == Init /\ [][Next]_vars
================================================================================
