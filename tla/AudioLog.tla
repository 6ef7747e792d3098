-------------------------------- MODULE AudioLog --------------------------------
(***************************************************************************)
(* What the evidence recording of one capture promises, whatever files,    *)
(* rows, caches and restarts it is made of: a log of samples that only     *)
(* grows at its end, acknowledgements that say which frame lies where, and *)
(* a loss that is always a suffix, always visible and always final.        *)
(***************************************************************************)
EXTENDS Naturals, Sequences

CONSTANTS Samples, Payloads

VARIABLES
    log,    \* the samples recorded and not given up
    acks,   \* the acknowledged frames: where each begins and ends, and its samples
    stage   \* "open", "incomplete", "complete", or "broken" once audio was given up

vars == <<log, acks, stage>>

Ack(pcm) == [start |-> Len(log), end |-> Len(log) + Len(pcm), payload |-> pcm]

Init == log = <<>> /\ acks = <<>> /\ stage = "open"

\* A piece is recorded, and acknowledged if a browser sent it.
Record(pcm) ==
    /\ stage \in {"open", "incomplete"}
    /\ log' = log \o pcm
    /\ acks' \in {acks, Append(acks, Ack(pcm))}
    /\ stage' = stage

\* Audio from sample n on cannot be vouched for: nothing more is recorded, and
\* the capture is never complete again.
GiveUp(n) ==
    /\ log' = SubSeq(log, 1, n)
    /\ acks' = acks
    /\ stage' = "broken"

\* An incident that loses no audio.
Doubt == stage # "broken" /\ stage' = "incomplete" /\ UNCHANGED <<log, acks>>

\* The recording is verified from end to end.
Seal ==
    /\ stage \in {"open", "incomplete"}
    /\ stage' = "complete"
    /\ UNCHANGED <<log, acks>>

Next ==
    \/ \E pcm \in Payloads : Record(pcm)
    \/ \E n \in 0..Len(log) : GiveUp(n)
    \/ Doubt
    \/ Seal

Spec == Init /\ [][Next]_vars
================================================================================
