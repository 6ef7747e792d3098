----------------------------- MODULE SpeechSession -----------------------------
(***************************************************************************)
(* What one session of the speech worker makes of the samples it is sent   *)
(* (speech_worker/session.py).  The voice activity detector is a neural    *)
(* model; what matters here is that it follows the sound: an utterance     *)
(* begins where a run of voiced samples begins for this session, ends at   *)
(* silence or at the detector's cap, and its start is reported some samples *)
(* late (the session keeps a pre-roll for that reason).  A session that is *)
(* opened in the middle of a run hears only the rest of it.                *)
(*                                                                         *)
(* A recording is the set of its voiced sample positions, an utterance the *)
(* pair of positions <<from, to>> of the half-open range it covers.  Empty *)
(* transcripts, previews and the transcript texts are left out.            *)
(***************************************************************************)
EXTENDS Integers

CONSTANTS
    MaxUtterance,   \* the detector's cap on one utterance (5 s)
    PreRoll,        \* pre_roll_ms: how far before a start a replay has to begin
    StartLag        \* samples a start may still be unreported after it was sent

ASSUME WorkerAssumption ==
    MaxUtterance \in Nat \ {0} /\ PreRoll \in Nat /\ StartLag \in Nat

LeastOf(S) == CHOOSE m \in S : \A n \in S : m <= n

\* The voiced run that ends with sample s begins here for a session from base.
RunStart(voice, base, s) == LeastOf({r \in base..s : r..s \subseteq voice})

\* Where utterances begin in the samples [base, pos).
Starts(voice, base, pos) ==
    {s \in base..(pos - 1) :
        s \in voice /\ (s - RunStart(voice, base, s)) % MaxUtterance = 0}

EndOf(voice, s) ==
    LeastOf({t \in s..(s + MaxUtterance) : t \notin voice \/ t = s + MaxUtterance})

Reported(s, pos) == pos > s + StartLag

\* The end is known once a silent sample follows, or with the capped sample.
Ended(voice, s, pos) ==
    LET e == EndOf(voice, s) IN pos > e \/ (pos = e /\ e = s + MaxUtterance)

Done(voice, s, pos) == Reported(s, pos) /\ Ended(voice, s, pos)

\* push_pcm: the ASR_FINAL events of a session from base that grows from p to q.
Finals(voice, base, p, q) ==
    LET new == {s \in Starts(voice, base, q) : Done(voice, s, q) /\ ~Done(voice, s, p)}
    IN {<<u, EndOf(voice, u)>> : u \in new}

\* VAD_START events of the same push.
NewStarts(voice, base, p, q) ==
    {s \in Starts(voice, base, q) : Reported(s, q) /\ ~Reported(s, p)}

\* The utterance the session is in the middle of after the push, if any.
Open(voice, base, q) ==
    {s \in Starts(voice, base, q) : Reported(s, q) /\ ~Ended(voice, s, q)}

\* finalize: everything the detector still holds is forced out.
Flush(voice, base, q) ==
    LET held == {s \in Starts(voice, base, q) : ~Done(voice, s, q)}
    IN {<<u, LeastOf({EndOf(voice, u), q})>> : u \in held}

\* VAD_START details: the position a replay of an open utterance begins at.
ReplayStart(s) == IF s > PreRoll THEN s - PreRoll ELSE 0
================================================================================
