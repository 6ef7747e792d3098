------------------------- MODULE MCDurableAudioArchive -------------------------
(***************************************************************************)
(* Constants for model checking DurableAudioArchive: two sample values and *)
(* segments of two samples, so that one append can fill a segment, open    *)
(* the next, or do both.                                                   *)
(***************************************************************************)
EXTENDS DurableAudioArchive

CONSTANTS s1, s2

MCSamples == {s1, s2}
MCPayloads == {<<s1>>, <<s2, s1>>}
================================================================================
