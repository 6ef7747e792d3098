-------------------------- MODULE MCMossTranscription --------------------------
(* A recording that may have to be split and resumed, and one submitted twice *)
EXTENDS MossTranscription
Window(minutes) == [pieces |-> {1, 2}, minutes |-> minutes, attempt |-> 0]
MCRecordings ==
    {[plan |-> {Window(10)}, jobs |-> 1, troubles |-> 3,
      kinds |-> {"cancel", "resume", "audio", "worker", "application"}],
     [plan |-> {Window(8)}, jobs |-> 2, troubles |-> 1, kinds |-> {"worker"}]}
================================================================================
