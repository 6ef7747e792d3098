------------------------------ MODULE MCAIWorker ------------------------------
(* A stream and two requests; the two kinds do not fit into memory together *)
EXTENDS AIWorker
MCMemory == [k \in Kinds |-> 1]
MCKindOf == [c \in Calls |-> IF c = "ocr1" THEN "ocr" ELSE "llm"]
================================================================================
