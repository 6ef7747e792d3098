---------------------------- MODULE RecordRequests ----------------------------
(***************************************************************************)
(* The requests of the officers that change the record, and its            *)
(* finalization: edits and confirmations of fragments (app/api/asr.py),    *)
(* manual decisions on QA units (formal_record_routing_service.py), the    *)
(* stages of the session (session_service.py), freezing and signing        *)
(* (document_finalization_service.py, document_service.py).                *)
(*                                                                         *)
(* A request that begins with BEGIN IMMEDIATE is one step.  The others     *)
(* check the rows in one step and write them in the next, with what they   *)
(* saw; at most one of them is under way at a time.                        *)
(***************************************************************************)
EXTENDS QARouting

VARIABLES
    request,    \* the request between its check and its write
    final,      \* how far document_finalization_service.finalize is
    asked,      \* has the one request of the scenario come?
    captures,   \* history: captures begun
    awaited,    \* history: captures begun when finalization last found all processed
    signatures  \* roles that signed the frozen snapshot

requestVars == <<request, final, asked, captures, awaited, signatures>>

\* mutable: was the record not yet frozen when the request checked?
NoRequest == [op |-> "none", row |-> 0, arg |-> "", saw |-> <<>>, mutable |-> TRUE]

RequestsInit ==
    /\ request = NoRequest /\ final = "idle"
    /\ asked = FALSE /\ captures = 0 /\ awaited = 0 /\ signatures = {}

RequestsOK ==
    /\ request.op \in {"none", "edit", "tell", "discard", "resolve", "rollback", "stage"}
    /\ final \in {"idle", "wait", "drain", "check"}
    /\ asked \in BOOLEAN
    /\ captures \in 0..scenario.captures /\ awaited \in 0..captures
    /\ signatures \subseteq {"SUSPECT", "OFFICER"}

\* StateMachine._allowed, from the stage where questioning has begun
Allowed(from) ==
    CASE from = "QUESTIONING" -> {"PAUSED", "SUMMARY"}
      [] from = "PAUSED"      -> {"QUESTIONING", "SUMMARY"}
      [] from = "SUMMARY"     -> {"FROZEN"}
      [] from = "FROZEN"      -> {"SIGNED"}
      [] from = "SIGNED"      -> {"REPORT_GENERATED"}
      [] OTHER                -> {}
--------------------------------------------------------------------------------
(* Requests that check and write in separate steps *)

Begin(op, row, arg, saw) ==
    /\ request = NoRequest
    /\ request' = [op |-> op, row |-> row, arg |-> arg, saw |-> saw, mutable |-> ~Frozen]
    /\ op \in scenario.ops /\ ~asked /\ asked' = TRUE
    /\ UNCHANGED <<tables, qaVars, final, captures, awaited, signatures>>

BeginEdit(f, role) ==
    /\ ~Frozen /\ frags[f].state \in {"PENDING", "EDITED"}
    /\ Begin("edit", f, role, frags[f])
BeginDiscard(f) ==
    /\ ~Frozen /\ frags[f].state \in {"PENDING", "EDITED"}
    /\ Begin("discard", f, "", frags[f])
BeginResolve(u, outcome) ==
    /\ ~Frozen /\ units[u].status = "NEEDS_REVIEW"
    /\ Begin("resolve", u, outcome, units[u])
BeginRollback(u) ==
    /\ ~Frozen /\ units[u].status = "APPLIED"
    /\ Begin("rollback", u, "", units[u])
\* Mutant: the state machine is not asked.
BeginStageMutant(to) ==
    /\ to \notin {"FROZEN", "SIGNED"}
    /\ Begin("stage", 0, to, <<workflow>>)
\* pause, resume, finish; mark_report_generated
BeginStage(to) ==
    /\ to \in Allowed(workflow) /\ to \notin {"FROZEN", "SIGNED"}
    /\ Begin("stage", 0, to, <<workflow>>)

\* The write is of the row as it is now, in the columns the request changed.
Done(stale) ==
    /\ request' = NoRequest
    /\ overtaken' = (overtaken \/ stale \/ (request.mutable /\ Frozen))

\* update_fragment; the sink is told of a fragment that was UNKNOWN, afterwards
CommitEdit ==
    LET f == request.row
        saw == request.saw
        state == IF saw.state = "EDITED" THEN frags[f].state ELSE "EDITED"
        role == IF saw.speaker = request.arg THEN frags[f].speaker ELSE request.arg
    IN
    /\ request.op = "edit"
    /\ frags' = [frags EXCEPT ![f].state = state, ![f].speaker = role]
    /\ LET stale == saw # [frags[f] EXCEPT !.job = saw.job]
       IN overtaken' = (overtaken \/ stale \/ (request.mutable /\ Frozen))
    /\ request' = IF saw.speaker = "UNKNOWN" /\ request.arg # "UNKNOWN"
                  THEN [NoRequest EXCEPT !.op = "tell", !.row = f] ELSE NoRequest
    /\ UNCHANGED <<scenario, units, rounds, capture, workflow, qaVars, final, asked, captures, awaited, signatures>>
TellEdit ==
    /\ request.op = "tell"
    /\ Notify(<<request.row>>)
    /\ request' = NoRequest
    /\ UNCHANGED <<tables, flush, startup, drain, qa, final, asked, captures, awaited, signatures>>

CommitDiscard ==
    /\ request.op = "discard"
    /\ frags' = [frags EXCEPT ![request.row].state = "DISCARDED"]
    /\ Done(frags[request.row].state # request.saw.state)
    /\ UNCHANGED <<scenario, units, rounds, capture, workflow, qaVars, final, asked, captures, awaited, signatures>>

\* resolve_manual: the answer archived is the one the request read
CommitResolve ==
    LET u == request.row IN
    /\ request.op = "resolve"
    /\ IF request.arg = "APPLIED" THEN File(u, request.saw.answer)
       ELSE units' = [units EXCEPT ![u].status = "IGNORED"] /\ UNCHANGED rounds
    /\ Done(units[u] # request.saw)
    /\ UNCHANGED <<scenario, frags, capture, workflow, qaVars, final, asked, captures, awaited, signatures>>

\* rollback_qa_unit: the round found for the unit is DETACHED
CommitRollback ==
    LET u == request.row
        ofUnit == {r \in DOMAIN rounds : rounds[r].unit = u}
    IN
    /\ request.op = "rollback"
    /\ rounds' = [rounds EXCEPT ![Max(ofUnit)].live = FALSE]
    /\ units' = [units EXCEPT ![u].status = "ROLLED_BACK"]
    /\ Done(units[u] # request.saw)
    /\ UNCHANGED <<scenario, frags, capture, workflow, qaVars, final, asked, captures, awaited, signatures>>

CommitStage ==
    /\ request.op = "stage"
    /\ workflow' = request.arg
    /\ Done(request.saw # <<workflow>>)
    /\ UNCHANGED <<scenario, frags, units, rounds, capture, qaVars, final, asked, captures, awaited, signatures>>

\* The write fails: the database stays locked, or a constraint refuses the row.
CommitFails ==
    /\ request.op \notin {"none", "tell"}
    /\ request' = NoRequest
    /\ UNCHANGED <<tables, qaVars, final, asked, captures, awaited, signatures>>

Commit == CommitFails \/ CommitEdit \/ TellEdit \/ CommitDiscard \/ CommitResolve \/ CommitRollback \/ CommitStage
--------------------------------------------------------------------------------
(* Requests that hold the write lock from their first read *)

\* _confirm_one: MessageService.create wants a session that is RUNNING
Confirm(f) ==
    /\ workflow = "QUESTIONING"
    /\ frags[f].state \in {"PENDING", "EDITED"} /\ frags[f].speaker \in Roles
    /\ frags' = [frags EXCEPT ![f].state = "CONFIRMED"]
    /\ UNCHANGED <<scenario, units, rounds, capture, workflow, overtaken, qaVars, requestVars>>

\* DocumentService.sign
Sign(role) ==
    /\ workflow = "FROZEN" /\ role \notin signatures
    /\ signatures' = signatures \cup {role}
    /\ workflow' = IF signatures' = {"SUSPECT", "OFFICER"} THEN "SIGNED" ELSE workflow
    /\ UNCHANGED <<scenario, frags, units, rounds, capture, overtaken, qaVars, request, final, asked, captures, awaited>>
--------------------------------------------------------------------------------
(* finalize *)

\* It stops the capture and waits.
BeginFinal ==
    /\ scenario.final /\ final = "idle" /\ ~Frozen
    /\ final' = "wait"
    /\ capture' = IF capture = "CAPTURING" THEN "FINALIZING" ELSE capture
    /\ UNCHANGED <<scenario, frags, units, rounds, workflow, overtaken, qaVars, request, asked, captures, awaited, signatures>>

WaitedEarlyMutant(settled) ==
    /\ final = "wait" /\ Len(notices) < QueueSize
    /\ final' = "drain" /\ drain' = "waiting"
    /\ notices' = Append(notices, [kind |-> "drain", frag |-> 0])
    /\ awaited' = captures
    /\ UNCHANGED <<tables, marker, flush, startup, qa, request, asked, captures, signatures>>

\* wait_for_session_processing returns, and drain_capture puts its marker.
Waited(settled) ==
    /\ final = "wait" /\ settled /\ Len(notices) < QueueSize
    /\ final' = "drain" /\ drain' = "waiting"
    /\ notices' = Append(notices, [kind |-> "drain", frag |-> 0])
    /\ awaited' = captures
    /\ UNCHANGED <<tables, marker, flush, startup, qa, request, asked, captures, signatures>>

Drained ==
    /\ final = "drain" /\ drain = "done"
    /\ final' = "check" /\ drain' = "none"
    /\ UNCHANGED <<tables, notices, marker, flush, startup, qa, request, asked, captures, awaited, signatures>>

\* A timeout, or a drain that failed: 503 or 504 and nothing is frozen.  A
\* marker that is still queued, or being worked on, completes for nobody.
GiveUp ==
    /\ final \in {"wait", "drain"}
    /\ final' = "idle" /\ drain' = "none"
    /\ notices' = [i \in DOMAIN notices |->
                     IF notices[i].kind = "drain" THEN [notices[i] EXCEPT !.kind = "abandoned"]
                                                  ELSE notices[i]]
    /\ qa' = IF qa.job = "drain" THEN [qa EXCEPT !.job = "abandoned"]
             ELSE IF qa.job = "drained" THEN [qa EXCEPT !.job = "idle"] ELSE qa
    /\ UNCHANGED <<tables, marker, flush, startup, request, asked, captures, awaited, signatures>>

\* What the checks under BEGIN IMMEDIATE ask of the rows
Recorded == capture \in {"NONE", "FINALIZING", "ENDING", "COMPLETE"}
Reviewed == \A f \in DOMAIN frags : frags[f].state \in {"DISCARDED", "SUPERSEDED", "CONFIRMED"}
Decided == \A u \in DOMAIN units : units[u].status \in {"APPLIED", "IGNORED", "ROLLED_BACK"}

Freeze ==
    /\ final = "check" /\ Recorded /\ Reviewed /\ Decided
    /\ workflow \in {"QUESTIONING", "PAUSED", "SUMMARY"}
    /\ workflow' = "FROZEN" /\ final' = "idle"
    /\ UNCHANGED <<scenario, frags, units, rounds, capture, overtaken, qaVars, request, asked, captures, awaited, signatures>>

Refuse ==
    /\ final = "check" /\ ~(Recorded /\ Reviewed /\ Decided)
    /\ final' = "idle"
    /\ UNCHANGED <<tables, qaVars, request, asked, captures, awaited, signatures>>

Requests ==
    \/ \E f \in DOMAIN frags :
        \/ BeginDiscard(f) \/ Confirm(f)
        \/ \E role \in Roles \cup {"UNKNOWN"} : BeginEdit(f, role)
    \/ \E u \in DOMAIN units :
        \/ BeginRollback(u)
        \/ \E outcome \in {"APPLIED", "IGNORED"} : BeginResolve(u, outcome)
    \/ \E to \in {"QUESTIONING", "PAUSED", "SUMMARY", "REPORT_GENERATED"} : BeginStage(to)
    \/ \E role \in {"SUSPECT", "OFFICER"} : Sign(role)
    \/ Commit
    \/ BeginFinal \/ Drained \/ GiveUp \/ Freeze \/ Refuse

RestartRequests == request' = NoRequest /\ final' = "idle"
================================================================================
