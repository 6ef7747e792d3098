------------------------------- MODULE QARouting -------------------------------
(***************************************************************************)
(* The one thread that builds question-and-answer units from fragments and *)
(* files them in the formal record (app/services/qa_routing_coordinator.py *)
(* with qa_unit_builder.py and formal_record_routing_service.py).          *)
(*                                                                         *)
(* Its in-memory queue may overflow and dies with the process; a marker,   *)
(* scans of the fragments table and the start-up recovery make up for it.  *)
(* An iteration of the loop does several jobs in turn; here the thread     *)
(* takes any job there is between two others, which allows every order the *)
(* loop can produce.                                                       *)
(***************************************************************************)
EXTENDS RecordTables, SequencesExt

CONSTANT QueueSize      \* queue_size

ASSUME QueueAssumption == QueueSize \in Nat \ {0}

VARIABLES
    notices,    \* _queue
    marker,     \* _recovery_markers: was a notice dropped?
    flush,      \* _pending_flushes: is the session's flush wanted?
    startup,    \* the two recoveries of _run still to do
    drain,      \* the _DrainRequest a finalization waits for
    qa          \* what the thread has in hand

qaVars == <<notices, marker, flush, startup, drain, qa>>

Free == [job |-> "none", stage |-> "free", batch |-> <<>>, saw |-> <<>>, todo |-> {}]

RoutingInit ==
    /\ notices = <<>> /\ marker = FALSE /\ flush = FALSE
    /\ startup = "done" /\ drain = "none" /\ qa = Free

RoutingOK ==
    /\ notices \in Seq([kind : {"fragment", "drain", "abandoned"}, frag : 0..MaxFragments])
    /\ Len(notices) <= QueueSize
    /\ marker \in BOOLEAN /\ flush \in BOOLEAN
    /\ startup \in {"routing", "fragments", "done"}
    /\ drain \in {"none", "waiting", "done", "failed"}
    /\ qa.job \in {"none", "routing", "fragments", "marker", "sweep", "notice", "idle",
                   "flush", "flushed", "drain", "drained", "abandoned"}
    /\ qa.stage \in {"free", "write", "route", "apply"}

\* Mutant: what does not fit is dropped without a marker.
NotifyMutant(fs) ==
    LET room == QueueSize - Len(notices)
        told == [i \in 1..Len(fs) |-> [kind |-> "fragment", frag |-> fs[i]]]
    IN notices' = notices \o SubSeq(told, 1, IF Len(fs) < room THEN Len(fs) ELSE room)
       /\ UNCHANGED marker

\* enqueue_fragment, for each of fs: what does not fit sets the marker.
Notify(fs) ==
    LET room == QueueSize - Len(notices)
        told == [i \in 1..Len(fs) |-> [kind |-> "fragment", frag |-> fs[i]]]
    IN /\ notices' = notices \o SubSeq(told, 1, IF Len(fs) < room THEN Len(fs) ELSE room)
       /\ marker' = (marker \/ Len(fs) > room)

\* list_unassigned_for_session: in the order of speech, a turn after what was
\* said before the fragment it replaced.
Position(f) == IF frags[f].parent = 0 THEN f ELSE frags[f].parent
Entries(fs) == SetToSortSeq({[frag |-> f, speaker |-> frags[f].speaker] : f \in fs},
                  LAMBDA e, g : \/ Position(e.frag) < Position(g.frag)
                                \/ Position(e.frag) = Position(g.frag) /\ e.frag < g.frag)

Pending == {u \in DOMAIN units : units[u].status \in {"CLOSED", "ROUTING"}}
--------------------------------------------------------------------------------
(* QAUnitBuilder *)

NewUnit(status, question, answer) ==
    [status |-> status, question |-> question, answer |-> answer, control |-> {}]

OpenIn(us) == {u \in DOMAIN us : us[u].status = "OPEN"}
\* list_recent_unanswered
Unanswered(us) == {u \in DOMAIN us : /\ us[u].question # {} /\ us[u].answer = {}
                                     /\ us[u].status \in {"CLOSED", "ROUTING", "NEEDS_REVIEW"}}

AskedBy(us, f, operational) ==
    LET u == Max(OpenIn(us)) IN
    IF OpenIn(us) = {} THEN Append(us, NewUnit("OPEN", {f}, {}))
    ELSE IF us[u].answer = {} THEN [us EXCEPT ![u].question = @ \cup {f}]
    ELSE IF operational THEN [us EXCEPT ![u].control = @ \cup {f}]
    ELSE Append([us EXCEPT ![u].status = "CLOSED"], NewUnit("OPEN", {f}, {}))

AnsweredBy(us, f, inTime) ==
    IF OpenIn(us) # {} THEN [us EXCEPT ![Max(OpenIn(us))].answer = @ \cup {f}]
    ELSE IF inTime /\ Unanswered(us) # {}
      THEN [us EXCEPT ![Max(Unanswered(us))].answer = {f}, ![Max(Unanswered(us))].status = "OPEN"]
    ELSE Append(us, NewUnit("NEEDS_REVIEW", {}, {f}))

\* consume_fragment; odd says that the officer's words are only operational,
\* or that the suspect's come within the late-answer window.
Consume(us, entry, odd) ==
    IF \E u \in DOMAIN us : entry.frag \in LinkedTo(us[u]) THEN us
    ELSE IF entry.speaker = "OFFICER" THEN AskedBy(us, entry.frag, odd)
    ELSE AnsweredBy(us, entry.frag, odd)

ConsumeAll(us, batch, odds) ==
    FoldLeft(LAMBDA acc, entry : Consume(acc, entry, entry.frag \in odds), us, batch)
--------------------------------------------------------------------------------
(* The thread *)

\* Read the fragments fs, with the units they will be put in.
Read(job, fs) ==
    qa' = [Free EXCEPT !.job = job, !.batch = Entries(fs), !.saw = units, !.stage = "write"]

\* Units to route for a job, the oldest first.  When there is none left the job goes on, or is
\* done: a flush asked for while it ran is forgotten with it.
Proceed(job, todo) ==
    LET more == todo # {} \/ job \in {"flush", "drain", "abandoned", "marker"} IN
    /\ qa' = IF more THEN [Free EXCEPT !.job = job, !.stage = "route", !.todo = todo] ELSE Free
    /\ flush' = (flush /\ (more \/ job # "flushed"))
    /\ drain' = IF drain = "waiting" /\ job = "drained" /\ ~more THEN "done" ELSE drain
    /\ startup' = IF more \/ job # startup THEN startup
                  ELSE IF startup = "routing" THEN "fragments" ELSE "done"

BeginRecovery ==
    /\ qa = Free /\ startup # "done"
    /\ IF startup = "routing" THEN Proceed("routing", Pending)
       ELSE Read("fragments", Eligible) /\ UNCHANGED <<flush, startup, drain>>
    /\ UNCHANGED <<tables, notices, marker>>

\* _write_recovery_markers
BeginMarked ==
    /\ qa = Free /\ marker
    /\ marker' = FALSE
    /\ Read("marker", Eligible)
    /\ UNCHANGED <<tables, notices, flush, startup, drain>>

\* _recover_active_sessions
BeginSweep ==
    /\ qa = Free /\ capture = "CAPTURING" /\ Eligible # {}
    /\ Read("sweep", Eligible)
    /\ UNCHANGED <<tables, notices, marker, flush, startup, drain>>

\* _apply_pending_flushes
BeginFlush ==
    /\ qa = Free /\ flush
    /\ Read("flush", Eligible)
    /\ UNCHANGED <<tables, notices, marker, flush, startup, drain>>

\* _close_idle
CloseIdle ==
    /\ qa = Free
    /\ \E u \in OpenIn(units) :
        /\ units[u].answer # {}
        /\ units' = [units EXCEPT ![u].status = "CLOSED"]
        /\ Proceed("idle", {u})
    /\ UNCHANGED <<scenario, frags, rounds, capture, workflow, overtaken, notices, marker>>

\* An iteration tries what is left of the recovery before it takes a notice; the
\* attempt fails only on the frozen record.
TakeNotice ==
    /\ qa = Free /\ notices # <<>> /\ (startup = "done" \/ Frozen)
    /\ notices' = Tail(notices)
    /\ LET notice == Head(notices) IN
       IF notice.kind = "fragment"
         THEN IF notice.frag \in Eligible THEN Read("notice", {notice.frag}) ELSE UNCHANGED qa
         ELSE Read(notice.kind, Eligible)
    /\ UNCHANGED <<tables, marker, flush, startup, drain>>

\* The transaction that links the fragments read.  Rows it read before it held
\* the lock may have changed; it writes those it wants to change all the same.
WriteUnits ==
    /\ qa.stage = "write"
    /\ \E built \in {ConsumeAll(qa.saw, qa.batch, odds) :
                        odds \in SUBSET {qa.batch[i].frag : i \in DOMAIN qa.batch}} :
        LET old == DOMAIN qa.saw
            ended == {u \in DOMAIN built : /\ built[u].status = "CLOSED"
                                           /\ u \in old => qa.saw[u].status # "CLOSED"}
        IN
        /\ units' = [u \in DOMAIN built |->
                       IF u \in old /\ built[u] = qa.saw[u] THEN units[u] ELSE built[u]]
        /\ overtaken' = \/ overtaken \/ Frozen
                         \/ \E u \in old : built[u] # qa.saw[u] /\ units[u] # qa.saw[u]
        /\ Proceed(qa.job, ended)
    /\ UNCHANGED <<scenario, frags, rounds, capture, workflow, notices, marker>>

\* _route_unit up to the commit of mark_routing; the model is asked after it.
BeginRoute ==
    /\ qa.stage = "route" /\ qa.todo # {}
    /\ LET u == Min(qa.todo) IN
       IF units[u].status \in {"CLOSED", "ROUTING"}
         THEN /\ units' = [units EXCEPT ![u].status = "ROUTING"]
              /\ qa' = [qa EXCEPT !.stage = "apply"]
              /\ UNCHANGED <<flush, startup, drain>>
         ELSE Proceed(qa.job, qa.todo \ {u}) /\ UNCHANGED units
    /\ UNCHANGED <<scenario, frags, rounds, capture, workflow, overtaken, notices, marker>>

\* _apply_existing: a round is created and the unit is APPLIED.  The words asked
\* head one round at most (officer_fragment_id is unique).
File(u, answer) ==
    /\ Len(rounds) < MaxRounds
    /\ units[u].question = {} \/ \A r \in DOMAIN rounds : rounds[r].unit # u
    /\ rounds' = Append(rounds, [unit |-> u, answer |-> answer, live |-> TRUE])
    /\ units' = [units EXCEPT ![u].status = "APPLIED"]

\* apply_auto: a doubtful decision goes to review, and so does an empty answer to
\* a known question; a new question is filed if the model supplies an answer.
ApplyRoute ==
    /\ qa.stage = "apply" /\ ~Frozen
    /\ LET u == Min(qa.todo) IN
       \/ File(u, units[u].answer)
       \/ \E outcome \in {"IGNORED", "NEEDS_REVIEW"} :
              units' = [units EXCEPT ![u].status = outcome] /\ UNCHANGED rounds
    /\ Proceed(qa.job, qa.todo \ {Min(qa.todo)})
    /\ UNCHANGED <<scenario, frags, capture, workflow, overtaken, notices, marker>>

\* flush_session, after the fragments of the session were consumed
CloseActive ==
    /\ qa.stage = "route" /\ qa.todo = {} /\ qa.job \in {"flush", "drain", "abandoned"}
    /\ LET open == OpenIn(units)
           u == Max(open)
           job == CASE qa.job = "drain" -> "drained"
                    [] qa.job = "flush" -> "flushed"
                    [] qa.job = "abandoned" -> "idle"
       IN IF open = {} THEN Proceed(job, {}) /\ UNCHANGED units
          ELSE units' = [units EXCEPT ![u].status = "CLOSED"] /\ Proceed(job, {u})
    /\ UNCHANGED <<scenario, frags, rounds, capture, workflow, overtaken, notices, marker>>

\* _write_recovery_markers goes on with the units that wait to be routed.
AfterMarker ==
    /\ qa.stage = "route" /\ qa.todo = {} /\ qa.job = "marker"
    /\ Proceed("routing", Pending)
    /\ UNCHANGED <<tables, notices, marker>>

\* apply_auto refuses the frozen record, its fallback too: the iteration ends
\* with the unit in ROUTING and what was asked for not done.
RouteRefused ==
    /\ qa.stage = "apply" /\ Frozen
    /\ marker' = (marker \/ qa.job = "marker")
    /\ startup' = IF qa.job = "fragments" THEN "routing" ELSE startup
    /\ drain' = IF qa.job \in {"drain", "drained"} /\ drain = "waiting" THEN "failed" ELSE drain
    /\ qa' = Free
    /\ UNCHANGED <<tables, notices, flush>>

Thread ==
    \/ BeginRecovery \/ BeginMarked \/ BeginSweep \/ BeginFlush \/ CloseIdle \/ TakeNotice
    \/ WriteUnits \/ BeginRoute \/ ApplyRoute \/ CloseActive \/ AfterMarker \/ RouteRefused

\* The restart: what was in memory is gone, both recoveries are due.
RestartRouting ==
    /\ notices' = <<>> /\ marker' = FALSE /\ flush' = FALSE
    /\ startup' = "routing" /\ drain' = "none" /\ qa' = Free
================================================================================
