-------------------------------- MODULE AIWorker --------------------------------
(***************************************************************************)
(* The supervisor of the model processes: one child process per kind of    *)
(* model, started by the first call that needs it, and one pipe to it.     *)
(* Calls of a kind take turns (the request lock); starting, stopping and   *)
(* cancelling are serialised by the lifecycle lock; making room in memory  *)
(* by the resource lock.  A call is not held to any of these locks while   *)
(* it waits for another.  Messages carry no request number: an answer is   *)
(* whatever comes out of the pipe next.                                    *)
(***************************************************************************)
EXTENDS Integers, Sequences, FiniteSets, FiniteSetsExt, SequencesExt

CONSTANTS
    Kinds,          \* the kinds of model: llm, asr, ocr
    Memory,         \* what a process of each kind is taken to need
    Budget,         \* what they may need together (AI_MEMORY_BUDGET_MB)
    Calls,          \* the calls of the program, each made once, sooner or later
    KindOf,         \* the kind of model a call needs
    Streams,        \* the calls that are answered in chunks
    Chunks,         \* in how many
    MaxTroubles,    \* bound: cancellations and crashes
    NoCall

ASSUME AIWorkerAssumption ==
    /\ Memory \in [Kinds -> Nat] /\ Budget \in Nat
    /\ KindOf \in [Calls -> Kinds] /\ Streams \subseteq Calls
    /\ Chunks \in Nat /\ MaxTroubles \in Nat /\ NoCall \notin Calls

VARIABLES
    worker,     \* of each kind: its process, the parent's end of the pipe, the state that is
                \* shown, the number of cancellations, the requests in the pipe, the chunks
                \* sent for the first of them, the messages in the pipe, and whether a stream
                \* was left unread on it (history)
    holder,     \* the call that holds the request lock of a kind
    room,       \* the call that holds the resource lock, the processes it may stop, and those
                \* it takes to be in memory
    call,       \* of each call: where it is, whether it starts the process again, the number of cancellations it saw first, whose
                \* chunks or results it was given, how it ended, whether it was cancelled once
                \* it had been sent, and whether its pipe was unread before (both history)
    troubles    \* how many cancellations and crashes there were
aiVars == <<worker, holder, room, call, troubles>>

At == {"prepare", "room", "queue", "start", "loading", "started", "bind", "send",
       "wait", "yielded", "ended"}
Outcome == {"none", "ok", "error", "busy", "timeout", "cancelled", "crashed", "abandoned"}
Message == [type : {"chunk", "done", "result", "error"}, of : Calls]

Stopped == [child |-> "none", open |-> FALSE, state |-> "STOPPED", epoch |-> 0,
            asked |-> <<>>, sent |-> 0, out |-> <<>>, unread |-> FALSE]

NoRoom == [for |-> NoCall, idle |-> {}, running |-> {}]

Init ==
    /\ worker = [k \in Kinds |-> Stopped]
    /\ holder = [k \in Kinds |-> NoCall]
    /\ room = NoRoom
    /\ call = [c \in Calls |-> [at |-> "prepare", again |-> FALSE, seen |-> 0, got |-> <<>>, outcome |-> "none",
                                hit |-> FALSE, unread |-> FALSE]]
    /\ troubles = 0

Alive(k) == worker[k].child # "none"
Halted(w) == [Stopped EXCEPT !.epoch = w.epoch]
\* start() holds the lifecycle lock until the child has answered
Starting(k) == holder[k] # NoCall /\ call[holder[k]].at = "loading"
Need(kinds) == MapThenSumSet(LAMBDA k : Memory[k], kinds)

Goto(c, at) == call' = [call EXCEPT ![c].at = at]
Ends(c, outcome) == [call EXCEPT ![c].at = "ended", ![c].outcome = outcome]
--------------------------------------------------------------------------------
(* Making room *)

\* A call for a process that runs already, or for which there is room, goes on;
\* nothing keeps the room it found.
Prepare(c) ==
    /\ call[c].at = "prepare" /\ room.for = NoCall
    /\ LET running == {k \in Kinds \ {KindOf[c]} : Alive(k)}
       IN  IF Alive(KindOf[c]) \/ Budget = 0 \/ Need(running \cup {KindOf[c]}) <= Budget
             THEN /\ Goto(c, "queue")
                  /\ UNCHANGED room
             ELSE /\ Goto(c, "room")
                  /\ room' = [for |-> c, running |-> running,
                              idle |-> {k \in running : worker[k].state # "BUSY"}]
    /\ UNCHANGED <<worker, holder, troubles>>

\* What was idle when it was looked at is stopped, whatever it does by now.
Evict(c, k) ==
    /\ room.for = c /\ k \in room.idle /\ ~Starting(k)
    /\ worker' = [worker EXCEPT ![k] = Halted(@)]
    /\ LET left == room.running \ {k}
       IN  IF Need(left \cup {KindOf[c]}) <= Budget
             THEN /\ Goto(c, "queue")
                  /\ room' = NoRoom
             ELSE /\ room' = [room EXCEPT !.idle = @ \ {k}, !.running = left]
                  /\ UNCHANGED call
    /\ UNCHANGED <<holder, troubles>>

ResourceBusyMutant(c) ==                                    \* the resource lock is kept
    /\ room.for = c /\ room.idle = {}
    /\ call' = Ends(c, "busy")
    /\ UNCHANGED <<worker, holder, room, troubles>>

ResourceBusy(c) ==
    /\ room.for = c /\ room.idle = {}
    /\ call' = Ends(c, "busy")
    /\ room' = NoRoom
    /\ UNCHANGED <<worker, holder, troubles>>
--------------------------------------------------------------------------------
(* Starting the process *)

Take(c) ==
    /\ call[c].at = "queue" /\ holder[KindOf[c]] = NoCall
    /\ holder' = [holder EXCEPT ![KindOf[c]] = c]
    /\ Goto(c, "start")
    /\ UNCHANGED <<worker, room, troubles>>

AfterStart(c) == IF call[c].again THEN "bind" ELSE "started"

Start(c) ==
    /\ call[c].at = "start"
    /\ IF Alive(KindOf[c])
         THEN /\ Goto(c, AfterStart(c))
              /\ UNCHANGED worker
         ELSE /\ Goto(c, "loading")
              /\ worker' = [worker EXCEPT ![KindOf[c]] =
                     [Halted(@) EXCEPT !.child = "loading", !.open = TRUE, !.state = "LOADING"]]
    /\ UNCHANGED <<holder, room, troubles>>

\* Before the request is sent an error leaves the process as it is.
Fails(c, w, outcome) ==
    /\ call' = Ends(c, outcome)
    /\ worker' = [worker EXCEPT ![KindOf[c]] = w]
    /\ holder' = [holder EXCEPT ![KindOf[c]] = NoCall]

Loaded(c) ==
    LET k == KindOf[c]
    IN  /\ call[c].at = "loading"
        /\ \/ /\ Alive(k)
              /\ worker' = [worker EXCEPT ![k].child = "serving", ![k].state = "READY"]
              /\ Goto(c, AfterStart(c))
              /\ UNCHANGED holder
           \/ /\ Alive(k)                               \* startup_error: the child leaves
              /\ Fails(c, [worker[k] EXCEPT !.child = "leaving", !.state = "ERROR"], "error")
           \/ /\ ~Alive(k)
              /\ Fails(c, [worker[k] EXCEPT !.state = "ERROR"], "crashed")
           \/ Fails(c, [Halted(worker[k]) EXCEPT !.state = "ERROR"], "timeout")
        /\ UNCHANGED <<room, troubles>>

\* A process that was stopped or has left since is started once more, unless it broke.
Ensure(c) ==
    LET k == KindOf[c]
    IN  /\ call[c].at = "started"
        /\ CASE Alive(k) ->
                  /\ Goto(c, "bind")
                  /\ UNCHANGED <<worker, holder>>
             [] ~Alive(k) /\ worker[k].state = "ERROR" -> Fails(c, worker[k], "crashed")
             [] OTHER ->
                  /\ call' = [call EXCEPT ![c].at = "start", ![c].again = TRUE]
                  /\ UNCHANGED <<worker, holder>>
        /\ UNCHANGED <<room, troubles>>
--------------------------------------------------------------------------------
(* One exchange *)

\* The parent's end of the pipe is read here, and may be closed before it is used.
Bind(c) ==
    LET k == KindOf[c]
    IN  /\ call[c].at = "bind"
        /\ IF worker[k].open
             THEN /\ Goto(c, "send")
                  /\ UNCHANGED <<worker, holder>>
             ELSE Fails(c, worker[k], "crashed")
        /\ UNCHANGED <<room, troubles>>

\* The finally clause: the process is ready for the next call if it still is the
\* one this call was sent to.
Leaves(c, w, outcome) ==
    Fails(c, IF w.child # "none" /\ w.epoch = call[c].seen
               THEN [w EXCEPT !.state = "READY"] ELSE w, outcome)

Send(c) ==
    LET k == KindOf[c]
    IN  /\ call[c].at = "send"
        /\ IF worker[k].open
             THEN /\ worker' = [worker EXCEPT ![k].state = "BUSY",
                                              ![k].asked = Append(@, c)]
                  /\ call' = [call EXCEPT ![c].at = "wait", ![c].seen = worker[k].epoch,
                                          ![c].unread = worker[k].unread]
                  /\ UNCHANGED holder
             ELSE Fails(c, Halted(worker[k]), "crashed")
        /\ UNCHANGED <<room, troubles>>

Receive(c) ==
    LET k == KindOf[c]  m == Head(worker[k].out)
        w == [worker[k] EXCEPT !.out = Tail(@)]
    IN  /\ call[c].at = "wait" /\ worker[k].open /\ worker[k].out # <<>>
        /\ CASE m.type = "error" -> Leaves(c, w, "error")
             [] m.type = "chunk" /\ c \in Streams ->
                  /\ worker' = [worker EXCEPT ![k] = w]
                  /\ call' = [call EXCEPT ![c].at = "yielded", ![c].got = Append(@, m.of)]
                  /\ UNCHANGED holder
             [] m.type = "done" /\ c \in Streams -> Leaves(c, w, "ok")
             [] m.type = "result" /\ c \notin Streams ->
                  /\ worker' = [worker EXCEPT ![k] =
                         IF Alive(k) /\ w.epoch = call[c].seen
                           THEN [w EXCEPT !.state = "READY"] ELSE w]
                  /\ call' = [Ends(c, "ok") EXCEPT ![c].got = Append(@, m.of)]
                  /\ holder' = [holder EXCEPT ![k] = NoCall]
             [] OTHER -> Leaves(c, w, "crashed")        \* Unexpected IPC response
        /\ UNCHANGED <<room, troubles>>

BrokenMutant(c) ==                                          \* the cancellations are not compared
    LET k == KindOf[c]
    IN  /\ call[c].at = "wait"
        /\ ~worker[k].open \/ (~Alive(k) /\ worker[k].out = <<>>)
        /\ Leaves(c, Halted(worker[k]), "crashed")
        /\ UNCHANGED <<room, troubles>>

\* The pipe is closed at one end: by a cancellation, or as the process is gone.
Broken(c) ==
    LET k == KindOf[c]
    IN  /\ call[c].at = "wait"
        /\ ~worker[k].open \/ (~Alive(k) /\ worker[k].out = <<>>)
        /\ IF worker[k].epoch # call[c].seen
             THEN Leaves(c, worker[k], "cancelled")
             ELSE Leaves(c, Halted(worker[k]), "crashed")
        /\ UNCHANGED <<room, troubles>>

TimesOutMutant(c) ==                                        \* the process is kept
    LET k == KindOf[c]
    IN  /\ call[c].at = "wait"
        /\ c \in Streams \/ (worker[k].open /\ worker[k].out = <<>>)
        /\ Leaves(c, worker[k], "timeout")
        /\ UNCHANGED <<room, troubles>>

\* A stream has one deadline for all of its chunks, so it may pass over one that is there.
TimesOut(c) ==
    LET k == KindOf[c]
    IN  /\ call[c].at = "wait"
        /\ c \in Streams \/ (worker[k].open /\ worker[k].out = <<>>)
        /\ Leaves(c, Halted(worker[k]), "timeout")
        /\ UNCHANGED <<room, troubles>>

\* The consumer of a stream asks for the next chunk, or closes the generator: the
\* rest of the stream stays in the pipe.
NextChunk(c) ==
    /\ call[c].at = "yielded"
    /\ Goto(c, "wait")
    /\ UNCHANGED <<worker, holder, room, troubles>>

Abandon(c) ==
    LET k == KindOf[c]
    IN  /\ call[c].at = "yielded"
        /\ Leaves(c, [worker[k] EXCEPT !.unread = Alive(k)], "abandoned")
        /\ UNCHANGED <<room, troubles>>
--------------------------------------------------------------------------------
(* The child process *)

Answer(k) ==
    LET w == worker[k]  c == Head(w.asked)
        Says(type) == [w EXCEPT !.out = Append(@, [type |-> type, of |-> c])]
        Over(type) == [Says(type) EXCEPT !.asked = Tail(@), !.sent = 0]
    IN  /\ w.child = "serving" /\ w.asked # <<>>
        /\ \/ /\ c \notin Streams
              /\ worker' = [worker EXCEPT ![k] = Over("result")]
           \/ /\ c \in Streams /\ w.sent < Chunks
              /\ worker' = [worker EXCEPT ![k] = [Says("chunk") EXCEPT !.sent = @ + 1]]
           \/ /\ c \in Streams /\ w.sent = Chunks
              /\ worker' = [worker EXCEPT ![k] = Over("done")]
           \/ worker' = [worker EXCEPT ![k] = Over("error")]
    /\ UNCHANGED <<holder, room, call, troubles>>

Exit(k) ==
    /\ Alive(k)
    /\ IF worker[k].child = "leaving" THEN UNCHANGED troubles
         ELSE troubles < MaxTroubles /\ troubles' = troubles + 1
    /\ worker' = [worker EXCEPT ![k].child = "none", ![k].asked = <<>>]
    /\ UNCHANGED <<holder, room, call>>

Cancel(k) ==
    LET h == holder[k]
    IN  /\ troubles < MaxTroubles /\ ~Starting(k)
        /\ troubles' = troubles + 1
        /\ worker' = [worker EXCEPT ![k] = [Halted(@) EXCEPT !.epoch = worker[k].epoch + 1]]
        /\ call' = IF h # NoCall /\ call[h].at \in {"wait", "yielded"}
                     THEN [call EXCEPT ![h].hit = TRUE] ELSE call
        /\ UNCHANGED <<holder, room>>

Call(c) == \/ Prepare(c) \/ (\E k \in Kinds : Evict(c, k)) \/ ResourceBusy(c)
           \/ Take(c) \/ Start(c) \/ Loaded(c) \/ Ensure(c) \/ Bind(c) \/ Send(c)
           \/ Receive(c) \/ Broken(c) \/ TimesOut(c)
Consumer(c) == NextChunk(c) \/ Abandon(c)

Next ==
    \/ \E c \in Calls : Call(c) \/ Consumer(c)
    \/ \E k \in Kinds : Answer(k) \/ Exit(k) \/ Cancel(k)

\* A waiting call ends at its deadline whatever the child does.  That the consumer of
\* a stream goes on is not the supervisor's doing: a client that stops reading keeps
\* the request lock.
Fairness == \A c \in Calls : WF_aiVars(Call(c)) /\ WF_aiVars(Consumer(c))
Spec == Init /\ [][Next]_aiVars /\ Fairness
--------------------------------------------------------------------------------
(* Properties *)

Expected(c) == IF c \in Streams THEN Chunks ELSE 1
Own(c) == call[c].outcome = "ok" => call[c].got = [i \in 1..Expected(c) |-> c]

(* What the variables range over; and the calls that take turns on a pipe stay in step   *)
(* with it (supervisor.py:242-287): unless a stream was left unread on it, a pipe holds  *)
(* nothing but the exchange of the call that holds the lock, and a call that succeeds    *)
(* has got its own answer and all of it, after any crashes, timeouts, cancellations and  *)
(* evictions of the calls before.                                                        *)
InStep ==
    /\ \A k \in Kinds :
       /\ worker[k].child \in {"none", "loading", "serving", "leaving"}
       /\ worker[k].state \in {"STOPPED", "LOADING", "READY", "BUSY", "ERROR"}
       /\ holder[k] \in {c \in Calls : KindOf[c] = k} \cup {NoCall}
       /\ ToSet(worker[k].out) \subseteq Message
       /\ ~worker[k].unread /\ worker[k].child = "serving" =>
             /\ \A m \in ToSet(worker[k].out) : m.of = holder[k]
             /\ ToSet(worker[k].asked) \subseteq {holder[k]}
    /\ \A c \in Calls :
       /\ call[c].at \in At /\ call[c].outcome \in Outcome
       /\ ~call[c].unread => Own(c)

(* A call that is cancelled after it was sent never succeeds and is never reported as a  *)
(* crash, even when an eviction or the end of the process comes in between, and nobody   *)
(* is told of a cancellation that was not for this call (supervisor.py:227, 255, 281).   *)
CancelIsTold ==
    \A c \in Calls : call[c].at = "ended" =>
        /\ call[c].hit => call[c].outcome \in {"cancelled", "timeout", "abandoned"}
        /\ call[c].outcome = "cancelled" => call[c].hit

(* Every call ends, whatever other calls, crashes, cancellations and evictions do, as    *)
(* long as those who are given a stream read on or close it: no call waits for ever for  *)
(* a lock or for an answer (supervisor.py:199-212, 250, 273).                            *)
CallsEnd == \A c \in Calls : <>(call[c].at = "ended")
================================================================================
