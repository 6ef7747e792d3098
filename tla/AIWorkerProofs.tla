----------------------------- MODULE AIWorkerProofs -----------------------------
(***************************************************************************)
(* Proofs about AIWorker: for any kinds of model, any calls and any number *)
(* of crashes and cancellations, the calls stay in step with their pipe,   *)
(* and a cancelled call is told so.                                        *)
(***************************************************************************)
EXTENDS AIWorker, SequenceTheorems, TLAPS

--------------------------------------------------------------------------------
(* The inductive invariant.                                                 *)

Holding == {"start", "loading", "started", "bind", "send", "wait", "yielded"}
Sent == {"wait", "yielded"}

Worker == [child : {"none", "loading", "serving", "leaving"}, open : BOOLEAN,
           state : {"STOPPED", "LOADING", "READY", "BUSY", "ERROR"}, epoch : Nat,
           asked : Seq(Calls), sent : Nat, out : Seq(Message), unread : BOOLEAN]
CallRow == [at : At, again : BOOLEAN, seen : Nat, got : Seq(Calls), outcome : Outcome,
            hit : BOOLEAN, unread : BOOLEAN]

TypeOK ==
    /\ worker \in [Kinds -> Worker]
    /\ holder \in [Kinds -> Calls \cup {NoCall}]
    /\ call \in [Calls -> CallRow]
    /\ room.for \in Calls \cup {NoCall}
    /\ troubles \in Nat

\* A call holds the request lock of its kind from Take to its end; and the resource lock
\* while it makes room.
Locks ==
    /\ \A k \in Kinds : holder[k] # NoCall => KindOf[holder[k]] = k
    /\ \A c \in Calls : call[c].at \in Holding <=> holder[KindOf[c]] = c
    /\ room.for # NoCall => call[room.for].at = "room"

Empty(w) == w.asked = <<>> /\ w.out = <<>> /\ w.sent = 0

Chunk(c) == [type |-> "chunk", of |-> c]

\* What was asked is being answered: so far with chunks.
Under(w, c, r) ==
    /\ w.asked = <<c>> \/ (w.child = "none" /\ w.asked = <<>>)
    /\ \A i \in 1..Len(w.out) : w.out[i] = Chunk(c)
    /\ c \in Streams => w.sent = Len(r.got) + Len(w.out) /\ w.sent <= Chunks
    /\ c \notin Streams => w.sent = 0 /\ Len(r.got) = 0 /\ Len(w.out) = 0

\* It has been answered: the last message is in the pipe.
Over(w, c, r) ==
    /\ w.asked = <<>> /\ w.sent = 0 /\ Len(w.out) > 0
    /\ \A i \in 1..(Len(w.out) - 1) : w.out[i] = Chunk(c)
    /\ w.out[Len(w.out)].of = c /\ w.out[Len(w.out)].type \in {"done", "result", "error"}
    /\ w.out[Len(w.out)].type = "done" => c \in Streams /\ Len(r.got) + (Len(w.out) - 1) = Chunks
    /\ w.out[Len(w.out)].type = "result" => c \notin Streams
    /\ c \notin Streams => Len(r.got) = 0 /\ Len(w.out) = 1

Exchange(w, c, r) ==
    /\ \A i \in 1..Len(r.got) : r.got[i] = c
    /\ Under(w, c, r) \/ Over(w, c, r)

\* The pipe of a kind whose lock is free, and of one whose lock call c holds.
Free(w) ==
    /\ w.child # "none" => w.open
    /\ ~w.open => w.out = <<>>
    /\ w.child # "none" /\ ~w.unread => Empty(w)

Held(w, c, r) ==
    /\ w.child # "none" => w.open
    /\ ~w.open => w.out = <<>>
    /\ r.at = "start" /\ w.child # "none" /\ ~w.unread => Empty(w)
    /\ r.at = "loading" => Empty(w) /\ ~w.unread /\ w.open
    /\ r.at \in {"started", "bind", "send"} /\ w.open /\ ~w.unread => Empty(w)
    /\ r.at \in Sent /\ w.open =>
          w.epoch = r.seen /\ r.unread = w.unread /\ (~w.unread => Exchange(w, c, r))

Pipe(k) == IF holder[k] = NoCall THEN Free(worker[k])
           ELSE Held(worker[k], holder[k], call[holder[k]])

\* What a call r in the table has been told, with its pipe w.
Told(c, r, w) ==
    /\ r.at \in Sent => /\ r.outcome = "none" /\ w.epoch >= r.seen
                        /\ r.hit <=> w.epoch # r.seen
    /\ r.at = "ended" => /\ r.hit => r.outcome \in {"cancelled", "timeout", "abandoned"}
                         /\ r.outcome = "cancelled" => r.hit
                         /\ ~r.unread /\ r.outcome = "ok" => /\ Len(r.got) = Expected(c)
                                                             /\ \A i \in 1..Len(r.got) : r.got[i] = c
    /\ r.at \notin Sent \cup {"ended"} => ~r.hit /\ r.got = <<>> /\ r.outcome = "none"

Inv ==
    /\ TypeOK /\ Locks
    /\ \A k \in Kinds : Pipe(k)
    /\ \A c \in Calls : Told(c, call[c], worker[KindOf[c]])

--------------------------------------------------------------------------------
(* What a step on one pipe has to keep.                                     *)

LEMMA Fields ==
    ASSUME TypeOK, NEW c \in Calls
    PROVE  /\ call[c] \in CallRow /\ KindOf[c] \in Kinds /\ worker[KindOf[c]] \in Worker
           /\ NoCall \notin Calls
  BY AIWorkerAssumption DEF TypeOK

LEMMA HaltedRow ==
    ASSUME NEW w \in Worker
    PROVE  /\ Halted(w) \in Worker
           /\ Halted(w).child = "none" /\ ~Halted(w).open /\ Halted(w).state = "STOPPED"
           /\ Halted(w).epoch = w.epoch /\ Halted(w).asked = <<>> /\ Halted(w).sent = 0
           /\ Halted(w).out = <<>> /\ ~Halted(w).unread
  BY EmptySeq DEF Halted, Stopped, Worker

\* A step of call c, which holds the lock of its kind or takes it or needs none, leaves
\* every other pipe and call alone.
LEMMA CallFrame ==
    ASSUME Inv, NEW c \in Calls, NEW k, k = KindOf[c], NEW w \in Worker, NEW r \in CallRow,
           NEW h \in {c, NoCall},
           worker' = [worker EXCEPT ![k] = w],
           call' = [call EXCEPT ![c] = r],
           holder' = [holder EXCEPT ![k] = h],
           UNCHANGED <<room, troubles>>,
           holder[k] \in {c, NoCall}, call[c].at # "room",
           r.at \in Holding <=> h = c,
           Told(c, r, w),
           h = NoCall => Free(w),
           h = c => Held(w, c, r)
    PROVE  Inv'
<1>0. TypeOK /\ Locks /\ k \in Kinds /\ NoCall \notin Calls
  BY AIWorkerAssumption DEF Inv
<1>1. TypeOK'
  BY <1>0 DEF TypeOK
<1>2. /\ worker'[k] = w /\ call'[c] = r /\ holder'[k] = h
      /\ \A j \in Kinds \ {k} : worker'[j] = worker[j] /\ holder'[j] = holder[j]
      /\ \A d \in Calls \ {c} : call'[d] = call[d]
  BY <1>0 DEF TypeOK
<1>3. \A d \in Calls \ {c} : KindOf[d] = k => call[d].at \notin Holding
  BY <1>0 DEF Locks
<1>4. Locks'
  <2>1. \A j \in Kinds : holder'[j] # NoCall => KindOf[holder'[j]] = j
    BY <1>0, <1>2 DEF Locks
  <2>2. \A d \in Calls : call'[d].at \in Holding <=> holder'[KindOf[d]] = d
    <3>1. ASSUME NEW d \in Calls \ {c}, KindOf[d] = k
          PROVE  call'[d].at \in Holding <=> holder'[KindOf[d]] = d
      BY <1>0, <1>2, <1>3, <3>1
    <3>2. ASSUME NEW d \in Calls \ {c}, KindOf[d] # k
          PROVE  call'[d].at \in Holding <=> holder'[KindOf[d]] = d
      BY <1>0, <1>2, <3>2, AIWorkerAssumption DEF Locks
    <3> QED BY <1>2, <3>1, <3>2
  <2>3. room'.for # NoCall => call'[room'.for].at = "room"
    BY <1>0, <1>2 DEF Locks, TypeOK
  <2> QED BY <2>1, <2>2, <2>3 DEF Locks
<1>5. \A j \in Kinds : Pipe(j)'
  <2>1. Pipe(k)'
    BY <1>0, <1>2 DEF Pipe
  <2>2. ASSUME NEW j \in Kinds \ {k} PROVE Pipe(j)'
    <3>1. Pipe(j)
      BY DEF Inv
    <3>2. holder[j] # NoCall => holder[j] \in Calls \ {c}
      BY <1>0 DEF Locks, TypeOK
    <3> QED BY <1>2, <3>1, <3>2 DEF Pipe
  <2> QED BY <2>1, <2>2
<1>6. \A d \in Calls : Told(d, call[d], worker[KindOf[d]])'
  <2>1. Told(c, call[c], worker[KindOf[c]])'
    BY <1>2
  <2>2. ASSUME NEW d \in Calls \ {c} PROVE Told(d, call[d], worker[KindOf[d]])'
    <3>1. Told(d, call[d], worker[KindOf[d]])
      BY DEF Inv
    <3>2. CASE KindOf[d] = k
      BY <1>2, <1>3, <3>1, <3>2 DEF Told, Holding, Sent
    <3>3. CASE KindOf[d] # k
      BY <1>2, <3>1, <3>3, AIWorkerAssumption
    <3> QED BY <3>2, <3>3
  <2> QED BY <2>1, <2>2
<1> QED BY <1>1, <1>4, <1>5, <1>6 DEF Inv

\* A call ends and gives its lock back.
LEMMA FailsStep ==
    ASSUME Inv, NEW c \in Calls, call[c].at \in Holding, NEW w \in Worker, NEW o \in Outcome,
           Fails(c, w, o), UNCHANGED <<room, troubles>>,
           Free(w),
           call[c].hit => o \in {"cancelled", "timeout", "abandoned"},
           o = "cancelled" => call[c].hit,
           ~call[c].unread /\ o = "ok" =>
               /\ Len(call[c].got) = Expected(c)
               /\ \A i \in 1..Len(call[c].got) : call[c].got[i] = c
    PROVE  Inv'
<1> DEFINE k == KindOf[c]
           r == [call[c] EXCEPT !.at = "ended", !.outcome = o]
<1>0. TypeOK /\ Locks
  BY DEF Inv
<1>1. call[c] \in CallRow /\ k \in Kinds
  BY <1>0, Fields
<1>2. /\ r \in CallRow /\ r.at = "ended" /\ r.outcome = o /\ r.hit = call[c].hit
      /\ r.unread = call[c].unread /\ r.got = call[c].got
  BY <1>1 DEF CallRow, At
<1>3. call' = [call EXCEPT ![c] = r]
  BY <1>0 DEF Fails, Ends, TypeOK
<1>4. worker' = [worker EXCEPT ![k] = w] /\ holder' = [holder EXCEPT ![k] = NoCall]
  BY DEF Fails
<1>5. Told(c, r, w)
  BY <1>2 DEF Told, Sent
<1>6. holder[k] = c /\ call[c].at # "room" /\ r.at \notin Holding
  BY <1>0, <1>2 DEF Locks, Holding
<1>7. c # NoCall
  BY AIWorkerAssumption
<1> HIDE DEF r, k
<1> QED BY <1>2, <1>3, <1>4, <1>5, <1>6, <1>7, CallFrame DEF k

\* The pipe of the call that holds the lock.
LEMMA HolderPipe ==
    ASSUME Inv, NEW c \in Calls, call[c].at \in Holding
    PROVE  /\ holder[KindOf[c]] = c /\ Held(worker[KindOf[c]], c, call[c])
           /\ Told(c, call[c], worker[KindOf[c]])
           /\ worker[KindOf[c]] \in Worker /\ call[c] \in CallRow /\ KindOf[c] \in Kinds
           /\ c # NoCall
<1>1. TypeOK /\ Locks /\ Told(c, call[c], worker[KindOf[c]])
  BY DEF Inv
<1>2. worker[KindOf[c]] \in Worker /\ call[c] \in CallRow /\ KindOf[c] \in Kinds /\ NoCall \notin Calls
  BY <1>1, Fields
<1>3. holder[KindOf[c]] = c /\ c # NoCall
  BY <1>1, <1>2 DEF Locks
<1>4. Pipe(KindOf[c])
  BY <1>2 DEF Inv
<1> QED BY <1>1, <1>2, <1>3, <1>4 DEF Pipe

\* A call goes on to its next step, and its pipe is as it was.
LEMMA GoesOn ==
    ASSUME Inv, NEW c \in Calls, NEW at \in At, NEW again \in BOOLEAN, NEW h \in {c, NoCall},
           call[c].at \notin {"room", "ended"} \cup Sent, at \notin {"ended"} \cup Sent,
           call' = [call EXCEPT ![c] = [call[c] EXCEPT !.at = at, !.again = again]],
           holder' = [holder EXCEPT ![KindOf[c]] = h], holder[KindOf[c]] \in {c, NoCall},
           at \in Holding <=> h = c,
           NEW w \in Worker, worker' = [worker EXCEPT ![KindOf[c]] = w],
           UNCHANGED <<room, troubles>>,
           h = NoCall => Free(w),
           \A r \in CallRow : h = c /\ r.at = at => Held(w, c, r)
    PROVE  Inv'
<1> DEFINE k == KindOf[c]
           r == [call[c] EXCEPT !.at = at, !.again = again]
<1>0. TypeOK /\ Locks /\ Told(c, call[c], worker[KindOf[c]])
  BY DEF Inv
<1>1. call[c] \in CallRow /\ k \in Kinds
  BY <1>0, Fields
<1>2. /\ r \in CallRow /\ r.at = at /\ r.outcome = call[c].outcome /\ r.hit = call[c].hit
      /\ r.got = call[c].got
  BY <1>1 DEF CallRow
<1>3. Told(c, r, w)
  BY <1>0, <1>2 DEF Told
<1> HIDE DEF r
<1>4. call' = [call EXCEPT ![c] = r]
  BY DEF r
<1> HIDE DEF k
<1> QED BY <1>2, <1>3, <1>4, CallFrame DEF k

\* A step of the process of kind j, or of a call that holds no request lock.
LEMMA SideFrame ==
    ASSUME Inv, NEW j \in Kinds, NEW w \in Worker, worker' = [worker EXCEPT ![j] = w],
           holder' = holder, troubles' \in Nat, call' \in [Calls -> CallRow],
           \A d \in Calls : call'[d].at \in Holding <=> call[d].at \in Holding,
           \A d \in Calls : Told(d, call'[d], worker'[KindOf[d]]),
           \A i \in Kinds \ {j} : holder[i] # NoCall => call'[holder[i]] = call[holder[i]],
           room'.for \in Calls \cup {NoCall},
           room'.for # NoCall => call'[room'.for].at = "room",
           holder[j] = NoCall => Free(w),
           holder[j] # NoCall => Held(w, holder[j], call'[holder[j]])
    PROVE  Inv'
<1>0. TypeOK /\ Locks
  BY DEF Inv
<1>1. TypeOK'
  BY <1>0 DEF TypeOK
<1>2. worker'[j] = w /\ \A i \in Kinds \ {j} : worker'[i] = worker[i]
  BY <1>0 DEF TypeOK
<1>3. Locks'
  <2>1. \A k \in Kinds : holder'[k] # NoCall => KindOf[holder'[k]] = k
    BY <1>0 DEF Locks
  <2>2. \A c \in Calls : call'[c].at \in Holding <=> holder'[KindOf[c]] = c
    BY <1>0 DEF Locks
  <2> QED BY <2>1, <2>2 DEF Locks
<1>4. \A k \in Kinds : Pipe(k)'
  <2>1. Pipe(j)'
    BY <1>2 DEF Pipe
  <2>2. ASSUME NEW i \in Kinds \ {j} PROVE Pipe(i)'
    <3>1. Pipe(i)
      BY DEF Inv
    <3> QED BY <1>2, <3>1 DEF Pipe
  <2> QED BY <2>1, <2>2
<1>5. \A d \in Calls : Told(d, call[d], worker[KindOf[d]])'
  OBVIOUS
<1> QED BY <1>1, <1>3, <1>4, <1>5 DEF Inv

\* A call that holds no request lock moves on or ends, and maybe a process is halted.
LEMMA AsideStep ==
    ASSUME Inv, NEW c \in Calls, call[c].at \in {"prepare", "room"}, NEW r \in CallRow,
           r.at \notin Holding, Told(c, r, worker[KindOf[c]]),
           call' = [call EXCEPT ![c] = r], holder' = holder, troubles' = troubles,
           room'.for \in Calls \cup {NoCall},
           room'.for # NoCall => call'[room'.for].at = "room",
           \/ worker' = worker
           \/ \E j \in Kinds : ~Starting(j) /\ worker' = [worker EXCEPT ![j] = Halted(@)]
    PROVE  Inv'
<1>0. TypeOK /\ Locks /\ KindOf[c] \in Kinds
  BY AIWorkerAssumption DEF Inv
<1>1. PICK j \in Kinds : \/ worker' = worker
                         \/ ~Starting(j) /\ worker' = [worker EXCEPT ![j] = Halted(@)]
  BY <1>0
<1> DEFINE w == worker'[j]
<1>2. /\ worker[j] \in Worker /\ worker' = [worker EXCEPT ![j] = w]
      /\ w = worker[j] \/ (~Starting(j) /\ w = Halted(worker[j]))
  BY <1>0, <1>1 DEF TypeOK
<1> HIDE DEF w
<1>3. w \in Worker /\ w.epoch = worker[j].epoch
  BY <1>2, HaltedRow
<1>4. /\ call' \in [Calls -> CallRow] /\ call'[c] = r
      /\ \A d \in Calls \ {c} : call'[d] = call[d]
  BY <1>0 DEF TypeOK
<1>5. call[c].at \notin Holding
  BY DEF Holding
<1>6. \A d \in Calls : call'[d].at \in Holding <=> call[d].at \in Holding
  BY <1>4, <1>5
<1>7. \A i \in Kinds : holder[i] # NoCall =>
          /\ holder[i] \in Calls \ {c} /\ call'[holder[i]] = call[holder[i]]
          /\ call[holder[i]].at \in Holding
  BY <1>0, <1>4, <1>5 DEF Locks, TypeOK
<1>8. \A d \in Calls : worker'[KindOf[d]].epoch = worker[KindOf[d]].epoch
  BY <1>0, <1>2, <1>3, AIWorkerAssumption DEF TypeOK
<1>9. \A d \in Calls : Told(d, call'[d], worker'[KindOf[d]])
  <2>1. Told(c, r, worker'[KindOf[c]])
    BY <1>8 DEF Told
  <2>2. \A d \in Calls \ {c} : Told(d, call[d], worker[KindOf[d]])
    BY DEF Inv
  <2> QED BY <1>4, <1>8, <2>1, <2>2 DEF Told
<1>10. Pipe(j)
  BY DEF Inv
<1>11. holder[j] = NoCall => Free(w)
  BY <1>2, <1>10, HaltedRow DEF Pipe, Free
<1>12. holder[j] # NoCall => Held(w, holder[j], call'[holder[j]])
  <2> SUFFICES ASSUME holder[j] # NoCall, w = Halted(worker[j]), ~Starting(j)
               PROVE  Held(w, holder[j], call[holder[j]])
    BY <1>2, <1>7, <1>10 DEF Pipe
  <2>1. call[holder[j]].at # "loading"
    BY DEF Starting
  <2> QED BY <1>2, <2>1, HaltedRow DEF Held
<1> QED BY <1>0, <1>2, <1>3, <1>4, <1>6, <1>7, <1>9, <1>11, <1>12, SideFrame DEF TypeOK

--------------------------------------------------------------------------------
(* Making room, and taking the lock.                                        *)

\* A call that has not been sent moves on.
LEMMA Moved ==
    ASSUME Inv, NEW c \in Calls, call[c].at \notin Sent \cup {"ended"}, NEW at \in At,
           at \notin Sent \cup {"ended"}, NEW r, r = [call[c] EXCEPT !.at = at], NEW w
    PROVE  r \in CallRow /\ r.at = at /\ Told(c, r, w)
<1>1. call[c] \in CallRow /\ Told(c, call[c], worker[KindOf[c]])
  BY Fields DEF Inv
<1> QED BY <1>1 DEF CallRow, Told

LEMMA PrepareStep ==
    ASSUME Inv, NEW c \in Calls, Prepare(c)
    PROVE  Inv'
<1>0. TypeOK /\ call[c].at = "prepare" /\ room.for = NoCall /\ NoCall \notin Calls
  BY AIWorkerAssumption DEF Inv, Prepare
<1>1. CASE Goto(c, "queue") /\ UNCHANGED room
  <2> DEFINE r == [call[c] EXCEPT !.at = "queue"]
  <2>1. call' = [call EXCEPT ![c] = r]
    BY <1>0, <1>1 DEF Goto, TypeOK
  <2>2. r \in CallRow /\ r.at = "queue" /\ Told(c, r, worker[KindOf[c]])
    BY <1>0, Moved DEF At, Sent
  <2> HIDE DEF r
  <2> QED BY <1>0, <1>1, <2>1, <2>2, AsideStep DEF Prepare, Holding
<1>2. CASE Goto(c, "room") /\ room'.for = c
  <2> DEFINE r == [call[c] EXCEPT !.at = "room"]
  <2>1. call' = [call EXCEPT ![c] = r]
    BY <1>0, <1>2 DEF Goto, TypeOK
  <2>2. r \in CallRow /\ r.at = "room" /\ Told(c, r, worker[KindOf[c]])
    BY <1>0, Moved DEF At, Sent
  <2> HIDE DEF r
  <2>3. call'[c].at = "room"
    BY <1>0, <2>1, <2>2 DEF TypeOK
  <2> QED BY <1>0, <1>2, <2>1, <2>2, <2>3, AsideStep DEF Prepare, Holding
<1> QED BY <1>1, <1>2 DEF Prepare

LEMMA EvictStep ==
    ASSUME Inv, NEW c \in Calls, NEW k \in Kinds, Evict(c, k)
    PROVE  Inv'
<1>0. /\ TypeOK /\ call[c].at = "room" /\ room.for = c /\ NoCall \notin Calls
      /\ worker' = [worker EXCEPT ![k] = Halted(@)] /\ ~Starting(k)
      /\ UNCHANGED <<holder, troubles>>
  BY AIWorkerAssumption DEF Inv, Evict, Locks
<1>1. CASE Goto(c, "queue") /\ room' = NoRoom
  <2> DEFINE r == [call[c] EXCEPT !.at = "queue"]
  <2>1. call' = [call EXCEPT ![c] = r]
    BY <1>0, <1>1 DEF Goto, TypeOK
  <2>2. r \in CallRow /\ r.at = "queue" /\ Told(c, r, worker[KindOf[c]])
    BY <1>0, Moved DEF At, Sent
  <2> HIDE DEF r
  <2> QED BY <1>0, <1>1, <2>1, <2>2, AsideStep DEF Holding, NoRoom
<1>2. CASE UNCHANGED call /\ room'.for = c
  <2>1. call' = [call EXCEPT ![c] = call[c]] /\ call'[c].at = "room"
    BY <1>0, <1>2 DEF TypeOK
  <2>2. call[c] \in CallRow /\ Told(c, call[c], worker[KindOf[c]])
    BY <1>0, Fields DEF Inv
  <2> QED BY <1>0, <1>2, <2>1, <2>2, AsideStep DEF Holding
<1>3. CASE UNCHANGED call /\ room' = [room EXCEPT !.idle = @ \ {k}, !.running = room.running \ {k}]
  <2>1. room'.for = room.for
    BY <1>3
  <2> QED BY <1>0, <1>2, <1>3, <2>1
<1> QED BY <1>1, <1>3 DEF Evict

LEMMA ResourceBusyStep ==
    ASSUME Inv, NEW c \in Calls, ResourceBusy(c)
    PROVE  Inv'
<1>0. TypeOK /\ call[c].at = "room" /\ NoCall \notin Calls
  BY AIWorkerAssumption DEF Inv, ResourceBusy, Locks
<1> DEFINE r == [call[c] EXCEPT !.at = "ended", !.outcome = "busy"]
<1>1. call' = [call EXCEPT ![c] = r]
  BY <1>0 DEF ResourceBusy, Ends, TypeOK
<1>2. call[c] \in CallRow /\ Told(c, call[c], worker[KindOf[c]])
  BY <1>0, Fields DEF Inv
<1>3. r \in CallRow /\ r.at = "ended" /\ Told(c, r, worker[KindOf[c]])
  BY <1>0, <1>2 DEF CallRow, At, Outcome, Told, Sent
<1> HIDE DEF r
<1> QED BY <1>0, <1>1, <1>3, AsideStep DEF ResourceBusy, Holding, NoRoom

LEMMA TakeStep ==
    ASSUME Inv, NEW c \in Calls, Take(c)
    PROVE  Inv'
<1> DEFINE k == KindOf[c]
<1>0. /\ TypeOK /\ Locks /\ call[c].at = "queue" /\ holder[k] = NoCall /\ NoCall \notin Calls
      /\ call[c] \in CallRow /\ worker[k] \in Worker /\ k \in Kinds
  BY Fields DEF Inv, Take
<1>1. call' = [call EXCEPT ![c] = [call[c] EXCEPT !.at = "start", !.again = call[c].again]]
  BY <1>0 DEF Take, Goto, TypeOK, CallRow
<1>2. worker' = [worker EXCEPT ![k] = worker[k]]
  BY <1>0 DEF Take, TypeOK
<1>3. Free(worker[k])
  BY <1>0 DEF Inv, Pipe
<1>4. \A r \in CallRow : r.at = "start" => Held(worker[k], c, r)
  BY <1>3 DEF Free, Held, Sent
<1>5. call[c].again \in BOOLEAN
  BY <1>0 DEF CallRow
<1>6. "start" \in At /\ "start" \in Holding /\ "start" \notin Sent /\ "queue" \notin Sent
  BY DEF At, Holding, Sent
<1> HIDE DEF k
<1> QED BY <1>0, <1>1, <1>2, <1>4, <1>5, <1>6, GoesOn, ZenonT(30) DEF Take, k

--------------------------------------------------------------------------------
(* Starting the process.                                                    *)

\* A call that holds its lock goes on before it is sent.
LEMMA Onward ==
    ASSUME Inv, NEW c \in Calls, call[c].at \in Holding \ Sent, NEW at \in Holding \ Sent,
           NEW again \in BOOLEAN,
           call' = [call EXCEPT ![c] = [call[c] EXCEPT !.at = at, !.again = again]],
           NEW w \in Worker, worker' = [worker EXCEPT ![KindOf[c]] = w],
           UNCHANGED <<holder, room, troubles>>,
           \A r \in CallRow : r.at = at => Held(w, c, r)
    PROVE  Inv'
<1> DEFINE k == KindOf[c]
<1>0. TypeOK /\ holder[k] = c /\ c # NoCall /\ k \in Kinds
  BY HolderPipe DEF Inv
<1>1. holder' = [holder EXCEPT ![k] = c]
  BY <1>0 DEF TypeOK
<1>2. /\ at \in At /\ at \notin {"ended"} \cup Sent /\ at \in Holding
      /\ call[c].at \notin {"room", "ended"} \cup Sent
  BY DEF At, Holding, Sent
<1> HIDE DEF k
<1> QED BY <1>0, <1>1, <1>2, GoesOn, ZenonT(30) DEF k

\* An error before the request is sent.
LEMMA FailsEarly ==
    ASSUME Inv, NEW c \in Calls, call[c].at \in Holding \ Sent, NEW w \in Worker,
           NEW o \in {"error", "crashed", "timeout"}, Fails(c, w, o), Free(w),
           UNCHANGED <<room, troubles>>
    PROVE  Inv'
<1>1. Told(c, call[c], worker[KindOf[c]])
  BY DEF Inv
<1>2. ~call[c].hit
  BY <1>1 DEF Told, Holding, Sent
<1> QED BY <1>2, FailsStep DEF Outcome

LEMMA StartStep ==
    ASSUME Inv, NEW c \in Calls, Start(c)
    PROVE  Inv'
<1> DEFINE k == KindOf[c]
           w == worker[k]
<1>0. /\ TypeOK /\ call[c].at = "start" /\ UNCHANGED <<holder, room, troubles>>
      /\ call[c].at \in Holding \ Sent
  BY DEF Inv, Start, Holding, Sent
<1>1. /\ Held(w, c, call[c]) /\ w \in Worker /\ call[c] \in CallRow /\ k \in Kinds
  BY <1>0, HolderPipe
<1>2. CASE Alive(k)
  <2>1. AfterStart(c) \in {"bind", "started"}
    BY DEF AfterStart
  <2>2. call' = [call EXCEPT ![c] = [call[c] EXCEPT !.at = AfterStart(c), !.again = call[c].again]]
    BY <1>0, <1>1, <1>2 DEF Start, Goto, TypeOK, CallRow
  <2>3. worker' = [worker EXCEPT ![k] = w]
    BY <1>0, <1>2 DEF Start, TypeOK
  <2>4. \A r \in CallRow : r.at = AfterStart(c) => Held(w, c, r)
    BY <1>0, <1>1, <1>2, <2>1 DEF Held, Alive, Sent
  <2>5. AfterStart(c) \in Holding \ Sent /\ call[c].again \in BOOLEAN
    BY <1>1, <2>1 DEF Holding, Sent, CallRow
  <2> HIDE DEF w, k
  <2> QED BY <1>0, <1>1, <2>2, <2>3, <2>4, <2>5, Onward DEF k
<1>3. CASE ~Alive(k)
  <2> DEFINE v == [Halted(w) EXCEPT !.child = "loading", !.open = TRUE, !.state = "LOADING"]
  <2>1. /\ v \in Worker /\ v.child = "loading" /\ v.open /\ Empty(v) /\ ~v.unread
    BY <1>1, HaltedRow DEF Worker, Empty
  <2>2. worker' = [worker EXCEPT ![k] = v]
    BY <1>0, <1>3 DEF Start, TypeOK
  <2>3. call' = [call EXCEPT ![c] = [call[c] EXCEPT !.at = "loading", !.again = call[c].again]]
    BY <1>0, <1>1, <1>3 DEF Start, Goto, TypeOK, CallRow
  <2> HIDE DEF v, w, k
  <2>4. \A r \in CallRow : r.at = "loading" => Held(v, c, r)
    BY <2>1 DEF Held, Sent
  <2>5. "loading" \in Holding \ Sent /\ call[c].again \in BOOLEAN
    BY <1>1 DEF Holding, Sent, CallRow
  <2> QED BY <1>0, <1>1, <2>1, <2>2, <2>3, <2>4, <2>5, Onward DEF k
<1> QED BY <1>2, <1>3

LEMMA LoadedStep ==
    ASSUME Inv, NEW c \in Calls, Loaded(c)
    PROVE  Inv'
<1> DEFINE k == KindOf[c]
           w == worker[k]
<1>0. /\ TypeOK /\ call[c].at = "loading" /\ UNCHANGED <<room, troubles>>
      /\ call[c].at \in Holding \ Sent
  BY DEF Inv, Loaded, Holding, Sent
<1>1. /\ Held(w, c, call[c]) /\ w \in Worker /\ call[c] \in CallRow /\ k \in Kinds
  BY <1>0, HolderPipe
<1>2. Empty(w) /\ ~w.unread /\ w.open
  BY <1>0, <1>1 DEF Held
<1>3. CASE /\ Alive(k)
           /\ worker' = [worker EXCEPT ![k].child = "serving", ![k].state = "READY"]
           /\ Goto(c, AfterStart(c))
           /\ UNCHANGED holder
  <2> DEFINE v == [w EXCEPT !.child = "serving", !.state = "READY"]
  <2>1. /\ v \in Worker /\ v.open /\ Empty(v) /\ ~v.unread
    BY <1>1, <1>2 DEF Worker, Empty
  <2>2. worker' = [worker EXCEPT ![k] = v]
    BY <1>0, <1>3 DEF TypeOK
  <2>3. AfterStart(c) \in {"bind", "started"}
    BY DEF AfterStart
  <2>4. call' = [call EXCEPT ![c] = [call[c] EXCEPT !.at = AfterStart(c), !.again = call[c].again]]
    BY <1>0, <1>1, <1>3 DEF Goto, TypeOK, CallRow
  <2> HIDE DEF v, w, k
  <2>5. \A r \in CallRow : r.at = AfterStart(c) => Held(v, c, r)
    BY <2>1, <2>3 DEF Held, Sent
  <2>6. AfterStart(c) \in Holding \ Sent /\ call[c].again \in BOOLEAN
    BY <1>1, <2>3 DEF Holding, Sent, CallRow
  <2>7. UNCHANGED <<holder, room, troubles>>
    BY <1>0, <1>3
  <2> QED BY <1>0, <1>1, <2>1, <2>2, <2>4, <2>5, <2>6, <2>7, Onward DEF k
<1>4. ASSUME NEW v, NEW o \in {"error", "crashed", "timeout"}, Fails(c, v, o),
             \/ v = [w EXCEPT !.child = "leaving", !.state = "ERROR"]
             \/ v = [w EXCEPT !.state = "ERROR"]
             \/ v = [Halted(w) EXCEPT !.state = "ERROR"]
      PROVE  Inv'
  <2>1. v \in Worker /\ Empty(v) /\ (v.child # "none" => v.open) /\ ~v.unread
    <3>1. /\ Halted(w) \in Worker /\ Halted(w).child = "none" /\ Empty(Halted(w))
          /\ ~Halted(w).unread
      BY <1>1, HaltedRow DEF Empty
    <3>2. CASE v = [w EXCEPT !.child = "leaving", !.state = "ERROR"]
      BY <1>1, <1>2, <3>2 DEF Worker, Empty
    <3>3. CASE v = [w EXCEPT !.state = "ERROR"]
      BY <1>1, <1>2, <3>3 DEF Worker, Empty
    <3>4. CASE v = [Halted(w) EXCEPT !.state = "ERROR"]
      <4> HIDE DEF w
      <4> QED BY <3>1, <3>4 DEF Worker, Empty
    <3> QED BY <1>4, <3>2, <3>3, <3>4
  <2>2. Free(v)
    BY <2>1 DEF Free, Empty
  <2> QED BY <1>0, <1>4, <2>1, <2>2, FailsEarly
<1> QED BY <1>3, <1>4 DEF Loaded

LEMMA EnsureStep ==
    ASSUME Inv, NEW c \in Calls, Ensure(c)
    PROVE  Inv'
<1> DEFINE k == KindOf[c]
           w == worker[k]
<1>0. /\ TypeOK /\ call[c].at = "started" /\ UNCHANGED <<room, troubles>>
      /\ call[c].at \in Holding \ Sent
  BY DEF Inv, Ensure, Holding, Sent
<1>1. /\ Held(w, c, call[c]) /\ w \in Worker /\ call[c] \in CallRow /\ k \in Kinds
      /\ worker = [worker EXCEPT ![k] = w]
  BY <1>0, HolderPipe DEF TypeOK
<1>2. CASE Alive(k)
  <2>1. /\ call' = [call EXCEPT ![c] = [call[c] EXCEPT !.at = "bind", !.again = call[c].again]]
        /\ call[c].again \in BOOLEAN
    BY <1>0, <1>1, <1>2 DEF Ensure, Goto, TypeOK, CallRow
  <2>2. UNCHANGED <<worker, holder>>
    BY <1>2 DEF Ensure
  <2> HIDE DEF w, k
  <2>3. \A r \in CallRow : r.at = "bind" => Held(w, c, r)
    BY <1>0, <1>1 DEF Held, Sent
  <2>4. "bind" \in Holding \ Sent
    BY DEF Holding, Sent
  <2> QED BY <1>0, <1>1, <2>1, <2>2, <2>3, <2>4, Onward DEF k
<1>3. CASE ~Alive(k) /\ w.state = "ERROR"
  <2>1. Fails(c, w, "crashed")
    BY <1>3 DEF Ensure
  <2>2. Free(w)
    BY <1>1, <1>3 DEF Held, Free, Alive
  <2> HIDE DEF w, k
  <2> QED BY <1>0, <1>1, <2>1, <2>2, FailsEarly
<1>4. CASE ~Alive(k) /\ w.state # "ERROR"
  <2>1. /\ call' = [call EXCEPT ![c].at = "start", ![c].again = TRUE]
        /\ UNCHANGED <<worker, holder>>
    BY <1>4 DEF Ensure
  <2>2. call' = [call EXCEPT ![c] = [call[c] EXCEPT !.at = "start", !.again = TRUE]]
    BY <1>0, <1>1, <2>1 DEF TypeOK, CallRow
  <2>3. \A r \in CallRow : r.at = "start" => Held(w, c, r)
    BY <1>1, <1>4 DEF Held, Alive, Sent
  <2>4. "start" \in Holding \ Sent
    BY DEF Holding, Sent
  <2> HIDE DEF w, k
  <2> QED BY <1>0, <1>1, <2>1, <2>2, <2>3, <2>4, Onward DEF k
<1> QED BY <1>2, <1>3, <1>4

--------------------------------------------------------------------------------
(* One exchange.                                                            *)

LEMMA BindStep ==
    ASSUME Inv, NEW c \in Calls, Bind(c)
    PROVE  Inv'
<1> DEFINE k == KindOf[c]
           w == worker[k]
<1>0. /\ TypeOK /\ call[c].at = "bind" /\ UNCHANGED <<room, troubles>>
      /\ call[c].at \in Holding \ Sent
  BY DEF Inv, Bind, Holding, Sent
<1>1. /\ Held(w, c, call[c]) /\ w \in Worker /\ call[c] \in CallRow /\ k \in Kinds
      /\ worker = [worker EXCEPT ![k] = w]
  BY <1>0, HolderPipe DEF TypeOK
<1>2. CASE w.open
  <2>1. /\ call' = [call EXCEPT ![c] = [call[c] EXCEPT !.at = "send", !.again = call[c].again]]
        /\ call[c].again \in BOOLEAN
    BY <1>0, <1>1, <1>2 DEF Bind, Goto, TypeOK, CallRow
  <2>2. UNCHANGED <<worker, holder>>
    BY <1>2 DEF Bind
  <2> HIDE DEF w, k
  <2>3. \A r \in CallRow : r.at = "send" => Held(w, c, r)
    BY <1>0, <1>1 DEF Held, Sent
  <2>4. "send" \in Holding \ Sent
    BY DEF Holding, Sent
  <2> QED BY <1>0, <1>1, <2>1, <2>2, <2>3, <2>4, Onward DEF k
<1>3. CASE ~w.open
  <2>1. Fails(c, w, "crashed")
    BY <1>3 DEF Bind
  <2>2. Free(w)
    BY <1>1, <1>3 DEF Held, Free
  <2> HIDE DEF w, k
  <2> QED BY <1>0, <1>1, <2>1, <2>2, FailsEarly
<1> QED BY <1>2, <1>3

LEMMA SendStep ==
    ASSUME Inv, NEW c \in Calls, Send(c)
    PROVE  Inv'
<1> DEFINE k == KindOf[c]
           w == worker[k]
<1>0. /\ TypeOK /\ call[c].at = "send" /\ UNCHANGED <<room, troubles>>
      /\ call[c].at \in Holding \ Sent
  BY DEF Inv, Send, Holding, Sent
<1>1. /\ Held(w, c, call[c]) /\ w \in Worker /\ call[c] \in CallRow /\ k \in Kinds
      /\ holder[k] = c /\ Told(c, call[c], w) /\ c # NoCall
  BY <1>0, HolderPipe
<1>2. CASE w.open
  <2> DEFINE v == [w EXCEPT !.state = "BUSY", !.asked = Append(@, c)]
             r == [call[c] EXCEPT !.at = "wait", !.seen = w.epoch, !.unread = w.unread]
  <2>1. worker' = [worker EXCEPT ![k] = v] /\ UNCHANGED holder
    BY <1>0, <1>2, ZenonT(30) DEF Send, TypeOK
  <2>2. call' = [call EXCEPT ![c] = r]
    BY <1>0, <1>2 DEF Send, TypeOK
  <2>3. /\ v \in Worker /\ v.asked = Append(w.asked, c) /\ v.out = w.out /\ v.sent = w.sent
        /\ v.unread = w.unread /\ v.epoch = w.epoch /\ v.open
    <3> HIDE DEF w
    <3>1. Append(w.asked, c) \in Seq(Calls)
      BY <1>1, AppendProperties DEF Worker
    <3> QED BY <1>1, <1>2, <3>1 DEF Worker
  <2>4. /\ r \in CallRow /\ r.at = "wait" /\ r.seen = w.epoch /\ r.unread = w.unread
        /\ r.got = call[c].got /\ r.outcome = call[c].outcome /\ r.hit = call[c].hit
    BY <1>1 DEF CallRow, At, Worker
  <2>5. call[c].got = <<>> /\ ~call[c].hit /\ call[c].outcome = "none"
    BY <1>0, <1>1 DEF Told, Sent
  <2>6. w.epoch \in Nat
    BY <1>1 DEF Worker
  <2>7. ~w.unread => Empty(w)
    BY <1>0, <1>1, <1>2 DEF Held
  <2> HIDE DEF v, r, w, k
  <2>8. Told(c, r, v)
    BY <2>3, <2>4, <2>5, <2>6 DEF Told, Sent
  <2>9. ~v.unread => Exchange(v, c, r)
    <3> SUFFICES ASSUME ~v.unread PROVE Exchange(v, c, r)
      OBVIOUS
    <3>1. v.asked = Append(<<>>, c) /\ v.out = <<>> /\ v.sent = 0 /\ r.got = <<>>
      BY <2>3, <2>4, <2>5, <2>7 DEF Empty
    <3>2. v.asked = <<c>>
      BY <3>1
    <3> QED BY <3>1, <3>2, AIWorkerAssumption DEF Exchange, Under
  <2>10. Held(v, c, r)
    BY <2>3, <2>4, <2>9 DEF Held, Sent
  <2>11. /\ holder' = [holder EXCEPT ![k] = c] /\ call[c].at # "room"
         /\ r.at \in Holding
    BY <1>0, <1>1, <2>1, <2>4 DEF TypeOK, Holding
  <2> QED BY <1>0, <1>1, <2>1, <2>2, <2>3, <2>4, <2>8, <2>10, <2>11, CallFrame DEF k
<1>3. CASE ~w.open
  <2>1. Fails(c, Halted(w), "crashed")
    BY <1>3 DEF Send
  <2>2. Free(Halted(w)) /\ Halted(w) \in Worker
    BY <1>1, HaltedRow DEF Free
  <2> HIDE DEF w, k
  <2> QED BY <1>0, <1>1, <2>1, <2>2, FailsEarly
<1> QED BY <1>2, <1>3

\* A call that was sent ends, and the finally clause may show its process as ready.
LEMMA LeavesStep ==
    ASSUME Inv, NEW c \in Calls, call[c].at \in Sent, NEW w \in Worker, NEW o \in Outcome,
           Leaves(c, w, o), UNCHANGED <<room, troubles>>,
           Free(w),
           call[c].hit => o \in {"cancelled", "timeout", "abandoned"},
           o = "cancelled" => call[c].hit,
           ~call[c].unread /\ o = "ok" =>
               /\ Len(call[c].got) = Expected(c)
               /\ \A i \in 1..Len(call[c].got) : call[c].got[i] = c
    PROVE  Inv'
<1>1. PICK v : Fails(c, v, o) /\ v \in {w, [w EXCEPT !.state = "READY"]}
  BY DEF Leaves
<1>2. v \in Worker /\ Free(v)
  BY <1>1 DEF Worker, Free, Empty
<1>3. call[c].at \in Holding
  BY DEF Sent, Holding
<1> QED BY <1>1, <1>2, <1>3, FailsStep

\* The first message of an exchange: a chunk and the rest of the exchange, or its end.
LEMMA FirstMessage ==
    ASSUME NEW c \in Calls, NEW w \in Worker, NEW r \in CallRow, Exchange(w, c, r),
           w.out # <<>>, NEW m, m = Head(w.out)
    PROVE  /\ m.of = c
           /\ m.type = "chunk" =>
                 /\ c \in Streams
                 /\ \A v \in Worker, q \in CallRow :
                       /\ v.asked = w.asked /\ v.sent = w.sent /\ v.child = w.child
                       /\ v.out = Tail(w.out) /\ q.got = Append(r.got, c)
                       => Exchange(v, c, q)
           /\ m.type # "chunk" => w.asked = <<>> /\ w.sent = 0 /\ Tail(w.out) = <<>>
           /\ m.type = "done" => c \in Streams /\ Len(r.got) = Chunks
           /\ m.type = "result" => c \notin Streams /\ Len(r.got) = 0
<1> DEFINE out == w.out
           got == r.got
<1>0. out \in Seq(Message) /\ got \in Seq(Calls) /\ out # <<>> /\ w.sent \in Nat
  BY DEF Worker, CallRow
<1> HIDE DEF out, got
<1>1. /\ Len(out) \in Nat /\ Len(out) > 0 /\ m = out[1] /\ Len(got) \in Nat
      /\ Len(Tail(out)) = Len(out) - 1
      /\ \A i \in 1..Len(Tail(out)) : Tail(out)[i] = out[i + 1]
      /\ Len(Append(got, c)) = Len(got) + 1
      /\ \A i \in 1..Len(got) : Append(got, c)[i] = got[i]
      /\ Append(got, c)[Len(got) + 1] = c
  BY <1>0, HeadTailProperties, AppendProperties DEF out
<1>2. \A i \in 1..Len(got) : got[i] = c
  BY DEF Exchange, got
<1>3. ASSUME NEW v \in Worker, NEW q \in CallRow, v.asked = w.asked, v.sent = w.sent,
             v.child = w.child, v.out = Tail(out), q.got = Append(got, c)
      PROVE  \A i \in 1..Len(q.got) : q.got[i] = c
  BY <1>1, <1>2, <1>3
<1>4. CASE Under(w, c, r)
  <2>1. \A i \in 1..Len(out) : out[i] = Chunk(c)
    BY <1>4 DEF Under, out
  <2>2. m = Chunk(c)
    BY <1>1, <2>1
  <2>3. c \in Streams
    BY <1>1, <1>4 DEF Under, out
  <2>4. w.sent = Len(got) + Len(out) /\ w.sent <= Chunks
    BY <1>4, <2>3 DEF Under, out, got
  <2>5. ASSUME NEW v \in Worker, NEW q \in CallRow, v.asked = w.asked, v.sent = w.sent,
               v.child = w.child, v.out = Tail(out), q.got = Append(got, c)
        PROVE  Exchange(v, c, q)
    <3>1. v.asked = <<c>> \/ (v.child = "none" /\ v.asked = <<>>)
      BY <1>4, <2>5 DEF Under
    <3>2. \A i \in 1..Len(v.out) : v.out[i] = Chunk(c)
      BY <1>1, <2>1, <2>5
    <3>3. v.sent = Len(q.got) + Len(v.out) /\ v.sent <= Chunks
      BY <1>0, <1>1, <2>4, <2>5
    <3>4. Under(v, c, q)
      BY <2>3, <3>1, <3>2, <3>3 DEF Under
    <3> QED BY <1>3, <2>5, <3>4 DEF Exchange
  <2>6. m.type = "chunk" /\ m.of = c
    BY <2>2 DEF Chunk
  <2> QED BY <2>3, <2>5, <2>6 DEF out, got
<1>5. CASE Over(w, c, r)
  <2>1. /\ w.asked = <<>> /\ w.sent = 0
        /\ \A i \in 1..(Len(out) - 1) : out[i] = Chunk(c)
        /\ out[Len(out)].of = c /\ out[Len(out)].type \in {"done", "result", "error"}
        /\ out[Len(out)].type = "done" => c \in Streams /\ Len(got) + (Len(out) - 1) = Chunks
        /\ out[Len(out)].type = "result" => c \notin Streams
        /\ c \notin Streams => Len(got) = 0 /\ Len(out) = 1
    BY <1>5 DEF Over, out, got
  <2>2. CASE Len(out) = 1
    <3>1. m = out[Len(out)] /\ Len(Tail(out)) = 0
      BY <1>1, <2>2
    <3>2. Tail(out) = <<>>
      BY <1>0, <3>1, HeadTailProperties, EmptySeq
    <3>3. m.type # "chunk" /\ m.of = c
      BY <2>1, <3>1
    <3>4. /\ m.type = "done" => c \in Streams /\ Len(got) = Chunks
          /\ m.type = "result" => c \notin Streams /\ Len(got) = 0
      BY <1>1, <2>1, <2>2, <3>1
    <3> QED BY <2>1, <3>2, <3>3, <3>4 DEF out, got
  <2>3. CASE Len(out) > 1
    <3>1. m = Chunk(c) /\ c \in Streams
      BY <1>1, <2>1, <2>3
    <3>2. ASSUME NEW v \in Worker, NEW q \in CallRow, v.asked = w.asked, v.sent = w.sent,
                 v.child = w.child, v.out = Tail(out), q.got = Append(got, c)
          PROVE  Exchange(v, c, q)
      <4>1. v.asked = <<>> /\ v.sent = 0 /\ Len(v.out) > 0
        BY <1>1, <2>1, <2>3, <3>2
      <4>2. v.out[Len(v.out)] = out[Len(out)]
        BY <1>1, <2>3, <3>2
      <4>3. \A i \in 1..(Len(v.out) - 1) : v.out[i] = Chunk(c)
        BY <1>1, <2>1, <2>3, <3>2
      <4>4. Len(q.got) + (Len(v.out) - 1) = Len(got) + (Len(out) - 1)
        <5>1. Len(q.got) = Len(got) + 1 /\ Len(v.out) = Len(out) - 1
          BY <1>1, <3>2
        <5>2. Len(out) \in Nat /\ Len(got) \in Nat
          BY <1>1
        <5> QED BY <5>1, <5>2
      <4>5. Over(v, c, q)
        BY <2>1, <3>1, <4>1, <4>2, <4>3, <4>4 DEF Over
      <4> QED BY <1>3, <3>2, <4>5 DEF Exchange
    <3>3. m.type = "chunk" /\ m.of = c
      BY <3>1 DEF Chunk
    <3> QED BY <3>1, <3>2, <3>3 DEF out, got
  <2>4. Len(out) \in Nat /\ Len(out) > 0
    BY <1>1
  <2>5. Len(out) = 1 \/ Len(out) > 1
    <3>1. \A n \in Nat : n > 0 => n = 1 \/ n > 1
      OBVIOUS
    <3> QED BY <2>4, <3>1
  <2> QED BY <2>2, <2>3, <2>5
<1>6. Under(w, c, r) \/ Over(w, c, r)
  BY DEF Exchange
<1> QED BY <1>4, <1>5, <1>6

LEMMA ReceiveStep ==
    ASSUME Inv, NEW c \in Calls, Receive(c)
    PROVE  Inv'
<1> DEFINE k == KindOf[c]
           w == worker[k]
           r == call[c]
           m == Head(w.out)
           x == [w EXCEPT !.out = Tail(@)]
<1>0. /\ TypeOK /\ r.at = "wait" /\ w.open /\ w.out # <<>> /\ UNCHANGED <<room, troubles>>
      /\ r.at \in Sent /\ r.at \in Holding
  BY DEF Inv, Receive, Holding, Sent
<1>1. /\ Held(w, c, r) /\ w \in Worker /\ r \in CallRow /\ k \in Kinds
      /\ holder[k] = c /\ Told(c, r, w) /\ c # NoCall
  BY <1>0, HolderPipe
<1>2. (CASE m.type = "error" -> Leaves(c, x, "error")
         [] m.type = "chunk" /\ c \in Streams ->
              /\ worker' = [worker EXCEPT ![k] = x]
              /\ call' = [call EXCEPT ![c].at = "yielded", ![c].got = Append(@, m.of)]
              /\ UNCHANGED holder
         [] m.type = "done" /\ c \in Streams -> Leaves(c, x, "ok")
         [] m.type = "result" /\ c \notin Streams ->
              /\ worker' = [worker EXCEPT ![k] =
                     IF Alive(k) /\ x.epoch = r.seen THEN [x EXCEPT !.state = "READY"] ELSE x]
              /\ call' = [Ends(c, "ok") EXCEPT ![c].got = Append(@, m.of)]
              /\ holder' = [holder EXCEPT ![k] = NoCall]
         [] OTHER -> Leaves(c, x, "crashed"))
  BY DEF Receive
<1>3. /\ w.epoch = r.seen /\ r.unread = w.unread
      /\ ~w.unread => Exchange(w, c, r)
      /\ w.child # "none" => w.open
  BY <1>0, <1>1 DEF Held
<1>4. ~r.hit /\ r.outcome = "none"
  BY <1>0, <1>1, <1>3 DEF Told
<1>5. /\ x \in Worker /\ x.out = Tail(w.out) /\ x.asked = w.asked /\ x.sent = w.sent
      /\ x.child = w.child /\ x.open /\ x.epoch = w.epoch /\ x.unread = w.unread
  <2>1. w.out \in Seq(Message)
    BY <1>1 DEF Worker
  <2> HIDE DEF w
  <2>2. Tail(w.out) \in Seq(Message)
    BY <1>0, <2>1, HeadTailProperties
  <2> QED BY <1>0, <1>1, <2>2 DEF Worker
<1>6. m \in Message
  <2>1. w.out \in Seq(Message)
    BY <1>1 DEF Worker
  <2> HIDE DEF w
  <2> QED BY <1>0, <2>1, HeadTailProperties
<1>7. m.type \in {"chunk", "done", "result", "error"} /\ m.of \in Calls
  BY <1>6 DEF Message
<1> HIDE DEF x, m, w, r
<1>8. ~w.unread =>
          /\ m.of = c
          /\ m.type = "chunk" => c \in Streams
          /\ m.type # "chunk" => w.asked = <<>> /\ w.sent = 0 /\ Tail(w.out) = <<>>
          /\ m.type = "done" => c \in Streams /\ Len(r.got) = Chunks
          /\ m.type = "result" => c \notin Streams /\ Len(r.got) = 0
  BY <1>0, <1>1, <1>3, FirstMessage DEF m
<1>9. ~(m.type = "chunk" /\ c \in Streams) => Free(x)
  BY <1>3, <1>5, <1>8 DEF Free, Empty
<1>10. ~w.unread => \A i \in 1..Len(r.got) : r.got[i] = c
  BY <1>3 DEF Exchange
<1>11. ASSUME NEW o \in {"error", "crashed"}, Leaves(c, x, o),
              ~(m.type = "chunk" /\ c \in Streams)
       PROVE  Inv'
  BY <1>0, <1>4, <1>5, <1>9, <1>11, LeavesStep DEF Outcome, r
<1>12. CASE m.type = "error"
  <2>1. Leaves(c, x, "error")
    BY <1>2, <1>12
  <2> QED BY <1>11, <1>12, <2>1
<1>13. CASE m.type = "chunk" /\ c \in Streams
  <2>1. /\ worker' = [worker EXCEPT ![k] = x]
        /\ call' = [call EXCEPT ![c].at = "yielded", ![c].got = Append(@, m.of)]
        /\ UNCHANGED holder
    BY <1>2, <1>13
  <2> DEFINE q == [r EXCEPT !.at = "yielded", !.got = Append(r.got, m.of)]
  <2>2. call' = [call EXCEPT ![c] = q]
    BY <1>0, <2>1 DEF TypeOK, r
  <2>3. /\ Append(r.got, m.of) \in Seq(Calls)
    BY <1>1, <1>7, AppendProperties DEF CallRow
  <2>4. /\ q \in CallRow /\ q.at = "yielded" /\ q.got = Append(r.got, m.of) /\ q.seen = r.seen
        /\ q.unread = r.unread /\ q.hit = r.hit /\ q.outcome = r.outcome
    BY <1>1, <2>3 DEF CallRow, At
  <2> HIDE DEF q
  <2>5. ~x.unread => Exchange(x, c, q)
    BY <1>0, <1>1, <1>3, <1>5, <1>8, <1>13, <2>4, FirstMessage DEF m
  <2>6. Held(x, c, q)
    BY <1>3, <1>5, <2>4, <2>5 DEF Held, Sent
  <2>7. Told(c, q, x)
    BY <1>0, <1>1, <1>5, <2>4 DEF Told, Sent
  <2>8. holder' = [holder EXCEPT ![k] = c] /\ q.at \in Holding
    BY <1>0, <1>1, <2>1, <2>4 DEF TypeOK, Holding
  <2>9. call[c].at # "room"
    BY <1>0 DEF r
  <2> HIDE DEF k
  <2> QED BY <1>0, <1>1, <1>5, <2>1, <2>2, <2>4, <2>6, <2>7, <2>8, <2>9, CallFrame DEF k
<1>14. CASE m.type = "done" /\ c \in Streams
  <2>1. Leaves(c, x, "ok")
    BY <1>2, <1>14
  <2>2. ~r.unread => Len(r.got) = Expected(c) /\ \A i \in 1..Len(r.got) : r.got[i] = c
    BY <1>3, <1>8, <1>10, <1>14 DEF Expected
  <2>3. Free(x)
    BY <1>9, <1>14
  <2> QED BY <1>0, <1>4, <1>5, <2>1, <2>2, <2>3, LeavesStep DEF Outcome, r
<1>15. CASE m.type = "result" /\ c \notin Streams
  <2> DEFINE v == IF Alive(k) /\ x.epoch = r.seen THEN [x EXCEPT !.state = "READY"] ELSE x
             q == [r EXCEPT !.at = "ended", !.outcome = "ok", !.got = Append(r.got, m.of)]
  <2>1. /\ worker' = [worker EXCEPT ![k] = v]
        /\ call' = [Ends(c, "ok") EXCEPT ![c].got = Append(@, m.of)]
        /\ holder' = [holder EXCEPT ![k] = NoCall]
    BY <1>2, <1>15
  <2>2. call' = [call EXCEPT ![c] = q]
    BY <1>0, <2>1 DEF TypeOK, Ends, r
  <2>3. /\ Append(r.got, m.of) \in Seq(Calls)
    BY <1>1, <1>7, AppendProperties DEF CallRow
  <2>4. /\ q \in CallRow /\ q.at = "ended" /\ q.got = Append(r.got, m.of)
        /\ q.unread = r.unread /\ q.hit = r.hit /\ q.outcome = "ok"
    BY <1>1, <2>3 DEF CallRow, At, Outcome
  <2>5. v \in Worker /\ Free(v)
    <3>1. Free(x)
      BY <1>9, <1>15
    <3> QED BY <1>5, <3>1 DEF Worker, Free, Empty
  <2> HIDE DEF q, v
  <2>6. ~q.unread => Len(q.got) = Expected(c) /\ \A i \in 1..Len(q.got) : q.got[i] = c
    <3> SUFFICES ASSUME ~w.unread PROVE Len(q.got) = 1 /\ q.got[1] = c
      BY <1>3, <1>15, <2>4 DEF Expected
    <3>1. r.got \in Seq(Calls) /\ Len(r.got) = 0 /\ q.got = Append(r.got, c) /\ c \in Calls
      BY <1>1, <1>8, <1>15, <2>4 DEF CallRow
    <3> QED BY <3>1, AppendProperties
  <2>7. Told(c, q, v)
    BY <1>4, <2>4, <2>6 DEF Told, Sent
  <2>8. q.at \notin Holding /\ call[c].at # "room"
    BY <1>0, <2>4 DEF Holding, r
  <2> HIDE DEF k
  <2> QED BY <1>0, <1>1, <2>1, <2>2, <2>4, <2>5, <2>7, <2>8, CallFrame DEF k
<1>16. CASE /\ m.type # "error" /\ ~(m.type = "chunk" /\ c \in Streams)
            /\ ~(m.type = "done" /\ c \in Streams) /\ ~(m.type = "result" /\ c \notin Streams)
  <2>1. Leaves(c, x, "crashed")
    BY <1>2, <1>16
  <2> QED BY <1>11, <1>16, <2>1
<1> QED BY <1>12, <1>13, <1>14, <1>15, <1>16

LEMMA BrokenStep ==
    ASSUME Inv, NEW c \in Calls, Broken(c)
    PROVE  Inv'
<1> DEFINE w == worker[KindOf[c]]
<1>0. /\ TypeOK /\ call[c].at = "wait" /\ UNCHANGED <<room, troubles>>
      /\ call[c].at \in Sent /\ call[c].at \in Holding
  BY DEF Inv, Broken, Holding, Sent
<1>1. /\ Held(w, c, call[c]) /\ w \in Worker /\ Told(c, call[c], w)
  BY <1>0, HolderPipe
<1>2. call[c].hit <=> w.epoch # call[c].seen
  BY <1>0, <1>1 DEF Told
<1>3. CASE w.epoch # call[c].seen
  <2>1. Leaves(c, w, "cancelled")
    BY <1>3 DEF Broken
  <2>2. Free(w)
    BY <1>0, <1>1, <1>3 DEF Held, Free
  <2> HIDE DEF w
  <2> QED BY <1>0, <1>1, <1>2, <1>3, <2>1, <2>2, LeavesStep DEF Outcome
<1>4. CASE w.epoch = call[c].seen
  <2>1. Leaves(c, Halted(w), "crashed")
    BY <1>4 DEF Broken
  <2>2. Halted(w) \in Worker /\ Free(Halted(w))
    BY <1>1, HaltedRow DEF Free
  <2> HIDE DEF w
  <2> QED BY <1>0, <1>1, <1>2, <1>4, <2>1, <2>2, LeavesStep DEF Outcome
<1> QED BY <1>3, <1>4

LEMMA TimesOutStep ==
    ASSUME Inv, NEW c \in Calls, TimesOut(c)
    PROVE  Inv'
<1> DEFINE w == worker[KindOf[c]]
<1>0. /\ call[c].at \in Sent /\ call[c].at \in Holding
      /\ UNCHANGED <<room, troubles>> /\ Leaves(c, Halted(w), "timeout")
  BY DEF TimesOut, Holding, Sent
<1>1. w \in Worker
  BY <1>0, HolderPipe
<1>2. Halted(w) \in Worker /\ Free(Halted(w))
  BY <1>1, HaltedRow DEF Free
<1> HIDE DEF w
<1> QED BY <1>0, <1>2, LeavesStep DEF Outcome

LEMMA NextChunkStep ==
    ASSUME Inv, NEW c \in Calls, NextChunk(c)
    PROVE  Inv'
<1> DEFINE k == KindOf[c]
           w == worker[k]
           r == [call[c] EXCEPT !.at = "wait"]
<1>0. /\ TypeOK /\ call[c].at = "yielded" /\ UNCHANGED <<worker, holder, room, troubles>>
      /\ call[c].at \in Holding
  BY DEF Inv, NextChunk, Holding
<1>1. /\ Held(w, c, call[c]) /\ w \in Worker /\ call[c] \in CallRow /\ k \in Kinds
      /\ holder[k] = c /\ Told(c, call[c], w) /\ c # NoCall
  BY <1>0, HolderPipe
<1>2. /\ call' = [call EXCEPT ![c] = r] /\ worker' = [worker EXCEPT ![k] = w]
      /\ holder' = [holder EXCEPT ![k] = c]
  BY <1>0, <1>1 DEF NextChunk, Goto, TypeOK
<1>3. /\ r \in CallRow /\ r.at = "wait" /\ r.seen = call[c].seen /\ r.unread = call[c].unread
      /\ r.got = call[c].got /\ r.hit = call[c].hit /\ r.outcome = call[c].outcome
  BY <1>1 DEF CallRow, At
<1> HIDE DEF r, w
<1>4. Told(c, r, w)
  BY <1>0, <1>1, <1>3 DEF Told, Sent
<1>5. Held(w, c, r)
  BY <1>0, <1>1, <1>3 DEF Held, Sent, Exchange, Under, Over
<1>6. r.at \in Holding /\ call[c].at # "room"
  BY <1>0, <1>3 DEF Holding
<1> HIDE DEF k
<1> QED BY <1>0, <1>1, <1>2, <1>3, <1>4, <1>5, <1>6, CallFrame DEF k

LEMMA AbandonStep ==
    ASSUME Inv, NEW c \in Calls, Abandon(c)
    PROVE  Inv'
<1> DEFINE w == worker[KindOf[c]]
           v == [w EXCEPT !.unread = Alive(KindOf[c])]
<1>0. /\ call[c].at \in Sent /\ call[c].at \in Holding
      /\ UNCHANGED <<room, troubles>> /\ Leaves(c, v, "abandoned")
  BY DEF Abandon, Holding, Sent
<1>1. w \in Worker /\ Held(w, c, call[c])
  BY <1>0, HolderPipe
<1>2. v \in Worker /\ Free(v)
  BY <1>1 DEF Worker, Free, Held, Alive
<1> HIDE DEF v
<1> QED BY <1>0, <1>2, LeavesStep DEF Outcome

--------------------------------------------------------------------------------
(* The child process, and cancellations.                                    *)

\* The next message of an exchange.
LEMMA NextMessage ==
    ASSUME NEW c \in Calls, NEW w \in Worker, NEW r \in CallRow, Exchange(w, c, r),
           w.asked # <<>>, NEW t \in {"chunk", "done", "result", "error"}, NEW v \in Worker,
           v.out = Append(w.out, [type |-> t, of |-> Head(w.asked)]),
           \/ t = "chunk" /\ c \in Streams /\ w.sent < Chunks /\ v.asked = w.asked
                 /\ v.sent = w.sent + 1
           \/ /\ v.asked = Tail(w.asked) /\ v.sent = 0
              /\ \/ t = "result" /\ c \notin Streams
                 \/ t = "done" /\ c \in Streams /\ w.sent = Chunks
                 \/ t = "error"
    PROVE  Exchange(v, c, r)
<1> DEFINE out == w.out
<1>0. out \in Seq(Message) /\ r.got \in Seq(Calls) /\ w.sent \in Nat
  BY DEF Worker, CallRow
<1> HIDE DEF out
<1>1. Under(w, c, r) /\ w.asked = <<c>>
  BY DEF Exchange, Under, Over
<1>2. Head(w.asked) = c /\ Tail(w.asked) = <<>>
  BY <1>1
<1> DEFINE m == [type |-> t, of |-> c]
<1>3. m \in Message /\ m.type = t /\ m.of = c /\ (t = "chunk" => m = Chunk(c))
  BY DEF Message, Chunk
<1>4. v.out = Append(out, m)
  BY <1>2 DEF out
<1> HIDE DEF m
<1>5. /\ Len(out) \in Nat /\ Len(v.out) = Len(out) + 1 /\ Len(r.got) \in Nat
      /\ \A i \in 1..Len(out) : v.out[i] = out[i]
      /\ v.out[Len(out) + 1] = m
  <2>1. Len(out) \in Nat /\ Len(r.got) \in Nat
    BY <1>0, LenProperties
  <2>2. /\ Len(Append(out, m)) = Len(out) + 1
        /\ \A i \in 1..Len(out) : Append(out, m)[i] = out[i]
        /\ Append(out, m)[Len(out) + 1] = m
    BY <1>0, <1>3, AppendProperties
  <2> QED BY <1>4, <2>1, <2>2, Zenon
<1>6. /\ \A i \in 1..Len(out) : out[i] = Chunk(c)
      /\ c \in Streams => w.sent = Len(r.got) + Len(out) /\ w.sent <= Chunks
      /\ c \notin Streams => Len(r.got) = 0 /\ Len(out) = 0
  BY <1>1 DEF Under, out
<1>7. CASE t = "chunk"
  <2>1. /\ c \in Streams /\ v.asked = <<c>> /\ v.sent = w.sent + 1 /\ w.sent < Chunks
    BY <1>1, <1>7
  <2>2. v.sent = Len(r.got) + Len(v.out)
    <3> DEFINE a == Len(out)  b == Len(r.got)  n == Len(v.out)
    <3>1. a \in Nat /\ b \in Nat /\ n = a + 1
      BY <1>5
    <3>2. v.sent = w.sent + 1 /\ w.sent = b + a
      BY <1>6, <2>1
    <3> HIDE DEF a, b, n
    <3>3. v.sent = b + n
      BY <3>1, <3>2
    <3> QED BY <3>3 DEF b, n
  <2>3. v.sent <= Chunks
    BY <1>0, <2>1, AIWorkerAssumption
  <2>4. \A i \in 1..Len(v.out) : v.out[i] = Chunk(c)
    <3>1. \A i \in 1..Len(v.out) : i \in 1..Len(out) \/ i = Len(out) + 1
      BY <1>5
    <3> QED BY <1>3, <1>5, <1>6, <1>7, <3>1
  <2>5. Under(v, c, r)
    BY <2>1, <2>2, <2>3, <2>4 DEF Under
  <2> QED BY <2>5 DEF Exchange
<1>8. CASE t # "chunk"
  <2>1. /\ v.asked = <<>> /\ v.sent = 0
        /\ t = "result" => c \notin Streams
        /\ t = "done" => c \in Streams /\ w.sent = Chunks
    BY <1>2, <1>8
  <2>2. v.out[Len(v.out)] = m /\ Len(v.out) > 0 /\ Len(v.out) - 1 = Len(out)
    BY <1>5
  <2>3. \A i \in 1..(Len(v.out) - 1) : v.out[i] = Chunk(c)
    BY <1>5, <1>6, <2>2
  <2>4. c \notin Streams => Len(r.got) = 0 /\ Len(v.out) = 1
    BY <1>5, <1>6
  <2>5. t = "done" => c \in Streams /\ Len(r.got) + (Len(v.out) - 1) = Chunks
    BY <1>6, <2>1, <2>2
  <2>6. Over(v, c, r)
    BY <1>3, <1>8, <2>1, <2>2, <2>3, <2>4, <2>5 DEF Over
  <2> QED BY <2>6 DEF Exchange
<1> QED BY <1>7, <1>8

LEMMA AnswerStep ==
    ASSUME Inv, NEW k \in Kinds, Answer(k)
    PROVE  Inv'
<1> DEFINE w == worker[k]
           v == worker'[k]
           h == holder[k]
           c == Head(w.asked)
<1>0. /\ TypeOK /\ Locks /\ w.child = "serving" /\ w.asked # <<>>
      /\ UNCHANGED <<holder, room, call, troubles>> /\ w \in Worker /\ Pipe(k)
  BY DEF Inv, Answer, TypeOK
<1>1. PICK t \in {"chunk", "done", "result", "error"} :
          LET says == [w EXCEPT !.out = Append(@, [type |-> t, of |-> c])]
          IN  \/ t = "chunk" /\ c \in Streams /\ w.sent < Chunks
                   /\ worker' = [worker EXCEPT ![k] = [says EXCEPT !.sent = @ + 1]]
              \/ /\ worker' = [worker EXCEPT ![k] = [says EXCEPT !.asked = Tail(@), !.sent = 0]]
                 /\ \/ t = "result" /\ c \notin Streams
                    \/ t = "done" /\ c \in Streams /\ w.sent = Chunks
                    \/ t = "error"
  BY DEF Answer
<1> HIDE DEF w, c
<1>2. c \in Calls /\ Tail(w.asked) \in Seq(Calls)
  BY <1>0, HeadTailProperties DEF Worker, c
<1>3. Append(w.out, [type |-> t, of |-> c]) \in Seq(Message)
  <2>1. [type |-> t, of |-> c] \in Message
    BY <1>2 DEF Message
  <2>2. w.out \in Seq(Message)
    BY <1>0 DEF Worker
  <2> QED BY <2>1, <2>2, AppendProperties
<1>4. w.sent + 1 \in Nat
  BY <1>0 DEF Worker
<1>5. /\ v \in Worker /\ worker' = [worker EXCEPT ![k] = v]
      /\ v.child = w.child /\ v.open = w.open /\ v.epoch = w.epoch /\ v.unread = w.unread
      /\ v.out = Append(w.out, [type |-> t, of |-> c])
      /\ \/ /\ t = "chunk" /\ c \in Streams /\ w.sent < Chunks /\ v.asked = w.asked
            /\ v.sent = w.sent + 1
         \/ /\ v.asked = Tail(w.asked) /\ v.sent = 0
            /\ \/ t = "result" /\ c \notin Streams
               \/ t = "done" /\ c \in Streams /\ w.sent = Chunks
               \/ t = "error"
  <2>1. CASE /\ t = "chunk" /\ c \in Streams /\ w.sent < Chunks
             /\ worker' = [worker EXCEPT ![k] =
                    [[w EXCEPT !.out = Append(@, [type |-> t, of |-> c])] EXCEPT !.sent = @ + 1]]
    <3>1. v = [w EXCEPT !.out = Append(w.out, [type |-> t, of |-> c]), !.sent = w.sent + 1]
      BY <1>0, <2>1 DEF TypeOK, Worker
    <3> HIDE DEF v
    <3> QED BY <1>0, <1>3, <1>4, <2>1, <3>1 DEF Worker, TypeOK
  <2>2. CASE /\ worker' = [worker EXCEPT ![k] =
                    [[w EXCEPT !.out = Append(@, [type |-> t, of |-> c])]
                        EXCEPT !.asked = Tail(@), !.sent = 0]]
             /\ \/ t = "result" /\ c \notin Streams
                \/ t = "done" /\ c \in Streams /\ w.sent = Chunks
                \/ t = "error"
    <3>1. v = [w EXCEPT !.out = Append(w.out, [type |-> t, of |-> c]),
                        !.asked = Tail(w.asked), !.sent = 0]
      BY <1>0, <2>2 DEF TypeOK, Worker
    <3> HIDE DEF v
    <3> QED BY <1>0, <1>2, <1>3, <2>2, <3>1 DEF Worker, TypeOK
  <2> QED BY <1>1, <2>1, <2>2
<1> HIDE DEF v
<1>6. h = NoCall => Free(v)
  <2> SUFFICES ASSUME h = NoCall PROVE Free(v)
    OBVIOUS
  <2>1. Free(w)
    BY <1>0 DEF Pipe, w
  <2> QED BY <1>0, <1>5, <2>1 DEF Free, Empty
<1>7. h # NoCall => Held(v, h, call[h])
  <2> SUFFICES ASSUME h # NoCall PROVE Held(v, h, call[h])
    OBVIOUS
  <2>1. Held(w, h, call[h]) /\ h \in Calls /\ call[h] \in CallRow
    BY <1>0 DEF Pipe, TypeOK, w
  <2> HIDE DEF h
  <2>2. ~Empty(w)
    BY <1>0 DEF Empty
  <2>3. w.open /\ v.open /\ v.unread = w.unread /\ v.epoch = w.epoch /\ v.child = w.child
    BY <1>0, <1>5, <2>1 DEF Held
  <2>4. Exchange(w, h, call[h]) => Exchange(v, h, call[h])
    <3> SUFFICES ASSUME Exchange(w, h, call[h]) PROVE Exchange(v, h, call[h])
      OBVIOUS
    <3>1. w.asked = <<h>>
      BY <1>0 DEF Exchange, Under, Over
    <3>2. c = h
      BY <3>1 DEF c
    <3> QED BY <1>0, <1>5, <2>1, <3>2, NextMessage DEF c
  <2> QED BY <1>0, <2>1, <2>2, <2>3, <2>4 DEF Held
<1>8. \A d \in Calls : worker'[KindOf[d]].epoch = worker[KindOf[d]].epoch
  BY <1>0, <1>5, AIWorkerAssumption DEF TypeOK, v, w
<1>9. \A d \in Calls : Told(d, call[d], worker[KindOf[d]])
  BY DEF Inv
<1>10. \A d \in Calls : Told(d, call'[d], worker'[KindOf[d]])
  BY <1>0, <1>8, <1>9 DEF Told
<1>11. /\ room'.for \in Calls \cup {NoCall} /\ (room'.for # NoCall => call'[room'.for].at = "room")
       /\ call' \in [Calls -> CallRow] /\ call' = call /\ holder' = holder /\ troubles' \in Nat
  BY <1>0 DEF TypeOK, Locks
<1> QED BY <1>5, <1>6, <1>7, <1>10, <1>11, SideFrame

LEMMA ExitStep ==
    ASSUME Inv, NEW k \in Kinds, Exit(k)
    PROVE  Inv'
<1> DEFINE w == worker[k]
           v == [w EXCEPT !.child = "none", !.asked = <<>>]
           h == holder[k]
<1>0. /\ TypeOK /\ Locks /\ UNCHANGED <<holder, room, call>> /\ w \in Worker /\ Pipe(k)
  BY DEF Inv, Exit, TypeOK
<1>1. troubles' \in Nat
  BY <1>0 DEF Exit, TypeOK
<1>2. worker' = [worker EXCEPT ![k] = v]
  BY <1>0 DEF Exit, TypeOK
<1>3. /\ v \in Worker /\ v.child = "none" /\ v.asked = <<>> /\ v.out = w.out /\ v.sent = w.sent
      /\ v.open = w.open /\ v.unread = w.unread /\ v.epoch = w.epoch
  BY <1>0, EmptySeq DEF Worker
<1> HIDE DEF v
<1>4. h = NoCall => Free(v)
  BY <1>0, <1>3 DEF Pipe, Free
<1>5. h # NoCall => Held(v, h, call[h])
  <2> SUFFICES ASSUME h # NoCall PROVE Held(v, h, call[h])
    OBVIOUS
  <2>1. Held(w, h, call[h])
    BY <1>0 DEF Pipe
  <2> HIDE DEF h, w
  <2>2. Empty(w) => Empty(v)
    BY <1>3 DEF Empty
  <2>3. Exchange(w, h, call[h]) => Exchange(v, h, call[h])
    BY <1>3 DEF Exchange, Under, Over
  <2> QED BY <1>3, <2>1, <2>2, <2>3 DEF Held
<1>6. \A d \in Calls : worker'[KindOf[d]].epoch = worker[KindOf[d]].epoch
  BY <1>0, <1>2, <1>3, AIWorkerAssumption DEF TypeOK
<1>7. \A d \in Calls : Told(d, call[d], worker[KindOf[d]])
  BY DEF Inv
<1>8. \A d \in Calls : Told(d, call'[d], worker'[KindOf[d]])
  BY <1>0, <1>6, <1>7 DEF Told
<1>9. /\ room'.for \in Calls \cup {NoCall} /\ (room'.for # NoCall => call'[room'.for].at = "room")
      /\ call' \in [Calls -> CallRow] /\ call' = call /\ holder' = holder
  BY <1>0 DEF TypeOK, Locks
<1> QED BY <1>1, <1>2, <1>3, <1>4, <1>5, <1>8, <1>9, SideFrame

LEMMA CancelStep ==
    ASSUME Inv, NEW k \in Kinds, Cancel(k)
    PROVE  Inv'
<1> DEFINE w == worker[k]
           v == [Halted(w) EXCEPT !.epoch = w.epoch + 1]
           h == holder[k]
<1>0. /\ TypeOK /\ Locks /\ UNCHANGED <<holder, room>> /\ w \in Worker /\ Pipe(k)
      /\ ~Starting(k) /\ NoCall \notin Calls
  BY AIWorkerAssumption DEF Inv, Cancel, TypeOK
<1>1. troubles' \in Nat
  BY <1>0 DEF Cancel, TypeOK
<1>2. worker' = [worker EXCEPT ![k] = v]
  BY DEF Cancel
<1>3. /\ v \in Worker /\ v.child = "none" /\ ~v.open /\ v.out = <<>> /\ ~v.unread
      /\ v.epoch = w.epoch + 1
  <2> DEFINE x == Halted(w)
  <2>1. /\ x \in Worker /\ x.child = "none" /\ ~x.open /\ x.out = <<>> /\ ~x.unread
        /\ x.epoch = w.epoch
    BY <1>0, HaltedRow
  <2>2. v = [x EXCEPT !.epoch = w.epoch + 1]
    OBVIOUS
  <2> HIDE DEF x, v, w
  <2> QED BY <2>1, <2>2 DEF Worker
<1> HIDE DEF v
<1>4. /\ call' \in [Calls -> CallRow]
      /\ \A d \in Calls : call'[d].at = call[d].at /\ (d # h => call'[d] = call[d])
      /\ h # NoCall /\ call[h].at \in Sent =>
             /\ call'[h].hit /\ call'[h].seen = call[h].seen
             /\ call'[h].outcome = call[h].outcome
      /\ ~(h # NoCall /\ call[h].at \in Sent) => call' = call
  <2>1. CASE h # NoCall /\ call[h].at \in Sent
    <3> DEFINE r == [call[h] EXCEPT !.hit = TRUE]
    <3>1. call' = [call EXCEPT ![h] = r] /\ h \in Calls /\ call[h] \in CallRow
      BY <1>0, <2>1 DEF Cancel, Sent, TypeOK
    <3>2. /\ r \in CallRow /\ r.at = call[h].at /\ r.hit /\ r.seen = call[h].seen
          /\ r.outcome = call[h].outcome
      BY <3>1 DEF CallRow
    <3> HIDE DEF r, h
    <3> QED BY <1>0, <2>1, <3>1, <3>2 DEF TypeOK
  <2>2. CASE ~(h # NoCall /\ call[h].at \in Sent)
    BY <1>0, <2>2 DEF Cancel, Sent, TypeOK
  <2> QED BY <2>1, <2>2
<1>5. Free(v)
  BY <1>3 DEF Free
<1>6. h # NoCall => Held(v, h, call'[h])
  <2> SUFFICES ASSUME h # NoCall PROVE Held(v, h, call'[h])
    OBVIOUS
  <2>1. h \in Calls /\ call'[h].at # "loading"
    BY <1>0, <1>4 DEF Starting, TypeOK
  <2> QED BY <1>3, <2>1 DEF Held
<1>7. \A d \in Calls : Told(d, call'[d], worker'[KindOf[d]])
  <2> TAKE d \in Calls
  <2>1. Told(d, call[d], worker[KindOf[d]]) /\ KindOf[d] \in Kinds
    BY AIWorkerAssumption DEF Inv
  <2>2. CASE KindOf[d] = k /\ call[d].at \in Sent
    <3>1. h = d /\ h # NoCall
      BY <1>0, <2>2 DEF Locks, Holding, Sent
    <3>2. /\ call'[d].hit /\ call'[d].seen = call[d].seen /\ call'[d].at = call[d].at
          /\ call'[d].outcome = call[d].outcome
      BY <1>4, <2>2, <3>1
    <3>3. /\ worker'[KindOf[d]].epoch = w.epoch + 1 /\ w.epoch \in Nat /\ call[d].seen \in Nat
      BY <1>0, <1>2, <1>3, <2>2 DEF TypeOK, Worker, CallRow
    <3>4. call[d].outcome = "none" /\ w.epoch >= call[d].seen
      BY <2>1, <2>2 DEF Told
    <3>5. worker'[KindOf[d]].epoch >= call[d].seen /\ worker'[KindOf[d]].epoch # call[d].seen
      BY <3>3, <3>4
    <3>6. call'[d].at \notin {"ended"} /\ call'[d].at \in Sent
      BY <2>2, <3>2 DEF Sent
    <3> HIDE DEF w, h
    <3> QED BY <3>2, <3>4, <3>5, <3>6 DEF Told
  <2>3. CASE call[d].at \notin Sent
    <3>1. call'[d] = call[d]
      BY <1>4, <2>3
    <3> QED BY <2>1, <2>3, <3>1 DEF Told
  <2>4. CASE KindOf[d] # k
    <3>1. worker'[KindOf[d]] = worker[KindOf[d]]
      BY <1>0, <1>2, <2>1, <2>4 DEF TypeOK
    <3>2. d # h
      BY <1>0, <2>4 DEF Locks
    <3> QED BY <1>4, <2>1, <3>1, <3>2
  <2> QED BY <2>2, <2>3, <2>4
<1>8. \A i \in Kinds \ {k} : holder[i] # NoCall => call'[holder[i]] = call[holder[i]]
  BY <1>0, <1>4 DEF Locks, TypeOK
<1>9. /\ room'.for \in Calls \cup {NoCall} /\ (room'.for # NoCall => call'[room'.for].at = "room")
      /\ holder' = holder
      /\ \A d \in Calls : call'[d].at \in Holding <=> call[d].at \in Holding
  BY <1>0, <1>4 DEF TypeOK, Locks
<1> QED BY <1>1, <1>2, <1>3, <1>4, <1>5, <1>6, <1>7, <1>8, <1>9, SideFrame

--------------------------------------------------------------------------------
(* The invariant, and what it gives.                                        *)

LEMMA InvInit ==
    Init => Inv
<1> SUFFICES ASSUME Init PROVE Inv
  OBVIOUS
<1>1. TypeOK
  BY EmptySeq DEF Init, TypeOK, Worker, CallRow, Stopped, NoRoom, At, Outcome
<1>2. Locks
  BY AIWorkerAssumption DEF Init, Locks, NoRoom, Holding
<1>3. \A k \in Kinds : Pipe(k)
  BY DEF Init, Pipe, Free, Stopped
<1>4. \A c \in Calls : Told(c, call[c], worker[KindOf[c]])
  BY DEF Init, Told, Sent
<1> QED BY <1>1, <1>2, <1>3, <1>4 DEF Inv

LEMMA InvStep ==
    Inv /\ [Next]_aiVars => Inv'
<1> SUFFICES ASSUME Inv, [Next]_aiVars PROVE Inv'
  OBVIOUS
<1>1. ASSUME NEW c \in Calls, Call(c) PROVE Inv'
  BY <1>1, PrepareStep, EvictStep, ResourceBusyStep, TakeStep, StartStep, LoadedStep,
     EnsureStep, BindStep, SendStep, ReceiveStep, BrokenStep, TimesOutStep DEF Call
<1>2. ASSUME NEW c \in Calls, Consumer(c) PROVE Inv'
  BY <1>2, NextChunkStep, AbandonStep DEF Consumer
<1>3. ASSUME NEW k \in Kinds, Answer(k) \/ Exit(k) \/ Cancel(k) PROVE Inv'
  BY <1>3, AnswerStep, ExitStep, CancelStep
<1>4. CASE UNCHANGED aiVars
  BY <1>4 DEF aiVars, Inv, TypeOK, Locks, Pipe
<1> QED BY <1>1, <1>2, <1>3, <1>4 DEF Next

LEMMA Invariance ==
    Spec => []Inv
BY InvInit, InvStep, PTL DEF Spec

LEMMA PipeInStep ==
    ASSUME Inv, NEW k \in Kinds, ~worker[k].unread, worker[k].child = "serving"
    PROVE  /\ \A m \in ToSet(worker[k].out) : m.of = holder[k]
           /\ ToSet(worker[k].asked) \subseteq {holder[k]}
<1> DEFINE w == worker[k]
           h == holder[k]
<1>0. w \in Worker /\ Pipe(k) /\ TypeOK /\ Locks
  BY DEF Inv, TypeOK
<1>1. CASE Empty(w)
  BY <1>1 DEF Empty, ToSet
<1>2. CASE ~Empty(w)
  <2>1. h # NoCall /\ Held(w, h, call[h])
    BY <1>0, <1>2 DEF Pipe, Free
  <2>2. h \in Calls /\ call[h].at \in Holding
    BY <1>0, <2>1 DEF TypeOK, Locks
  <2>3. w.open
    BY <2>1 DEF Held
  <2>4. call[h].at \in Sent
    BY <1>2, <2>1, <2>2, <2>3 DEF Held, Holding, Sent
  <2>5. Exchange(w, h, call[h])
    BY <2>1, <2>3, <2>4 DEF Held
  <2> HIDE DEF w, h
  <2>6. \A i \in 1..Len(w.out) : w.out[i].of = h
    <3>1. CASE Under(w, h, call[h])
      BY <3>1 DEF Under, Chunk
    <3>2. CASE Over(w, h, call[h])
      <4>1. /\ \A i \in 1..(Len(w.out) - 1) : w.out[i] = Chunk(h)
            /\ w.out[Len(w.out)].of = h /\ Len(w.out) > 0
        BY <3>2 DEF Over
      <4>2. Len(w.out) \in Nat
        BY <1>0, LenProperties DEF Worker
      <4>3. \A i \in 1..Len(w.out) : i \in 1..(Len(w.out) - 1) \/ i = Len(w.out)
        BY <4>2
      <4>4. \A i \in 1..(Len(w.out) - 1) : w.out[i].of = h
        BY <4>1 DEF Chunk
      <4> QED BY <4>1, <4>3, <4>4
    <3> QED BY <2>5, <3>1, <3>2 DEF Exchange
  <2>7. w.asked \in {<<>>, <<h>>}
    BY <2>5 DEF Exchange, Under, Over
  <2>8. DOMAIN w.out = 1..Len(w.out)
    BY <1>0, LenProperties DEF Worker
  <2>9. \A m \in ToSet(w.out) : m.of = h
    BY <2>6, <2>8 DEF ToSet
  <2>10. ToSet(w.asked) \subseteq {h}
    BY <2>7 DEF ToSet
  <2> QED BY <2>9, <2>10 DEF w, h
<1> QED BY <1>1, <1>2

LEMMA OwnAnswer ==
    ASSUME Inv, NEW c \in Calls, ~call[c].unread
    PROVE  Own(c)
<1> DEFINE r == call[c]
<1> SUFFICES ASSUME r.outcome = "ok" PROVE r.got = [i \in 1..Expected(c) |-> c]
  BY DEF Own
<1>0. r \in CallRow /\ Told(c, r, worker[KindOf[c]])
  BY Fields DEF Inv
<1>1. r.at = "ended"
  BY <1>0 DEF Told
<1> HIDE DEF r
<1>2. Len(r.got) = Expected(c) /\ \A i \in 1..Len(r.got) : r.got[i] = c
  <2>1. ~r.unread
    BY DEF r
  <2> QED BY <1>0, <1>1, <2>1 DEF Told
<1>3. r.got \in Seq(Calls)
  BY <1>0 DEF CallRow
<1>4. r.got = [i \in 1..Len(r.got) |-> r.got[i]]
  BY <1>3
<1> QED BY <1>2, <1>4

LEMMA InvInStep ==
    Inv => InStep
<1> SUFFICES ASSUME Inv PROVE InStep
  OBVIOUS
<1>0. TypeOK /\ Locks
  BY DEF Inv
<1>1. ASSUME NEW k \in Kinds
      PROVE  /\ worker[k].child \in {"none", "loading", "serving", "leaving"}
             /\ worker[k].state \in {"STOPPED", "LOADING", "READY", "BUSY", "ERROR"}
             /\ holder[k] \in {c \in Calls : KindOf[c] = k} \cup {NoCall}
             /\ ToSet(worker[k].out) \subseteq Message
  <2>1. worker[k] \in Worker /\ holder[k] \in Calls \cup {NoCall}
    BY <1>0 DEF TypeOK
  <2>2. worker[k].out \in Seq(Message)
    BY <2>1 DEF Worker
  <2>3. ToSet(worker[k].out) \subseteq Message
    BY <2>2, ElementOfSeq, LenProperties DEF ToSet
  <2>4. holder[k] # NoCall => KindOf[holder[k]] = k
    BY <1>0 DEF Locks
  <2> QED BY <2>1, <2>3, <2>4 DEF Worker
<1>2. \A k \in Kinds : ~worker[k].unread /\ worker[k].child = "serving" =>
          /\ \A m \in ToSet(worker[k].out) : m.of = holder[k]
          /\ ToSet(worker[k].asked) \subseteq {holder[k]}
  BY PipeInStep
<1>3. \A c \in Calls : call[c].at \in At /\ call[c].outcome \in Outcome
  BY <1>0 DEF TypeOK, CallRow
<1>4. \A c \in Calls : ~call[c].unread => Own(c)
  BY OwnAnswer
<1> QED BY <1>1, <1>2, <1>3, <1>4 DEF InStep

\* Whatever crashes, timeouts, cancellations and evictions there were, a pipe on which no
\* stream was left unread holds nothing but the exchange of the call that holds the lock,
\* and a call that succeeds has got its own answer and all of it (supervisor.py:242-287).
THEOREM StaysInStep == Spec => []InStep
BY Invariance, InvInStep, PTL

\* A call cancelled after it was sent neither succeeds nor is reported as a crash, and no
\* call is told of a cancellation that was not for it (supervisor.py:227, 255, 281).
THEOREM CancellationIsTold == Spec => []CancelIsTold
<1>1. Inv => CancelIsTold
  BY DEF Inv, Told, CancelIsTold
<1> QED BY <1>1, Invariance, PTL
================================================================================
