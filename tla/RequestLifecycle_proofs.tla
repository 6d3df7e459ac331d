----------------------- MODULE RequestLifecycle_proofs -----------------------
(***************************************************************************)
(* Proofs that RequestLifecycle keeps its safety properties and implements *)
(* GenerationContract for every number of requests, every choice of graph  *)
(* requests, every pair of watermarks and every bound on the tokens.       *)
(*                                                                         *)
(* The shapes of the variables come first, then what the program counters  *)
(* of the worker and of Shutdown say of the rest, then who owns a request, *)
(* then the stream of its events, and last what follows from all of them.  *)
(***************************************************************************)
EXTENDS RequestLifecycle, FiniteSetTheorems, SequenceTheorems, TLAPS

Subs == {"new", "recorded", "pushed", "accepted", "refused"}
Cancs == {"none", "start", "lookup", "record", "ok", "notfound"}
Records == [cancelled : BOOLEAN, ended : BOOLEAN, pool : Nat, tokens : Nat]
Generated == Requests \ Graphs
Events == [r : Generated, e : {"tok", "end"}]
\* Where the worker holds a request it has fetched.
Holding == {"popped", "removed", "consume", "graph", "register", "release"}
WorkerPCs == {"top", "awake", "drowsy", "asleep", "woke", "fetch", "cancelling", "outputs",
              "exited"} \cup Holding
Workers == [pc : WorkerPCs, cur : Requests \cup {NoReq}, out : Seq(Events),
            batch : SUBSET Requests, exclusive : BOOLEAN]
Callbacks == [pc : {"check", "drowsy", "asleep", "deliver", "cancel", "exited"},
              ev : [r : Requests \cup {NoReq}, e : {"tok", "end"}]]
\* Where Shutdown is while the engine is DRAINING, and when the worker has been
\* joined.
DrainPCs == {"notify", "wait", "stop"}
JoinedPCs == {"finalize", "closed", "joincb", "done"}
ShutdownPCs == {"running", "stopped", "join"} \cup DrainPCs \cup JoinedPCs

ClientShape == sub \in [Requests -> Subs] /\ canc \in [Requests -> Cancs]
PendShape == /\ pend \subseteq Requests /\ pendIds \subseteq Requests /\ pcan \subseteq Requests
             /\ act \subseteq Generated
ReqShape == req \in [Requests -> Records]
WShape == w \in Workers
QueueShape == /\ drain \in {"free", "waiting", "woken"} /\ closed \in BOOLEAN
              /\ results \in Seq(Events)
CbShape == cb \in Callbacks /\ (cb.pc = "deliver" => cb.ev \in Events)
SeenShape == seen \in [Requests -> Seq({"tok", "end"})]
SdShape == /\ status \in {"RUNNING", "DRAINING", "STOPPED"}
           /\ sd \in [pc : ShutdownPCs, left : SUBSET Generated]
Shape == /\ ClientShape /\ PendShape /\ ReqShape /\ WShape /\ QueueShape /\ CbShape /\ SeenShape
         /\ SdShape

\* The worker: what its program counter says of what it holds.
WorkerInv ==
  /\ w.cur # NoReq <=> w.pc \in Holding
  /\ w.out # <<>> => w.pc \in {"release", "cancelling", "outputs"}
  /\ w.pc = "graph" => w.cur \in Graphs
  /\ w.pc = "register" => w.cur \in Generated
  /\ w.pc = "release" => req[w.cur].ended
  /\ w.pc # "outputs" => w.batch = {}
  /\ \A r \in w.batch : r \in act /\ ~req[r].ended

\* Shutdown: what its program counter says of the other threads.
ShutdownInv ==
  /\ status = "RUNNING" <=> sd.pc = "running"
  /\ status = "DRAINING" <=> sd.pc \in DrainPCs
  /\ sd.pc \in JoinedPCs => w.pc = "exited" /\ act = {}
  /\ sd.left # {} => sd.pc = "finalize"
  /\ closed <=> sd.pc \in {"closed", "joincb", "done"}
  /\ closed => pend = {}
  /\ cb.pc = "exited" => closed /\ results = <<>>
  /\ sd.pc = "done" => cb.pc = "exited"
  /\ \A r \in Requests : sub[r] \in {"recorded", "pushed"} => status = "RUNNING"

\* One owner until the release to the pool, which comes after the end.
OwnerInv ==
  \A r \in Requests :
    /\ r \in pend => w.cur # r /\ r \notin act /\ r \notin sd.left
    /\ w.cur = r => r \notin act /\ r \notin sd.left
    /\ r \in act => r \notin sd.left
    /\ r \in pend \/ w.cur = r \/ r \in act \/ r \in sd.left =>
         sub[r] \in {"pushed", "accepted"} /\ req[r].pool = 0
    /\ sub[r] \in {"pushed", "accepted"} =>
         \/ r \in pend \/ w.cur = r \/ r \in act \/ r \in sd.left
         \/ req[r].pool = 1 /\ req[r].ended
    /\ sub[r] \in {"new", "recorded"} => req[r].pool = 0
    /\ sub[r] = "refused" => req[r].pool = 1
\* A request that nobody has published has had nothing.
FreshInv ==
  \A r \in Requests : /\ sub[r] \notin {"pushed", "accepted"} => ~req[r].ended /\ req[r].tokens = 0
                      /\ req[r].tokens <= MaxTokens
                      /\ ~req[r].ended => req[r].tokens < MaxTokens
\* pending_request_ids mirrors the pending queue.
IdsInv ==
  \A r \in pendIds : r \in pend \/ sub[r] = "recorded" \/ (w.cur = r /\ w.pc = "popped")

\* Exclusive execution: what is fetched while a request is active is cancelled.
ExclusiveInv ==
  w.exclusive =>
    /\ \A p, q \in act : p = q
    /\ w.pc \in {"popped", "removed", "consume"} /\ act # {} => req[w.cur].cancelled
    /\ w.pc = "register" => act = {}

(***************************************************************************)
(* The steps of the engine, thread by thread.                              *)
(***************************************************************************)
LEMMA NextCases ==
  ASSUME [Next]_vars
  PROVE  \/ WaitForWork \/ Sleep \/ ExitIfDrained \/ FetchDone \/ BuildBatch \/ WorkerThrows
         \/ Forget \/ Recheck \/ Consume \/ RunGraph \/ Reject \/ Activate \/ ReleaseCurrent
         \/ Reap \/ Push \/ WaitForDrain
         \/ TakeEvent \/ CallbackWait \/ CallbackSleep \/ Deliver \/ CallbackReturns
         \/ BeginDrain \/ NotifyDrain \/ WaitDrained \/ Stop \/ NotifyStop \/ JoinWorker
         \/ CloseResults \/ NotifyClosed \/ JoinCallback
         \/ \E r \in Requests :
              \/ FetchOne(r) \/ FinishCancelled(r) \/ OutputOne(r)
              \/ FinalizeActive(r) \/ FinalizePending(r)
              \/ Admit(r) \/ Publish(r) \/ PublishFails(r) \/ NotifyAdmitted(r)
              \/ CancelActive(r) \/ CancelLookup(r) \/ CancelRecord(r)
         \/ UNCHANGED vars
BY DEF Next, Worker, Callback, ShutdownRest, SubmitRest, CancelRest

(***************************************************************************)
(* StartEngine establishes the shapes.                                     *)
(***************************************************************************)
LEMMA InitShape == Init => Shape
<1> SUFFICES ASSUME Init PROVE Shape
  OBVIOUS
<1>3. WShape
  <2>1. PICK x \in BOOLEAN : w = [pc |-> "top", cur |-> NoReq, out |-> <<>>, batch |-> {},
                                  exclusive |-> x]
    BY ModesAssumption DEF Init
  <2>2. <<>> \in Seq(Events) /\ "top" \in WorkerPCs /\ {} \in SUBSET Requests
    BY DEF WorkerPCs
  <2> QED BY <2>1, <2>2 DEF WShape, Workers
<1>4. QueueShape
  <2>1. drain = "free" /\ closed = FALSE /\ results = <<>>
    BY DEF Init
  <2>2. <<>> \in Seq(Events)
    OBVIOUS
  <2> QED BY <2>1, <2>2 DEF QueueShape
<1> USE RequestsAssumption, ModesAssumption DEF Init
<1>1. ClientShape /\ PendShape BY DEF ClientShape, PendShape, Subs, Cancs
<1>2. ReqShape BY DEF ReqShape, Records
<1>5. CbShape BY DEF CbShape, Callbacks, CallbackIdle, Event
<1>6. SeenShape /\ SdShape BY DEF SeenShape, SdShape, ShutdownPCs
<1> QED BY <1>1, <1>2, <1>3, <1>4, <1>5, <1>6 DEF Shape

(***************************************************************************)
(* The threads of a client keep the shapes of what they share.             *)
(***************************************************************************)
LEMMA ClientShapeNext ==
  ASSUME Shape, WorkerInv, ShutdownInv, [Next]_vars
  PROVE  ClientShape' /\ PendShape'
<1> USE RequestsAssumption DEF Shape, ClientShape, PendShape, Subs, Cancs, Generated
<1>1. CASE \/ WaitForWork \/ Sleep \/ ExitIfDrained \/ FetchDone \/ BuildBatch \/ WorkerThrows
           \/ RunGraph \/ Reject \/ ReleaseCurrent \/ Push \/ WaitForDrain
           \/ Recheck
  BY <1>1 DEF WaitForWork, Sleep, ExitIfDrained, FetchDone, BuildBatch, WorkerThrows, RunGraph,
              Reject, ReleaseCurrent, Push, WaitForDrain, Recheck, clients, pending
<1>2. CASE Forget \/ Consume \/ Activate \/ Reap
  BY <1>2 DEF Forget, Consume, Activate, Reap, LeftActive, clients, pending, WorkerAt, WorkerInv,
              Generated
<1>3. CASE \/ TakeEvent \/ CallbackWait \/ CallbackSleep \/ Deliver \/ CallbackReturns
  BY <1>3 DEF TakeEvent, CallbackWait, CallbackSleep, Deliver, CallbackReturns, clients, pending
<1>4. CASE \/ BeginDrain \/ NotifyDrain \/ WaitDrained \/ Stop \/ NotifyStop \/ JoinWorker
           \/ CloseResults \/ NotifyClosed \/ JoinCallback
  BY <1>4 DEF BeginDrain, NotifyDrain, WaitDrained, Stop, NotifyStop, JoinWorker, CloseResults,
              NotifyClosed, JoinCallback, clients, pending
<1>5. ASSUME NEW r \in Requests, \/ FetchOne(r) \/ FinishCancelled(r) \/ OutputOne(r)
                                 \/ FinalizeActive(r) \/ FinalizePending(r)
      PROVE  ClientShape' /\ PendShape'
  BY <1>5 DEF FetchOne, FinishCancelled, OutputOne, FinalizeActive, FinalizePending, clients,
              pending
<1>6. ASSUME NEW r \in Requests, \/ Admit(r) \/ Publish(r) \/ PublishFails(r) \/ NotifyAdmitted(r)
                                 \/ CancelActive(r) \/ CancelLookup(r) \/ CancelRecord(r)
      PROVE  ClientShape' /\ PendShape'
  BY <1>6 DEF Admit, Publish, PublishFails, Refused, NotifyAdmitted, CancelActive, CancelLookup,
              CancelRecord, clients, pending
<1>7. CASE UNCHANGED vars
  BY <1>7 DEF vars
<1> QED BY <1>1, <1>2, <1>3, <1>4, <1>5, <1>6, <1>7, NextCases

(***************************************************************************)
(* The events a finaliser makes are events of the request it finalises.    *)
(***************************************************************************)
LEMMA TerminalShape ==
  ASSUME NEW r \in Generated
  PROVE  /\ Event(r, "end") \in Events /\ Event(r, "tok") \in Events
         /\ Terminal(r) \in Seq(Events)
<1>1. Event(r, "end") \in Events /\ Event(r, "tok") \in Events
  BY DEF Event, Events
<1>2. <<Event(r, "end")>> \in Seq(Events) /\ <<>> \in Seq(Events)
  BY <1>1
<1> QED BY <1>1, <1>2 DEF Terminal

\* The fields of request x become c, e, p and t; no other request changes.
Becomes(x, c, e, p, t) ==
  /\ req' \in [Requests -> Records]
  /\ req'[x].cancelled = c /\ req'[x].ended = e /\ req'[x].pool = p /\ req'[x].tokens = t
  /\ \A q \in Requests : q # x => req'[q] = req[q]

(***************************************************************************)
(* What the assignments to the fields of a request do.                     *)
(***************************************************************************)
LEMMA FieldUpdates ==
  ASSUME req \in [Requests -> Records], NEW x \in Requests, NEW b \in BOOLEAN, NEW n \in Nat
  PROVE  /\ req' = [req EXCEPT ![x].cancelled = b]
              => Becomes(x, b, req[x].ended, req[x].pool, req[x].tokens)
         /\ req' = [req EXCEPT ![x].ended = b]
              => Becomes(x, req[x].cancelled, b, req[x].pool, req[x].tokens)
         /\ req' = [req EXCEPT ![x].ended = TRUE, ![x].cancelled = b]
              => Becomes(x, b, TRUE, req[x].pool, req[x].tokens)
         /\ req' = [req EXCEPT ![x].pool = n]
              => Becomes(x, req[x].cancelled, req[x].ended, n, req[x].tokens)
         /\ req' = [req EXCEPT ![x].tokens = n, ![x].ended = b]
              => Becomes(x, req[x].cancelled, b, req[x].pool, n)
         /\ req' = [req EXCEPT ![x].cancelled = TRUE, ![x].ended = TRUE, ![x].pool = n]
              => Becomes(x, TRUE, TRUE, n, req[x].tokens)
<1>1. req' = [req EXCEPT ![x].cancelled = b]
      => Becomes(x, b, req[x].ended, req[x].pool, req[x].tokens)
  BY DEF Becomes, Records
<1>2. req' = [req EXCEPT ![x].ended = b]
      => Becomes(x, req[x].cancelled, b, req[x].pool, req[x].tokens)
  BY DEF Becomes, Records
<1>3. req' = [req EXCEPT ![x].ended = TRUE, ![x].cancelled = b]
      => Becomes(x, b, TRUE, req[x].pool, req[x].tokens)
  <2> SUFFICES ASSUME req' = [req EXCEPT ![x].ended = TRUE, ![x].cancelled = b]
               PROVE  Becomes(x, b, TRUE, req[x].pool, req[x].tokens)
    OBVIOUS
  <2>1. req' \in [Requests -> Records]
    BY DEF Records
  <2>2. /\ req'[x].cancelled = b /\ req'[x].ended = TRUE /\ req'[x].pool = req[x].pool
        /\ req'[x].tokens = req[x].tokens
    BY DEF Records
  <2>3. \A q \in Requests : q # x => req'[q] = req[q]
    OBVIOUS
  <2> QED BY <2>1, <2>2, <2>3 DEF Becomes
<1>4. req' = [req EXCEPT ![x].pool = n]
      => Becomes(x, req[x].cancelled, req[x].ended, n, req[x].tokens)
  BY DEF Becomes, Records
<1>5. req' = [req EXCEPT ![x].tokens = n, ![x].ended = b]
      => Becomes(x, req[x].cancelled, b, req[x].pool, n)
  <2> SUFFICES ASSUME req' = [req EXCEPT ![x].tokens = n, ![x].ended = b]
               PROVE  Becomes(x, req[x].cancelled, b, req[x].pool, n)
    OBVIOUS
  <2>1. req' \in [Requests -> Records]
    BY DEF Records
  <2>2. /\ req'[x].cancelled = req[x].cancelled /\ req'[x].ended = b
        /\ req'[x].pool = req[x].pool /\ req'[x].tokens = n
    BY DEF Records
  <2>3. \A q \in Requests : q # x => req'[q] = req[q]
    OBVIOUS
  <2> QED BY <2>1, <2>2, <2>3 DEF Becomes
<1>6. req' = [req EXCEPT ![x].cancelled = TRUE, ![x].ended = TRUE, ![x].pool = n]
      => Becomes(x, TRUE, TRUE, n, req[x].tokens)
  <2> SUFFICES ASSUME req' = [req EXCEPT ![x].cancelled = TRUE, ![x].ended = TRUE, ![x].pool = n]
               PROVE  Becomes(x, TRUE, TRUE, n, req[x].tokens)
    OBVIOUS
  <2>1. req' \in [Requests -> Records]
    BY DEF Records
  <2>2. /\ req'[x].cancelled = TRUE /\ req'[x].ended = TRUE /\ req'[x].pool = n
        /\ req'[x].tokens = req[x].tokens
    BY DEF Records
  <2>3. \A q \in Requests : q # x => req'[q] = req[q]
    OBVIOUS
  <2> QED BY <2>1, <2>2, <2>3 DEF Becomes
<1> QED BY <1>1, <1>2, <1>3, <1>4, <1>5, <1>6

(***************************************************************************)
(* The fields of a request have values of their types.                     *)
(***************************************************************************)
LEMMA Fields ==
  ASSUME Shape, NEW x \in Requests
  PROVE  /\ req \in [Requests -> Records]
         /\ req[x].cancelled \in BOOLEAN /\ req[x].ended \in BOOLEAN
         /\ req[x].pool \in Nat /\ req[x].tokens \in Nat
<1>1. req \in [Requests -> Records]
  BY DEF Shape, ReqShape
<1>2. req[x] \in Records
  BY <1>1
<1> QED BY <1>1, <1>2 DEF Records

(***************************************************************************)
(* The request a finaliser of the fetch loop ends is over.                 *)
(***************************************************************************)
LEMMA EndCurrentReq ==
  ASSUME Shape, w.cur \in Requests, NEW flag \in BOOLEAN, EndCurrent(flag)
  PROVE  Becomes(w.cur, req[w.cur].cancelled \/ flag, TRUE, req[w.cur].pool, req[w.cur].tokens)
<1>1. PICK x \in Requests : x = w.cur
  OBVIOUS
<1>2. req' = [req EXCEPT ![x].ended = TRUE, ![x].cancelled = req[x].cancelled \/ flag]
  BY <1>1 DEF EndCurrent
<1>3. (req[x].cancelled \/ flag) \in BOOLEAN
  OBVIOUS
<1>4. Becomes(x, req[x].cancelled \/ flag, TRUE, req[x].pool, req[x].tokens)
  BY <1>2, <1>3, Fields, FieldUpdates
<1> QED BY <1>1, <1>4

(***************************************************************************)
(* FinalizeStopped ends a request and gives it back to the pool.           *)
(***************************************************************************)
LEMMA FinalizeStoppedReq ==
  ASSUME Shape, NEW r \in Requests, FinalizeStopped(r)
  PROVE  Becomes(r, TRUE, TRUE, req[r].pool + 1, req[r].tokens)
<1>1. PICK n \in Nat : n = req[r].pool + 1
  BY Fields
<1>2. req' = [req EXCEPT ![r].cancelled = TRUE, ![r].ended = TRUE, ![r].pool = n]
  BY <1>1 DEF FinalizeStopped
<1> QED BY <1>1, <1>2, Fields, FieldUpdates

(***************************************************************************)
(* A release to the pool, of the current request or of a refused one.      *)
(***************************************************************************)
LEMMA ReleaseReq ==
  ASSUME Shape, NEW r \in Requests, req' = [req EXCEPT ![r].pool = @ + 1]
  PROVE  Becomes(r, req[r].cancelled, req[r].ended, req[r].pool + 1, req[r].tokens)
<1>1. PICK n \in Nat : n = req[r].pool + 1
  BY Fields
<1>2. req' = [req EXCEPT ![r].pool = n]
  BY <1>1
<1> QED BY <1>1, <1>2, Fields, FieldUpdates

(***************************************************************************)
(* An output of the batch: at most one more token, and maybe the end.      *)
(***************************************************************************)
LEMMA OutputReq ==
  ASSUME Shape, NEW r \in Requests, OutputOne(r)
  PROVE  \E token, ends \in BOOLEAN :
           /\ token \/ ends
           /\ token /\ LastToken(r) => ends
           /\ Becomes(r, req[r].cancelled, ends, req[r].pool,
                      IF token THEN req[r].tokens + 1 ELSE req[r].tokens)
           /\ w' = [w EXCEPT !.batch = w.batch \ {r},
                             !.out = (IF token THEN <<Event(r, "tok")>> ELSE <<>>)
                                     \o (IF ends THEN Terminal(r) ELSE <<>>)]
<1>1. PICK token, ends \in BOOLEAN :
        /\ token \/ ends
        /\ token /\ LastToken(r) => ends
        /\ req' = [req EXCEPT ![r].tokens = IF token THEN @ + 1 ELSE @, ![r].ended = ends]
        /\ w' = [w EXCEPT !.batch = w.batch \ {r},
                          !.out = (IF token THEN <<Event(r, "tok")>> ELSE <<>>)
                                  \o (IF ends THEN Terminal(r) ELSE <<>>)]
  BY DEF OutputOne
<1>2. PICK n \in Nat : n = IF token THEN req[r].tokens + 1 ELSE req[r].tokens
  BY Fields
<1>3. req' = [req EXCEPT ![r].tokens = n, ![r].ended = ends]
  BY <1>1, <1>2
<1>4. Becomes(r, req[r].cancelled, ends, req[r].pool, n)
  BY <1>3, Fields, FieldUpdates
<1> QED BY <1>1, <1>2, <1>4

(***************************************************************************)
(* Marking a request cancelled or ended.                                   *)
(***************************************************************************)
LEMMA MarkReq ==
  ASSUME Shape, NEW r \in Requests
  PROVE  /\ req' = [req EXCEPT ![r].cancelled = TRUE]
              => Becomes(r, TRUE, req[r].ended, req[r].pool, req[r].tokens)
         /\ req' = [req EXCEPT ![r].ended = TRUE]
              => Becomes(r, req[r].cancelled, TRUE, req[r].pool, req[r].tokens)
BY Fields, FieldUpdates

(***************************************************************************)
(* Reap releases the active requests that are over, and WaitDrained marks  *)
(* the active ones.                                                        *)
(***************************************************************************)
LEMMA SweepReq ==
  ASSUME Shape
  PROVE  /\ Reap =>
              /\ req' \in [Requests -> Records]
              /\ \A q \in Requests :
                   /\ q \in act /\ req[q].ended =>
                        /\ req'[q].cancelled = req[q].cancelled /\ req'[q].ended
                        /\ req'[q].pool = req[q].pool + 1 /\ req'[q].tokens = req[q].tokens
                   /\ ~(q \in act /\ req[q].ended) => req'[q] = req[q]
         /\ WaitDrained =>
              /\ req' \in [Requests -> Records]
              /\ \A q \in Requests :
                   /\ req'[q].cancelled = (req[q].cancelled \/ q \in act)
                   /\ req'[q].ended = req[q].ended /\ req'[q].pool = req[q].pool
                   /\ req'[q].tokens = req[q].tokens
<1>1. ASSUME NEW y \in Records PROVE [y EXCEPT !.pool = @ + 1] \in Records
  BY DEF Records
<1>2. ASSUME NEW y \in Records
      PROVE  /\ [y EXCEPT !.pool = @ + 1].pool = y.pool + 1
             /\ [y EXCEPT !.pool = @ + 1].cancelled = y.cancelled
             /\ [y EXCEPT !.pool = @ + 1].ended = y.ended
             /\ [y EXCEPT !.pool = @ + 1].tokens = y.tokens
  BY DEF Records
<1>3. ASSUME NEW y \in Records PROVE [y EXCEPT !.cancelled = TRUE] \in Records
  BY DEF Records
<1>4. ASSUME NEW y \in Records
      PROVE  /\ [y EXCEPT !.cancelled = TRUE].pool = y.pool
             /\ [y EXCEPT !.cancelled = TRUE].cancelled = TRUE
             /\ [y EXCEPT !.cancelled = TRUE].ended = y.ended
             /\ [y EXCEPT !.cancelled = TRUE].tokens = y.tokens
  BY DEF Records
<1>5. req \in [Requests -> Records] /\ \A q \in Requests : req[q] \in Records
  BY DEF Shape, ReqShape
<1>6. ASSUME Reap
      PROVE  /\ req' \in [Requests -> Records]
             /\ \A q \in Requests :
                  /\ q \in act /\ req[q].ended =>
                       /\ req'[q].cancelled = req[q].cancelled /\ req'[q].ended
                       /\ req'[q].pool = req[q].pool + 1 /\ req'[q].tokens = req[q].tokens
                  /\ ~(q \in act /\ req[q].ended) => req'[q] = req[q]
  <2>1. req' = [q \in Requests |-> IF q \in act /\ req[q].ended
                                   THEN [req[q] EXCEPT !.pool = @ + 1] ELSE req[q]]
    BY <1>6 DEF Reap
  <2>2. req' \in [Requests -> Records]
    BY <1>1, <1>5, <2>1
  <2>3. ASSUME NEW q \in Requests, q \in act, req[q].ended
        PROVE  /\ req'[q].cancelled = req[q].cancelled /\ req'[q].ended
               /\ req'[q].pool = req[q].pool + 1 /\ req'[q].tokens = req[q].tokens
    <3>1. req'[q] = [req[q] EXCEPT !.pool = @ + 1]
      BY <2>1, <2>3
    <3> QED BY <1>2, <1>5, <2>3, <3>1
  <2>4. ASSUME NEW q \in Requests, ~(q \in act /\ req[q].ended) PROVE req'[q] = req[q]
    BY <2>1, <2>4
  <2> QED BY <2>2, <2>3, <2>4
<1>7. ASSUME WaitDrained
      PROVE  /\ req' \in [Requests -> Records]
             /\ \A q \in Requests :
                  /\ req'[q].cancelled = (req[q].cancelled \/ q \in act)
                  /\ req'[q].ended = req[q].ended /\ req'[q].pool = req[q].pool
                  /\ req'[q].tokens = req[q].tokens
  <2>1. req' = [q \in Requests |-> IF q \in act THEN [req[q] EXCEPT !.cancelled = TRUE] ELSE req[q]]
    BY <1>7 DEF WaitDrained
  <2>2. req' \in [Requests -> Records]
    BY <1>3, <1>5, <2>1
  <2>3. ASSUME NEW q \in Requests
        PROVE  /\ req'[q].cancelled = (req[q].cancelled \/ q \in act)
               /\ req'[q].ended = req[q].ended /\ req'[q].pool = req[q].pool
               /\ req'[q].tokens = req[q].tokens
    <3>1. CASE q \in act
      <4>1. req'[q] = [req[q] EXCEPT !.cancelled = TRUE]
        BY <2>1, <3>1
      <4> QED BY <1>4, <1>5, <3>1, <4>1
    <3>2. CASE q \notin act
      <4>1. req'[q] = req[q]
        BY <2>1, <3>2
      <4>2. req[q].cancelled \in BOOLEAN
        BY Fields
      <4> QED BY <3>2, <4>1, <4>2
    <3> QED BY <3>1, <3>2
  <2> QED BY <2>2, <2>3
<1> QED BY <1>6, <1>7

(***************************************************************************)
(* The worker moves between its program counters, and has only events of   *)
(* generations to push.                                                    *)
(***************************************************************************)
LEMMA WShapeNext ==
  ASSUME Shape, WorkerInv, [Next]_vars
  PROVE  WShape'
<1> USE DEF Shape, WShape, Workers, WorkerPCs, Holding
<1>1. CASE UNCHANGED w
  BY <1>1
<1>2. CASE \/ TakeEvent \/ CallbackWait \/ CallbackSleep \/ Deliver \/ CallbackReturns
           \/ BeginDrain \/ WaitDrained \/ Stop \/ JoinWorker \/ WaitForDrain
           \/ CloseResults \/ NotifyClosed \/ JoinCallback \/ UNCHANGED vars
  BY <1>1, <1>2 DEF TakeEvent, CallbackWait, CallbackSleep, Deliver, CallbackReturns, BeginDrain,
     WaitDrained, Stop, JoinWorker, WaitForDrain, CloseResults, NotifyClosed, JoinCallback, vars
<1>3. CASE NotifyDrain \/ NotifyStop
  BY <1>3 DEF NotifyDrain, NotifyStop, WakeWorker
<1>4. CASE \/ WaitForWork \/ Sleep \/ ExitIfDrained \/ FetchDone \/ WorkerThrows
           \/ Forget \/ Activate \/ ReleaseCurrent \/ Reap
  <2>1. CASE WaitForWork \/ Sleep \/ ExitIfDrained
    BY <2>1 DEF WaitForWork, Sleep, ExitIfDrained
  <2>2. CASE FetchDone \/ WorkerThrows \/ Forget
    BY <2>2 DEF FetchDone, WorkerThrows, Forget
  <2>3. CASE Activate \/ ReleaseCurrent
    BY <2>3 DEF Activate, ReleaseCurrent
  <2>4. CASE Reap
    BY <2>4 DEF Reap
  <2> QED BY ONLY <1>4, <2>1, <2>2, <2>3, <2>4
<1>5. CASE BuildBatch
  <2>1. PICK B \in SUBSET act : w' = [w EXCEPT !.pc = "outputs", !.batch = B]
    BY <1>5 DEF BuildBatch
  <2>2. B \in SUBSET Requests
    BY <2>1 DEF PendShape, Generated
  <2> QED BY <2>1, <2>2
<1>6. CASE Push
  <2>1. Tail(w.out) \in Seq(Events)
    BY <1>6, HeadTailProperties DEF Push
  <2>2. w' = [w EXCEPT !.out = Tail(w.out)]
    BY <1>6 DEF Push
  <2> QED BY <2>1, <2>2
<1>7. CASE Recheck \/ Consume \/ RunGraph \/ Reject
  <2>1. ASSUME NEW flag \in BOOLEAN, EndCurrent(flag), WorkerAt("removed") \/ WorkerAt("consume")
                 \/ WorkerAt("graph") \/ WorkerAt("register")
        PROVE  WShape'
    <3>1. CASE w' = [w EXCEPT !.pc = "release"]
      BY <3>1
    <3>2. CASE w.cur \notin Graphs /\ w' = [w EXCEPT !.pc = "release", !.out = Terminal(w.cur)]
      <4>1. w.cur \in Generated
        BY <2>1, <3>2 DEF WorkerInv, WorkerAt, Generated
      <4>2. Terminal(w.cur) \in Seq(Events)
        BY <4>1, TerminalShape
      <4> QED BY <3>2, <4>2
    <3> QED BY <2>1, <3>1, <3>2 DEF EndCurrent
  <2>2. CASE \E pc \in WorkerPCs : w' = [w EXCEPT !.pc = pc]
    BY <2>2
  <2> QED BY <1>7, <2>1, <2>2 DEF Recheck, Consume, RunGraph, Reject
<1>8. ASSUME NEW r \in Requests, FetchOne(r) PROVE WShape'
  BY <1>8 DEF FetchOne
<1>9. ASSUME NEW r \in Requests, FinishCancelled(r) PROVE WShape'
  <2>1. r \in Generated /\ w' = [w EXCEPT !.out = Terminal(r)]
    BY <1>9 DEF FinishCancelled, CancelledActive, PendShape
  <2>2. Terminal(r) \in Seq(Events)
    BY <2>1, TerminalShape
  <2> QED BY <2>1, <2>2
<1>10. ASSUME NEW r \in Requests, OutputOne(r) PROVE WShape'
  <2>1. PICK token, ends \in BOOLEAN :
          w' = [w EXCEPT !.batch = @ \ {r},
                         !.out = (IF token THEN <<Event(r, "tok")>> ELSE <<>>)
                                 \o (IF ends THEN Terminal(r) ELSE <<>>)]
    BY <1>10 DEF OutputOne
  <2> DEFINE out == (IF token THEN <<Event(r, "tok")>> ELSE <<>>)
                    \o (IF ends THEN Terminal(r) ELSE <<>>)
  <2>2. r \in Generated
    BY <1>10 DEF OutputOne, WorkerInv, PendShape
  <2>3. /\ (IF token THEN <<Event(r, "tok")>> ELSE <<>>) \in Seq(Events)
        /\ (IF ends THEN Terminal(r) ELSE <<>>) \in Seq(Events)
    BY <2>2, TerminalShape
  <2>4. out \in Seq(Events)
    BY <2>3, ConcatProperties
  <2>5. w' = [w EXCEPT !.batch = w.batch \ {r}, !.out = out]
    BY <2>1
  <2> HIDE DEF out
  <2> QED BY <2>4, <2>5
<1>11. ASSUME NEW r \in Requests, \/ FinalizeActive(r) \/ FinalizePending(r)
                                  \/ Admit(r) \/ Publish(r) \/ PublishFails(r)
                                  \/ CancelActive(r) \/ CancelLookup(r) \/ CancelRecord(r)
       PROVE  WShape'
  BY <1>1, <1>11 DEF FinalizeActive, FinalizePending, Admit, Publish, PublishFails, CancelActive,
                     CancelLookup, CancelRecord
<1>12. ASSUME NEW r \in Requests, NotifyAdmitted(r) PROVE WShape'
  BY <1>12 DEF NotifyAdmitted, WakeWorker
<1> QED BY <1>2, <1>3, <1>4, <1>5, <1>6, <1>7, <1>8, <1>9, <1>10, <1>11, <1>12, NextCases

(***************************************************************************)
(* Nothing but the fields of a request changes in it.                      *)
(***************************************************************************)
LEMMA ReqShapeNext ==
  ASSUME Shape, WorkerInv, [Next]_vars
  PROVE  ReqShape'
<1> SUFFICES req' \in [Requests -> Records]
  BY DEF ReqShape
<1>1. CASE UNCHANGED req
  BY <1>1 DEF Shape, ReqShape
<1>2. CASE \/ WaitForWork \/ Sleep \/ ExitIfDrained \/ FetchDone \/ BuildBatch \/ WorkerThrows
           \/ Forget \/ Activate \/ Push \/ WaitForDrain
           \/ TakeEvent \/ CallbackWait \/ CallbackSleep \/ Deliver \/ CallbackReturns
           \/ BeginDrain \/ NotifyDrain \/ Stop \/ NotifyStop \/ JoinWorker
           \/ CloseResults \/ NotifyClosed \/ JoinCallback \/ UNCHANGED vars
  BY <1>1, <1>2 DEF WaitForWork, Sleep, ExitIfDrained, FetchDone, BuildBatch, WorkerThrows, Forget,
     Activate, Push, WaitForDrain, TakeEvent, CallbackWait, CallbackSleep, Deliver,
     CallbackReturns, BeginDrain, NotifyDrain, Stop, NotifyStop, JoinWorker, CloseResults,
     NotifyClosed, JoinCallback, vars
<1>3. CASE Recheck \/ Consume \/ RunGraph \/ Reject \/ ReleaseCurrent
  <2>1. w.cur \in Requests
    BY <1>3 DEF Recheck, Consume, RunGraph, Reject, ReleaseCurrent, WorkerAt, WorkerInv, Holding,
                Shape, WShape, Workers
  <2>2. CASE EndCurrent(TRUE) \/ EndCurrent(FALSE)
    BY <2>1, <2>2, EndCurrentReq DEF Becomes
  <2>3. CASE ReleaseCurrent
    BY <2>1, <2>3, ReleaseReq DEF ReleaseCurrent, Becomes
  <2> QED BY <1>1, <1>3, <2>2, <2>3 DEF Recheck, Consume, RunGraph, Reject
<1>4. CASE Reap \/ WaitDrained
  BY <1>4, SweepReq
<1>5. ASSUME NEW r \in Requests, FetchOne(r) \/ FinishCancelled(r) \/ CancelActive(r)
      PROVE  req' \in [Requests -> Records]
  BY <1>1, <1>5, MarkReq DEF FetchOne, FinishCancelled, CancelActive, Becomes
<1>6. ASSUME NEW r \in Requests, OutputOne(r) PROVE req' \in [Requests -> Records]
  BY <1>6, OutputReq DEF Becomes
<1>7. ASSUME NEW r \in Requests, FinalizeActive(r) \/ FinalizePending(r)
      PROVE  req' \in [Requests -> Records]
  BY <1>7, FinalizeStoppedReq DEF FinalizeActive, FinalizePending, Becomes
<1>8. ASSUME NEW r \in Requests, \/ Admit(r) \/ Publish(r) \/ PublishFails(r) \/ NotifyAdmitted(r)
                                 \/ CancelLookup(r) \/ CancelRecord(r)
      PROVE  req' \in [Requests -> Records]
  BY <1>1, <1>8, ReleaseReq DEF Admit, Publish, PublishFails, Refused, NotifyAdmitted,
     CancelLookup, CancelRecord, Becomes
<1> QED BY <1>2, <1>3, <1>4, <1>5, <1>6, <1>7, <1>8, NextCases

(***************************************************************************)
(* Only events of generations pass through the queue, and only to threads  *)
(* that know their request.                                                *)
(***************************************************************************)
LEMMA QueueShapeNext ==
  ASSUME Shape, WorkerInv, [Next]_vars
  PROVE  QueueShape' /\ CbShape'
<1>0. /\ results \in Seq(Events) /\ w.out \in Seq(Events) /\ cb \in Callbacks
      /\ cb.pc = "deliver" => cb.ev \in Events
  BY DEF Shape, QueueShape, CbShape, WShape, Workers
<1>1. CASE UNCHANGED <<queue, cb>>
  BY <1>1 DEF Shape, QueueShape, CbShape, queue
<1>2. CASE \/ WaitForWork \/ Sleep \/ ExitIfDrained \/ FetchDone \/ BuildBatch \/ WorkerThrows
           \/ Forget \/ Recheck \/ Consume \/ RunGraph \/ Reject \/ Activate \/ ReleaseCurrent
           \/ Reap \/ BeginDrain \/ NotifyDrain \/ WaitDrained \/ Stop \/ JoinWorker
           \/ JoinCallback \/ UNCHANGED vars
  BY <1>1, <1>2 DEF WaitForWork, Sleep, ExitIfDrained, FetchDone, BuildBatch, WorkerThrows, Forget,
     Recheck, Consume, RunGraph, Reject, Activate, ReleaseCurrent, Reap, BeginDrain, NotifyDrain,
     WaitDrained, Stop, JoinWorker, JoinCallback, vars, queue
<1>3. ASSUME NEW r \in Requests,
             \/ FetchOne(r) \/ FinishCancelled(r) \/ OutputOne(r)
             \/ Admit(r) \/ Publish(r) \/ PublishFails(r) \/ NotifyAdmitted(r)
             \/ CancelActive(r) \/ CancelLookup(r) \/ CancelRecord(r)
      PROVE  UNCHANGED <<queue, cb>>
  BY <1>3 DEF FetchOne, FinishCancelled, OutputOne, Admit, Publish, PublishFails, NotifyAdmitted,
              CancelActive, CancelLookup, CancelRecord, queue
<1>4. ASSUME WakeCallback PROVE CbShape'
  BY <1>0, <1>4 DEF WakeCallback, CbShape, Callbacks
<1>5. CASE Push
  <2>1. Head(w.out) \in Events
    BY <1>0, <1>5, HeadTailProperties DEF Push
  <2>2. results' \in Seq(Events)
    BY <1>0, <1>5, <2>1, AppendProperties DEF Push
  <2> QED BY <1>4, <1>5, <2>2 DEF Push, Shape, QueueShape
<1>6. CASE WaitForDrain \/ CloseResults
  <2>1. cb' = cb
    BY <1>6 DEF WaitForDrain, CloseResults
  <2>2. QueueShape'
    BY <1>6 DEF WaitForDrain, CloseResults, Shape, QueueShape
  <2> QED BY <2>1, <2>2 DEF Shape, CbShape
<1>7. CASE TakeEvent
  <2>1. Head(results) \in Events /\ results' \in Seq(Events)
    BY <1>0, <1>7, HeadTailProperties DEF TakeEvent
  <2>2. cb' = [pc |-> "deliver", ev |-> Head(results)]
    BY <1>7 DEF TakeEvent
  <2>3. Head(results) \in [r : Requests \cup {NoReq}, e : {"tok", "end"}]
    BY <2>1 DEF Events, Generated
  <2>4. CbShape'
    BY <2>1, <2>2, <2>3 DEF CbShape, Callbacks
  <2>5. QueueShape'
    BY <1>7, <2>1 DEF TakeEvent, Shape, QueueShape
  <2> QED BY <2>4, <2>5
<1>8. CASE CallbackWait \/ CallbackSleep \/ Deliver \/ CallbackReturns
  <2>1. CbShape'
    BY <1>0, <1>8 DEF CallbackWait, CallbackSleep, Deliver, CallbackReturns, CbShape, Callbacks,
       CallbackIdle, Event
  <2>2. UNCHANGED queue
    BY <1>8 DEF CallbackWait, CallbackSleep, Deliver, CallbackReturns
  <2> QED BY <2>1, <2>2 DEF Shape, QueueShape, queue
<1>9. CASE NotifyStop \/ NotifyClosed
  BY <1>4, <1>9 DEF NotifyStop, NotifyClosed, Shape, QueueShape, queue
<1>10. ASSUME NEW r \in Requests, FinalizeActive(r) \/ FinalizePending(r)
       PROVE  QueueShape' /\ CbShape'
  <2>1. UNCHANGED <<drain, closed>> /\ FinalizeStopped(r)
    BY <1>10 DEF FinalizeActive, FinalizePending
  <2>2. CASE UNCHANGED <<results, cb>>
    BY <2>1, <2>2 DEF Shape, QueueShape, CbShape
  <2>3. CASE r \notin Graphs /\ results' = results \o Terminal(r) /\ WakeCallback
    <3>1. Terminal(r) \in Seq(Events)
      BY <2>3, TerminalShape DEF Generated
    <3>2. results' \in Seq(Events)
      BY <1>0, <2>3, <3>1, ConcatProperties
    <3> QED BY <1>4, <2>1, <2>3, <3>2 DEF Shape, QueueShape
  <2> QED BY <2>1, <2>2, <2>3 DEF FinalizeStopped
<1> QED BY <1>1, <1>2, <1>3, <1>5, <1>6, <1>7, <1>8, <1>9, <1>10, NextCases

(***************************************************************************)
(* Callbacks are given tokens and terminal events, and Shutdown takes over *)
(* active requests only.                                                   *)
(***************************************************************************)
LEMMA SeenShapeNext ==
  ASSUME Shape, WorkerInv, [Next]_vars
  PROVE  SeenShape' /\ SdShape'
<1>0. seen \in [Requests -> Seq({"tok", "end"})] /\ SdShape
  BY DEF Shape, SeenShape
<1>1. ASSUME NEW x, NEW e \in {"tok", "end"}, seen' = [seen EXCEPT ![x] = Append(@, e)]
      PROVE  SeenShape'
  <2>1. CASE x \in Requests
    <3>1. Append(seen[x], e) \in Seq({"tok", "end"})
      BY <1>0, <2>1, AppendProperties
    <3> QED BY <1>0, <1>1, <3>1 DEF SeenShape
  <2>2. CASE x \notin Requests
    BY <1>0, <1>1, <2>2 DEF SeenShape
  <2> QED BY <2>1, <2>2
<1>2. ASSUME NEW x, CompleteGraph(x) PROVE SeenShape'
  <2>1. CASE req[x].ended
    BY <1>0, <1>2, <2>1 DEF CompleteGraph, SeenShape
  <2>2. CASE ~req[x].ended
    BY <1>1, <1>2, <2>2 DEF CompleteGraph
  <2> QED BY <2>1, <2>2
<1>3. CASE UNCHANGED <<seen, sd, status>>
  BY <1>0, <1>3 DEF SeenShape, SdShape
<1>4. CASE \/ WaitForWork \/ Sleep \/ ExitIfDrained \/ FetchDone \/ BuildBatch \/ WorkerThrows
           \/ Forget \/ Activate \/ ReleaseCurrent \/ Reap \/ Push \/ WaitForDrain
           \/ TakeEvent \/ CallbackWait \/ CallbackSleep \/ CallbackReturns \/ UNCHANGED vars
  BY <1>3, <1>4 DEF WaitForWork, Sleep, ExitIfDrained, FetchDone, BuildBatch, WorkerThrows, Forget,
     Activate, ReleaseCurrent, Reap, Push, WaitForDrain, TakeEvent, CallbackWait, CallbackSleep,
     CallbackReturns, vars
<1>5. CASE Recheck \/ Consume \/ RunGraph \/ Reject
  <2>1. UNCHANGED <<status, sd>> /\ (UNCHANGED seen \/ CompleteGraph(w.cur))
    BY <1>5 DEF Recheck, Consume, RunGraph, Reject, EndCurrent
  <2> QED BY <1>0, <1>2, <1>3, <2>1 DEF SdShape
<1>6. CASE Deliver
  <2>1. /\ UNCHANGED <<status, sd>> /\ cb.ev.e \in {"tok", "end"}
        /\ seen' = [seen EXCEPT ![cb.ev.r] = Append(@, cb.ev.e)]
    BY <1>6 DEF Deliver, Shape, CbShape, Events
  <2> QED BY <1>0, <1>1, <2>1 DEF SdShape
<1>7. CASE \/ BeginDrain \/ NotifyDrain \/ WaitDrained \/ Stop \/ NotifyStop \/ JoinWorker
           \/ CloseResults \/ NotifyClosed \/ JoinCallback
  <2>1. UNCHANGED seen
    BY <1>7 DEF BeginDrain, NotifyDrain, WaitDrained, Stop, NotifyStop, JoinWorker, CloseResults,
                NotifyClosed, JoinCallback
  <2>2. SdShape'
    BY <1>0, <1>7 DEF BeginDrain, NotifyDrain, WaitDrained, Stop, NotifyStop, JoinWorker,
       CloseResults, NotifyClosed, JoinCallback, SdShape, ShutdownPCs, DrainPCs, JoinedPCs,
       Shape, PendShape
  <2> QED BY <1>0, <2>1, <2>2 DEF SeenShape
<1>8. ASSUME NEW r \in Requests,
             \/ FetchOne(r) \/ FinishCancelled(r) \/ OutputOne(r)
             \/ Admit(r) \/ Publish(r) \/ PublishFails(r) \/ NotifyAdmitted(r)
             \/ CancelActive(r) \/ CancelLookup(r) \/ CancelRecord(r)
      PROVE  UNCHANGED <<seen, sd, status>>
  BY <1>8 DEF FetchOne, FinishCancelled, OutputOne, Admit, Publish, PublishFails, NotifyAdmitted,
              CancelActive, CancelLookup, CancelRecord
<1>9. ASSUME NEW r \in Requests, FinalizeActive(r) \/ FinalizePending(r)
      PROVE  SeenShape' /\ SdShape'
  <2>1. UNCHANGED seen \/ CompleteGraph(r)
    BY <1>9 DEF FinalizeActive, FinalizePending, FinalizeStopped
  <2>2. SdShape'
    BY <1>0, <1>9 DEF FinalizeActive, FinalizePending, SdShape
  <2> QED BY <1>0, <1>2, <2>1, <2>2 DEF SeenShape
<1> QED BY <1>3, <1>4, <1>5, <1>6, <1>7, <1>8, <1>9, NextCases

(***************************************************************************)
(* A step keeps the shapes.                                                *)
(***************************************************************************)
LEMMA ShapeNext ==
  ASSUME Shape, WorkerInv, ShutdownInv, [Next]_vars
  PROVE  Shape'
BY ClientShapeNext, ReqShapeNext, WShapeNext, QueueShapeNext, SeenShapeNext DEF Shape

(***************************************************************************)
(* The program counter of the worker tells what it holds: the request it   *)
(* has fetched, the events it has still to push, the batch, whose requests *)
(* are active and not over.                                                *)
(***************************************************************************)
LEMMA WorkerNext ==
  ASSUME Shape, WorkerInv, ShutdownInv, [Next]_vars
  PROVE  WorkerInv'
<1>0. /\ w \in Workers /\ act \subseteq Generated /\ NoReq \notin Requests /\ Generated \subseteq Requests
      /\ Graphs \subseteq Requests
  BY RequestsAssumption DEF Shape, WShape, PendShape, Generated
<1>1. /\ w.pc \in WorkerPCs /\ w.cur \in Requests \cup {NoReq}
  BY <1>0 DEF Workers
<1>2. CASE UNCHANGED <<w, act, req>>
  BY <1>2 DEF WorkerInv
<1>3. ASSUME WakeWorker, UNCHANGED <<act, req>> PROVE WorkerInv'
  BY <1>0, <1>3 DEF WakeWorker, WorkerInv, Workers, Holding
<1>4. CASE \/ WaitForDrain \/ TakeEvent \/ CallbackWait \/ CallbackSleep \/ Deliver \/ CallbackReturns
           \/ BeginDrain \/ Stop \/ CloseResults \/ NotifyClosed \/ JoinCallback \/ UNCHANGED vars
  BY <1>2, <1>4 DEF WaitForDrain, TakeEvent, CallbackWait, CallbackSleep, Deliver, CallbackReturns,
     BeginDrain, Stop, CloseResults, NotifyClosed, JoinCallback, vars
<1>5. CASE NotifyDrain \/ NotifyStop
  BY <1>3, <1>5 DEF NotifyDrain, NotifyStop
<1>6. CASE WaitForWork \/ Sleep \/ ExitIfDrained \/ FetchDone
  <2>1. /\ UNCHANGED <<act, req>> /\ w.pc \notin Holding /\ w.pc # "outputs" /\ w.out = <<>>
        /\ \E pc \in WorkerPCs : w' = [w EXCEPT !.pc = pc]
        /\ w'.pc \notin Holding
    BY <1>0, <1>6 DEF WaitForWork, Sleep, ExitIfDrained, FetchDone, WorkerAt, Workers, WorkerPCs,
       Holding
  <2>2. UNCHANGED <<w.cur, w.out, w.batch>>
    BY <1>0, <2>1 DEF Workers
  <2> QED BY <1>1, <2>1, <2>2 DEF WorkerInv, Holding
<1>7. CASE WorkerThrows
  BY <1>0, <1>7 DEF WorkerThrows, WorkerAt, WorkerInv, Workers, Holding
<1>8. CASE BuildBatch
  <2>1. /\ UNCHANGED <<act, req>> /\ w.pc = "cancelling" /\ w.out = <<>>
        /\ \E B \in SUBSET {r \in act : ~req[r].ended} :
             w' = [w EXCEPT !.pc = "outputs", !.batch = B]
    BY <1>8 DEF BuildBatch, WorkerAt
  <2>2. /\ w'.pc = "outputs" /\ UNCHANGED <<w.cur, w.out>> /\ \A r \in w'.batch : r \in act /\ ~req[r].ended
    BY <1>0, <2>1 DEF Workers
  <2> QED BY <2>1, <2>2 DEF WorkerInv, Holding
<1>9. CASE Forget
  BY <1>0, <1>9 DEF Forget, WorkerAt, WorkerInv, Workers, Holding
<1>10. CASE Recheck \/ Consume \/ RunGraph \/ Reject
  <2>0. /\ w.cur \in Requests /\ w.pc \in Holding /\ w.pc # "outputs" /\ w.out = <<>> /\ UNCHANGED act
        /\ w.batch = {}
    BY <1>1, <1>10 DEF Recheck, Consume, RunGraph, Reject, WorkerAt, WorkerInv, Holding
  <2>1. ASSUME NEW flag \in BOOLEAN, EndCurrent(flag) PROVE WorkerInv'
    <3>1. w'.pc = "release" /\ UNCHANGED <<w.cur, w.batch>>
      BY <1>0, <2>1 DEF EndCurrent, Workers
    <3>2. req'[w.cur].ended = TRUE
      BY <2>0, <2>1, EndCurrentReq DEF Becomes
    <3> QED BY <2>0, <3>1, <3>2, <1>0 DEF WorkerInv, Holding
  <2>2. CASE UNCHANGED req /\ Recheck
    BY <1>0, <2>0, <2>1, <2>2 DEF Recheck, WorkerAt, WorkerInv, Workers, Holding
  <2>3. CASE UNCHANGED req /\ w' = [w EXCEPT !.pc = IF w.cur \in Graphs THEN "graph" ELSE "register"]
    BY <1>0, <2>0, <2>3 DEF WorkerInv, Workers, Holding, Generated
  <2> QED BY <1>10, <2>1, <2>2, <2>3 DEF Recheck, Consume, RunGraph, Reject
<1>11. CASE Activate \/ ReleaseCurrent
  <2>1. /\ w.out = <<>> /\ w.pc # "outputs" /\ w' = [w EXCEPT !.pc = "fetch", !.cur = NoReq]
    BY <1>11 DEF Activate, ReleaseCurrent, WorkerAt
  <2>2. w'.pc = "fetch" /\ w'.cur = NoReq /\ w'.out = <<>> /\ w'.batch = {}
    BY <1>0, <2>1 DEF Workers, WorkerInv
  <2> QED BY <2>2 DEF WorkerInv, Holding
<1>12. CASE Reap
  <2>1. w.batch = {} /\ w.out = <<>> /\ w' = [w EXCEPT !.pc = "top"] /\ w.pc = "outputs"
    BY <1>12 DEF Reap, WorkerAt
  <2>2. w'.pc = "top" /\ w'.cur = w.cur /\ w'.out = <<>> /\ w'.batch = {}
    BY <1>0, <2>1 DEF Workers
  <2> QED BY <2>1, <2>2 DEF WorkerInv, Holding
<1>13. CASE Push
  <2>1. UNCHANGED <<act, req>> /\ w.out # <<>> /\ w' = [w EXCEPT !.out = Tail(w.out)]
    BY <1>13 DEF Push
  <2>2. UNCHANGED <<w.pc, w.cur, w.batch>>
    BY <1>0, <2>1 DEF Workers
  <2> QED BY <2>1, <2>2 DEF WorkerInv
<1>14. CASE WaitDrained
  <2>1. UNCHANGED <<act, w>> /\ \A q \in Requests : req'[q].ended = req[q].ended
    BY <1>14, SweepReq DEF WaitDrained
  <2>2. w.batch \subseteq Requests /\ (w.pc = "release" => w.cur \in Requests)
    BY <1>0, <1>1 DEF Workers, WorkerInv, Holding
  <2> QED BY <2>1, <2>2 DEF WorkerInv
<1>15. CASE JoinWorker
  <2>1. UNCHANGED <<w, req>> /\ w.batch = {}
    BY <1>15 DEF JoinWorker, WorkerInv
  <2> QED BY <2>1 DEF WorkerInv
<1>16. ASSUME NEW r \in Requests, FetchOne(r) PROVE WorkerInv'
  <2>1. w.pc = "fetch" /\ w.out = <<>> /\ w' = [w EXCEPT !.pc = "popped", !.cur = r]
    BY <1>16 DEF FetchOne, WorkerAt
  <2>2. w'.pc = "popped" /\ w'.cur = r /\ w'.out = <<>> /\ w'.batch = {}
    BY <1>0, <2>1 DEF Workers, WorkerInv
  <2> QED BY <1>0, <2>2 DEF WorkerInv, Holding
<1>17. ASSUME NEW r \in Requests, FinishCancelled(r) PROVE WorkerInv'
  <2>1. w.pc = "cancelling" /\ w' = [w EXCEPT !.out = Terminal(r)] /\ UNCHANGED act
    BY <1>17 DEF FinishCancelled, WorkerAt
  <2>2. w'.pc = "cancelling" /\ w'.cur = w.cur /\ w'.batch = {}
    BY <1>0, <2>1 DEF Workers, WorkerInv
  <2> QED BY <2>1, <2>2 DEF WorkerInv, Holding
<1>18. ASSUME NEW r \in Requests, OutputOne(r) PROVE WorkerInv'
  <2>1. w.pc = "outputs" /\ r \in w.batch /\ UNCHANGED act
    BY <1>18 DEF OutputOne, WorkerAt
  <2>2. /\ \A q \in Requests : q # r => req'[q] = req[q]
        /\ \E out : w' = [w EXCEPT !.batch = w.batch \ {r}, !.out = out]
    BY <1>18, OutputReq DEF Becomes
  <2>3. w'.pc = "outputs" /\ w'.cur = w.cur /\ w'.batch = w.batch \ {r} /\ w.batch \subseteq Requests
    BY <1>0, <2>1, <2>2 DEF Workers
  <2> QED BY <2>1, <2>2, <2>3 DEF WorkerInv, Holding
<1>19. ASSUME NEW r \in Requests, FinalizeActive(r) \/ FinalizePending(r) PROVE WorkerInv'
  <2>1. UNCHANGED <<w, act>> /\ w.pc = "exited" /\ w.batch = {}
    BY <1>19 DEF FinalizeActive, FinalizePending, ShutdownInv, JoinedPCs, WorkerInv
  <2> QED BY <2>1 DEF WorkerInv, Holding
<1>20. ASSUME NEW r \in Requests, Admit(r) \/ PublishFails(r) \/ CancelActive(r) PROVE WorkerInv'
  <2>1. UNCHANGED <<w, act>> /\ \A q \in Requests : req'[q].ended = req[q].ended
    BY <1>20, MarkReq, ReleaseReq DEF Admit, PublishFails, CancelActive, Refused, Becomes
  <2>2. w.batch \subseteq Requests /\ (w.pc = "release" => w.cur \in Requests)
    BY <1>0, <1>1 DEF Workers, WorkerInv, Holding
  <2> QED BY <2>1, <2>2 DEF WorkerInv
<1>21. ASSUME NEW r \in Requests, Publish(r) \/ CancelLookup(r) \/ CancelRecord(r)
       PROVE  UNCHANGED <<w, act, req>>
  BY <1>21 DEF Publish, CancelLookup, CancelRecord
<1>22. ASSUME NEW r \in Requests, NotifyAdmitted(r) PROVE WorkerInv'
  BY <1>3, <1>22 DEF NotifyAdmitted
<1> QED BY <1>2, <1>4, <1>5, <1>6, <1>7, <1>8, <1>9, <1>10, <1>11, <1>12, <1>13, <1>14, <1>15,
           <1>16, <1>17, <1>18, <1>19, <1>20, <1>21, <1>22, NextCases

(***************************************************************************)
(* The program counter of Shutdown tells which threads have ended, what is *)
(* left of the queues, and that no submission is under way.                *)
(***************************************************************************)
LEMMA ShutdownNext ==
  ASSUME Shape, WorkerInv, ShutdownInv, [Next]_vars
  PROVE  ShutdownInv'
<1>0. /\ w \in Workers /\ cb \in Callbacks /\ w.pc \in WorkerPCs
      /\ sd \in [pc : ShutdownPCs, left : SUBSET Generated]
      /\ sub \in [Requests -> Subs] /\ closed \in BOOLEAN
  BY DEF Shape, WShape, SdShape, CbShape, ClientShape, QueueShape, Workers
<1>1. ASSUME w.pc # "exited", UNCHANGED <<status, sd, closed, cb, sub, results>>,
             pend' \subseteq pend
      PROVE  ShutdownInv'
  BY <1>1 DEF ShutdownInv, JoinedPCs, DrainPCs
<1>2. CASE \/ WaitForWork \/ Sleep \/ ExitIfDrained \/ FetchDone \/ BuildBatch \/ WorkerThrows
           \/ Forget \/ Recheck \/ Consume \/ RunGraph \/ Reject \/ Activate \/ ReleaseCurrent
           \/ Reap
  BY <1>1, <1>2 DEF WaitForWork, Sleep, ExitIfDrained, FetchDone, BuildBatch, WorkerThrows, Forget,
     Recheck, Consume, RunGraph, Reject, Activate, ReleaseCurrent, Reap, WorkerAt, clients, pending,
     queue
<1>3. ASSUME NEW r \in Requests, FetchOne(r) \/ FinishCancelled(r) \/ OutputOne(r)
      PROVE  ShutdownInv'
  BY <1>1, <1>3 DEF FetchOne, FinishCancelled, OutputOne, WorkerAt, clients, pending, queue
<1>4. ASSUME UNCHANGED <<status, sd, act, closed, cb, sub, results, pend>>, WakeWorker
      PROVE  ShutdownInv'
  BY <1>4 DEF WakeWorker, ShutdownInv
<1>5. WakeCallback => /\ cb'.pc = "exited" <=> cb.pc = "exited"
                      /\ cb'.pc = "deliver" <=> cb.pc = "deliver"
  BY <1>0 DEF WakeCallback, Callbacks
<1>6. CASE Push
  <2>1. /\ UNCHANGED <<status, sd, act, closed, sub, pend>> /\ WakeCallback /\ w.out # <<>>
        /\ w' = [w EXCEPT !.out = Tail(@)]
    BY <1>6 DEF Push, clients, pending
  <2>2. w.pc # "exited" /\ w'.pc = w.pc
    BY <1>0, <2>1 DEF WorkerInv, Workers
  <2> QED BY <1>5, <2>1, <2>2 DEF ShutdownInv, JoinedPCs, DrainPCs
<1>7. CASE WaitForDrain \/ CallbackWait \/ CallbackSleep \/ CallbackReturns \/ UNCHANGED vars
  <2>1. /\ UNCHANGED <<status, sd, act, closed, sub, pend, w, results>>
        /\ cb'.pc = "exited" => cb.pc = "exited" \/ (closed /\ results = <<>>)
        /\ cb.pc = "exited" => cb'.pc = "exited"
    BY <1>0, <1>7 DEF WaitForDrain, CallbackWait, CallbackSleep, CallbackReturns, clients, pending,
       queue, vars, Callbacks, CallbackIdle
  <2> QED BY <2>1 DEF ShutdownInv
<1>8. CASE TakeEvent \/ Deliver
  <2>1. /\ UNCHANGED <<status, sd, act, closed, sub, pend, w>> /\ cb.pc # "exited"
        /\ cb'.pc # "exited"
    BY <1>0, <1>8 DEF TakeEvent, Deliver, clients, pending, queue, CallbackIdle, Callbacks
  <2> QED BY <2>1 DEF ShutdownInv
<1>9. CASE BeginDrain \/ NotifyDrain \/ WaitDrained \/ Stop \/ NotifyStop
  <2>1. /\ UNCHANGED <<act, closed, sub, pend, results>>
        /\ w.pc = "exited" => w'.pc = "exited"
        /\ (cb'.pc = "exited" <=> cb.pc = "exited")
    BY <1>0, <1>5, <1>9 DEF BeginDrain, NotifyDrain, WaitDrained, Stop, NotifyStop, clients, pending,
       queue, WakeWorker
  <2>2. CASE BeginDrain
    <3>1. /\ status' = "DRAINING" /\ sd'.pc = "notify" /\ sd'.left = sd.left /\ sd.pc = "running"
          /\ \A r \in Requests : sub[r] \notin {"recorded", "pushed"}
      BY <1>0, <2>2 DEF BeginDrain, AdmissionMuFree
    <3> QED BY <2>1, <3>1 DEF ShutdownInv, DrainPCs, JoinedPCs
  <2>3. CASE NotifyDrain \/ WaitDrained
    <3>1. /\ status' = status /\ sd.pc \in DrainPCs /\ sd'.pc \in DrainPCs /\ sd'.left = sd.left
      BY <1>0, <2>3 DEF NotifyDrain, WaitDrained, DrainPCs
    <3> QED BY <2>1, <3>1 DEF ShutdownInv, DrainPCs, JoinedPCs
  <2>4. CASE Stop \/ NotifyStop
    <3>1. /\ status' = "STOPPED" /\ sd.pc \in {"stop", "stopped"} /\ sd'.pc \in {"stopped", "join"}
          /\ sd'.left = sd.left /\ status # "RUNNING"
      BY <1>0, <2>4 DEF Stop, NotifyStop, Shape, SdShape, ShutdownInv, DrainPCs
    <3> QED BY <2>1, <3>1 DEF ShutdownInv, DrainPCs, JoinedPCs
  <2> QED BY <1>9, <2>2, <2>3, <2>4
<1>10. CASE JoinWorker
  <2>1. /\ UNCHANGED <<status, closed, sub, pend, results, w, cb>> /\ sd.pc = "join"
        /\ w.pc = "exited" /\ act' = {} /\ sd'.pc = "finalize"
    BY <1>10 DEF JoinWorker, clients, pending, queue
  <2> QED BY <2>1 DEF ShutdownInv, DrainPCs, JoinedPCs
<1>11. CASE CloseResults \/ NotifyClosed \/ JoinCallback
  <2>1. /\ UNCHANGED <<status, sub, pend, results, w, act>> /\ sd'.left = sd.left /\ closed' = TRUE
        /\ (cb'.pc = "exited" <=> cb.pc = "exited")
        /\ sd.pc \in {"finalize", "closed", "joincb"} /\ sd'.pc \in {"closed", "joincb", "done"}
        /\ sd'.pc = "done" => cb.pc = "exited"
        /\ sd.left = {} /\ pend = {}
    BY <1>0, <1>5, <1>11 DEF CloseResults, NotifyClosed, JoinCallback, clients, pending, queue,
       ShutdownInv, CallbackEnded
  <2> QED BY <2>1 DEF ShutdownInv, DrainPCs, JoinedPCs
<1>12. ASSUME NEW r \in Requests, FinalizeActive(r) \/ FinalizePending(r) PROVE ShutdownInv'
  <2>1. /\ UNCHANGED <<status, sub, w, act, closed>> /\ sd.pc = "finalize" /\ sd'.pc = "finalize"
        /\ pend' \subseteq pend /\ (cb'.pc = "exited" <=> cb.pc = "exited")
    BY <1>0, <1>5, <1>12 DEF FinalizeActive, FinalizePending, FinalizeStopped, clients, pending
  <2> QED BY <2>1 DEF ShutdownInv, DrainPCs, JoinedPCs
<1>13. ASSUME NEW r \in Requests, Admit(r) \/ Publish(r) \/ PublishFails(r) PROVE ShutdownInv'
  <2>1. /\ UNCHANGED <<status, sd, w, act, closed, cb, results>>
        /\ sub'[r] \in {"recorded", "pushed"} => status = "RUNNING"
        /\ \A q \in Requests : q # r => sub'[q] = sub[q]
        /\ pend' = pend \/ status = "RUNNING"
    BY <1>0, <1>13 DEF Admit, Publish, PublishFails, Refused, queue, ShutdownInv
  <2> QED BY <2>1 DEF ShutdownInv, DrainPCs, JoinedPCs
<1>14. ASSUME NEW r \in Requests, CancelActive(r) \/ CancelLookup(r) \/ CancelRecord(r)
       PROVE  ShutdownInv'
  <2>1. UNCHANGED <<status, sd, w, act, closed, cb, results, sub, pend>>
    BY <1>14 DEF CancelActive, CancelLookup, CancelRecord, queue, pending
  <2> QED BY <2>1 DEF ShutdownInv
<1>15. ASSUME NEW r \in Requests, NotifyAdmitted(r) PROVE ShutdownInv'
  <2>1. /\ UNCHANGED <<status, sd, act, closed, cb, results, pend>> /\ WakeWorker
        /\ sub'[r] = "accepted" /\ \A q \in Requests : q # r => sub'[q] = sub[q]
    BY <1>0, <1>15 DEF NotifyAdmitted, queue, pending
  <2> QED BY <2>1 DEF ShutdownInv, WakeWorker
<1> QED BY <1>2, <1>3, <1>6, <1>7, <1>8, <1>9, <1>10, <1>11, <1>12, <1>13, <1>14, <1>15, NextCases

(***************************************************************************)
(* A request has one owner until it is released, once and after its end.   *)
(***************************************************************************)
LEMMA OwnerNext ==
  ASSUME Shape, WorkerInv, ShutdownInv, OwnerInv, FreshInv, [Next]_vars
  PROVE  OwnerInv'
<1>0. /\ w \in Workers /\ w.pc \in WorkerPCs /\ w.cur \in Requests \cup {NoReq}
      /\ sd \in [pc : ShutdownPCs, left : SUBSET Generated] /\ Generated \subseteq Requests
      /\ sub \in [Requests -> Subs] /\ act \subseteq Requests /\ NoReq \notin Requests
      /\ pend \subseteq Requests
  BY RequestsAssumption DEF Shape, WShape, SdShape, ClientShape, Workers, PendShape, Generated
<1>1. ASSUME UNCHANGED <<sub, pend, act, sd.left, w.cur>>,
             \A q \in Requests : req'[q].pool = req[q].pool /\ (req[q].ended => req'[q].ended)
      PROVE  OwnerInv'
  BY <1>1 DEF OwnerInv
<1>2. CASE \/ WaitForWork \/ Sleep \/ ExitIfDrained \/ FetchDone \/ BuildBatch \/ WorkerThrows
           \/ Push \/ WaitForDrain \/ Forget
           \/ TakeEvent \/ CallbackWait \/ CallbackSleep \/ Deliver \/ CallbackReturns
           \/ BeginDrain \/ NotifyDrain \/ Stop \/ NotifyStop
           \/ CloseResults \/ NotifyClosed \/ JoinCallback \/ UNCHANGED vars
  <2>1. UNCHANGED <<sub, pend, act, req>>
    BY <1>2 DEF WaitForWork, Sleep, ExitIfDrained, FetchDone, BuildBatch, WorkerThrows, Push, Forget,
     WaitForDrain, TakeEvent, CallbackWait, CallbackSleep, Deliver, CallbackReturns, BeginDrain,
     NotifyDrain, Stop, NotifyStop, CloseResults, NotifyClosed, JoinCallback, vars, clients, pending
  <2>2. UNCHANGED w.cur
    BY <1>0, <1>2 DEF WaitForWork, Sleep, ExitIfDrained, FetchDone, BuildBatch, WorkerThrows, Push,
     Forget, WaitForDrain, TakeEvent, CallbackWait, CallbackSleep, Deliver, CallbackReturns,
     BeginDrain, NotifyDrain, Stop, NotifyStop, CloseResults, NotifyClosed, JoinCallback, vars,
     WakeWorker, Workers
  <2>3. UNCHANGED sd.left
    BY <1>0, <1>2 DEF WaitForWork, Sleep, ExitIfDrained, FetchDone, BuildBatch, WorkerThrows, Push,
     Forget, WaitForDrain, TakeEvent, CallbackWait, CallbackSleep, Deliver, CallbackReturns,
     BeginDrain, NotifyDrain, Stop, NotifyStop, CloseResults, NotifyClosed, JoinCallback, vars
  <2> QED BY <1>1, <2>1, <2>2, <2>3
<1>3. CASE WaitDrained
  <2>1. UNCHANGED <<sub, pend, act, w, sd.left>>
    BY <1>0, <1>3 DEF WaitDrained, clients, pending
  <2> QED BY <1>1, <1>3, <2>1, SweepReq
<1>4. CASE Recheck \/ Consume \/ RunGraph \/ Reject
  <2>0. /\ w.cur \in Requests /\ UNCHANGED <<sub, pend, act, sd>>
    BY <1>0, <1>4 DEF Recheck, Consume, RunGraph, Reject, WorkerAt, WorkerInv, Holding, clients,
       pending
  <2>1. CASE UNCHANGED req
    <3>1. w'.cur = w.cur
      BY <1>0, <1>4 DEF Recheck, Consume, RunGraph, Reject, EndCurrent, Workers
    <3> QED BY <1>1, <2>0, <2>1, <3>1
  <2>2. ASSUME NEW flag \in BOOLEAN, EndCurrent(flag) PROVE OwnerInv'
    <3>1. w'.cur = w.cur
      BY <1>0, <2>2 DEF EndCurrent, Workers
    <3>2. PICK x \in Requests : x = w.cur
      BY <2>0
    <3>3. Becomes(x, req[x].cancelled \/ flag, TRUE, req[x].pool, req[x].tokens)
      BY <2>2, <3>2, EndCurrentReq
    <3>4. \A q \in Requests : req'[q].pool = req[q].pool /\ (req[q].ended => req'[q].ended)
      BY <3>3 DEF Becomes
    <3> QED BY <1>1, <2>0, <3>1, <3>4
  <2> QED BY <1>4, <2>1, <2>2 DEF Recheck, Consume, RunGraph, Reject
<1>5. CASE Activate
  <2>1. /\ UNCHANGED <<sub, pend, req, sd>> /\ act' = act \cup {w.cur} /\ w'.cur = NoReq
        /\ w.cur \in Requests
    BY <1>0, <1>5 DEF Activate, WorkerAt, WorkerInv, Holding, Workers, clients, pending
  <2> QED BY <1>0, <2>1 DEF OwnerInv
<1>6. CASE ReleaseCurrent
  <2>1. /\ UNCHANGED <<sub, pend, act, sd>> /\ w'.cur = NoReq
        /\ req' = [req EXCEPT ![w.cur].pool = @ + 1]
        /\ w.cur \in Requests /\ req[w.cur].ended
    BY <1>0, <1>6 DEF ReleaseCurrent, WorkerAt, WorkerInv, Holding, Workers, clients, pending
  <2>2. PICK x \in Requests : x = w.cur
    BY <2>1
  <2>3. Becomes(x, req[x].cancelled, req[x].ended, req[x].pool + 1, req[x].tokens)
    BY <2>1, <2>2, ReleaseReq
  <2>4. req'[x].pool = 1 /\ req'[x].ended
    BY <2>1, <2>2, <2>3 DEF Becomes, OwnerInv
  <2>5. ASSUME NEW q \in Requests, q # x
        PROVE  req'[q] = req[q] /\ w.cur # q /\ w'.cur # q
    BY <1>0, <2>1, <2>2, <2>3, <2>5 DEF Becomes
  <2>6. /\ x \notin pend /\ x \notin act /\ x \notin sd.left /\ sub[x] \in {"pushed", "accepted"}
        /\ w'.cur # x
    BY <1>0, <2>1, <2>2 DEF OwnerInv
  <2> QED BY <2>1, <2>4, <2>5, <2>6 DEF OwnerInv
<1>7. CASE Reap
  <2>1. /\ UNCHANGED <<sub, pend, sd>> /\ w'.cur = w.cur
        /\ act' = {r \in act : ~req[r].ended}
    BY <1>0, <1>7 DEF Reap, LeftActive, Workers, clients, pending
  <2>2. ASSUME NEW q \in Requests, q \in act, req[q].ended
        PROVE  req'[q].pool = 1 /\ req'[q].ended
    BY <1>7, <2>2, SweepReq DEF OwnerInv
  <2>3. ASSUME NEW q \in Requests, ~(q \in act /\ req[q].ended)
        PROVE  req'[q] = req[q] /\ (q \in act' <=> q \in act)
    BY <1>7, <2>1, <2>3, SweepReq
  <2>4. ASSUME NEW q \in Requests, q \in act, req[q].ended
        PROVE  /\ q \notin act' /\ q \notin pend /\ w.cur # q /\ q \notin sd.left
               /\ sub[q] \in {"pushed", "accepted"}
    BY <2>1, <2>4 DEF OwnerInv
  <2> QED BY <2>1, <2>2, <2>3, <2>4 DEF OwnerInv
<1>8. CASE JoinWorker
  <2>1. /\ UNCHANGED <<sub, pend, req, w>> /\ act' = {} /\ sd'.left = act /\ sd.left = {}
    BY <1>8 DEF JoinWorker, ShutdownInv, clients, pending
  <2> QED BY <2>1 DEF OwnerInv
<1>9. ASSUME NEW r \in Requests, FetchOne(r) PROVE OwnerInv'
  <2>1. /\ UNCHANGED <<sub, act, sd>> /\ pend' = pend \ {r} /\ w'.cur = r /\ r \in pend
        /\ w.cur = NoReq
    BY <1>0, <1>9 DEF FetchOne, WorkerAt, WorkerInv, Holding, Workers, clients, Ready
  <2>2. \A q \in Requests : req'[q].pool = req[q].pool /\ (req[q].ended => req'[q].ended)
    BY <1>9, MarkReq DEF FetchOne, Becomes
  <2> QED BY <1>0, <2>1, <2>2 DEF OwnerInv
<1>10. ASSUME NEW r \in Requests, FinishCancelled(r) PROVE OwnerInv'
  <2>1. UNCHANGED <<sub, act, sd, pend>> /\ w'.cur = w.cur
    BY <1>0, <1>10 DEF FinishCancelled, Workers, clients, pending
  <2>2. \A q \in Requests : req'[q].pool = req[q].pool /\ (req[q].ended => req'[q].ended)
    BY <1>10, MarkReq DEF FinishCancelled, Becomes
  <2> QED BY <1>1, <2>1, <2>2
<1>11. ASSUME NEW r \in Requests, OutputOne(r) PROVE OwnerInv'
  <2>1. UNCHANGED <<sub, act, sd, pend>> /\ ~req[r].ended
    BY <1>0, <1>11 DEF OutputOne, Workers, clients, pending, WorkerInv
  <2>2. PICK token, ends \in BOOLEAN :
          /\ Becomes(r, req[r].cancelled, ends, req[r].pool,
                     IF token THEN req[r].tokens + 1 ELSE req[r].tokens)
          /\ \E out : w' = [w EXCEPT !.batch = w.batch \ {r}, !.out = out]
    BY <1>11, OutputReq
  <2>3. w'.cur = w.cur
    BY <1>0, <2>2 DEF Workers
  <2>4. \A q \in Requests : req'[q].pool = req[q].pool /\ (req[q].ended => req'[q].ended)
    BY <2>1, <2>2 DEF Becomes
  <2> QED BY <1>1, <2>1, <2>3, <2>4
<1>12. ASSUME NEW r \in Requests, FinalizeActive(r) \/ FinalizePending(r) PROVE OwnerInv'
  <2>1. /\ UNCHANGED <<sub, act, w>> /\ FinalizeStopped(r)
        /\ r \in pend \/ r \in sd.left
        /\ r \in sd.left => UNCHANGED pend /\ sd'.left = sd.left \ {r}
        /\ r \notin sd.left => UNCHANGED sd /\ pend' = pend \ {r}
    BY <1>0, <1>12 DEF FinalizeActive, FinalizePending, clients, pending
  <2>2. Becomes(r, TRUE, TRUE, req[r].pool + 1, req[r].tokens)
    BY <2>1, FinalizeStoppedReq
  <2>3. /\ req'[r].pool = 1 /\ req'[r].ended /\ sub[r] \in {"pushed", "accepted"}
        /\ \A q \in Requests : q # r => req'[q] = req[q]
    BY <2>1, <2>2 DEF Becomes, OwnerInv
  <2>4. /\ r \notin pend' /\ r \notin sd'.left /\ r \notin act /\ w.cur # r
        /\ \A q \in Requests : q # r => (q \in pend' <=> q \in pend) /\ (q \in sd'.left <=> q \in sd.left)
    BY <2>1 DEF OwnerInv
  <2> QED BY <2>1, <2>3, <2>4 DEF OwnerInv
<1>13. ASSUME NEW r \in Requests, Admit(r) \/ Publish(r) \/ PublishFails(r) \/ NotifyAdmitted(r)
       PROVE  OwnerInv'
  <2>1. /\ UNCHANGED <<act, sd>> /\ w'.cur = w.cur
        /\ \A q \in Requests : q # r => sub'[q] = sub[q] /\ (q \in pend' <=> q \in pend)
    BY <1>0, <1>13 DEF Admit, Publish, PublishFails, Refused, NotifyAdmitted, WakeWorker, Workers,
       pending
  <2>5. CASE \/ Admit(r) /\ UNCHANGED req /\ sub' = [sub EXCEPT ![r] = "recorded"]
             \/ NotifyAdmitted(r)
    <3>0. UNCHANGED <<req, pend>>
      BY <2>5 DEF Admit, NotifyAdmitted, pending
    <3>1. \/ sub[r] = "new" /\ sub'[r] = "recorded"
          \/ sub[r] = "pushed" /\ sub'[r] = "accepted"
      BY <1>0, <2>5 DEF Admit, NotifyAdmitted
    <3> QED BY <2>1, <3>0, <3>1 DEF OwnerInv
  <2>3. CASE Publish(r)
    <3>1. sub[r] = "recorded" /\ sub'[r] = "pushed" /\ UNCHANGED req /\ pend' = pend \cup {r}
      BY <1>0, <2>3 DEF Publish
    <3> QED BY <2>1, <3>1 DEF OwnerInv
  <2>4. CASE Refused(r) /\ sub[r] \in {"new", "recorded"} /\ UNCHANGED pend
    <3>1. Becomes(r, req[r].cancelled, req[r].ended, req[r].pool + 1, req[r].tokens)
      BY <2>4, ReleaseReq DEF Refused
    <3>2. sub'[r] = "refused" /\ req'[r].pool = 1 /\ \A q \in Requests : q # r => req'[q] = req[q]
      BY <1>0, <2>4, <3>1 DEF Refused, Becomes, OwnerInv
    <3> QED BY <2>1, <2>4, <3>2 DEF OwnerInv
  <2> QED BY <1>13, <2>3, <2>4, <2>5 DEF Admit, PublishFails
<1>14. ASSUME NEW r \in Requests, CancelActive(r) \/ CancelLookup(r) \/ CancelRecord(r)
       PROVE  OwnerInv'
  <2>1. UNCHANGED <<sub, pend, act, sd, w>>
    BY <1>14 DEF CancelActive, CancelLookup, CancelRecord, pending
  <2>2. \A q \in Requests : req'[q].pool = req[q].pool /\ (req[q].ended => req'[q].ended)
    BY <1>14, MarkReq DEF CancelActive, CancelLookup, CancelRecord, Becomes
  <2> QED BY <1>1, <2>1, <2>2
<1> QED BY <1>2, <1>3, <1>4, <1>5, <1>6, <1>7, <1>8, <1>9, <1>10, <1>11, <1>12, <1>13, <1>14,
           NextCases

(***************************************************************************)
(* Only a published request is given tokens or ended, and it has had its   *)
(* last token only when it is over.                                        *)
(***************************************************************************)
LEMMA FreshNext ==
  ASSUME Shape, WorkerInv, ShutdownInv, OwnerInv, FreshInv, [Next]_vars
  PROVE  FreshInv'
<1>0. /\ w.cur \in Requests \cup {NoReq} /\ act \subseteq Requests /\ NoReq \notin Requests
      /\ sub \in [Requests -> Subs] /\ w.pc \in WorkerPCs
  BY RequestsAssumption DEF Shape, WShape, ClientShape, Workers, PendShape, Generated
<1>1. ASSUME \A q \in Requests : /\ sub[q] \in {"pushed", "accepted"} =>
                                      sub'[q] \in {"pushed", "accepted"}
                                 /\ req'[q].ended = req[q].ended
                                 /\ req'[q].tokens = req[q].tokens
      PROVE  FreshInv'
  BY <1>1 DEF FreshInv
<1>2. ASSUME NEW x \in Requests, NEW c, NEW p, Becomes(x, c, TRUE, p, req[x].tokens),
             x \in pend \/ w.cur = x \/ x \in act \/ x \in sd.left, UNCHANGED sub
      PROVE  FreshInv'
  <2>1. sub[x] \in {"pushed", "accepted"}
    BY <1>2 DEF OwnerInv
  <2> QED BY <1>2, <2>1 DEF FreshInv, Becomes
<1>3. CASE \/ WaitForWork \/ Sleep \/ ExitIfDrained \/ FetchDone \/ BuildBatch \/ WorkerThrows
           \/ Push \/ WaitForDrain \/ Forget \/ Activate
           \/ TakeEvent \/ CallbackWait \/ CallbackSleep \/ Deliver \/ CallbackReturns
           \/ BeginDrain \/ NotifyDrain \/ Stop \/ NotifyStop \/ JoinWorker
           \/ CloseResults \/ NotifyClosed \/ JoinCallback \/ UNCHANGED vars
  <2>1. UNCHANGED <<sub, req>>
    BY <1>3 DEF WaitForWork, Sleep, ExitIfDrained, FetchDone, BuildBatch, WorkerThrows, Push, Forget,
     WaitForDrain, TakeEvent, CallbackWait, CallbackSleep, Deliver, CallbackReturns, BeginDrain,
     NotifyDrain, Stop, NotifyStop, CloseResults, NotifyClosed, JoinCallback, Activate, JoinWorker,
     vars, clients
  <2> QED BY <1>1, <2>1
<1>4. CASE Recheck \/ Consume \/ RunGraph \/ Reject
  <2>0. w.cur \in Requests /\ UNCHANGED sub
    BY <1>0, <1>4 DEF Recheck, Consume, RunGraph, Reject, WorkerAt, WorkerInv, Holding, clients
  <2>1. CASE UNCHANGED req
    BY <1>1, <2>0, <2>1
  <2>2. ASSUME NEW flag \in BOOLEAN, EndCurrent(flag) PROVE FreshInv'
    <3>1. PICK x \in Requests : x = w.cur
      BY <2>0
    <3>2. Becomes(x, req[x].cancelled \/ flag, TRUE, req[x].pool, req[x].tokens)
      BY <2>2, <3>1, EndCurrentReq
    <3> QED BY <1>2, <2>0, <3>1, <3>2
  <2> QED BY <1>4, <2>1, <2>2 DEF Recheck, Consume, RunGraph, Reject
<1>5. CASE ReleaseCurrent
  <2>1. UNCHANGED sub /\ req' = [req EXCEPT ![w.cur].pool = @ + 1] /\ w.cur \in Requests
    BY <1>0, <1>5 DEF ReleaseCurrent, WorkerAt, WorkerInv, Holding, clients
  <2>2. PICK x \in Requests : x = w.cur
    BY <2>1
  <2>3. Becomes(x, req[x].cancelled, req[x].ended, req[x].pool + 1, req[x].tokens)
    BY <2>1, <2>2, ReleaseReq
  <2>4. \A q \in Requests : req'[q].ended = req[q].ended /\ req'[q].tokens = req[q].tokens
    BY <2>3 DEF Becomes
  <2> QED BY <1>1, <2>1, <2>4
<1>6. CASE Reap \/ WaitDrained
  <2>1. UNCHANGED sub
    BY <1>6 DEF Reap, WaitDrained, clients
  <2>2. \A q \in Requests : req'[q].ended = req[q].ended /\ req'[q].tokens = req[q].tokens
    <3>1. \A q \in Requests : req[q].ended \in BOOLEAN
      BY Fields
    <3>2. CASE Reap
      <4> SUFFICES ASSUME NEW q \in Requests
                   PROVE  req'[q].ended = req[q].ended /\ req'[q].tokens = req[q].tokens
        OBVIOUS
      <4>1. req' \in [Requests -> Records] /\ req'[q].ended \in BOOLEAN
        BY <3>2, SweepReq DEF Records
      <4> QED BY <3>1, <3>2, <4>1, SweepReq
    <3> QED BY <1>6, <3>2, SweepReq
  <2> QED BY <1>1, <2>1, <2>2
<1>7. ASSUME NEW r \in Requests,
             \/ FetchOne(r) \/ CancelActive(r) \/ CancelLookup(r) \/ CancelRecord(r)
      PROVE  FreshInv'
  <2>1. UNCHANGED sub
    BY <1>7 DEF FetchOne, CancelActive, CancelLookup, CancelRecord, clients
  <2>2. \A q \in Requests : req'[q].ended = req[q].ended /\ req'[q].tokens = req[q].tokens
    BY <1>7, MarkReq DEF FetchOne, CancelActive, CancelLookup, CancelRecord, Becomes
  <2> QED BY <1>1, <2>1, <2>2
<1>8. ASSUME NEW r \in Requests, FinishCancelled(r) PROVE FreshInv'
  <2>1. UNCHANGED sub /\ r \in act /\ req' = [req EXCEPT ![r].ended = TRUE]
    BY <1>8 DEF FinishCancelled, clients, CancelledActive
  <2> QED BY <1>2, <2>1, MarkReq
<1>9. ASSUME NEW r \in Requests, OutputOne(r) PROVE FreshInv'
  <2>1. UNCHANGED sub /\ ~req[r].ended /\ r \in act
    BY <1>9 DEF OutputOne, clients, WorkerInv
  <2>2. sub[r] \in {"pushed", "accepted"} /\ req[r].tokens < MaxTokens
    BY <2>1 DEF OwnerInv, FreshInv
  <2>3. PICK token, ends \in BOOLEAN :
          /\ token \/ ends
          /\ token /\ LastToken(r) => ends
          /\ Becomes(r, req[r].cancelled, ends, req[r].pool,
                     IF token THEN req[r].tokens + 1 ELSE req[r].tokens)
    BY <1>9, OutputReq
  <2>4. /\ req'[r].tokens <= MaxTokens
        /\ ~req'[r].ended => req'[r].tokens < MaxTokens
    BY <2>2, <2>3, Fields, TokensAssumption DEF Becomes, LastToken
  <2>5. \A q \in Requests : q # r => req'[q] = req[q]
    BY <2>3 DEF Becomes
  <2> QED BY <2>1, <2>2, <2>4, <2>5 DEF FreshInv
<1>10. ASSUME NEW r \in Requests, FinalizeActive(r) \/ FinalizePending(r) PROVE FreshInv'
  <2>1. UNCHANGED sub /\ FinalizeStopped(r) /\ (r \in pend \/ r \in sd.left)
    BY <1>10 DEF FinalizeActive, FinalizePending, clients
  <2> QED BY <1>2, <2>1, FinalizeStoppedReq
<1>11. ASSUME NEW r \in Requests, Admit(r) \/ Publish(r) \/ PublishFails(r) \/ NotifyAdmitted(r)
       PROVE  FreshInv'
  <2>1. \A q \in Requests : sub[q] \in {"pushed", "accepted"} => sub'[q] \in {"pushed", "accepted"}
    BY <1>0, <1>11 DEF Admit, Publish, PublishFails, Refused, NotifyAdmitted
  <2>2. UNCHANGED req \/ Refused(r)
    BY <1>11 DEF Admit, Publish, PublishFails, NotifyAdmitted
  <2>3. \A q \in Requests : req'[q].ended = req[q].ended /\ req'[q].tokens = req[q].tokens
    BY <2>2, ReleaseReq DEF Refused, Becomes
  <2> QED BY <1>1, <2>1, <2>3
<1> QED BY <1>3, <1>4, <1>5, <1>6, <1>7, <1>8, <1>9, <1>10, <1>11, NextCases

(***************************************************************************)
(* An id is in pending_request_ids only while a CancelRequest that finds   *)
(* it can still reach the request.                                         *)
(***************************************************************************)
LEMMA IdsNext ==
  ASSUME Shape, WorkerInv, ShutdownInv, IdsInv, [Next]_vars
  PROVE  IdsInv'
<1>0. /\ w \in Workers /\ w.pc \in WorkerPCs /\ NoReq \notin Requests /\ pendIds \subseteq Requests
      /\ sub \in [Requests -> Subs]
  BY RequestsAssumption DEF Shape, WShape, ClientShape, Workers, PendShape
<1>1. ASSUME UNCHANGED <<pendIds, pend>>, w.pc = "popped" => w'.pc = "popped" /\ w'.cur = w.cur,
             \A q \in Requests : sub[q] = "recorded" => sub'[q] = "recorded"
      PROVE  IdsInv'
  BY <1>0, <1>1 DEF IdsInv
<1>2. CASE \/ WaitForWork \/ Sleep \/ ExitIfDrained \/ FetchDone \/ BuildBatch \/ WorkerThrows
           \/ Recheck \/ Consume \/ RunGraph \/ Reject \/ Activate \/ ReleaseCurrent \/ Reap
           \/ WaitForDrain
           \/ TakeEvent \/ CallbackWait \/ CallbackSleep \/ Deliver \/ CallbackReturns
           \/ BeginDrain \/ WaitDrained \/ Stop \/ JoinWorker
           \/ CloseResults \/ NotifyClosed \/ JoinCallback \/ UNCHANGED vars
  <2>1. UNCHANGED <<pendIds, pend, sub>> /\ (w.pc = "popped" => UNCHANGED w)
    BY <1>2 DEF WaitForWork, Sleep, ExitIfDrained, FetchDone, BuildBatch, WorkerThrows, Recheck,
       Consume, RunGraph, Reject, Activate, ReleaseCurrent, Reap, WaitForDrain, TakeEvent,
       CallbackWait, CallbackSleep, Deliver, CallbackReturns, BeginDrain, WaitDrained, Stop,
       JoinWorker, CloseResults, NotifyClosed, JoinCallback, vars, clients, pending, WorkerAt
  <2> QED BY <1>1, <2>1
<1>3. CASE NotifyDrain \/ NotifyStop \/ Push
  <2>1. UNCHANGED <<pendIds, pend, sub>> /\ (w.pc = "popped" => UNCHANGED w)
    BY <1>3 DEF NotifyDrain, NotifyStop, Push, clients, pending, WakeWorker, WorkerInv
  <2> QED BY <1>1, <2>1
<1>4. CASE Forget
  <2>1. UNCHANGED <<pend, sub>> /\ pendIds' = pendIds \ {w.cur}
    BY <1>4 DEF Forget, clients
  <2> QED BY <2>1 DEF IdsInv
<1>5. ASSUME NEW r \in Requests, FetchOne(r) PROVE IdsInv'
  <2>1. /\ UNCHANGED <<pendIds, sub>> /\ pend' = pend \ {r} /\ w'.pc = "popped" /\ w'.cur = r
        /\ w.pc = "fetch"
    BY <1>0, <1>5 DEF FetchOne, clients, WorkerAt, Workers
  <2> QED BY <2>1 DEF IdsInv
<1>6. ASSUME NEW r \in Requests, FinishCancelled(r) \/ OutputOne(r) PROVE IdsInv'
  <2>1. UNCHANGED <<pendIds, pend, sub>> /\ w.pc # "popped"
    BY <1>6 DEF FinishCancelled, OutputOne, clients, pending, WorkerAt
  <2> QED BY <1>1, <2>1
<1>7. ASSUME NEW r \in Requests, FinalizeActive(r) \/ FinalizePending(r) PROVE IdsInv'
  <2>1. /\ UNCHANGED <<sub, w>>
        /\ UNCHANGED <<pend, pendIds>> \/ (pend' = pend \ {r} /\ pendIds' = pendIds \ {r})
    BY <1>7 DEF FinalizeActive, FinalizePending, clients, pending
  <2> QED BY <2>1 DEF IdsInv
<1>8. ASSUME NEW r \in Requests, Admit(r) \/ Publish(r) \/ PublishFails(r) PROVE IdsInv'
  <2>1. /\ UNCHANGED w /\ \A q \in Requests : q # r => sub'[q] = sub[q]
        /\ \/ pendIds' = pendIds \cup {r} /\ sub'[r] = "recorded" /\ pend' = pend
           \/ pendIds' = pendIds /\ pend' = pend /\ sub[r] # "recorded"
           \/ pendIds' = pendIds /\ pend' = pend \cup {r}
           \/ pendIds' = pendIds \ {r} /\ pend' = pend
    BY <1>0, <1>8 DEF Admit, Publish, PublishFails, Refused
  <2> QED BY <1>0, <2>1 DEF IdsInv
<1>9. ASSUME NEW r \in Requests,
             NotifyAdmitted(r) \/ CancelActive(r) \/ CancelLookup(r) \/ CancelRecord(r)
      PROVE  IdsInv'
  <2>1. /\ UNCHANGED <<pendIds, pend>> /\ (w.pc = "popped" => UNCHANGED w)
        /\ \A q \in Requests : sub[q] = "recorded" => sub'[q] = "recorded"
    BY <1>0, <1>9 DEF NotifyAdmitted, CancelActive, CancelLookup, CancelRecord, pending, WakeWorker
  <2> QED BY <1>1, <2>1
<1> QED BY <1>2, <1>3, <1>4, <1>5, <1>6, <1>7, <1>8, <1>9, NextCases

(***************************************************************************)
(* Under exclusive execution a request becomes active only when no other   *)
(* one is: what the fetch loop takes while one is active is cancelled, and *)
(* a cancelled request never gets as far as AddRequest.                    *)
(***************************************************************************)
LEMMA ExclusiveNext ==
  ASSUME Shape, WorkerInv, ShutdownInv, ExclusiveInv, [Next]_vars
  PROVE  ExclusiveInv'
<1>0. /\ w \in Workers /\ w.pc \in WorkerPCs /\ w.cur \in Requests \cup {NoReq}
      /\ w.pc \in Holding => w.cur \in Requests
  BY DEF Shape, WShape, Workers, WorkerInv
<1>1. ASSUME act' \subseteq act, w'.exclusive = w.exclusive,
             w'.pc \in {"popped", "removed", "consume", "register"} =>
               /\ w'.cur = w.cur
               /\ w.pc \in {"popped", "removed", "consume", "register"}
               /\ w'.pc = "register" <=> w.pc = "register",
             \A q \in Requests : req[q].cancelled => req'[q].cancelled
      PROVE  ExclusiveInv'
  BY <1>0, <1>1 DEF ExclusiveInv, Holding
<1>2. CASE \/ WaitForWork \/ Sleep \/ ExitIfDrained \/ FetchDone \/ BuildBatch \/ WorkerThrows
           \/ Forget \/ Push
  <2>1. UNCHANGED <<act, req>>
    BY <1>2 DEF WaitForWork, Sleep, ExitIfDrained, FetchDone, BuildBatch, WorkerThrows, Forget, Push
  <2>2. w'.exclusive = w.exclusive /\ w'.cur = w.cur
    BY <1>0, <1>2 DEF WaitForWork, Sleep, ExitIfDrained, FetchDone, BuildBatch, WorkerThrows, Forget,
       Push, Workers
  <2>3. w'.pc \in {"popped", "removed", "consume", "register"} =>
          /\ w.pc \in {"popped", "removed", "consume", "register"}
          /\ w'.pc = "register" <=> w.pc = "register"
    BY <1>0, <1>2 DEF WaitForWork, Sleep, ExitIfDrained, FetchDone, BuildBatch, WorkerThrows, Forget,
       Push, Workers, WorkerAt
  <2> QED BY <1>1, <2>1, <2>2, <2>3
<1>3. CASE \/ WaitForDrain
           \/ TakeEvent \/ CallbackWait \/ CallbackSleep \/ Deliver \/ CallbackReturns
           \/ BeginDrain \/ Stop \/ JoinWorker \/ CloseResults \/ NotifyClosed \/ JoinCallback
           \/ UNCHANGED vars
  <2>1. UNCHANGED <<w, req>> /\ act' \subseteq act
    BY <1>3 DEF WaitForDrain, TakeEvent, CallbackWait, CallbackSleep, Deliver, CallbackReturns,
       BeginDrain, Stop, JoinWorker, CloseResults, NotifyClosed, JoinCallback, vars
  <2> QED BY <1>1, <2>1
<1>4. WakeWorker => /\ w'.exclusive = w.exclusive /\ w'.cur = w.cur
                    /\ w'.pc = w.pc \/ w'.pc = "awake"
  BY <1>0 DEF WakeWorker, Workers
<1>5. CASE NotifyDrain \/ NotifyStop
  <2>1. UNCHANGED <<act, req>> /\ WakeWorker
    BY <1>5 DEF NotifyDrain, NotifyStop
  <2> QED BY <1>1, <1>4, <2>1
<1>6. CASE WaitDrained
  <2>1. UNCHANGED <<act, w>>
    BY <1>6 DEF WaitDrained
  <2> QED BY <1>1, <1>6, <2>1, SweepReq
<1>7. CASE Reap
  <2>1. act' \subseteq act /\ w'.exclusive = w.exclusive /\ w'.pc = "top"
    BY <1>0, <1>7 DEF Reap, LeftActive, Workers
  <2>2. \A q \in Requests : req[q].cancelled => req'[q].cancelled
    BY <1>7, SweepReq
  <2> QED BY <1>1, <2>1, <2>2
<1>8. CASE ReleaseCurrent
  <2>1. w'.exclusive = w.exclusive /\ w'.pc = "fetch" /\ act' = act
    BY <1>0, <1>8 DEF ReleaseCurrent, Workers
  <2> QED BY <2>1 DEF ExclusiveInv
<1>9. CASE Activate
  <2>1. w'.exclusive = w.exclusive /\ w'.pc = "fetch" /\ act' = act \cup {w.cur} /\ w.pc = "register"
    BY <1>0, <1>9 DEF Activate, Workers, WorkerAt
  <2> QED BY <2>1 DEF ExclusiveInv
<1>10. CASE Recheck \/ Consume \/ RunGraph \/ Reject
  <2>0. UNCHANGED act
    BY <1>10 DEF Recheck, Consume, RunGraph, Reject
  <2>1. ASSUME NEW flag \in BOOLEAN, EndCurrent(flag) PROVE ExclusiveInv'
    <3>1. w'.exclusive = w.exclusive /\ w'.pc = "release"
      BY <1>0, <2>1 DEF EndCurrent, Workers
    <3> QED BY <2>0, <3>1 DEF ExclusiveInv
  <2>2. CASE Recheck /\ UNCHANGED req /\ w' = [w EXCEPT !.pc = "consume"]
    <3>1. w'.exclusive = w.exclusive /\ w'.cur = w.cur /\ w'.pc = "consume" /\ w.pc = "removed"
      BY <1>0, <2>2 DEF Recheck, Workers, WorkerAt
    <3> QED BY <1>1, <2>0, <2>2, <3>1
  <2>3. CASE /\ UNCHANGED req /\ w.pc = "consume" /\ ~req[w.cur].cancelled
             /\ w' = [w EXCEPT !.pc = IF w.cur \in Graphs THEN "graph" ELSE "register"]
    <3>1. w'.exclusive = w.exclusive /\ w'.pc \in {"graph", "register"}
      BY <1>0, <2>3 DEF Workers
    <3> QED BY <2>0, <2>3, <3>1 DEF ExclusiveInv
  <2> QED BY <1>10, <2>1, <2>2, <2>3 DEF Recheck, Consume, RunGraph, Reject, WorkerAt
<1>11. ASSUME NEW r \in Requests, FetchOne(r) PROVE ExclusiveInv'
  <2>1. UNCHANGED act /\ w'.exclusive = w.exclusive /\ w'.cur = r /\ w'.pc = "popped"
    BY <1>0, <1>11 DEF FetchOne, Workers
  <2>2. Busy => req'[r].cancelled
    BY <1>11, MarkReq DEF FetchOne, Becomes
  <2> QED BY <2>1, <2>2 DEF ExclusiveInv, Busy
<1>12. ASSUME NEW r \in Requests, FinishCancelled(r) \/ OutputOne(r) PROVE ExclusiveInv'
  <2>1. UNCHANGED act /\ w'.exclusive = w.exclusive /\ w'.pc \in {"cancelling", "outputs"}
    BY <1>0, <1>12 DEF FinishCancelled, OutputOne, Workers, WorkerAt
  <2> QED BY <2>1 DEF ExclusiveInv
<1>13. ASSUME NEW r \in Requests, FinalizeActive(r) \/ FinalizePending(r) PROVE ExclusiveInv'
  <2>1. UNCHANGED <<w, act>> /\ w.pc = "exited"
    BY <1>13 DEF FinalizeActive, FinalizePending, ShutdownInv, JoinedPCs
  <2> QED BY <2>1 DEF ExclusiveInv
<1>14. ASSUME NEW r \in Requests,
              \/ Admit(r) \/ Publish(r) \/ PublishFails(r) \/ NotifyAdmitted(r)
              \/ CancelActive(r) \/ CancelLookup(r) \/ CancelRecord(r)
       PROVE  ExclusiveInv'
  <2>1. UNCHANGED act /\ (UNCHANGED w \/ WakeWorker)
    BY <1>14 DEF Admit, Publish, PublishFails, NotifyAdmitted, CancelActive, CancelLookup,
       CancelRecord
  <2>2. \/ UNCHANGED req \/ req' = [req EXCEPT ![r].cancelled = TRUE]
        \/ req' = [req EXCEPT ![r].pool = @ + 1]
    BY <1>14 DEF Admit, Publish, PublishFails, Refused, NotifyAdmitted, CancelActive, CancelLookup,
       CancelRecord
  <2>3. \A q \in Requests : req[q].cancelled => req'[q].cancelled
    BY <2>2, MarkReq, ReleaseReq DEF Becomes
  <2> QED BY <1>1, <1>4, <2>1, <2>3
<1> QED BY <1>2, <1>3, <1>5, <1>6, <1>7, <1>8, <1>9, <1>10, <1>11, <1>12, <1>13, <1>14, NextCases

-----------------------------------------------------------------------------
(* The streams *)

Texts == {"tok", "end"}

(***************************************************************************)
(* The events of a request on the line are finitely many.                  *)
(***************************************************************************)
LEMMA OwnFinite ==
  ASSUME NEW r, NEW line \in Seq(Events)
  PROVE  /\ Own(r, line) \subseteq 1 .. Len(line) /\ Len(line) \in Nat
         /\ IsFiniteSet(Own(r, line)) /\ Cardinality(Own(r, line)) \in Nat
<1>1. Own(r, line) \subseteq 1 .. Len(line) /\ Len(line) \in Nat
  BY LenProperties DEF Own
<1>2. IsFiniteSet(1 .. Len(line))
  BY <1>1, FS_Interval
<1>3. IsFiniteSet(Own(r, line))
  BY <1>1, <1>2, FS_Subset
<1> QED BY <1>1, <1>3, FS_CardinalityType

(***************************************************************************)
(* An event that joins the line is the last one of its request, and none   *)
(* of any other.                                                           *)
(***************************************************************************)
LEMMA OwnAppend ==
  ASSUME NEW r, NEW line \in Seq(Events), NEW ev \in Events
  PROVE  /\ Append(line, ev) \in Seq(Events)
         /\ \A i \in Own(r, line) : Append(line, ev)[i] = line[i] /\ i < Len(line) + 1
         /\ Append(line, ev)[Len(line) + 1] = ev
         /\ ev.r = r => /\ Own(r, Append(line, ev)) = Own(r, line) \cup {Len(line) + 1}
                        /\ Cardinality(Own(r, Append(line, ev))) = Cardinality(Own(r, line)) + 1
         /\ ev.r # r => Own(r, Append(line, ev)) = Own(r, line)
<1> DEFINE n == Len(line) + 1
<1>1. /\ Append(line, ev) \in Seq(Events) /\ Len(Append(line, ev)) = n /\ Append(line, ev)[n] = ev
      /\ \A i \in 1 .. Len(line) : Append(line, ev)[i] = line[i]
      /\ n \in Nat /\ Len(line) \in Nat
  BY AppendProperties, LenProperties
<1>2. DOMAIN Append(line, ev) = 1 .. n /\ DOMAIN line = 1 .. Len(line)
  BY <1>1, LenProperties
<1>3. \A i \in Own(r, line) : Append(line, ev)[i] = line[i] /\ i < n
  BY <1>1, OwnFinite
<1>4. ev.r = r => Own(r, Append(line, ev)) = Own(r, line) \cup {n}
  BY <1>1, <1>2 DEF Own
<1>5. ev.r # r => Own(r, Append(line, ev)) = Own(r, line)
  BY <1>1, <1>2 DEF Own
<1>6. n \notin Own(r, line)
  BY <1>3, <1>1
<1>7. Cardinality(Own(r, line) \cup {n}) = Cardinality(Own(r, line)) + 1
  BY <1>6, OwnFinite, FS_AddElement
<1> QED BY <1>1, <1>3, <1>4, <1>5, <1>7

(***************************************************************************)
(* An event of another request leaves the stream alone, a token of its own *)
(* lengthens it, a terminal event of its own closes it.                    *)
(***************************************************************************)
LEMMA StreamedAppend ==
  ASSUME NEW r, NEW given \in Seq(Texts), NEW line \in Seq(Events), NEW n \in Nat,
         NEW over \in BOOLEAN, Streamed(r, given, line, n, over), NEW ev \in Events
  PROVE  /\ ev.r # r => Streamed(r, given, Append(line, ev), n, over)
         /\ ev = Event(r, "tok") /\ ~over => Streamed(r, given, Append(line, ev), n + 1, over)
         /\ ev = Event(r, "end") /\ ~over => Streamed(r, given, Append(line, ev), n, TRUE)
<1> DEFINE own == Own(r, line)
           own2 == Own(r, Append(line, ev))
<1>1. /\ Len(given) + Cardinality(own) = n + (IF over THEN 1 ELSE 0)
      /\ \A i \in own : line[i].e = "end" <=> over /\ \A j \in own : j <= i
      /\ \A i \in DOMAIN given : given[i] = "end" <=> over /\ own = {} /\ i = Len(given)
  BY DEF Streamed
<1>2. /\ \A i \in own : Append(line, ev)[i] = line[i] /\ i < Len(line) + 1
      /\ Append(line, ev)[Len(line) + 1] = ev
      /\ ev.r = r => own2 = own \cup {Len(line) + 1} /\ Cardinality(own2) = Cardinality(own) + 1
      /\ ev.r # r => own2 = own
  <2>1. /\ \A i \in own : Append(line, ev)[i] = line[i] /\ i < Len(line) + 1
        /\ Append(line, ev)[Len(line) + 1] = ev
    BY OwnAppend
  <2>2. ev.r = r => own2 = own \cup {Len(line) + 1} /\ Cardinality(own2) = Cardinality(own) + 1
    BY OwnAppend
  <2>3. ev.r # r => own2 = own
    BY OwnAppend
  <2> HIDE DEF own, own2
  <2> QED BY <2>1, <2>2, <2>3
<1>3. Len(given) \in Nat /\ Cardinality(own) \in Nat /\ Len(line) \in Nat /\ own \subseteq Nat
  BY OwnFinite, LenProperties
<1>4. ev.r # r => Streamed(r, given, Append(line, ev), n, over)
  <2> SUFFICES ASSUME ev.r # r PROVE Streamed(r, given, Append(line, ev), n, over)
    OBVIOUS
  <2>1. own2 = own
    BY <1>2
  <2>2. \A i \in own2 : Append(line, ev)[i].e = "end" <=> over /\ \A j \in own2 : j <= i
    BY <1>1, <1>2, <2>1
  <2> HIDE DEF own, own2
  <2>3. Streamed(r, given, Append(line, ev), n, over)
        = (/\ Len(given) + Cardinality(own2) = n + (IF over THEN 1 ELSE 0)
           /\ \A i \in own2 : Append(line, ev)[i].e = "end" <=> over /\ \A j \in own2 : j <= i
           /\ \A i \in DOMAIN given : given[i] = "end" <=> over /\ own2 = {} /\ i = Len(given))
    BY DEF Streamed, own2
  <2> QED BY <1>1, <2>1, <2>2, <2>3
<1>5. ev = Event(r, "tok") /\ ~over => Streamed(r, given, Append(line, ev), n + 1, over)
  <2> SUFFICES ASSUME ev = Event(r, "tok"), ~over
               PROVE  Streamed(r, given, Append(line, ev), n + 1, over)
    OBVIOUS
  <2>1. ev.r = r /\ ev.e = "tok"
    BY DEF Event
  <2>2. Len(given) + Cardinality(own2) = (n + 1) + (IF over THEN 1 ELSE 0)
    BY <1>1, <1>2, <1>3, <2>1
  <2>3. \A i \in own2 : Append(line, ev)[i].e # "end"
    BY <1>1, <1>2, <2>1
  <2>4. \A i \in DOMAIN given : given[i] # "end"
    BY <1>1
  <2> QED BY <2>2, <2>3, <2>4 DEF Streamed
<1>6. ev = Event(r, "end") /\ ~over => Streamed(r, given, Append(line, ev), n, TRUE)
  <2> SUFFICES ASSUME ev = Event(r, "end"), ~over
               PROVE  Streamed(r, given, Append(line, ev), n, TRUE)
    OBVIOUS
  <2>1. ev.r = r /\ ev.e = "end"
    BY DEF Event
  <2>2. Len(given) + Cardinality(own2) = n + 1
    BY <1>1, <1>2, <1>3, <2>1
  <2>3. ASSUME NEW i \in own2
        PROVE  Append(line, ev)[i].e = "end" <=> \A j \in own2 : j <= i
    <3> HIDE DEF own, own2
    <3>1. own2 = own \cup {Len(line) + 1} /\ \A j \in own : j \in Nat /\ j < Len(line) + 1
      BY <1>2, <1>3, <2>1
    <3>2. CASE i = Len(line) + 1
      <4>1. \A j \in own2 : j <= i
        BY <1>3, <3>1, <3>2
      <4> QED BY <1>2, <2>1, <3>2, <4>1
    <3>3. CASE i \in own
      <4>1. Append(line, ev)[i].e # "end"
        BY <1>1, <1>2, <3>3
      <4>2. Len(line) + 1 \in own2 /\ ~(Len(line) + 1 <= i)
        BY <1>3, <3>1, <3>3
      <4> QED BY <4>1, <4>2
    <3> QED BY <3>1, <3>2, <3>3
  <2>4. \A i \in DOMAIN given : given[i] # "end"
    BY <1>1
  <2>5. own2 # {}
    BY <1>2, <2>1
  <2> QED BY <2>2, <2>3, <2>4, <2>5 DEF Streamed
<1> QED BY <1>4, <1>5, <1>6

(***************************************************************************)
(* When the first event leaves the line, the others move up.               *)
(***************************************************************************)
LEMMA OwnTail ==
  ASSUME NEW r, NEW line \in Seq(Events), line # <<>>
  PROVE  /\ Tail(line) \in Seq(Events) /\ Head(line) = line[1] /\ Head(line) \in Events
         /\ \A i \in Own(r, Tail(line)) : i \in Nat /\ i + 1 \in Own(r, line)
                                          /\ Tail(line)[i] = line[i + 1]
         /\ \A i \in Own(r, line) : i # 1 => i - 1 \in Own(r, Tail(line))
         /\ 1 \in Own(r, line) <=> line[1].r = r
         /\ 0 \notin Own(r, Tail(line))
         /\ Cardinality(Own(r, line)) =
              Cardinality(Own(r, Tail(line))) + (IF line[1].r = r THEN 1 ELSE 0)
<1> DEFINE own == Own(r, line)
           own2 == Own(r, Tail(line))
<1>1. /\ Tail(line) \in Seq(Events) /\ Len(Tail(line)) = Len(line) - 1
      /\ \A i \in 1 .. Len(Tail(line)) : Tail(line)[i] = line[i + 1]
      /\ Len(line) \in Nat \ {0} /\ Head(line) = line[1] /\ Head(line) \in Events
  BY HeadTailProperties, EmptySeq
<1>2. DOMAIN line = 1 .. Len(line) /\ DOMAIN Tail(line) = 1 .. Len(line) - 1
  BY <1>1, LenProperties
<1>3. \A i \in own2 : i \in Nat /\ i # 0 /\ i + 1 \in own /\ Tail(line)[i] = line[i + 1]
  BY <1>1, <1>2 DEF Own
<1>4. \A i \in own : i \in Nat /\ (i # 1 => i - 1 \in own2)
  BY <1>1, <1>2 DEF Own
<1>5. 1 \in own <=> line[1].r = r
  BY <1>1, <1>2 DEF Own
<1>6. IsFiniteSet(own) /\ IsFiniteSet(own2) /\ Cardinality(own) \in Nat /\ Cardinality(own2) \in Nat
  BY <1>1, OwnFinite
<1>7. Cardinality(own \ {1}) = Cardinality(own2)
  <2> DEFINE f == [i \in own2 |-> i + 1]
  <2> HIDE DEF own, own2
  <2>1. f \in [own2 -> own \ {1}]
    BY <1>3
  <2>2. \A a, b \in own2 : f[a] = f[b] => a = b
    BY <1>3
  <2>3. \A t \in own \ {1} : \E s \in own2 : f[s] = t
    <3> TAKE t \in own \ {1}
    <3>1. t - 1 \in own2 /\ t \in Nat
      BY <1>4
    <3>2. f[t - 1] = t
      BY <3>1
    <3> QED BY <3>1, <3>2
  <2>4. f \in Bijection(own2, own \ {1})
    BY <2>1, <2>2, <2>3 DEF Bijection, Injection, Surjection, IsInjective
  <2>5. ExistsBijection(own2, own \ {1})
    BY <2>4 DEF ExistsBijection
  <2> QED BY <1>6, <2>5, FS_Bijection
<1>8. Cardinality(own \ {1}) = IF 1 \in own THEN Cardinality(own) - 1 ELSE Cardinality(own)
  BY <1>6, FS_RemoveElement
<1>9. Cardinality(own) = Cardinality(own2) + (IF line[1].r = r THEN 1 ELSE 0)
  <2> HIDE DEF own, own2
  <2> QED BY <1>5, <1>6, <1>7, <1>8
<1> QED BY <1>1, <1>3, <1>4, <1>5, <1>9

(***************************************************************************)
(* Giving the first event of the line to its callback leaves every stream  *)
(* as it is.                                                               *)
(***************************************************************************)
LEMMA StreamedTail ==
  ASSUME NEW r, NEW given \in Seq(Texts), NEW line \in Seq(Events), line # <<>>, NEW n \in Nat,
         NEW over \in BOOLEAN, Streamed(r, given, line, n, over)
  PROVE  /\ Head(line).r # r => Streamed(r, given, Tail(line), n, over)
         /\ Head(line).r = r => Streamed(r, Append(given, Head(line).e), Tail(line), n, over)
<1> DEFINE own == Own(r, line)
           own2 == Own(r, Tail(line))
<1>1. /\ Len(given) + Cardinality(own) = n + (IF over THEN 1 ELSE 0)
      /\ \A i \in own : line[i].e = "end" <=> over /\ \A j \in own : j <= i
      /\ \A i \in DOMAIN given : given[i] = "end" <=> over /\ own = {} /\ i = Len(given)
  BY DEF Streamed
<1>2. /\ \A i \in own2 : i \in Nat /\ i + 1 \in own /\ Tail(line)[i] = line[i + 1]
      /\ \A i \in own : i # 1 => i - 1 \in own2
      /\ 1 \in own <=> line[1].r = r
      /\ Cardinality(own) = Cardinality(own2) + (IF line[1].r = r THEN 1 ELSE 0)
      /\ Head(line) = line[1] /\ Head(line) \in Events
      /\ 0 \notin own2
  <2>1. /\ Tail(line) \in Seq(Events) /\ Head(line) = line[1] /\ Head(line) \in Events
        /\ \A i \in Own(r, Tail(line)) : i \in Nat /\ i + 1 \in Own(r, line)
                                         /\ Tail(line)[i] = line[i + 1]
        /\ \A i \in Own(r, line) : i # 1 => i - 1 \in Own(r, Tail(line))
        /\ 1 \in Own(r, line) <=> line[1].r = r
        /\ 0 \notin Own(r, Tail(line))
        /\ Cardinality(Own(r, line)) =
             Cardinality(Own(r, Tail(line))) + (IF line[1].r = r THEN 1 ELSE 0)
    BY ONLY line \in Seq(Events), line # <<>>, OwnTail
  <2> QED BY ONLY <2>1 DEF own, own2
<1>3. /\ Len(given) \in Nat /\ Cardinality(own) \in Nat /\ Len(line) \in Nat /\ own \subseteq Nat
      /\ Cardinality(own2) \in Nat
  <2>1. Len(given) \in Nat
    BY LenProperties
  <2>2. Cardinality(own) \in Nat /\ Len(line) \in Nat /\ own \subseteq Nat
    BY OwnFinite
  <2>3. Tail(line) \in Seq(Events)
    BY OwnTail
  <2>4. Cardinality(own2) \in Nat
    BY <2>3, OwnFinite
  <2> QED BY <2>1, <2>2, <2>4
<1>4. ASSUME NEW i \in own2
      PROVE  Tail(line)[i].e = "end" <=> over /\ \A j \in own2 : j <= i
  <2>1. (\A j \in own : j <= i + 1) <=> (\A j \in own2 : j <= i)
    <3> HIDE DEF own, own2
    <3> QED BY <1>2, <1>3
  <2>2. Tail(line)[i].e = "end" <=> over /\ \A j \in own : j <= i + 1
    <3> HIDE DEF own, own2
    <3>1. i + 1 \in own /\ Tail(line)[i] = line[i + 1]
      BY <1>2
    <3>2. PICK k \in own : k = i + 1
      BY <3>1
    <3>3. line[k].e = "end" <=> over /\ \A j \in own : j <= k
      BY <1>1
    <3> QED BY <3>1, <3>2, <3>3
  <2> QED BY <2>1, <2>2
<1>5. Head(line).r # r => Streamed(r, given, Tail(line), n, over)
  <2> SUFFICES ASSUME Head(line).r # r PROVE Streamed(r, given, Tail(line), n, over)
    OBVIOUS
  <2>1. Cardinality(own) = Cardinality(own2)
    BY <1>2, <1>3
  <2>2. own = {} <=> own2 = {}
    BY <1>2
  <2> HIDE DEF own, own2
  <2>3. Streamed(r, given, Tail(line), n, over)
        = (/\ Len(given) + Cardinality(own2) = n + (IF over THEN 1 ELSE 0)
           /\ \A i \in own2 : Tail(line)[i].e = "end" <=> over /\ \A j \in own2 : j <= i
           /\ \A i \in DOMAIN given : given[i] = "end" <=> over /\ own2 = {} /\ i = Len(given))
    BY DEF Streamed, own2
  <2> QED BY <1>1, <1>4, <2>1, <2>2, <2>3
<1>6. Head(line).r = r => Streamed(r, Append(given, Head(line).e), Tail(line), n, over)
  <2> SUFFICES ASSUME Head(line).r = r
               PROVE  Streamed(r, Append(given, Head(line).e), Tail(line), n, over)
    OBVIOUS
  <2> DEFINE more == Append(given, Head(line).e)
  <2>0. Head(line).e \in Texts
    BY <1>2 DEF Events, Texts
  <2>1. /\ more \in Seq(Texts) /\ Len(more) = Len(given) + 1 /\ more[Len(given) + 1] = line[1].e
        /\ \A i \in 1 .. Len(given) : more[i] = given[i]
    BY <1>2, <2>0, AppendProperties
  <2>2. DOMAIN more = 1 .. Len(given) + 1 /\ DOMAIN given = 1 .. Len(given)
    BY <2>1, LenProperties
  <2>3. 1 \in own /\ Cardinality(own) = Cardinality(own2) + 1
    BY <1>2
  <2>4. (\A j \in own : j <= 1) <=> own2 = {}
    <3> HIDE DEF own, own2
    <3> QED BY <1>2, <1>3, <2>3
  <2>5. line[1].e = "end" <=> over /\ own2 = {}
    BY <1>1, <2>3, <2>4
  <2>6. Len(more) + Cardinality(own2) = n + (IF over THEN 1 ELSE 0)
    <3> HIDE DEF own, own2, more
    <3> QED BY <1>1, <1>3, <2>1, <2>3
  <2> HIDE DEF own, own2, more
  <2>7. \A i \in DOMAIN more : more[i] = "end" <=> over /\ own2 = {} /\ i = Len(more)
    BY <1>1, <1>3, <2>1, <2>2, <2>3, <2>5
  <2>8. Streamed(r, more, Tail(line), n, over)
        = (/\ Len(more) + Cardinality(own2) = n + (IF over THEN 1 ELSE 0)
           /\ \A i \in own2 : Tail(line)[i].e = "end" <=> over /\ \A j \in own2 : j <= i
           /\ \A i \in DOMAIN more : more[i] = "end" <=> over /\ own2 = {} /\ i = Len(more))
    BY DEF Streamed, own2
  <2>9. Streamed(r, more, Tail(line), n, over)
    BY <1>4, <2>6, <2>7, <2>8
  <2> QED BY <2>9 DEF more
<1> QED BY <1>5, <1>6

(***************************************************************************)
(* A graph request has no event on the line, and its finaliser gives it    *)
(* the terminal one.                                                       *)
(***************************************************************************)
LEMMA StreamedGraph ==
  ASSUME NEW r \in Graphs, NEW given \in Seq(Texts), NEW line \in Seq(Events), NEW n \in Nat,
         Streamed(r, given, line, n, FALSE)
  PROVE  Streamed(r, Append(given, "end"), line, n, TRUE)
<1>1. Own(r, line) = {}
  <2> SUFFICES ASSUME NEW i \in Own(r, line) PROVE FALSE
    OBVIOUS
  <2>1. i \in 1 .. Len(line) /\ line[i].r = r
    BY LenProperties DEF Own
  <2>2. line[i] \in Events
    BY <2>1, ElementOfSeq
  <2> QED BY <2>1, <2>2 DEF Events, Generated
<1>2. /\ Len(given) + Cardinality({}) = n + 0
      /\ \A i \in DOMAIN given : given[i] # "end"
  BY <1>1 DEF Streamed
<1>3. Cardinality({}) = 0
  BY FS_EmptySet
<1> DEFINE more == Append(given, "end")
<1>4. /\ more \in Seq(Texts) /\ Len(more) = Len(given) + 1 /\ more[Len(given) + 1] = "end"
      /\ \A i \in 1 .. Len(given) : more[i] = given[i]
      /\ Len(given) \in Nat
  BY AppendProperties, LenProperties DEF Texts
<1>5. DOMAIN more = 1 .. Len(given) + 1 /\ DOMAIN given = 1 .. Len(given)
  BY <1>4, LenProperties
<1> HIDE DEF more
<1>6. \A i \in DOMAIN more : more[i] = "end" <=> i = Len(more)
  BY <1>2, <1>4, <1>5
<1>7. Len(more) + Cardinality({}) = n + 1
  BY <1>2, <1>3, <1>4
<1>8. Streamed(r, more, line, n, TRUE)
  BY <1>1, <1>6, <1>7 DEF Streamed
<1> QED BY <1>8 DEF more

\* The event the callback thread is delivering.
Delivering == IF cb.pc = "deliver" THEN <<cb.ev>> ELSE <<>>

(***************************************************************************)
(* The line is a sequence of events.                                       *)
(***************************************************************************)
LEMMA LineShape ==
  ASSUME Shape
  PROVE  /\ Delivering \in Seq(Events) /\ results \in Seq(Events) /\ w.out \in Seq(Events)
         /\ Delivering \o results \in Seq(Events)
         /\ Line = (Delivering \o results) \o w.out /\ Line \in Seq(Events)
<1>1. results \in Seq(Events) /\ w.out \in Seq(Events)
  BY DEF Shape, QueueShape, WShape, Workers
<1>2. Delivering \in Seq(Events)
  <2>1. CASE cb.pc = "deliver"
    <3>1. cb.ev \in Events
      BY <2>1 DEF Shape, CbShape
    <3>2. <<cb.ev>> \in Seq(Events)
      BY <3>1
    <3> QED BY <2>1, <3>2 DEF Delivering
  <2>2. CASE cb.pc # "deliver"
    <3>1. <<>> \in Seq(Events)
      OBVIOUS
    <3> QED BY <2>2, <3>1 DEF Delivering
  <2> QED BY <2>1, <2>2
<1>3. Delivering \o results \in Seq(Events)
  BY <1>1, <1>2, ConcatProperties
<1>4. Line = (Delivering \o results) \o w.out
  BY DEF Line, Delivering
<1>5. (Delivering \o results) \o w.out \in Seq(Events)
  BY <1>1, <1>3, ConcatProperties
<1> QED BY <1>1, <1>2, <1>3, <1>4, <1>5

(***************************************************************************)
(* How the parts of the line move: an event taken from the head of one     *)
(* part to the end of the part before it, and events that join the line.   *)
(***************************************************************************)
LEMMA Moves ==
  ASSUME NEW f \in Seq(Events), NEW q \in Seq(Events), NEW s \in Seq(Events)
  PROVE  /\ s # <<>> => (f \o Append(q, Head(s))) \o Tail(s) = (f \o q) \o s
         /\ q # <<>> => (<<Head(q)>> \o Tail(q)) \o s = (<<>> \o q) \o s
         /\ (f \o (q \o s)) \o <<>> = ((f \o q) \o <<>>) \o s
         /\ (f \o q) \o s = ((f \o q) \o <<>>) \o s
<1>1. f \o q \in Seq(Events) /\ q \o s \in Seq(Events) /\ <<>> \in Seq(Events)
  BY ConcatProperties
<1>2. s # <<>> => (f \o Append(q, Head(s))) \o Tail(s) = (f \o q) \o s
  <2> SUFFICES ASSUME s # <<>> PROVE (f \o Append(q, Head(s))) \o Tail(s) = (f \o q) \o s
    OBVIOUS
  <2>1. Head(s) \in Events /\ Tail(s) \in Seq(Events)
    BY HeadTailProperties
  <2>2. Append(q, Head(s)) = q \o <<Head(s)>> /\ <<Head(s)>> \in Seq(Events)
    BY <2>1, AppendIsConcat
  <2>3. <<Head(s)>> \o Tail(s) = s
    BY <2>1
  <2>4. f \o (q \o <<Head(s)>>) = (f \o q) \o <<Head(s)>>
    BY <2>2, ConcatAssociative
  <2>5. ((f \o q) \o <<Head(s)>>) \o Tail(s) = (f \o q) \o (<<Head(s)>> \o Tail(s))
    BY <1>1, <2>1, <2>2, ConcatAssociative
  <2> QED BY <2>2, <2>3, <2>4, <2>5
<1>3. q # <<>> => (<<Head(q)>> \o Tail(q)) \o s = (<<>> \o q) \o s
  <2> SUFFICES ASSUME q # <<>> PROVE (<<Head(q)>> \o Tail(q)) \o s = (<<>> \o q) \o s
    OBVIOUS
  <2>1. <<Head(q)>> \o Tail(q) = q
    BY HeadTailProperties
  <2>2. <<>> \o q = q
    BY ConcatEmptySeq
  <2> QED BY <2>1, <2>2
<1>4. (f \o q) \o <<>> = f \o q
  BY <1>1, ConcatEmptySeq
<1>5. f \o (q \o s) = (f \o q) \o s /\ (f \o q) \o s \in Seq(Events)
  <2>1. f \o (q \o s) = (f \o q) \o s
    BY ConcatAssociative
  <2>2. (f \o q) \o s \in Seq(Events)
    BY <1>1, ConcatProperties
  <2> QED BY ONLY <2>1, <2>2
<1>6. ((f \o q) \o s) \o <<>> = (f \o q) \o s
  BY <1>5, ConcatEmptySeq
<1> QED BY <1>2, <1>3, <1>4, <1>5, <1>6

(***************************************************************************)
(* Where the line goes: an emission joins its end, a delivery takes its    *)
(* head, and every other step leaves it as it is.                          *)
(***************************************************************************)
LEMMA LineSteps ==
  ASSUME Shape
  PROVE  /\ UNCHANGED <<results, cb.pc, cb.ev, w.out>> => Line' = Line
         /\ Push => Line' = Line
         /\ TakeEvent => Line' = Line
         /\ Deliver => Line # <<>> /\ Head(Line) = cb.ev /\ Line' = Tail(Line)
         /\ \A s \in Seq(Events) :
              w.out = <<>> /\ w'.out = s /\ UNCHANGED <<results, cb>> => Line' = Line \o s
         /\ \A s \in Seq(Events) :
              w.out = <<>> /\ w' = w /\ results' = results \o s /\ WakeCallback
                => Line' = Line \o s
<1>0. /\ Delivering \in Seq(Events) /\ results \in Seq(Events) /\ w.out \in Seq(Events)
      /\ Line = (Delivering \o results) \o w.out /\ w \in Workers /\ cb \in Callbacks
      /\ Line' = (Delivering' \o results') \o w'.out
  BY LineShape DEF Line, Delivering, Shape, WShape, CbShape
<1>1. UNCHANGED <<cb.pc, cb.ev>> => Delivering' = Delivering
  BY DEF Delivering
<1>2. WakeCallback => Delivering' = Delivering
  BY <1>0 DEF WakeCallback, Delivering, Callbacks
<1>3. UNCHANGED <<results, cb.pc, cb.ev, w.out>> => Line' = Line
  BY <1>0, <1>1
<1>4. Push => Line' = Line
  <2> SUFFICES ASSUME Push PROVE Line' = Line
    OBVIOUS
  <2>1. /\ w.out # <<>> /\ results' = Append(results, Head(w.out)) /\ w' = [w EXCEPT !.out = Tail(@)]
        /\ WakeCallback
    BY DEF Push
  <2>2. w'.out = Tail(w.out)
    BY <1>0, <2>1 DEF Workers
  <2>3. PICK f \in Seq(Events), q \in Seq(Events), s \in Seq(Events) :
          f = Delivering /\ q = results /\ s = w.out
    BY <1>0
  <2>4. (f \o Append(q, Head(s))) \o Tail(s) = (f \o q) \o s
    <3>1. s # <<>>
      BY <2>1, <2>3
    <3> QED BY ONLY <3>1, Moves
  <2> QED BY <1>0, <1>2, <2>1, <2>2, <2>3, <2>4
<1>5. TakeEvent => Line' = Line
  <2> SUFFICES ASSUME TakeEvent PROVE Line' = Line
    OBVIOUS
  <2>1. /\ cb.pc = "check" /\ results # <<>> /\ results' = Tail(results) /\ w' = w
        /\ cb' = [pc |-> "deliver", ev |-> Head(results)]
    BY DEF TakeEvent
  <2>2. Delivering = <<>> /\ Delivering' = <<Head(results)>>
    BY <2>1 DEF Delivering
  <2>3. PICK q \in Seq(Events), s \in Seq(Events) : q = results /\ s = w.out
    BY <1>0
  <2>4. (<<Head(q)>> \o Tail(q)) \o s = (<<>> \o q) \o s
    BY <2>1, <2>3, Moves
  <2> QED BY <1>0, <2>1, <2>2, <2>3, <2>4
<1>6. Deliver => Line # <<>> /\ Head(Line) = cb.ev /\ Line' = Tail(Line)
  <2> SUFFICES ASSUME Deliver PROVE Line # <<>> /\ Head(Line) = cb.ev /\ Line' = Tail(Line)
    OBVIOUS
  <2>1. cb.pc = "deliver" /\ UNCHANGED <<results, w>> /\ cb'.pc # "deliver"
    BY <1>0 DEF Deliver, queue, Callbacks, CallbackIdle
  <2>2. Delivering = <<cb.ev>> /\ Delivering' = <<>> /\ cb.ev \in Events
    BY <2>1 DEF Delivering, Shape, CbShape
  <2>3. PICK e \in Events : e = cb.ev
    BY <2>2
  <2>4. PICK t \in Seq(Events) : t = (<<>> \o results) \o w.out
    <3>1. <<>> \o results \in Seq(Events)
      BY <1>0, ConcatProperties
    <3> QED BY <1>0, <3>1, ConcatProperties
  <2>5. Line' = t
    BY <1>0, <2>1, <2>2, <2>4
  <2>6. <<e>> \in Seq(Events) /\ <<>> \in Seq(Events)
    OBVIOUS
  <2>7. <<>> \o results = results
    BY <1>0, ConcatEmptySeq
  <2>8. (<<e>> \o results) \o w.out = <<e>> \o (results \o w.out)
    <3>1. PICK f \in Seq(Events), q \in Seq(Events), s \in Seq(Events) :
            f = <<e>> /\ q = results /\ s = w.out
      BY <1>0, <2>6
    <3>2. (f \o q) \o s = f \o (q \o s)
      BY ConcatAssociative
    <3> QED BY <3>1, <3>2
  <2>9. Line = <<e>> \o t
    BY <1>0, <2>2, <2>3, <2>4, <2>7, <2>8
  <2>10. <<e>> \o t # <<>> /\ Head(<<e>> \o t) = e /\ Tail(<<e>> \o t) = t
    BY <2>3, <2>4
  <2> QED BY <2>3, <2>5, <2>9, <2>10
<1>7. ASSUME NEW s \in Seq(Events), w.out = <<>>, w'.out = s, UNCHANGED <<results, cb>>
      PROVE  Line' = Line \o s
  <2>1. Delivering' = Delivering
    BY <1>7 DEF Delivering
  <2>2. PICK f \in Seq(Events), q \in Seq(Events) : f = Delivering /\ q = results
    BY <1>0
  <2>3. (f \o q) \o s = ((f \o q) \o <<>>) \o s
    BY Moves
  <2> QED BY <1>0, <1>7, <2>1, <2>2, <2>3
<1>8. ASSUME NEW s \in Seq(Events), w.out = <<>>, w' = w, results' = results \o s, WakeCallback
      PROVE  Line' = Line \o s
  <2>1. Delivering' = Delivering
    BY <1>2, <1>8
  <2>2. PICK f \in Seq(Events), q \in Seq(Events) : f = Delivering /\ q = results
    BY <1>0
  <2>3. (f \o (q \o s)) \o <<>> = ((f \o q) \o <<>>) \o s
    BY Moves
  <2> QED BY <1>0, <1>8, <2>1, <2>2, <2>3
<1> QED BY <1>3, <1>4, <1>5, <1>6, <1>7, <1>8

(***************************************************************************)
(* The parts of a step: a terminal event of a request that is not over, a  *)
(* token, the callback of a graph.                                         *)
(***************************************************************************)
LEMMA StreamsParts ==
  ASSUME Shape, TerminalExactlyOnce
  PROVE  /\ \A x \in Generated : ~req[x].ended =>
              /\ \A q \in Requests \ {x} :
                   /\ Streamed(q, seen[q], Append(Line, Event(x, "tok")), req[q].tokens,
                               req[q].ended)
                   /\ Streamed(q, seen[q], Append(Line, Event(x, "end")), req[q].tokens,
                               req[q].ended)
                   /\ Streamed(q, seen[q],
                               Append(Append(Line, Event(x, "tok")), Event(x, "end")),
                               req[q].tokens, req[q].ended)
              /\ Streamed(x, seen[x], Append(Line, Event(x, "tok")), req[x].tokens + 1, FALSE)
              /\ Streamed(x, seen[x], Append(Line, Event(x, "end")), req[x].tokens, TRUE)
              /\ Streamed(x, seen[x], Append(Append(Line, Event(x, "tok")), Event(x, "end")),
                          req[x].tokens + 1, TRUE)
         /\ \A x \in Graphs : ~req[x].ended =>
              Streamed(x, Append(seen[x], "end"), Line, req[x].tokens, TRUE)
<1>1. \A q \in Requests : /\ seen[q] \in Seq(Texts) /\ req[q].tokens \in Nat
                          /\ req[q].ended \in BOOLEAN
                          /\ Streamed(q, seen[q], Line, req[q].tokens, req[q].ended)
  BY Fields DEF Shape, SeenShape, Texts, TerminalExactlyOnce
<1>2. Line \in Seq(Events)
  BY LineShape
<1>3. ASSUME NEW x \in Generated, ~req[x].ended
      PROVE  /\ \A q \in Requests \ {x} :
                   /\ Streamed(q, seen[q], Append(Line, Event(x, "tok")), req[q].tokens,
                               req[q].ended)
                   /\ Streamed(q, seen[q], Append(Line, Event(x, "end")), req[q].tokens,
                               req[q].ended)
                   /\ Streamed(q, seen[q],
                               Append(Append(Line, Event(x, "tok")), Event(x, "end")),
                               req[q].tokens, req[q].ended)
             /\ Streamed(x, seen[x], Append(Line, Event(x, "tok")), req[x].tokens + 1, FALSE)
             /\ Streamed(x, seen[x], Append(Line, Event(x, "end")), req[x].tokens, TRUE)
             /\ Streamed(x, seen[x], Append(Append(Line, Event(x, "tok")), Event(x, "end")),
                         req[x].tokens + 1, TRUE)
  <2>1. PICK a \in Events, b \in Events : /\ a = Event(x, "tok") /\ b = Event(x, "end")
                                          /\ a.r = x /\ b.r = x
    BY TerminalShape DEF Event
  <2>2. PICK line \in Seq(Events), longer \in Seq(Events) : line = Line /\ longer = Append(Line, a)
    BY <1>2, AppendProperties
  <2>3. ASSUME NEW q \in Requests, q # x
        PROVE  /\ Streamed(q, seen[q], Append(line, a), req[q].tokens, req[q].ended)
               /\ Streamed(q, seen[q], Append(line, b), req[q].tokens, req[q].ended)
               /\ Streamed(q, seen[q], Append(longer, b), req[q].tokens, req[q].ended)
    <3>1. PICK given \in Seq(Texts), n \in Nat, over \in BOOLEAN :
            given = seen[q] /\ n = req[q].tokens /\ over = req[q].ended
      BY <1>1
    <3>2. Streamed(q, given, line, n, over) /\ a.r # q /\ b.r # q
      BY <1>1, <2>1, <2>2, <2>3, <3>1
    <3>3. Streamed(q, given, Append(line, a), n, over) /\ Streamed(q, given, Append(line, b), n, over)
      BY <3>2, StreamedAppend
    <3>4. Streamed(q, given, longer, n, over)
      BY <2>2, <3>3
    <3>5. Streamed(q, given, Append(longer, b), n, over)
      BY <3>2, <3>4, StreamedAppend
    <3> QED BY <3>1, <3>3, <3>5
  <2>4. /\ Streamed(x, seen[x], Append(line, a), req[x].tokens + 1, FALSE)
        /\ Streamed(x, seen[x], Append(line, b), req[x].tokens, TRUE)
        /\ Streamed(x, seen[x], Append(longer, b), req[x].tokens + 1, TRUE)
    <3>1. PICK given \in Seq(Texts), n \in Nat, m \in Nat :
            given = seen[x] /\ n = req[x].tokens /\ m = req[x].tokens + 1
      BY <1>1 DEF Generated
    <3>2. x \in Requests /\ req[x].ended = FALSE
      BY <1>1, <1>3 DEF Generated
    <3>3. Streamed(x, given, line, n, FALSE)
      BY <1>1, <2>2, <3>1, <3>2
    <3>4. Streamed(x, given, Append(line, a), n + 1, FALSE) /\ Streamed(x, given, Append(line, b), n, TRUE)
      BY <2>1, <3>3, StreamedAppend
    <3>5. Streamed(x, given, longer, m, FALSE)
      BY <2>2, <3>1, <3>4
    <3>6. Streamed(x, given, Append(longer, b), m, TRUE)
      BY <2>1, <3>5, StreamedAppend
    <3> QED BY <3>1, <3>4, <3>6
  <2> QED BY <2>1, <2>2, <2>3, <2>4
<1>4. ASSUME NEW x \in Graphs, ~req[x].ended
      PROVE  Streamed(x, Append(seen[x], "end"), Line, req[x].tokens, TRUE)
  <2>1. x \in Requests /\ req[x].ended = FALSE
    BY <1>1, <1>4, RequestsAssumption
  <2>2. PICK given \in Seq(Texts), n \in Nat, line \in Seq(Events) :
          given = seen[x] /\ n = req[x].tokens /\ line = Line
    BY <1>1, <1>2, <2>1
  <2>3. Streamed(x, given, line, n, FALSE)
    BY <1>1, <2>1, <2>2
  <2> QED BY <2>2, <2>3, StreamedGraph
<1> QED BY <1>3, <1>4

(***************************************************************************)
(* No step loses, repeats or reorders the events of a request.             *)
(***************************************************************************)
LEMMA StreamsNext ==
  ASSUME Shape, WorkerInv, ShutdownInv, TerminalExactlyOnce, [Next]_vars
  PROVE  TerminalExactlyOnce'
<1>0. /\ w \in Workers /\ w.pc \in WorkerPCs /\ NoReq \notin Requests /\ Graphs \subseteq Requests
      /\ w.cur \in Requests \cup {NoReq} /\ Generated \subseteq Requests /\ act \subseteq Generated
      /\ seen \in [Requests -> Seq(Texts)] /\ cb \in Callbacks
  BY RequestsAssumption
     DEF Shape, WShape, Workers, Generated, PendShape, SeenShape, Texts, CbShape
<1>1. /\ Line \in Seq(Events)
      /\ \A q \in Requests : /\ seen[q] \in Seq(Texts) /\ req[q].tokens \in Nat
                             /\ req[q].ended \in BOOLEAN
                             /\ Streamed(q, seen[q], Line, req[q].tokens, req[q].ended)
  BY LineShape, Fields DEF Shape, SeenShape, Texts, TerminalExactlyOnce
<1>2. ASSUME Line' = Line, UNCHANGED seen,
             \A q \in Requests : req'[q].tokens = req[q].tokens /\ req'[q].ended = req[q].ended
      PROVE  TerminalExactlyOnce'
  BY <1>1, <1>2 DEF TerminalExactlyOnce
<1>3. ASSUME NEW x \in Generated, NEW c, NEW p, Becomes(x, c, TRUE, p, req[x].tokens),
             Line' = Line \o Terminal(x), UNCHANGED seen
      PROVE  TerminalExactlyOnce'
  <2>1. CASE req[x].ended
    <3>1. Line' = Line /\ req[x].ended = TRUE
      BY <1>0, <1>1, <1>3, <2>1, ConcatEmptySeq DEF Terminal
    <3>2. \A q \in Requests : req'[q].tokens = req[q].tokens /\ req'[q].ended = req[q].ended
      BY <1>3, <3>1 DEF Becomes
    <3> QED BY <1>2, <1>3, <3>1, <3>2
  <2>2. CASE ~req[x].ended
    <3>1. Line' = Append(Line, Event(x, "end"))
      BY <1>1, <1>3, <2>2, TerminalShape, AppendIsConcat DEF Terminal
    <3>2. \A q \in Requests \ {x} :
            Streamed(q, seen[q], Append(Line, Event(x, "end")), req[q].tokens, req[q].ended)
      BY <2>2, StreamsParts
    <3>3. Streamed(x, seen[x], Append(Line, Event(x, "end")), req[x].tokens, TRUE)
      BY <2>2, StreamsParts
    <3>4. /\ req'[x].ended = TRUE /\ req'[x].tokens = req[x].tokens
          /\ \A q \in Requests : q # x => req'[q] = req[q]
      BY <1>3 DEF Becomes
    <3> QED BY <1>3, <3>1, <3>2, <3>3, <3>4 DEF TerminalExactlyOnce
  <2> QED BY <2>1, <2>2
<1>4. ASSUME NEW x \in Graphs, NEW c, NEW p, Becomes(x, c, TRUE, p, req[x].tokens),
             Line' = Line, CompleteGraph(x)
      PROVE  TerminalExactlyOnce'
  <2>0. /\ req'[x].ended = TRUE /\ req'[x].tokens = req[x].tokens
        /\ \A q \in Requests : q # x => req'[q] = req[q]
    BY <1>4 DEF Becomes
  <2>1. CASE req[x].ended
    <3>1. seen' = seen /\ req[x].ended = TRUE
      BY <1>0, <1>1, <1>4, <2>1 DEF CompleteGraph
    <3> QED BY <1>2, <1>4, <2>0, <3>1
  <2>2. CASE ~req[x].ended
    <3>1. seen' = [seen EXCEPT ![x] = Append(seen[x], "end")]
      BY <1>4, <2>2 DEF CompleteGraph
    <3>2. seen'[x] = Append(seen[x], "end") /\ \A q \in Requests : q # x => seen'[q] = seen[q]
      BY <1>0, <3>1
    <3>3. Streamed(x, Append(seen[x], "end"), Line, req[x].tokens, TRUE)
      BY <2>2, StreamsParts
    <3> QED BY <1>1, <1>4, <2>0, <3>2, <3>3 DEF TerminalExactlyOnce
  <2> QED BY <2>1, <2>2
<1>5. CASE \/ WaitForWork \/ Sleep \/ ExitIfDrained \/ FetchDone \/ BuildBatch \/ WorkerThrows
           \/ Forget \/ Activate \/ WaitForDrain
           \/ BeginDrain \/ NotifyDrain \/ Stop \/ JoinWorker \/ CloseResults \/ JoinCallback
           \/ UNCHANGED vars
  <2>1. UNCHANGED <<results, cb, seen, req>>
    BY <1>5 DEF WaitForWork, Sleep, ExitIfDrained, FetchDone, BuildBatch, WorkerThrows, Forget,
       Activate, WaitForDrain, BeginDrain, NotifyDrain, Stop, JoinWorker, CloseResults,
       JoinCallback, vars, queue
  <2>2. w'.out = w.out
    BY <1>0, <1>5 DEF WaitForWork, Sleep, ExitIfDrained, FetchDone, BuildBatch, WorkerThrows, Forget,
       Activate, WaitForDrain, BeginDrain, NotifyDrain, Stop, JoinWorker, CloseResults,
       JoinCallback, vars, Workers, WakeWorker
  <2> QED BY <1>2, <2>1, <2>2, LineSteps
<1>6. CASE Push \/ TakeEvent
  <2>1. UNCHANGED <<seen, req>>
    BY <1>6 DEF Push, TakeEvent
  <2> QED BY <1>2, <1>6, <2>1, LineSteps
<1>7. CASE CallbackWait \/ CallbackSleep \/ CallbackReturns \/ NotifyStop \/ NotifyClosed
  <2>1. UNCHANGED <<results, seen, req>> /\ w'.out = w.out
    BY <1>0, <1>7 DEF CallbackWait, CallbackSleep, CallbackReturns, NotifyStop, NotifyClosed, queue,
       WakeWorker, Workers
  <2>2. (cb.pc # "deliver" /\ cb'.pc # "deliver") \/ UNCHANGED cb
    BY <1>0, <1>7 DEF CallbackWait, CallbackSleep, CallbackReturns, NotifyStop, NotifyClosed,
       WakeCallback, Callbacks, CallbackIdle
  <2>3. Line' = Line
    BY <2>1, <2>2 DEF Line
  <2> QED BY <1>2, <2>1, <2>3
<1>8. CASE Deliver
  <2>1. /\ UNCHANGED req /\ seen' = [seen EXCEPT ![cb.ev.r] = Append(@, cb.ev.e)]
        /\ cb.ev \in Events
    BY <1>8 DEF Deliver, Shape, CbShape
  <2>2. Line # <<>> /\ Head(Line) = cb.ev /\ Line' = Tail(Line)
    BY <1>8, LineSteps
  <2>3. PICK line \in Seq(Events) : line = Line
    BY <1>1
  <2>4. PICK x \in Generated : x = cb.ev.r
    BY <2>1 DEF Events
  <2>5. seen' = [seen EXCEPT ![x] = Append(seen[x], cb.ev.e)]
    BY <2>1, <2>4
  <2>6. seen'[x] = Append(seen[x], cb.ev.e) /\ \A q \in Requests : q # x => seen'[q] = seen[q]
    BY <1>0, <2>5
  <2>7. ASSUME NEW q \in Requests
        PROVE  Streamed(q, seen'[q], Tail(Line), req[q].tokens, req[q].ended)
    <3>1. PICK given \in Seq(Texts), n \in Nat, over \in BOOLEAN :
            given = seen[q] /\ n = req[q].tokens /\ over = req[q].ended
      BY <1>1
    <3>2. Streamed(q, given, line, n, over) /\ line # <<>>
      BY <1>1, <2>2, <2>3, <3>1
    <3>3. CASE q # x
      <4>1. Head(line).r # q
        BY <2>2, <2>3, <2>4, <3>3
      <4>2. Streamed(q, given, Tail(line), n, over)
        BY <3>2, <4>1, StreamedTail
      <4> QED BY <2>3, <2>6, <3>1, <3>3, <4>2
    <3>4. CASE q = x
      <4>1. Head(line).r = q
        BY <2>2, <2>3, <2>4, <3>4
      <4>2. Streamed(q, Append(given, Head(line).e), Tail(line), n, over)
        BY <3>2, <4>1, StreamedTail
      <4> QED BY <2>2, <2>3, <2>6, <3>1, <3>4, <4>2
    <3> QED BY <3>3, <3>4
  <2> QED BY <2>1, <2>2, <2>7 DEF TerminalExactlyOnce
<1>9. CASE Recheck \/ Consume \/ RunGraph \/ Reject
  <2>0. w.cur \in Requests /\ w.out = <<>> /\ UNCHANGED <<results, cb>>
    BY <1>0, <1>9 DEF Recheck, Consume, RunGraph, Reject, WorkerAt, WorkerInv, Holding, queue
  <2>1. CASE UNCHANGED <<req, seen>> /\ \E pc \in WorkerPCs : w' = [w EXCEPT !.pc = pc]
    <3>1. w'.out = w.out
      BY <1>0, <2>1 DEF Workers
    <3> QED BY <1>2, <2>0, <2>1, <3>1, LineSteps
  <2>2. ASSUME NEW flag \in BOOLEAN, EndCurrent(flag) PROVE TerminalExactlyOnce'
    <3>1. PICK x \in Requests : x = w.cur
      BY <2>0
    <3>2. Becomes(x, req[x].cancelled \/ flag, TRUE, req[x].pool, req[x].tokens)
      BY <2>2, <3>1, EndCurrentReq
    <3>3. CASE x \in Graphs
      <4>1. CompleteGraph(x) /\ w'.out = w.out
        BY <1>0, <2>2, <3>1, <3>3 DEF EndCurrent, Workers
      <4>2. Line' = Line
        BY <2>0, <4>1, LineSteps
      <4> QED BY <1>4, <3>2, <3>3, <4>1, <4>2
    <3>4. CASE x \notin Graphs
      <4>1. UNCHANGED seen /\ w'.out = Terminal(x)
        BY <1>0, <2>2, <3>1, <3>4 DEF EndCurrent, Workers
      <4>2. x \in Generated /\ Terminal(x) \in Seq(Events)
        BY <3>4, TerminalShape DEF Generated
      <4>3. Line' = Line \o Terminal(x)
        BY <2>0, <4>1, <4>2, LineSteps
      <4> QED BY <1>3, <3>2, <4>1, <4>2, <4>3
    <3> QED BY <3>3, <3>4
  <2>3. \/ UNCHANGED <<req, seen>> /\ \E pc \in WorkerPCs : w' = [w EXCEPT !.pc = pc]
        \/ \E flag \in BOOLEAN : EndCurrent(flag)
    BY <1>9 DEF Recheck, Consume, RunGraph, Reject, WorkerPCs, Holding
  <2> QED BY <2>1, <2>2, <2>3
<1>10. CASE ReleaseCurrent
  <2>1. /\ UNCHANGED <<results, cb, seen>> /\ req' = [req EXCEPT ![w.cur].pool = @ + 1]
        /\ w.cur \in Requests /\ w'.out = w.out
    BY <1>0, <1>10 DEF ReleaseCurrent, WorkerAt, WorkerInv, Holding, queue, Workers
  <2>2. PICK x \in Requests : x = w.cur
    BY <2>1
  <2>3. Becomes(x, req[x].cancelled, req[x].ended, req[x].pool + 1, req[x].tokens)
    BY <2>1, <2>2, ReleaseReq
  <2>4. \A q \in Requests : req'[q].tokens = req[q].tokens /\ req'[q].ended = req[q].ended
    BY <2>3 DEF Becomes
  <2> QED BY <1>2, <2>1, <2>4, LineSteps
<1>11. CASE Reap \/ WaitDrained
  <2>1. UNCHANGED <<results, cb, seen>> /\ w'.out = w.out
    BY <1>0, <1>11 DEF Reap, WaitDrained, queue, Workers
  <2>2. CASE Reap
    <3>1. ASSUME NEW q \in Requests
          PROVE  req'[q].tokens = req[q].tokens /\ req'[q].ended = req[q].ended
      <4>1. req' \in [Requests -> Records] /\ req'[q].ended \in BOOLEAN
        BY <2>2, SweepReq DEF Records
      <4> QED BY <1>1, <2>2, <4>1, SweepReq
    <3> QED BY <1>2, <2>1, <3>1, LineSteps
  <2>3. CASE WaitDrained
    <3>1. \A q \in Requests : req'[q].tokens = req[q].tokens /\ req'[q].ended = req[q].ended
      BY <2>3, SweepReq
    <3> QED BY <1>2, <2>1, <3>1, LineSteps
  <2> QED BY <1>11, <2>2, <2>3
<1>12. ASSUME NEW r \in Requests,
              \/ FetchOne(r) \/ Admit(r) \/ Publish(r) \/ PublishFails(r) \/ NotifyAdmitted(r)
              \/ CancelActive(r) \/ CancelLookup(r) \/ CancelRecord(r)
       PROVE  TerminalExactlyOnce'
  <2>1. UNCHANGED <<results, cb, seen>>
    BY <1>12 DEF FetchOne, Admit, Publish, PublishFails, NotifyAdmitted, CancelActive, CancelLookup,
       CancelRecord, queue
  <2>2. w'.out = w.out
    BY <1>0, <1>12 DEF FetchOne, Admit, Publish, PublishFails, NotifyAdmitted, CancelActive,
       CancelLookup, CancelRecord, WakeWorker, Workers
  <2>3. \/ UNCHANGED req \/ req' = [req EXCEPT ![r].cancelled = TRUE]
        \/ req' = [req EXCEPT ![r].pool = @ + 1]
    BY <1>12 DEF FetchOne, Admit, Publish, PublishFails, Refused, NotifyAdmitted, CancelActive,
       CancelLookup, CancelRecord
  <2>4. \A q \in Requests : req'[q].tokens = req[q].tokens /\ req'[q].ended = req[q].ended
    BY <2>3, MarkReq, ReleaseReq DEF Becomes
  <2> QED BY <1>2, <2>1, <2>2, <2>4, LineSteps
<1>13. ASSUME NEW r \in Requests, FinishCancelled(r) PROVE TerminalExactlyOnce'
  <2>1. /\ UNCHANGED <<results, cb, seen>> /\ r \in Generated /\ w.out = <<>>
        /\ req' = [req EXCEPT ![r].ended = TRUE] /\ w'.out = Terminal(r)
    BY <1>0, <1>13 DEF FinishCancelled, CancelledActive, WorkerAt, Workers, queue
  <2>2. Line' = Line \o Terminal(r)
    BY <2>1, TerminalShape, LineSteps
  <2>3. Becomes(r, req[r].cancelled, TRUE, req[r].pool, req[r].tokens)
    BY <2>1, MarkReq
  <2> QED BY <1>3, <2>1, <2>2, <2>3
<1>14. ASSUME NEW r \in Requests, OutputOne(r) PROVE TerminalExactlyOnce'
  <2>1. /\ UNCHANGED <<results, cb, seen>> /\ w.out = <<>> /\ r \in Generated /\ ~req[r].ended
        /\ req[r].ended = FALSE
    BY <1>0, <1>1, <1>14 DEF OutputOne, WorkerAt, WorkerInv, queue
  <2>2. PICK token, ends \in BOOLEAN :
           /\ token \/ ends
           /\ token /\ LastToken(r) => ends
           /\ Becomes(r, req[r].cancelled, ends, req[r].pool,
                      IF token THEN req[r].tokens + 1 ELSE req[r].tokens)
           /\ w' = [w EXCEPT !.batch = w.batch \ {r},
                             !.out = (IF token THEN <<Event(r, "tok")>> ELSE <<>>)
                                     \o (IF ends THEN Terminal(r) ELSE <<>>)]
    BY ONLY Shape, <1>14, OutputReq
  <2>3. PICK a \in Events, b \in Events : a = Event(r, "tok") /\ b = Event(r, "end")
    BY <2>1, TerminalShape
  <2>4. w'.out = (IF token THEN <<a>> ELSE <<>>) \o (IF ends THEN <<b>> ELSE <<>>)
    BY <1>0, <2>1, <2>2, <2>3 DEF Workers, Terminal
  <2>5. PICK line \in Seq(Events) : line = Line
    BY <1>1
  <2>6. /\ <<a>> \in Seq(Events) /\ <<b>> \in Seq(Events) /\ <<>> \in Seq(Events)
        /\ <<a>> \o <<b>> \in Seq(Events)
    OBVIOUS
  <2>7. /\ <<>> \o <<b>> = <<b>> /\ <<a>> \o <<>> = <<a>>
        /\ line \o <<a>> = Append(line, a) /\ line \o <<b>> = Append(line, b)
        /\ line \o (<<a>> \o <<b>>) = Append(Append(line, a), b)
    <3>1. <<>> \o <<b>> = <<b>> /\ <<a>> \o <<>> = <<a>>
      BY <2>6, ConcatEmptySeq
    <3>2. line \o <<a>> = Append(line, a) /\ line \o <<b>> = Append(line, b)
      BY AppendIsConcat
    <3>3. line \o (<<a>> \o <<b>>) = (line \o <<a>>) \o <<b>> /\ Append(line, a) \in Seq(Events)
      BY <2>6, ConcatAssociative, AppendProperties
    <3>4. Append(line, a) \o <<b>> = Append(Append(line, a), b)
      BY <3>3, AppendIsConcat
    <3> QED BY <3>1, <3>2, <3>3, <3>4
  <2>8. \A q \in Requests : q # r => req'[q] = req[q]
    BY <2>2 DEF Becomes
  <2>9. CASE token /\ ends
    <3>1. w'.out = <<a>> \o <<b>>
      BY <2>4, <2>9
    <3>2. Line' = Append(Append(Line, Event(r, "tok")), Event(r, "end"))
      BY <2>1, <2>3, <2>5, <2>6, <2>7, <3>1, LineSteps
    <3>3. req'[r].tokens = req[r].tokens + 1 /\ req'[r].ended = TRUE
      BY <2>2, <2>9 DEF Becomes
    <3>4. \A q \in Requests \ {r} :
            Streamed(q, seen[q], Append(Append(Line, Event(r, "tok")), Event(r, "end")),
                     req[q].tokens, req[q].ended)
      BY <2>1, StreamsParts
    <3>5. Streamed(r, seen[r], Append(Append(Line, Event(r, "tok")), Event(r, "end")),
                   req[r].tokens + 1, TRUE)
      BY <2>1, StreamsParts
    <3> QED BY <2>1, <2>8, <3>2, <3>3, <3>4, <3>5 DEF TerminalExactlyOnce
  <2>10. CASE token /\ ~ends
    <3>1. w'.out = <<a>>
      BY <2>4, <2>7, <2>10
    <3>2. Line' = Append(Line, Event(r, "tok"))
      BY <2>1, <2>3, <2>5, <2>6, <2>7, <3>1, LineSteps
    <3>3. req'[r].tokens = req[r].tokens + 1 /\ req'[r].ended = FALSE
      BY <2>2, <2>10 DEF Becomes
    <3>4. \A q \in Requests \ {r} :
            Streamed(q, seen[q], Append(Line, Event(r, "tok")), req[q].tokens, req[q].ended)
      BY <2>1, StreamsParts
    <3>5. Streamed(r, seen[r], Append(Line, Event(r, "tok")), req[r].tokens + 1, FALSE)
      BY <2>1, StreamsParts
    <3> QED BY <2>1, <2>8, <3>2, <3>3, <3>4, <3>5 DEF TerminalExactlyOnce
  <2>11. CASE ~token /\ ends
    <3>1. w'.out = <<b>>
      BY <2>4, <2>7, <2>11
    <3>2. Line' = Append(Line, Event(r, "end"))
      BY <2>1, <2>3, <2>5, <2>6, <2>7, <3>1, LineSteps
    <3>3. req'[r].tokens = req[r].tokens /\ req'[r].ended = TRUE
      BY <2>2, <2>11 DEF Becomes
    <3>4. \A q \in Requests \ {r} :
            Streamed(q, seen[q], Append(Line, Event(r, "end")), req[q].tokens, req[q].ended)
      BY <2>1, StreamsParts
    <3>5. Streamed(r, seen[r], Append(Line, Event(r, "end")), req[r].tokens, TRUE)
      BY <2>1, StreamsParts
    <3> QED BY <2>1, <2>8, <3>2, <3>3, <3>4, <3>5 DEF TerminalExactlyOnce
  <2> QED BY <2>2, <2>9, <2>10, <2>11
<1>15. ASSUME NEW r \in Requests, FinalizeActive(r) \/ FinalizePending(r) PROVE TerminalExactlyOnce'
  <2>1. FinalizeStopped(r) /\ UNCHANGED w /\ w.out = <<>>
    BY <1>15 DEF FinalizeActive, FinalizePending, ShutdownInv, JoinedPCs, WorkerInv
  <2>2. Becomes(r, TRUE, TRUE, req[r].pool + 1, req[r].tokens)
    BY <2>1, FinalizeStoppedReq
  <2>3. CASE r \in Graphs
    <3>1. CompleteGraph(r) /\ UNCHANGED <<results, cb>>
      BY <2>1, <2>3 DEF FinalizeStopped
    <3>2. Line' = Line
      BY <2>1, <3>1, LineSteps
    <3> QED BY <1>4, <2>2, <2>3, <3>1, <3>2
  <2>4. CASE r \notin Graphs
    <3>1. results' = results \o Terminal(r) /\ WakeCallback /\ UNCHANGED seen
      BY <2>1, <2>4 DEF FinalizeStopped
    <3>2. r \in Generated /\ Terminal(r) \in Seq(Events)
      BY <2>4, TerminalShape DEF Generated
    <3>3. Line' = Line \o Terminal(r)
      BY <2>1, <3>1, <3>2, LineSteps
    <3> QED BY <1>3, <2>2, <3>1, <3>2, <3>3
  <2> QED BY <2>3, <2>4
<1> QED BY <1>5, <1>6, <1>7, <1>8, <1>9, <1>10, <1>11, <1>12, <1>13, <1>14, <1>15, NextCases

(***************************************************************************)
(* The worker pushes only below the watermarks while the engine is not     *)
(* stopped, whether it found room or slept until there was.                *)
(***************************************************************************)
LEMMA BoundedNext ==
  ASSUME Shape, WorkerInv, ShutdownInv, ResultsBounded, [Next]_vars
  PROVE  ResultsBounded'
<1>0. results \in Seq(Events) /\ Len(results) \in Nat
  BY LenProperties DEF Shape, QueueShape
<1>1. ASSUME UNCHANGED results, status' # "STOPPED" => status # "STOPPED" PROVE ResultsBounded'
  BY <1>1 DEF ResultsBounded
<1>2. CASE \/ WaitForWork \/ Sleep \/ ExitIfDrained \/ FetchDone \/ BuildBatch \/ WorkerThrows
           \/ Forget \/ Recheck \/ Consume \/ RunGraph \/ Reject \/ Activate \/ ReleaseCurrent
           \/ Reap \/ WaitForDrain
           \/ CallbackWait \/ CallbackSleep \/ Deliver \/ CallbackReturns \/ UNCHANGED vars
  BY <1>1, <1>2 DEF WaitForWork, Sleep, ExitIfDrained, FetchDone, BuildBatch, WorkerThrows, Forget,
     Recheck, Consume, RunGraph, Reject, Activate, ReleaseCurrent, Reap, WaitForDrain,
     CallbackWait, CallbackSleep, Deliver, CallbackReturns, vars, queue
<1>3. CASE \/ BeginDrain \/ NotifyDrain \/ WaitDrained \/ Stop \/ NotifyStop \/ JoinWorker
           \/ CloseResults \/ NotifyClosed \/ JoinCallback
  <2>1. UNCHANGED results /\ (status' # "STOPPED" => status # "STOPPED")
    BY <1>3 DEF BeginDrain, NotifyDrain, WaitDrained, Stop, NotifyStop, JoinWorker, CloseResults,
       NotifyClosed, JoinCallback, queue, ShutdownInv
  <2> QED BY <1>1, <2>1
<1>4. CASE Push
  <2>1. /\ UNCHANGED status /\ results' = Append(results, Head(w.out)) /\ ~MustWait
        /\ w.out # <<>> /\ drain # "waiting"
    BY <1>4 DEF Push
  <2>2. Len(results') = Len(results) + 1
    <3>1. Head(w.out) \in Events
      BY <2>1, HeadTailProperties DEF Shape, WShape, Workers
    <3> QED BY <1>0, <2>1, <3>1, AppendProperties
  <2>3. status # "STOPPED" => Len(results) < Critical
    BY <1>0, <2>1, WatermarkAssumption DEF MustWait
  <2> QED BY <1>0, <2>1, <2>2, <2>3, WatermarkAssumption DEF ResultsBounded
<1>5. CASE TakeEvent
  <2>1. UNCHANGED status /\ results' = Tail(results) /\ results # <<>>
    BY <1>5 DEF TakeEvent
  <2>2. Len(results') = Len(results) - 1
    BY <1>0, <2>1, HeadTailProperties
  <2> QED BY <1>0, <2>1, <2>2, WatermarkAssumption DEF ResultsBounded
<1>6. ASSUME NEW r \in Requests,
             \/ FetchOne(r) \/ FinishCancelled(r) \/ OutputOne(r)
             \/ Admit(r) \/ Publish(r) \/ PublishFails(r) \/ NotifyAdmitted(r)
             \/ CancelActive(r) \/ CancelLookup(r) \/ CancelRecord(r)
      PROVE  ResultsBounded'
  BY <1>1, <1>6 DEF FetchOne, FinishCancelled, OutputOne, Admit, Publish, PublishFails,
     NotifyAdmitted, CancelActive, CancelLookup, CancelRecord, queue
<1>7. ASSUME NEW r \in Requests, FinalizeActive(r) \/ FinalizePending(r) PROVE ResultsBounded'
  <2>1. sd.pc = "finalize" /\ UNCHANGED status
    BY <1>7 DEF FinalizeActive, FinalizePending
  <2>2. status = "STOPPED"
    BY <2>1 DEF ShutdownInv, DrainPCs, Shape, SdShape
  <2> QED BY <2>1, <2>2 DEF ResultsBounded
<1> QED BY <1>2, <1>3, <1>4, <1>5, <1>6, <1>7, NextCases

-----------------------------------------------------------------------------
(* The theorems *)

IInv == /\ Shape /\ WorkerInv /\ ShutdownInv /\ OwnerInv /\ FreshInv /\ IdsInv /\ ExclusiveInv
        /\ ResultsBounded /\ TerminalExactlyOnce

(***************************************************************************)
(* An engine starts in the inductive invariant.                            *)
(***************************************************************************)
LEMMA InitIInv == Init => IInv
<1> SUFFICES ASSUME Init PROVE IInv
  OBVIOUS
<1>0. /\ w.pc = "top" /\ w.cur = NoReq /\ w.out = <<>> /\ w.batch = {}
  BY DEF Init
<1>1. Shape
  BY InitShape
<1>2. WorkerInv
  BY <1>0 DEF WorkerInv, Holding
<1>3. ShutdownInv
  BY <1>0 DEF ShutdownInv, Init, DrainPCs, JoinedPCs, CallbackIdle
<1>4. OwnerInv
  BY <1>0, RequestsAssumption DEF OwnerInv, Init
<1>5. FreshInv
  BY TokensAssumption DEF FreshInv, Init
<1>6. IdsInv /\ ExclusiveInv
  BY <1>0 DEF IdsInv, ExclusiveInv, Init
<1>7. ResultsBounded
  BY WatermarkAssumption DEF ResultsBounded, Init
<1>8. TerminalExactlyOnce
  <2>1. Line = <<>>
    <3>1. cb.pc # "deliver" /\ results = <<>>
      BY DEF Init, CallbackIdle
    <3>2. Line = (<<>> \o <<>>) \o <<>>
      BY <1>0, <3>1 DEF Line
    <3>3. (<<>> \o <<>>) \o <<>> = <<>>
      OBVIOUS
    <3> QED BY ONLY <3>2, <3>3
  <2>2. ASSUME NEW r \in Requests PROVE Streamed(r, <<>>, <<>>, 0, FALSE)
    <3>1. Own(r, <<>>) = {}
      BY DEF Own
    <3>2. Cardinality({}) = 0
      BY FS_EmptySet
    <3>3. Len(<<>>) = 0 /\ DOMAIN <<>> = {}
      OBVIOUS
    <3> QED BY ONLY <3>1, <3>2, <3>3 DEF Streamed
  <2>3. \A r \in Requests : seen[r] = <<>> /\ req[r].tokens = 0 /\ req[r].ended = FALSE
    BY DEF Init
  <2> QED BY <2>1, <2>2, <2>3 DEF TerminalExactlyOnce
<1> QED BY <1>1, <1>2, <1>3, <1>4, <1>5, <1>6, <1>7, <1>8 DEF IInv

(***************************************************************************)
(* Every step keeps the inductive invariant.                               *)
(***************************************************************************)
LEMMA IInvNext ==
  ASSUME IInv, [Next]_vars
  PROVE  IInv'
BY ShapeNext, WorkerNext, ShutdownNext, OwnerNext, FreshNext, IdsNext, ExclusiveNext, BoundedNext,
   StreamsNext DEF IInv

(***************************************************************************)
(* The inductive invariant holds in every reachable state.                 *)
(***************************************************************************)
LEMMA IInvInvariant == Spec => []IInv
<1>1. IInv /\ [Next]_vars => IInv'
  BY IInvNext
<1> QED BY <1>1, InitIInv, PTL DEF Spec

(***************************************************************************)
(* Every variable has the values its field of EngineState can have: a      *)
(* request is released at most once and never has more than max_tokens     *)
(* tokens, and the batch is part of the active requests.                   *)
(***************************************************************************)
THEOREM TypeOKInvariant == Spec => []TypeOK
<1>1. IInv => TypeOK
  <2> SUFFICES ASSUME IInv PROVE TypeOK
    OBVIOUS
  <2>1. req \in [Requests -> [cancelled : BOOLEAN, ended : BOOLEAN, pool : 0 .. 1,
                              tokens : 0 .. MaxTokens]]
    <3>1. req \in [Requests -> Records]
      BY DEF IInv, Shape, ReqShape
    <3>2. ASSUME NEW q \in Requests
          PROVE  req[q].pool \in 0 .. 1 /\ req[q].tokens \in 0 .. MaxTokens
      <4>1. sub[q] \in Subs
        BY DEF IInv, Shape, ClientShape
      <4>2. req[q].pool = 0 \/ req[q].pool = 1
        BY <4>1 DEF IInv, OwnerInv, Subs
      <4> QED BY <4>2, Fields, TokensAssumption DEF IInv, FreshInv
    <3>3. ASSUME NEW q \in Requests
          PROVE  req[q] \in [cancelled : BOOLEAN, ended : BOOLEAN, pool : 0 .. 1,
                             tokens : 0 .. MaxTokens]
      BY <3>1, <3>2 DEF Records
    <3> QED BY <3>1, <3>3
  <2>2. w.cur \in Requests \cup {NoReq} /\ w.batch \subseteq act
    BY DEF IInv, Shape, WShape, Workers, WorkerInv
  <2>3. results \in Seq([r : Requests, e : {"tok", "end"}])
    <3>1. Events \subseteq [r : Requests, e : {"tok", "end"}]
      BY DEF Events, Generated
    <3> QED BY <3>1, SeqMonotonic DEF IInv, Shape, QueueShape
  <2>4. act \subseteq Requests \ Graphs /\ sd.left \subseteq Requests
    BY DEF IInv, Shape, PendShape, SdShape, Generated
  <2> QED BY <2>1, <2>2, <2>3, <2>4
      DEF IInv, Shape, ClientShape, PendShape, QueueShape, SeenShape, SdShape, TypeOK, Subs, Cancs
<1> QED BY <1>1, IInvInvariant, PTL

(***************************************************************************)
(* A published request is in the pending queue, with the fetch loop,       *)
(* active, with Shutdown or released: exactly one of these, and released   *)
(* only after its end.                                                     *)
(***************************************************************************)
THEOREM SingleOwnerInvariant == Spec => []SingleOwner
<1>1. IInv => SingleOwner
  <2> DEFINE S(r) == {o \in {"pend", "cur", "act", "left"} : CASE o = "pend" -> r \in pend
                                                              [] o = "cur" -> r = w.cur
                                                              [] o = "act" -> r \in act
                                                              [] o = "left" -> r \in sd.left}
  <2> SUFFICES ASSUME IInv, NEW r \in Requests
               PROVE  IF sub[r] \in {"pushed", "accepted"}
                      THEN /\ Cardinality(S(r)) + req[r].pool = 1
                           /\ req[r].pool = 1 => req[r].ended
                      ELSE Cardinality(S(r)) = 0
    BY DEF SingleOwner
  <2>1. /\ Cardinality({}) = 0 /\ Cardinality({"pend"}) = 1 /\ Cardinality({"cur"}) = 1
        /\ Cardinality({"act"}) = 1 /\ Cardinality({"left"}) = 1
    BY FS_EmptySet, FS_Singleton
  <2>2. /\ r \in pend => S(r) = {"pend"}
        /\ r = w.cur => S(r) = {"cur"}
        /\ r \in act => S(r) = {"act"}
        /\ r \in sd.left => S(r) = {"left"}
        /\ r \notin pend /\ r # w.cur /\ r \notin act /\ r \notin sd.left => S(r) = {}
    BY DEF IInv, OwnerInv
  <2> HIDE DEF S
  <2>3. CASE r \in pend \/ r = w.cur \/ r \in act \/ r \in sd.left
    <3>1. Cardinality(S(r)) = 1
      BY <2>1, <2>2, <2>3
    <3>2. sub[r] \in {"pushed", "accepted"} /\ req[r].pool = 0
      BY <2>3 DEF IInv, OwnerInv
    <3> QED BY <3>1, <3>2
  <2>4. CASE ~(r \in pend \/ r = w.cur \/ r \in act \/ r \in sd.left)
    <3>1. Cardinality(S(r)) = 0
      BY <2>1, <2>2, <2>4
    <3>2. sub[r] \in {"pushed", "accepted"} => req[r].pool = 1 /\ req[r].ended
      BY <2>4 DEF IInv, OwnerInv
    <3> QED BY <3>1, <3>2
  <2> QED BY <2>3, <2>4
<1> QED BY <1>1, IInvInvariant, PTL

(***************************************************************************)
(* Under exclusive execution at most one request is active, however the    *)
(* fetch loop and CancelRequest interleave.                                *)
(***************************************************************************)
THEOREM OneAtATimeInvariant == Spec => []OneAtATime
<1>1. IInv => OneAtATime
  <2> SUFFICES ASSUME IInv, w.exclusive PROVE Cardinality(act) <= 1
    BY DEF OneAtATime
  <2>1. \A p, q \in act : p = q
    BY DEF IInv, ExclusiveInv
  <2>2. CASE act = {}
    BY <2>2, FS_EmptySet
  <2>3. ASSUME NEW p \in act PROVE Cardinality(act) <= 1
    <3>1. act = {p}
      BY <2>1
    <3>2. Cardinality({p}) = 1
      BY FS_Singleton
    <3> QED BY <3>1, <3>2
  <2> QED BY <2>2, <2>3
<1> QED BY <1>1, IInvInvariant, PTL

(***************************************************************************)
(* Until the engine is stopped its result queue never exceeds the critical *)
(* watermark, for every pair of watermarks.                                *)
(***************************************************************************)
THEOREM ResultsBoundedInvariant == Spec => []ResultsBounded
BY IInvInvariant, PTL DEF IInv

(***************************************************************************)
(* Every request has, delivered or on its way, the tokens it was given and *)
(* then, exactly if it is over, one terminal event.                        *)
(***************************************************************************)
THEOREM TerminalExactlyOnceInvariant == Spec => []TerminalExactlyOnce
BY IInvInvariant, PTL DEF IInv

(***************************************************************************)
(* What the stream of a request says of its callbacks: the terminal one is *)
(* given when the request is over and no event is left on the line; before *)
(* it they are tokens, no more than the request has been given.            *)
(***************************************************************************)
LEMMA StreamFacts ==
  ASSUME NEW r, NEW given \in Seq(Texts), NEW line \in Seq(Events), NEW n \in Nat,
         NEW over \in BOOLEAN, Streamed(r, given, line, n, over)
  PROVE  /\ given # <<>> /\ Last(given) = "end" => over /\ Own(r, line) = {}
         /\ over /\ Own(r, line) = {} => given # <<>> /\ Last(given) = "end"
         /\ ~(given # <<>> /\ Last(given) = "end") => Len(given) <= n
         /\ given # <<>> \/ Own(r, line) # {} => n > 0 \/ over
<1> DEFINE own == Own(r, line)
<1>1. /\ Len(given) + Cardinality(own) = n + (IF over THEN 1 ELSE 0)
      /\ \A i \in DOMAIN given : given[i] = "end" <=> over /\ own = {} /\ i = Len(given)
  BY DEF Streamed
<1>2. Len(given) \in Nat /\ DOMAIN given = 1 .. Len(given)
  BY LenProperties
<1>3. given # <<>> <=> Len(given) > 0
  BY <1>2, EmptySeq
<1>4. IsFiniteSet(own) /\ Cardinality(own) \in Nat
  BY OwnFinite
<1>5. Cardinality(own) = 0 <=> own = {}
  BY <1>4, FS_EmptySet
<1> HIDE DEF own
<1>6. Last(given) = given[Len(given)]
  BY DEF Last
<1>7. Len(given) > 0 => (Last(given) = "end" <=> over /\ own = {})
  BY <1>1, <1>2, <1>6
<1>8. over /\ own = {} => Len(given) > 0
  BY <1>1, <1>2, <1>4, <1>5
<1>9. ~(Len(given) > 0 /\ over /\ own = {}) => Len(given) <= n
  BY <1>1, <1>2, <1>4, <1>5
<1>10. Len(given) > 0 \/ own # {} => n > 0 \/ over
  BY <1>1, <1>2, <1>4, <1>5
<1> QED BY <1>3, <1>7, <1>8, <1>9, <1>10 DEF own

(***************************************************************************)
(* The same of the state: whoever has had a callback, or has one on the    *)
(* line, has been published; who has had the terminal one is over.         *)
(***************************************************************************)
LEMMA CallbackFacts ==
  ASSUME IInv, NEW r \in Requests
  PROVE  /\ Answered(r) => req[r].ended /\ Own(r, Line) = {}
         /\ req[r].ended /\ Own(r, Line) = {} => Answered(r)
         /\ ~Answered(r) => Len(seen[r]) <= req[r].tokens
         /\ seen[r] # <<>> \/ Own(r, Line) # {} => sub[r] \in {"pushed", "accepted"}
         /\ Answered(r) => sub[r] \in {"pushed", "accepted"}
         /\ seen[r] \in Seq(Texts) /\ Len(seen[r]) \in Nat
<1>1. PICK given \in Seq(Texts), line \in Seq(Events), n \in Nat, over \in BOOLEAN :
        given = seen[r] /\ line = Line /\ n = req[r].tokens /\ over = req[r].ended
  BY LineShape, Fields DEF IInv, Shape, SeenShape, Texts
<1>2. Streamed(r, given, line, n, over)
  BY <1>1 DEF IInv, TerminalExactlyOnce
<1>3. /\ given # <<>> /\ Last(given) = "end" => over /\ Own(r, line) = {}
      /\ over /\ Own(r, line) = {} => given # <<>> /\ Last(given) = "end"
      /\ ~(given # <<>> /\ Last(given) = "end") => Len(given) <= n
      /\ given # <<>> \/ Own(r, line) # {} => n > 0 \/ over
  BY <1>2, StreamFacts
<1>4. Answered(r) <=> given # <<>> /\ Last(given) = "end"
  BY <1>1 DEF Answered
<1>5. n > 0 \/ over => sub[r] \in {"pushed", "accepted"}
  BY <1>1 DEF IInv, FreshInv
<1>6. Len(given) \in Nat
  BY LenProperties
<1> QED BY <1>1, <1>3, <1>4, <1>5, <1>6

\* No request has more token callbacks than max_tokens.
TokensGiven == \A r \in Requests : ~Answered(r) => Len(seen[r]) <= MaxTokens

(***************************************************************************)
(* The token callbacks are among the tokens the request has been given.    *)
(***************************************************************************)
LEMMA TokensGivenHolds == IInv => TokensGiven
<1> SUFFICES ASSUME IInv, NEW r \in Requests, ~Answered(r) PROVE Len(seen[r]) <= MaxTokens
  BY DEF TokensGiven
<1>1. Len(seen[r]) <= req[r].tokens /\ Len(seen[r]) \in Nat
  BY CallbackFacts
<1>2. req[r].tokens <= MaxTokens /\ req[r].tokens \in Nat
  BY Fields DEF IInv, FreshInv
<1> QED BY <1>1, <1>2, TokensAssumption

(***************************************************************************)
(* When the result queue is closed and the callback thread has ended,      *)
(* nothing is owned by anybody and every published request is answered.    *)
(***************************************************************************)
LEMMA Resolves ==
  ASSUME IInv, closed, cb.pc = "exited"
  PROVE  /\ w.pc = "exited" /\ results = <<>> /\ pend = {} /\ pendIds = {} /\ act = {}
         /\ \A r \in Requests : sub[r] \in {"pushed", "accepted"} => Answered(r) /\ req[r].pool = 1
<1>1. /\ w.pc = "exited" /\ results = <<>> /\ pend = {} /\ act = {} /\ sd.left = {}
      /\ status # "RUNNING"
  BY DEF IInv, ShutdownInv, JoinedPCs
<1>2. w.cur = NoReq /\ w.out = <<>>
  BY <1>1 DEF IInv, WorkerInv, Holding
<1>3. Line = <<>>
  <2>1. Line = (<<>> \o <<>>) \o <<>>
    BY <1>1, <1>2 DEF Line
  <2> QED BY <2>1
<1>4. pendIds = {}
  <2>1. pendIds \subseteq Requests
    BY DEF IInv, Shape, PendShape
  <2> QED BY <1>1, <2>1 DEF IInv, IdsInv, ShutdownInv
<1>5. ASSUME NEW r \in Requests, sub[r] \in {"pushed", "accepted"}
      PROVE  Answered(r) /\ req[r].pool = 1
  <2>1. req[r].pool = 1 /\ req[r].ended
    BY <1>1, <1>2, <1>5, RequestsAssumption DEF IInv, OwnerInv
  <2>2. Own(r, Line) = {}
    BY <1>3 DEF Own
  <2> QED BY <2>1, <2>2, CallbackFacts
<1> QED BY <1>1, <1>4, <1>5

(***************************************************************************)
(* When Shutdown returns, both threads have ended, no queue holds anything *)
(* and every accepted request has had its terminal callback and is back in *)
(* the pool.                                                               *)
(***************************************************************************)
THEOREM ShutdownResolvesAllInvariant == Spec => []ShutdownResolvesAll
<1>1. IInv => ShutdownResolvesAll
  <2> SUFFICES ASSUME IInv, sd.pc = "done" PROVE ShutdownResolvesAll
    BY DEF ShutdownResolvesAll
  <2>1. closed /\ cb.pc = "exited"
    BY DEF IInv, ShutdownInv
  <2> QED BY <2>1, Resolves DEF ShutdownResolvesAll
<1> QED BY <1>1, IInvInvariant, PTL

\* The refinement mapping of RequestLifecycle's Contract.
Gate == CASE status = "RUNNING" -> "open"
          [] sd.pc = "done" -> "down"
          [] OTHER -> "draining"
Phases == [r \in Requests |-> ContractPhase(r)]
Tokens == [r \in Requests |-> IF Answered(r) THEN Len(seen[r]) - 1 ELSE Len(seen[r])]

(***************************************************************************)
(* A step of the engine is a step of the contract or none: the publication *)
(* of a request is its acceptance, a callback is a token or the end, the   *)
(* test that finds the engine not RUNNING or the queue failing a refusal.  *)
(***************************************************************************)
LEMMA ContractStep ==
  ASSUME IInv, TokensGiven', [Next]_vars
  PROVE  \/ UNCHANGED <<Gate, Phases, Tokens>>
         \/ Contract!Drain \/ Contract!Down
         \/ \E r \in Requests : \/ Contract!Accept(r) \/ Contract!Refuse(r)
                                \/ Contract!Token(r) \/ Contract!End(r)
<1>0. /\ sub \in [Requests -> Subs] /\ seen \in [Requests -> Seq(Texts)]
      /\ sd \in [pc : ShutdownPCs, left : SUBSET Generated]
      /\ status \in {"RUNNING", "DRAINING", "STOPPED"} /\ cb \in Callbacks
  BY DEF IInv, Shape, ClientShape, SeenShape, Texts, SdShape, CbShape
<1>1. ASSUME UNCHANGED <<seen, status>>, sd'.pc = "done" <=> sd.pc = "done",
             \A r \in Requests : ContractPhase(r)' = ContractPhase(r)
      PROVE  UNCHANGED <<Gate, Phases, Tokens>>
  <2>1. \A r \in Requests : Answered(r)' = Answered(r)
    BY <1>1 DEF Answered
  <2>2. Gate' = Gate
    BY <1>1 DEF Gate
  <2>3. Phases' = Phases
    BY <1>1 DEF Phases
  <2>4. Tokens' = Tokens
    BY <1>1, <2>1 DEF Tokens
  <2> QED BY <2>2, <2>3, <2>4
<1>2. ASSUME UNCHANGED <<sub, seen, status>>, sd'.pc = "done" <=> sd.pc = "done"
      PROVE  UNCHANGED <<Gate, Phases, Tokens>>
  <2>1. \A r \in Requests : ContractPhase(r)' = ContractPhase(r)
    BY <1>2 DEF ContractPhase, Answered
  <2> QED BY <1>1, <1>2, <2>1
<1>3. CASE \/ WaitForWork \/ Sleep \/ ExitIfDrained \/ FetchDone \/ BuildBatch \/ WorkerThrows
           \/ Forget \/ Activate \/ ReleaseCurrent \/ Reap \/ Push \/ WaitForDrain
           \/ TakeEvent \/ CallbackWait \/ CallbackSleep \/ CallbackReturns \/ UNCHANGED vars
  <2>1. UNCHANGED <<sub, seen, status, sd>>
    BY <1>3 DEF WaitForWork, Sleep, ExitIfDrained, FetchDone, BuildBatch, WorkerThrows, Forget,
       Activate, ReleaseCurrent, Reap, Push, WaitForDrain, TakeEvent, CallbackWait, CallbackSleep,
       CallbackReturns, vars, clients
  <2> QED BY <1>2, <2>1
<1>4. CASE \/ NotifyDrain \/ WaitDrained \/ NotifyStop \/ JoinWorker \/ CloseResults \/ NotifyClosed
  <2>1. UNCHANGED <<sub, seen, status>> /\ sd.pc # "done" /\ sd'.pc # "done"
    BY <1>0, <1>4 DEF NotifyDrain, WaitDrained, NotifyStop, JoinWorker, CloseResults, NotifyClosed,
       clients
  <2> QED BY <1>2, <2>1
<1>5. ASSUME UNCHANGED <<sub, seen>> PROVE UNCHANGED <<Phases, Tokens>>
  BY <1>5 DEF Phases, Tokens, ContractPhase, Answered
<1>6. CASE Stop
  <2>1. UNCHANGED <<sub, seen>> /\ status' = "STOPPED" /\ sd.pc = "stop" /\ sd'.pc = "stopped"
    BY <1>0, <1>6 DEF Stop, clients
  <2>2. status # "RUNNING"
    BY <2>1 DEF IInv, ShutdownInv
  <2>3. Gate = "draining" /\ Gate' = "draining"
    BY <2>1, <2>2 DEF Gate
  <2> QED BY <1>5, <2>1, <2>3
<1>7. CASE BeginDrain
  <2>1. UNCHANGED <<sub, seen>> /\ status' = "DRAINING" /\ sd.pc = "running" /\ sd'.pc = "notify"
    BY <1>0, <1>7 DEF BeginDrain, clients
  <2>2. status = "RUNNING"
    BY <2>1 DEF IInv, ShutdownInv
  <2>3. Gate = "open" /\ Gate' = "draining"
    BY <2>1, <2>2 DEF Gate
  <2>4. UNCHANGED <<Phases, Tokens>>
    BY <1>5, <2>1
  <2>5. Contract!Drain
    BY <2>3, <2>4 DEF Contract!Drain, Gate, Phases, Tokens
  <2> QED BY <2>5
<1>8. CASE JoinCallback
  <2>1. /\ UNCHANGED <<sub, seen, status>> /\ sd.pc = "joincb" /\ sd'.pc = "done"
        /\ cb.pc = "exited"
    BY <1>0, <1>8 DEF JoinCallback, clients, CallbackEnded
  <2>2. status # "RUNNING" /\ closed
    BY <2>1 DEF IInv, ShutdownInv
  <2>3. Gate = "draining" /\ Gate' = "down"
    BY <2>1, <2>2 DEF Gate
  <2>4. UNCHANGED <<Phases, Tokens>>
    BY <1>5, <2>1
  <2>5. \A r \in Requests : Phases[r] # "accepted"
    BY <1>0, <2>1, <2>2, Resolves DEF Phases, ContractPhase, Subs
  <2>6. Contract!Down
    BY <2>3, <2>4, <2>5 DEF Contract!Down, Contract!Resolved, Gate, Phases, Tokens
  <2> QED BY <2>6
<1>9. ASSUME NEW x \in Requests, UNCHANGED <<sub, status, sd>>, sub[x] \in {"pushed", "accepted"},
             ~Answered(x), NEW e \in Texts, seen' = [seen EXCEPT ![x] = Append(seen[x], e)]
      PROVE  Contract!Token(x) \/ Contract!End(x)
  <2>1. Gate' = Gate
    BY <1>9 DEF Gate
  <2>2. /\ seen[x] \in Seq(Texts) /\ Len(seen[x]) \in Nat
    BY <1>0, LenProperties
  <2>3. /\ seen'[x] = Append(seen[x], e) /\ Len(seen'[x]) = Len(seen[x]) + 1
        /\ seen'[x][Len(seen[x]) + 1] = e /\ seen'[x] # <<>>
    <3>1. seen'[x] = Append(seen[x], e)
      BY <1>0, <1>9
    <3>2. /\ Append(seen[x], e) # <<>> /\ Len(Append(seen[x], e)) = Len(seen[x]) + 1
          /\ Append(seen[x], e)[Len(seen[x]) + 1] = e
      BY <2>2, <1>9, AppendProperties
    <3> QED BY <3>1, <3>2
  <2>4. Answered(x)' <=> e = "end"
    BY <2>3 DEF Answered, Last
  <2>5. \A q \in Requests : q # x => seen'[q] = seen[q] /\ Answered(q)' = Answered(q)
    <3>1. \A q \in Requests : q # x => seen'[q] = seen[q]
      BY <1>0, <1>9
    <3> QED BY <3>1 DEF Answered
  <2>6. \A q \in Requests : q # x => ContractPhase(q)' = ContractPhase(q)
    BY <1>9, <2>5 DEF ContractPhase
  <2>7. ContractPhase(x) = "accepted" /\ ContractPhase(x)' = IF e = "end" THEN "ended" ELSE "accepted"
    BY <1>9, <2>4 DEF ContractPhase
  <2>8. Phases[x] = "accepted"
    BY <2>7 DEF Phases
  <2>9. CASE e = "end"
    <3>1. Phases' = [Phases EXCEPT ![x] = "ended"]
      BY <2>6, <2>7, <2>9 DEF Phases
    <3>2. Tokens' = Tokens
      BY <1>9, <2>2, <2>3, <2>4, <2>5, <2>9 DEF Tokens
    <3>3. Contract!End(x)
      BY <2>1, <2>8, <3>1, <3>2 DEF Contract!End, Gate, Phases, Tokens
    <3> QED BY <3>3
  <2>10. CASE e # "end"
    <3>1. Phases' = Phases
      BY <2>6, <2>7, <2>10 DEF Phases
    <3>2. Tokens[x] = Len(seen[x]) /\ Tokens' = [Tokens EXCEPT ![x] = Tokens[x] + 1]
      <4>1. Tokens[x] = Len(seen[x]) /\ Tokens'[x] = Len(seen[x]) + 1
        BY <1>9, <2>3, <2>4, <2>10 DEF Tokens
      <4>2. \A q \in Requests : q # x => Tokens'[q] = Tokens[q]
        BY <2>5 DEF Tokens
      <4>3. DOMAIN Tokens = Requests /\ Tokens = [q \in Requests |-> Tokens[q]]
            /\ Tokens' = [q \in Requests |-> Tokens'[q]]
        BY DEF Tokens
      <4> HIDE DEF Tokens
      <4> QED BY <4>1, <4>2, <4>3
    <3>3. Tokens[x] < MaxTokens
      <4>1. ~Answered(x)' /\ Len(seen'[x]) <= MaxTokens
        BY <2>4, <2>10 DEF TokensGiven
      <4> QED BY <2>2, <2>3, <3>2, <4>1, TokensAssumption
    <3>4. Contract!Token(x)
      BY <2>1, <2>8, <3>1, <3>2, <3>3 DEF Contract!Token, Gate, Phases, Tokens
    <3> QED BY <3>4
  <2> QED BY <2>9, <2>10
<1>10. CASE Deliver
  <2>1. /\ UNCHANGED <<sub, status, sd>> /\ cb.ev \in Events
        /\ seen' = [seen EXCEPT ![cb.ev.r] = Append(@, cb.ev.e)]
    BY <1>10 DEF Deliver, IInv, Shape, CbShape
  <2>2. PICK x \in Requests, e \in Texts : x = cb.ev.r /\ e = cb.ev.e
    BY <2>1 DEF Events, Texts, Generated
  <2>3. seen' = [seen EXCEPT ![x] = Append(seen[x], e)]
    BY <2>1, <2>2
  <2>4. Own(x, Line) # {}
    <3>1. Line # <<>> /\ Head(Line) = cb.ev /\ Line \in Seq(Events)
      BY <1>10, LineSteps, LineShape DEF IInv
    <3>2. 1 \in Own(x, Line)
      BY <2>2, <3>1, OwnTail
    <3> QED BY <3>2
  <2>5. ~Answered(x) /\ sub[x] \in {"pushed", "accepted"}
    BY <2>4, CallbackFacts
  <2> QED BY <1>9, <2>1, <2>3, <2>5
<1>11. ASSUME NEW x \in Requests, CompleteGraph(x), UNCHANGED <<sub, status>>,
              sd'.pc = "done" <=> sd.pc = "done",
              x \in pend \/ w.cur = x \/ x \in act \/ x \in sd.left, UNCHANGED sd
       PROVE  UNCHANGED <<Gate, Phases, Tokens>> \/ Contract!Token(x) \/ Contract!End(x)
  <2>1. CASE req[x].ended
    <3>1. seen' = seen
      BY <1>0, <1>11, <2>1 DEF CompleteGraph
    <3> QED BY <1>2, <1>11, <3>1
  <2>2. CASE ~req[x].ended
    <3>1. seen' = [seen EXCEPT ![x] = Append(seen[x], "end")]
      BY <1>11, <2>2 DEF CompleteGraph
    <3>2. ~Answered(x) /\ sub[x] \in {"pushed", "accepted"}
      BY <1>11, <2>2, CallbackFacts DEF IInv, OwnerInv
    <3> QED BY <1>9, <1>11, <3>1, <3>2 DEF Texts
  <2> QED BY <2>1, <2>2
<1>12. CASE Recheck \/ Consume \/ RunGraph \/ Reject
  <2>1. UNCHANGED <<sub, status, sd>> /\ (UNCHANGED seen \/ CompleteGraph(w.cur))
    BY <1>12 DEF Recheck, Consume, RunGraph, Reject, EndCurrent, clients
  <2>2. PICK x \in Requests : x = w.cur
    BY <1>12 DEF Recheck, Consume, RunGraph, Reject, WorkerAt, IInv, WorkerInv, Holding, Shape,
       WShape, Workers
  <2> QED BY <1>2, <1>11, <2>1, <2>2
<1>13. ASSUME NEW r \in Requests,
              \/ FetchOne(r) \/ FinishCancelled(r) \/ OutputOne(r)
              \/ CancelActive(r) \/ CancelLookup(r) \/ CancelRecord(r)
       PROVE  UNCHANGED <<Gate, Phases, Tokens>>
  <2>1. UNCHANGED <<sub, seen, status, sd>>
    BY <1>13 DEF FetchOne, FinishCancelled, OutputOne, CancelActive, CancelLookup, CancelRecord,
       clients
  <2> QED BY <1>2, <2>1
<1>14. ASSUME NEW r \in Requests, FinalizeActive(r)
       PROVE  UNCHANGED <<Gate, Phases, Tokens>>
  <2>1. /\ UNCHANGED <<sub, status>> /\ sd.pc = "finalize" /\ sd'.pc = "finalize"
        /\ FinalizeStopped(r) /\ r \in sd.left
    BY <1>0, <1>14 DEF FinalizeActive, clients
  <2>2. r \notin Graphs
    BY <1>0, <2>1 DEF Generated
  <2>3. UNCHANGED seen
    BY <2>1, <2>2 DEF FinalizeStopped
  <2> QED BY <1>2, <2>1, <2>3
<1>15. ASSUME NEW r \in Requests, FinalizePending(r)
       PROVE  UNCHANGED <<Gate, Phases, Tokens>> \/ Contract!Token(r) \/ Contract!End(r)
  <2>1. /\ UNCHANGED <<sub, status, sd>> /\ FinalizeStopped(r) /\ r \in pend
    BY <1>15 DEF FinalizePending, clients
  <2> QED BY <1>2, <1>11, <2>1 DEF FinalizeStopped
<1>16. ASSUME NEW r \in Requests, NotifyAdmitted(r) PROVE UNCHANGED <<Gate, Phases, Tokens>>
  <2>1. /\ UNCHANGED <<seen, status, sd>> /\ sub[r] = "pushed"
        /\ sub' = [sub EXCEPT ![r] = "accepted"]
    BY <1>16 DEF NotifyAdmitted
  <2>2. \A q \in Requests : ContractPhase(q)' = ContractPhase(q)
    BY <1>0, <2>1 DEF ContractPhase, Answered
  <2> QED BY <1>1, <2>1, <2>2
<1>17. ASSUME NEW r \in Requests, UNCHANGED <<seen, status, sd>>, sub[r] \in {"new", "recorded"},
              NEW s \in {"recorded", "refused", "pushed"}, sub' = [sub EXCEPT ![r] = s]
       PROVE  /\ Gate' = Gate /\ Tokens' = Tokens /\ Phases[r] = "new"
              /\ s = "recorded" => Phases' = Phases
              /\ s = "refused" => Phases' = [Phases EXCEPT ![r] = "refused"]
              /\ s = "pushed" => Phases' = [Phases EXCEPT ![r] = "accepted"]
  <2>1. Gate' = Gate /\ Tokens' = Tokens
    BY <1>17 DEF Gate, Tokens, Answered
  <2>2. /\ sub'[r] = s /\ \A q \in Requests : q # r => sub'[q] = sub[q]
    BY <1>0, <1>17
  <2>3. \A q \in Requests : q # r => ContractPhase(q)' = ContractPhase(q)
    BY <1>17, <2>2 DEF ContractPhase, Answered
  <2>4. ~Answered(r) /\ ~Answered(r)'
    <3>1. ~Answered(r)
      BY <1>17, CallbackFacts
    <3> QED BY <1>17, <3>1 DEF Answered
  <2>5. /\ ContractPhase(r) = "new"
        /\ s = "recorded" => ContractPhase(r)' = "new"
        /\ s = "refused" => ContractPhase(r)' = "refused"
        /\ s = "pushed" => ContractPhase(r)' = "accepted"
    BY <1>17, <2>2, <2>4 DEF ContractPhase
  <2>6. Phases[r] = "new"
    BY <2>5 DEF Phases
  <2>7. s = "recorded" => Phases' = Phases
    BY <2>3, <2>5 DEF Phases
  <2>8. s = "refused" => Phases' = [Phases EXCEPT ![r] = "refused"]
    BY <2>3, <2>5 DEF Phases
  <2>9. s = "pushed" => Phases' = [Phases EXCEPT ![r] = "accepted"]
    BY <2>3, <2>5 DEF Phases
  <2> QED BY <2>1, <2>6, <2>7, <2>8, <2>9
<1>18. ASSUME NEW r \in Requests, Admit(r) \/ Publish(r) \/ PublishFails(r)
       PROVE  UNCHANGED <<Gate, Phases, Tokens>> \/ Contract!Accept(r) \/ Contract!Refuse(r)
  <2>1. UNCHANGED <<seen, status, sd>> /\ sub[r] \in {"new", "recorded"}
    BY <1>18 DEF Admit, Publish, PublishFails
  <2>2. CASE sub' = [sub EXCEPT ![r] = "recorded"]
    BY <1>17, <2>1, <2>2
  <2>3. CASE sub' = [sub EXCEPT ![r] = "refused"]
    <3>1. Gate' = Gate /\ Tokens' = Tokens /\ Phases[r] = "new"
          /\ Phases' = [Phases EXCEPT ![r] = "refused"]
      BY <1>17, <2>1, <2>3
    <3>2. Contract!Refuse(r)
      BY <3>1 DEF Contract!Refuse, Gate, Phases, Tokens
    <3> QED BY <3>2
  <2>4. CASE Publish(r)
    <3>1. sub' = [sub EXCEPT ![r] = "pushed"] /\ sub[r] = "recorded"
      BY <2>4 DEF Publish
    <3>2. Gate' = Gate /\ Tokens' = Tokens /\ Phases[r] = "new"
          /\ Phases' = [Phases EXCEPT ![r] = "accepted"]
      BY <1>17, <2>1, <3>1
    <3>3. Gate = "open"
      BY <3>1 DEF IInv, ShutdownInv, Gate
    <3>4. Contract!Accept(r)
      BY <3>2, <3>3 DEF Contract!Accept, Gate, Phases, Tokens
    <3> QED BY <3>4
  <2> QED BY <1>18, <2>2, <2>3, <2>4 DEF Admit, PublishFails, Refused
<1> QED BY <1>3, <1>4, <1>6, <1>7, <1>8, <1>10, <1>12, <1>13, <1>14, <1>15, <1>16, <1>18, NextCases

(***************************************************************************)
(* The threads of the engine together keep the contract of the C API: a    *)
(* request is accepted only while the engine runs, its callbacks are       *)
(* tokens and then one terminal event, and Shutdown returns when every     *)
(* accepted request has had that one.                                      *)
(***************************************************************************)
THEOREM LifecycleImplementsContract == Spec => ImplementsContract
<1>1. Init => Contract!Init
  <2> SUFFICES ASSUME Init PROVE Contract!Init
    OBVIOUS
  <2>1. Gate = "open" /\ \A r \in Requests : ~Answered(r) /\ Len(seen[r]) = 0 /\ sub[r] = "new"
    BY DEF Init, Gate, Answered
  <2>2. Phases = [r \in Requests |-> "new"] /\ Tokens = [r \in Requests |-> 0]
    BY <2>1 DEF Phases, Tokens, ContractPhase
  <2> QED BY <2>1, <2>2 DEF Contract!Init, Gate, Phases, Tokens
<1>2. IInv /\ TokensGiven' /\ [Next]_vars => [Contract!Next]_(Contract!contract)
  <2> SUFFICES ASSUME IInv, TokensGiven', [Next]_vars PROVE [Contract!Next]_(Contract!contract)
    OBVIOUS
  <2>1. ASSUME UNCHANGED <<Gate, Phases, Tokens>> PROVE UNCHANGED Contract!contract
    BY <2>1 DEF Contract!contract, Gate, Phases, Tokens
  <2> QED BY <2>1, ContractStep DEF Contract!Next
<1> QED BY <1>1, <1>2, IInvInvariant, TokensGivenHolds, PTL DEF Spec, Contract!Spec, ImplementsContract

=============================================================================
