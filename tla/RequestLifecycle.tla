-------------------------- MODULE RequestLifecycle --------------------------
(***************************************************************************)
(* The life of a request across the threads of the engine: the threads     *)
(* that submit and cancel it, the worker (EngineLoop), the callback thread *)
(* (CallbackLoop) and the thread that shuts the engine down.  One action   *)
(* is what a thread does between two points where another can interfere:   *)
(* a critical section of admission_mu, cv_mu, active_mu, pending_mu,       *)
(* cancel_mu or result_mu, or a read of the atomic status.                 *)
(*                                                                         *)
(* What the worker computes is EngineLoop.tla; here an iteration gives     *)
(* some of the active requests a token, an error or their end.  Callbacks  *)
(* are delivered in the default, asynchronous mode.                        *)
(***************************************************************************)
EXTENDS Naturals, Sequences, FiniteSets, SequencesExt

CONSTANTS Requests,
          NoReq,           \* nullptr
          Graphs,          \* the requests with is_graph_execution
          MaxTokens,       \* Request::max_tokens
          Low, Critical,   \* RESULT_QUEUE_LOW_WATERMARK, _CRITICAL_WATERMARK
          Exclusive,       \* the values exclusive_execution may have
          MayThrow,        \* an exception may end the worker's loop
          ClientCancels,   \* requests a client thread may cancel
          CallbackCancels  \* requests whose callback cancels them

ASSUME RequestsAssumption == Graphs \subseteq Requests /\ NoReq \notin Requests
ASSUME WatermarkAssumption == Low \in Nat /\ Critical \in Nat /\ Low < Critical
ASSUME ModesAssumption == Exclusive \subseteq BOOLEAN
ASSUME TokensAssumption == MaxTokens \in Nat \ {0}

VARIABLES status,   \* EngineStatus
          sub,      \* where the submitting thread of a request is
          canc,     \* where the CancelRequest call for a request is
          pend,     \* pending_requests; the order of its tiers is left out
          pendIds,  \* pending_request_ids
          pcan,     \* pending_cancellations
          act,      \* active_requests
          req,      \* the requests
          w,        \* the worker
          drain,    \* the worker in ApplyResultQueueBackpressure
          results,  \* result_queue
          closed,   \* result_producers_done
          cb,       \* the callback thread
          seen,     \* what the callbacks of a request have been given
          sd        \* the thread in Shutdown
vars == <<status, sub, canc, pend, pendIds, pcan, act, req, w, drain, results,
          closed, cb, seen, sd>>
clients == <<sub, canc>>
pending == <<pend, pendIds, pcan>>
queue == <<drain, results, closed>>

Event(r, e) == [r |-> r, e |-> e]
CallbackIdle == [pc |-> "check", ev |-> Event(NoReq, "tok")]

(***************************************************************************)
(* ended: finished together with generation_terminal_dispatched (or        *)
(* graph_callback_completed); pool: how often the request was released.    *)
(***************************************************************************)
Init ==
  /\ status = "RUNNING"
  /\ sub = [r \in Requests |-> "new"]
  /\ canc = [r \in Requests |-> "none"]
  /\ pend = {} /\ pendIds = {} /\ pcan = {} /\ act = {}
  /\ req = [r \in Requests |->
             [cancelled |-> FALSE, ended |-> FALSE, pool |-> 0, tokens |-> 0]]
  /\ w \in [pc : {"top"}, cur : {NoReq}, out : {<<>>}, batch : {{}}, exclusive : Exclusive]
  /\ drain = "free"
  /\ results = <<>> /\ closed = FALSE
  /\ cb = CallbackIdle
  /\ seen = [r \in Requests |-> <<>>]
  /\ sd = [pc |-> "running", left |-> {}]

(***************************************************************************)
(* The mutexes that are held across a blocking point.  cv_mu and result_mu *)
(* are held from a waiter's test of its predicate until it sleeps,         *)
(* active_mu while the worker finalises cancelled requests, admission_mu   *)
(* from a submission's test of status to the end of TryAdmitPendingRequest.*)
(***************************************************************************)
BugCvMuFree == TRUE
CvMuFree == w.pc # "drowsy"
BugResultMuFree == TRUE
ResultMuFree == cb.pc # "drowsy"
ActiveMuFree == w.pc # "cancelling"
BugAdmissionMuFree == TRUE
AdmissionMuFree == \A r \in Requests : sub[r] \notin {"recorded", "pushed"}

\* queue_cv.notify and result_cv.notify: who is not asleep misses nothing.
WakeWorker == w' = IF w.pc = "asleep" THEN [w EXCEPT !.pc = "awake"] ELSE w
WakeCallback == cb' = IF cb.pc = "asleep" THEN [cb EXCEPT !.pc = "check"] ELSE cb

\* The exactly-once finalisers: the event of the terminal callback, unless
\* an earlier call won the compare-exchange.
BugTerminal(r) == <<Event(r, "end")>>
Terminal(r) == IF req[r].ended THEN <<>> ELSE <<Event(r, "end")>>

\* The same for a graph request, whose callback the finaliser calls itself.
CompleteGraph(r) ==
  seen' = [seen EXCEPT ![r] = IF req[r].ended THEN @ ELSE Append(@, "end")]

-----------------------------------------------------------------------------
(* PublishPreparedRequest and TryAdmitPendingRequest *)

Refused(r) == /\ sub' = [sub EXCEPT ![r] = "refused"]
              /\ req' = [req EXCEPT ![r].pool = @ + 1]

Admit(r) ==
  /\ sub[r] = "new" /\ AdmissionMuFree
  /\ \/ /\ status = "RUNNING"
        /\ sub' = [sub EXCEPT ![r] = "recorded"]
        /\ pendIds' = pendIds \cup {r}
        /\ UNCHANGED req
     \/ /\ status # "RUNNING"
        /\ Refused(r)
        /\ UNCHANGED pendIds
  /\ UNCHANGED <<status, canc, pend, pcan, act, w, queue, cb, seen, sd>>

Publish(r) ==
  /\ sub[r] = "recorded"
  /\ sub' = [sub EXCEPT ![r] = "pushed"]
  /\ pend' = pend \cup {r}
  /\ UNCHANGED <<status, canc, pendIds, pcan, act, req, w, queue, cb, seen, sd>>

PublishFails(r) ==
  /\ sub[r] = "recorded"
  /\ Refused(r)
  /\ pendIds' = pendIds \ {r}
  /\ UNCHANGED <<status, canc, pend, pcan, act, w, queue, cb, seen, sd>>

NotifyAdmitted(r) ==
  /\ sub[r] = "pushed" /\ CvMuFree
  /\ sub' = [sub EXCEPT ![r] = "accepted"]
  /\ WakeWorker
  /\ UNCHANGED <<status, canc, pending, act, req, queue, cb, seen, sd>>

-----------------------------------------------------------------------------
(* CancelRequest, called by a client once per request or by a callback *)

CancelActive(r) ==
  /\ \/ canc[r] = "start"
     \/ canc[r] = "none" /\ sub[r] = "accepted" /\ r \in ClientCancels /\ sd.pc # "done"
  /\ ActiveMuFree
  /\ IF r \in act
     THEN /\ req' = [req EXCEPT ![r].cancelled = TRUE]
          /\ canc' = [canc EXCEPT ![r] = "ok"]
     ELSE /\ canc' = [canc EXCEPT ![r] = "lookup"]
          /\ UNCHANGED req
  /\ UNCHANGED <<status, sub, pending, act, w, queue, cb, seen, sd>>

CancelLookup(r) ==
  /\ canc[r] = "lookup"
  /\ canc' = [canc EXCEPT ![r] = IF r \in pendIds THEN "record" ELSE "notfound"]
  /\ UNCHANGED <<status, sub, pending, act, req, w, queue, cb, seen, sd>>

CancelRecord(r) ==
  /\ canc[r] = "record"
  /\ pcan' = pcan \cup {r}
  /\ canc' = [canc EXCEPT ![r] = "ok"]
  /\ UNCHANGED <<status, sub, pend, pendIds, act, req, w, queue, cb, seen, sd>>

-----------------------------------------------------------------------------
(* The worker.  Events it has still to push are in w.out. *)

WorkerAt(pc) == w.pc = pc /\ w.out = <<>>

\* The while condition, the spin and the wait on queue_cv.
HasWork == pend # {} \/ act # {} \/ status # "RUNNING"

WaitForWork ==
  /\ WorkerAt("top") \/ WorkerAt("awake")
  /\ w' = [w EXCEPT !.pc = CASE w.pc = "top" /\ status = "STOPPED" -> "exited"
                             [] HasWork -> "woke"
                             [] OTHER -> "drowsy"]
  /\ UNCHANGED <<status, clients, pending, act, req, queue, cb, seen, sd>>

Sleep ==
  /\ WorkerAt("drowsy")
  /\ w' = [w EXCEPT !.pc = "asleep"]
  /\ UNCHANGED <<status, clients, pending, act, req, queue, cb, seen, sd>>

ExitIfDrained ==
  /\ WorkerAt("woke")
  /\ w' = [w EXCEPT !.pc = IF status = "DRAINING" /\ act = {} /\ pend = {}
                           THEN "exited" ELSE "fetch"]
  /\ UNCHANGED <<status, clients, pending, act, req, queue, cb, seen, sd>>

(***************************************************************************)
(* PopReadyPendingRequest: while exclusive execution is busy, only a       *)
(* cancelled request is taken, and its pending cancellation consumed.      *)
(***************************************************************************)
BugBusy == FALSE
Busy == w.exclusive /\ act # {}
Ready == IF Busy THEN {r \in pend : req[r].cancelled \/ r \in pcan} ELSE pend

FetchOne(r) ==
  /\ WorkerAt("fetch") /\ status = "RUNNING"
  /\ r \in Ready
  /\ pend' = pend \ {r}
  /\ pcan' = IF Busy THEN pcan \ {r} ELSE pcan
  /\ req' = IF Busy THEN [req EXCEPT ![r].cancelled = TRUE] ELSE req
  /\ w' = [w EXCEPT !.pc = "popped", !.cur = r]
  /\ UNCHANGED <<status, clients, pendIds, act, queue, cb, seen, sd>>

\* RemovePendingRequest
Forget ==
  /\ WorkerAt("popped")
  /\ pendIds' = pendIds \ {w.cur}
  /\ w' = [w EXCEPT !.pc = "removed"]
  /\ UNCHANGED <<status, clients, pend, pcan, act, req, queue, cb, seen, sd>>

\* The current request ends before it is active; flag: it is marked cancelled.
EndCurrent(flag) ==
  /\ req' = [req EXCEPT ![w.cur].ended = TRUE, ![w.cur].cancelled = @ \/ flag]
  /\ IF w.cur \in Graphs
     THEN /\ CompleteGraph(w.cur)
          /\ w' = [w EXCEPT !.pc = "release"]
     ELSE /\ w' = [w EXCEPT !.pc = "release", !.out = Terminal(w.cur)]
          /\ UNCHANGED seen

\* The second test of status.
Recheck ==
  /\ WorkerAt("removed")
  /\ \/ /\ status # "RUNNING"
        /\ EndCurrent(TRUE)
     \/ /\ status = "RUNNING"
        /\ w' = [w EXCEPT !.pc = "consume"]
        /\ UNCHANGED <<req, seen>>
  /\ UNCHANGED <<status, clients, pending, act, queue, cb, sd>>

\* ConsumePendingCancellation and the test of cancelled.
Consume ==
  /\ WorkerAt("consume")
  /\ pcan' = pcan \ {w.cur}
  /\ IF w.cur \in pcan \/ req[w.cur].cancelled
     THEN EndCurrent(TRUE)
     ELSE /\ w' = [w EXCEPT !.pc = IF w.cur \in Graphs THEN "graph" ELSE "register"]
          /\ UNCHANGED <<req, seen>>
  /\ UNCHANGED <<status, clients, pend, pendIds, act, queue, cb, sd>>

\* A graph is built and executed at once; its errors are caught and reported.
RunGraph ==
  /\ WorkerAt("graph")
  /\ EndCurrent(FALSE)
  /\ UNCHANGED <<status, clients, pending, act, queue, cb, sd>>

\* Missing tokens, or AddRequest rejects the request.
Reject ==
  /\ WorkerAt("register")
  /\ EndCurrent(FALSE)
  /\ UNCHANGED <<status, clients, pending, act, queue, cb, sd>>

Activate ==
  /\ WorkerAt("register")
  /\ act' = act \cup {w.cur}
  /\ w' = [w EXCEPT !.pc = "fetch", !.cur = NoReq]
  /\ UNCHANGED <<status, clients, pending, req, queue, cb, seen, sd>>

ReleaseCurrent ==
  /\ WorkerAt("release")
  /\ req' = [req EXCEPT ![w.cur].pool = @ + 1]
  /\ w' = [w EXCEPT !.pc = "fetch", !.cur = NoReq]
  /\ UNCHANGED <<status, clients, pending, act, queue, cb, seen, sd>>

FetchDone ==
  /\ WorkerAt("fetch")
  /\ status # "RUNNING" \/ Ready = {}
  /\ w' = [w EXCEPT !.pc = IF act = {} THEN "top" ELSE "cancelling"]
  /\ UNCHANGED <<status, clients, pending, act, req, queue, cb, seen, sd>>

\* Step 2 of the iteration, under active_mu from the first to the last request.
CancelledActive == {r \in act : req[r].cancelled /\ ~req[r].ended}

FinishCancelled(r) ==
  /\ WorkerAt("cancelling")
  /\ r \in CancelledActive
  /\ req' = [req EXCEPT ![r].ended = TRUE]
  /\ w' = [w EXCEPT !.out = Terminal(r)]
  /\ UNCHANGED <<status, clients, pending, act, queue, cb, seen, sd>>

(***************************************************************************)
(* Steps 3 to 9: the batch.  The worker may also wait for blocks, with no  *)
(* batch; EngineLoop.tla shows that this ends.                             *)
(***************************************************************************)
BuildBatch ==
  /\ WorkerAt("cancelling")
  /\ CancelledActive = {}
  /\ LET live == {r \in act : ~req[r].ended} IN
       \E B \in SUBSET live :
          /\ B = {} => live = {}
          /\ w' = [w EXCEPT !.pc = "outputs", !.batch = B]
  /\ UNCHANGED <<status, clients, pending, act, req, queue, cb, seen, sd>>

\* Step 10 for one request of the batch: a token, its last token, an error.
BugLastToken(r) == req[r].tokens = MaxTokens
LastToken(r) == req[r].tokens + 1 = MaxTokens

OutputOne(r) ==
  /\ WorkerAt("outputs")
  /\ r \in w.batch
  /\ \E token, ends \in BOOLEAN :
       /\ token \/ ends
       /\ token /\ LastToken(r) => ends
       /\ req' = [req EXCEPT ![r].tokens = IF token THEN @ + 1 ELSE @, ![r].ended = ends]
       /\ w' = [w EXCEPT !.batch = @ \ {r},
                         !.out = (IF token THEN <<Event(r, "tok")>> ELSE <<>>)
                                 \o (IF ends THEN Terminal(r) ELSE <<>>)]
  /\ UNCHANGED <<status, clients, pending, act, queue, cb, seen, sd>>

\* An exception in the iteration ends the thread with its requests active.
WorkerThrows ==
  /\ MayThrow
  /\ WorkerAt("outputs")
  /\ w' = [w EXCEPT !.pc = "exited", !.batch = {}]
  /\ UNCHANGED <<status, clients, pending, act, req, queue, cb, seen, sd>>

\* reap_finished_requests
BugLeftActive == act
LeftActive == {r \in act : ~req[r].ended}

Reap ==
  /\ WorkerAt("outputs") /\ w.batch = {}
  /\ act' = LeftActive
  /\ req' = [r \in Requests |-> IF r \in act /\ req[r].ended
                                THEN [req[r] EXCEPT !.pool = @ + 1] ELSE req[r]]
  /\ w' = [w EXCEPT !.pc = "top"]
  /\ UNCHANGED <<status, clients, pending, queue, cb, seen, sd>>

(***************************************************************************)
(* PushResultEvent with its backpressure: at the critical watermark the    *)
(* worker sleeps until the queue has drained or the engine is stopped.     *)
(* Only the callback thread notifies result_drain_cv.                      *)
(***************************************************************************)
BugMustWait == FALSE
MustWait == IF drain = "free" THEN Len(results) >= Critical /\ status # "STOPPED"
                              ELSE Len(results) > Low /\ status # "STOPPED"

Push ==
  /\ w.out # <<>> /\ drain # "waiting" /\ ResultMuFree
  /\ ~MustWait
  /\ results' = Append(results, Head(w.out))
  /\ w' = [w EXCEPT !.out = Tail(@)]
  /\ drain' = "free"
  /\ WakeCallback
  /\ UNCHANGED <<status, clients, pending, act, req, closed, seen, sd>>

WaitForDrain ==
  /\ w.out # <<>> /\ drain # "waiting" /\ ResultMuFree
  /\ MustWait
  /\ drain' = "waiting"
  /\ UNCHANGED <<status, clients, pending, act, req, w, results, closed, cb, seen, sd>>

Worker ==
  \/ WaitForWork \/ Sleep \/ ExitIfDrained \/ Forget \/ Recheck \/ Consume
  \/ RunGraph \/ Reject \/ Activate \/ ReleaseCurrent \/ FetchDone \/ BuildBatch
  \/ WorkerThrows \/ Reap \/ Push \/ WaitForDrain
  \/ \E r \in Requests : FetchOne(r) \/ FinishCancelled(r) \/ OutputOne(r)

-----------------------------------------------------------------------------
(* CallbackLoop *)

TakeEvent ==
  /\ cb.pc = "check" /\ results # <<>>
  /\ results' = Tail(results)
  /\ cb' = [pc |-> "deliver", ev |-> Head(results)]
  /\ drain' = IF drain = "waiting" /\ Len(results') <= Low THEN "woken" ELSE drain
  /\ UNCHANGED <<status, clients, pending, act, req, w, closed, seen, sd>>

CallbackWait ==
  /\ cb.pc = "check" /\ results = <<>>
  /\ cb' = [cb EXCEPT !.pc = IF closed THEN "exited" ELSE "drowsy"]
  /\ UNCHANGED <<status, clients, pending, act, req, w, queue, seen, sd>>

CallbackSleep ==
  /\ cb.pc = "drowsy"
  /\ cb' = [cb EXCEPT !.pc = "asleep"]
  /\ UNCHANGED <<status, clients, pending, act, req, w, queue, seen, sd>>

\* The user's callback; it may itself call CancelRequest on a token.
Deliver ==
  /\ cb.pc = "deliver"
  /\ LET r == cb.ev.r IN
       /\ seen' = [seen EXCEPT ![r] = Append(@, cb.ev.e)]
       /\ IF /\ r \in CallbackCancels /\ cb.ev.e = "tok"
             /\ canc[r] = "none" /\ sub[r] = "accepted"
          THEN /\ canc' = [canc EXCEPT ![r] = "start"]
               /\ cb' = [cb EXCEPT !.pc = "cancel"]
          ELSE /\ cb' = CallbackIdle
               /\ UNCHANGED canc
  /\ UNCHANGED <<status, sub, pending, act, req, w, queue, sd>>

CallbackReturns ==
  /\ cb.pc = "cancel"
  /\ canc[cb.ev.r] \in {"ok", "notfound"}
  /\ cb' = CallbackIdle
  /\ UNCHANGED <<status, clients, pending, act, req, w, queue, seen, sd>>

Callback == TakeEvent \/ CallbackWait \/ CallbackSleep \/ Deliver \/ CallbackReturns

-----------------------------------------------------------------------------
(* Shutdown *)

BeginDrain ==
  /\ sd.pc = "running" /\ AdmissionMuFree /\ CvMuFree
  /\ status' = "DRAINING"
  /\ sd' = [sd EXCEPT !.pc = "notify"]
  /\ UNCHANGED <<clients, pending, act, req, w, queue, cb, seen>>

NotifyDrain ==
  /\ sd.pc = "notify"
  /\ WakeWorker
  /\ sd' = [sd EXCEPT !.pc = "wait"]
  /\ UNCHANGED <<status, clients, pending, act, req, queue, cb, seen>>

\* No active request is left, or after the timeout they are all cancelled.
WaitDrained ==
  /\ sd.pc = "wait" /\ ActiveMuFree
  /\ req' = [r \in Requests |-> IF r \in act THEN [req[r] EXCEPT !.cancelled = TRUE]
                                             ELSE req[r]]
  /\ sd' = [sd EXCEPT !.pc = "stop"]
  /\ UNCHANGED <<status, clients, pending, act, w, queue, cb, seen>>

Stop ==
  /\ sd.pc = "stop" /\ CvMuFree
  /\ status' = "STOPPED"
  /\ sd' = [sd EXCEPT !.pc = "stopped"]
  /\ UNCHANGED <<clients, pending, act, req, w, queue, cb, seen>>

NotifyStop ==
  /\ sd.pc = "stopped"
  /\ WakeWorker /\ WakeCallback
  /\ sd' = [sd EXCEPT !.pc = "join"]
  /\ UNCHANGED <<status, clients, pending, act, req, queue, seen>>

\* worker_thread.join, then active_requests is swapped out.
JoinWorker ==
  /\ sd.pc = "join" /\ w.pc = "exited"
  /\ sd' = [pc |-> "finalize", left |-> act]
  /\ act' = {}
  /\ UNCHANGED <<status, clients, pending, req, w, queue, cb, seen>>

\* A stopped engine's queue takes every event.
FinalizeStopped(r) ==
  /\ req' = [req EXCEPT ![r].cancelled = TRUE, ![r].ended = TRUE, ![r].pool = @ + 1]
  /\ IF r \in Graphs
     THEN CompleteGraph(r) /\ UNCHANGED <<results, cb>>
     ELSE /\ ResultMuFree
          /\ results' = results \o Terminal(r)
          /\ WakeCallback
          /\ UNCHANGED seen

FinalizeActive(r) ==
  /\ sd.pc = "finalize" /\ r \in sd.left
  /\ sd' = [sd EXCEPT !.left = @ \ {r}]
  /\ FinalizeStopped(r)
  /\ UNCHANGED <<status, clients, pending, act, w, drain, closed>>

FinalizePending(r) ==
  /\ sd.pc = "finalize" /\ sd.left = {} /\ r \in pend
  /\ pend' = pend \ {r}
  /\ pendIds' = pendIds \ {r}
  /\ FinalizeStopped(r)
  /\ UNCHANGED <<status, clients, pcan, act, w, drain, closed, sd>>

CloseResults ==
  /\ sd.pc = "finalize" /\ sd.left = {} /\ pend = {}
  /\ ResultMuFree
  /\ closed' = TRUE
  /\ sd' = [sd EXCEPT !.pc = "closed"]
  /\ UNCHANGED <<status, clients, pending, act, req, w, drain, results, cb, seen>>

NotifyClosed ==
  /\ sd.pc = "closed"
  /\ WakeCallback
  /\ sd' = [sd EXCEPT !.pc = "joincb"]
  /\ UNCHANGED <<status, clients, pending, act, req, w, queue, seen>>

\* callback_thread.join, ClearPendingCancellations
BugCallbackEnded == TRUE
CallbackEnded == cb.pc = "exited"

JoinCallback ==
  /\ sd.pc = "joincb" /\ CallbackEnded
  /\ pcan' = {}
  /\ sd' = [sd EXCEPT !.pc = "done"]
  /\ UNCHANGED <<status, clients, pend, pendIds, act, req, w, queue, cb, seen>>

ShutdownRest ==
  \/ NotifyDrain \/ WaitDrained \/ Stop \/ NotifyStop \/ JoinWorker
  \/ CloseResults \/ NotifyClosed \/ JoinCallback
  \/ \E r \in Requests : FinalizeActive(r) \/ FinalizePending(r)

-----------------------------------------------------------------------------

SubmitRest(r) == Publish(r) \/ PublishFails(r) \/ NotifyAdmitted(r)
CancelRest(r) == CancelLookup(r) \/ CancelRecord(r)

Next ==
  \/ Worker \/ Callback \/ BeginDrain \/ ShutdownRest
  \/ \E r \in Requests : Admit(r) \/ SubmitRest(r) \/ CancelActive(r) \/ CancelRest(r)

(***************************************************************************)
(* Every thread goes on once it has started a call; nobody has to submit,  *)
(* to cancel or to shut down.  A call of CancelRequest by a callback is    *)
(* part of the callback thread.                                            *)
(***************************************************************************)
Fairness ==
  /\ WF_vars(Worker) /\ WF_vars(Callback) /\ WF_vars(ShutdownRest)
  /\ \A r \in Requests : /\ WF_vars(SubmitRest(r)) /\ WF_vars(CancelRest(r))
                         /\ WF_vars(canc[r] = "start" /\ CancelActive(r))

Spec == Init /\ [][Next]_vars
FairSpec == Spec /\ Fairness

-----------------------------------------------------------------------------
(* Properties *)

(* Every variable has the values its field of EngineState can have. *)
TypeOK ==
  /\ status \in {"RUNNING", "DRAINING", "STOPPED"}
  /\ sub \in [Requests -> {"new", "recorded", "pushed", "accepted", "refused"}]
  /\ canc \in [Requests -> {"none", "start", "lookup", "record", "ok", "notfound"}]
  /\ pend \subseteq Requests /\ pendIds \subseteq Requests /\ pcan \subseteq Requests
  /\ act \subseteq Requests \ Graphs
  /\ req \in [Requests -> [cancelled : BOOLEAN, ended : BOOLEAN, pool : 0 .. 1,
                           tokens : 0 .. MaxTokens]]
  /\ w.cur \in Requests \cup {NoReq} /\ w.batch \subseteq act
  /\ drain \in {"free", "waiting", "woken"}
  /\ results \in Seq([r : Requests, e : {"tok", "end"}])
  /\ closed \in BOOLEAN
  /\ seen \in [Requests -> Seq({"tok", "end"})]
  /\ sd.left \subseteq Requests

\* The events on their way to the callbacks, first the one that is delivered.
Line == (IF cb.pc = "deliver" THEN <<cb.ev>> ELSE <<>>) \o results \o w.out
Own(r, line) == {i \in DOMAIN line : line[i].r = r}

\* Of the stream of r (what its callbacks have been given, and then its own
\* events on the line): n tokens and, if r is over, one terminal event, which
\* is the last one.
Streamed(r, given, line, n, over) ==
  LET own == Own(r, line) IN
  /\ Len(given) + Cardinality(own) = n + (IF over THEN 1 ELSE 0)
  /\ \A i \in own : line[i].e = "end" <=> over /\ \A j \in own : j <= i
  /\ \A i \in DOMAIN given : given[i] = "end" <=> over /\ own = {} /\ i = Len(given)

(***************************************************************************)
(* A request that has been finalised, and only such a request, has exactly *)
(* one terminal event, delivered or on its way, and it is the last one;    *)
(* before it come the tokens the request has been given, none lost and     *)
(* none twice: whichever of the worker, CancelRequest and Shutdown comes   *)
(* first (FinalizeGenerationRequestOnce, CompleteGraphRequest).            *)
(***************************************************************************)
TerminalExactlyOnce ==
  \A r \in Requests : Streamed(r, seen[r], Line, req[r].tokens, req[r].ended)

(***************************************************************************)
(* A published request has exactly one owner (the pending queue, the       *)
(* fetch loop, active_requests or Shutdown's copy of it) until it is       *)
(* released to the pool, which happens once, after it has been finalised;  *)
(* nobody refers to it afterwards.                                         *)
(***************************************************************************)
SingleOwner ==
  \A r \in Requests :
    LET owners == Cardinality({o \in {"pend", "cur", "act", "left"} :
                     CASE o = "pend" -> r \in pend
                       [] o = "cur" -> r = w.cur
                       [] o = "act" -> r \in act
                       [] o = "left" -> r \in sd.left})
    IN IF sub[r] \in {"pushed", "accepted"}
       THEN /\ owners + req[r].pool = 1
            /\ req[r].pool = 1 => req[r].ended
       ELSE owners = 0

Answered(r) == seen[r] # <<>> /\ Last(seen[r]) = "end"

(***************************************************************************)
(* When Shutdown returns, every accepted request has had its terminal      *)
(* callback and is back in the pool, no event and no thread is left.       *)
(***************************************************************************)
ShutdownResolvesAll ==
  sd.pc = "done" =>
    /\ w.pc = "exited" /\ cb.pc = "exited" /\ results = <<>>
    /\ pend = {} /\ pendIds = {} /\ act = {}
    /\ \A r \in Requests : sub[r] = "accepted" =>
         Answered(r) /\ req[r].pool = 1

(* Until the engine is stopped the result queue never exceeds its critical *)
(* watermark (ApplyResultQueueBackpressure).                               *)
ResultsBounded == status # "STOPPED" => Len(results) <= Critical

(* Under exclusive execution at most one request is active, finished ones  *)
(* that are not yet reaped included (PopReadyPendingRequest).              *)
OneAtATime == w.exclusive => Cardinality(act) <= 1

(***************************************************************************)
(* CancelRequest returns 0 only for a request that is or will be           *)
(* cancelled, or is over: it is marked, or its pending cancellation is     *)
(* recorded where the worker will still look for it.                       *)
(***************************************************************************)
CancelHonoured ==
  \A r \in Requests : canc[r] = "ok" =>
    \/ req[r].cancelled \/ req[r].ended
    \/ r \in pcan /\ r \in pend
    \/ r \in pcan /\ r = w.cur /\ w.pc \in {"popped", "removed", "consume"}

(***************************************************************************)
(* The lifecycle implements GenerationContract: a request is accepted when *)
(* it is published, its callbacks are the tokens and the one terminal      *)
(* event that contract allows, none before it is accepted or after it has  *)
(* ended; nothing is accepted once the engine has left RUNNING, and        *)
(* Shutdown returns when nobody waits for a callback any more.             *)
(***************************************************************************)
ContractPhase(r) ==
  CASE sub[r] \in {"new", "recorded"} -> "new"
    [] sub[r] = "refused" -> "refused"
    [] OTHER -> IF Answered(r) THEN "ended" ELSE "accepted"

Contract == INSTANCE GenerationContract WITH
  gate <- CASE status = "RUNNING" -> "open"
            [] sd.pc = "done" -> "down"
            [] OTHER -> "draining",
  phase <- [r \in Requests |-> ContractPhase(r)],
  tokens <- [r \in Requests |-> IF Answered(r) THEN Len(seen[r]) - 1 ELSE Len(seen[r])]

ImplementsContract == Contract!Spec

Deserted == w.pc = "exited" /\ sd.pc = "running"

(***************************************************************************)
(* Every accepted request eventually has its terminal callback, unless an  *)
(* exception has ended the worker and nobody shuts the engine down.        *)
(***************************************************************************)
EveryAcceptedEnds ==
  \A r \in Requests : sub[r] = "accepted" ~> Answered(r) \/ Deserted

(* A shutdown that has begun completes, also after the worker has died.    *)
ShutdownCompletes == sd.pc = "notify" ~> sd.pc = "done"

=============================================================================
