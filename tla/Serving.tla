------------------------------ MODULE Serving ------------------------------
(***************************************************************************)
(* The Go serving path (server/internal): requests lease the engine of the *)
(* current model (ModelService), wait in the bounded queue (RequestQueue)  *)
(* and are submitted to the engine by a pool of workers (QueueProcessor),  *)
(* while one administering goroutine replaces the model and finally shuts  *)
(* the server down.  One action is what a goroutine does between two       *)
(* points where another one can interfere: a critical section of the       *)
(* model service's mu, the queue's mu or lifecycleMu, or an operation on a *)
(* channel.                                                                *)
(*                                                                         *)
(* An engine accepts a generation, which then lives until its Done is      *)
(* closed: how, is StreamBinding.tla.                                      *)
(***************************************************************************)
EXTENDS Integers, FiniteSets, SequencesExt

CONSTANTS Requests,
          Impatient,     \* the requests whose client may disconnect
          Workers,       \* the goroutines of QueueProcessor.Start
          Slots,         \* the engines the process may create
          First,         \* the engine of the startup model
          NoReq, NoSlot, \* nil
          MaxSize,       \* RequestQueue.maxSize
          Priority,      \* QueuedRequest.Priority
          ExpertCluster, \* QueuedRequest.ExpertCluster
          MaxExperts,    \* maxExperts of workerLoop
          Exclusive,     \* the values generationExclusive may have
          MaxLoads       \* bound on the calls of LoadModel

ASSUME ServingAssumption ==
  /\ IsFiniteSet(Requests) /\ Impatient \subseteq Requests /\ NoReq \notin Requests
  /\ First \in Slots /\ NoSlot \notin Slots
  /\ MaxSize \in Nat /\ MaxLoads \in Nat
  /\ Exclusive \in SUBSET BOOLEAN

VARIABLES eng,      \* the native engine of a slot
          slot,     \* engineSlot: closing and refCount (with wg)
          mdl,      \* ModelService: currentSlot and loadingStatus
          lease,    \* the slot on which a request holds a lease
          cl,       \* where the goroutine of a client is
          gone,     \* the requests whose context is cancelled
          result,   \* ResultChan, which has room for one result
          queue,    \* RequestQueue
          stamp,    \* the EnqueueTime of the requests in the queue
          wk,       \* the workers
          gen,      \* the generation of a request
          track,    \* the requests a tracker waits for
          pool,     \* QueueProcessor.state, and whether stopContext is cancelled
          adm       \* the administering goroutine
vars == <<eng, slot, mdl, lease, cl, gone, result, queue, stamp, wk, gen, track, pool, adm>>
models == <<eng, slot, mdl>>
queued == <<queue, stamp>>

Init ==
  /\ eng = [s \in Slots |-> IF s = First THEN "open" ELSE "none"]
  /\ slot = [s \in Slots |-> [closing |-> FALSE, refs |-> 0]]
  /\ mdl = [current |-> First, status |-> "Ready"]
  /\ lease = [r \in Requests |-> NoSlot]
  /\ cl = [r \in Requests |-> "new"]
  /\ gone = {}
  /\ result = [r \in Requests |-> "empty"]
  /\ queue = [heap |-> {}, closed |-> FALSE, signal |-> FALSE]
  /\ stamp = [r \in Requests |-> 0]
  /\ wk = [w \in Workers |-> [pc |-> "idle", cur |-> NoReq, experts |-> {}]]
  /\ gen = [r \in Requests |-> "none"]
  /\ track = {}
  /\ pool \in [state : {"running"}, stopCtx : {FALSE}, exclusive : Exclusive]
  /\ adm = [pc |-> "serve", slot |-> NoSlot, next |-> "serve", loads |-> 0,
            drained |-> {}, forced |-> FALSE, late |-> {}]

-----------------------------------------------------------------------------
(* Leases: AcquireEngineLease and engineLease.Close *)

Leasable == mdl.current # NoSlot /\ ~slot[mdl.current].closing

\* Released once, whoever calls it.
BugRelease(r) ==
  /\ lease' = [lease EXCEPT ![r] = NoSlot]
  /\ UNCHANGED slot
Release(r) ==
  /\ lease' = [lease EXCEPT ![r] = NoSlot]
  /\ slot' = IF lease[r] = NoSlot THEN slot
             ELSE [slot EXCEPT ![lease[r]].refs = @ - 1]

\* A non-blocking send to ResultChan.
Reply(r, answer) == result' = [result EXCEPT ![r] = IF @ = "empty" THEN answer ELSE @]

-----------------------------------------------------------------------------
(* A client: ChatService.SubmitGeneration and GetEmbeddings *)

AcquireEngineLease(r) ==
  /\ cl[r] = "new"
  /\ \/ /\ Leasable
        /\ lease' = [lease EXCEPT ![r] = mdl.current]
        /\ slot' = [slot EXCEPT ![mdl.current].refs = @ + 1]
        /\ cl' = [cl EXCEPT ![r] = "leased"]
     \/ /\ ~Leasable
        /\ cl' = [cl EXCEPT ![r] = "failed"]
        /\ UNCHANGED <<lease, slot>>
  /\ UNCHANGED <<eng, mdl, gone, result, queued, wk, gen, track, pool, adm>>

\* The request is not valid for this engine, or the engine refuses to embed
\* it: the deferred release.
PrepareFails(r) ==
  /\ cl[r] = "leased"
  /\ cl' = [cl EXCEPT ![r] = "failed"]
  /\ Release(r)
  /\ UNCHANGED <<eng, mdl, gone, result, queued, wk, gen, track, pool, adm>>

\* An EnqueueTime: later than those of the requests in the queue.
Now == 1 + Max({0} \cup {stamp[q] : q \in queue.heap})

BugHasRoom == Cardinality(queue.heap) <= MaxSize
HasRoom == Cardinality(queue.heap) < MaxSize

\* RequestQueue.Enqueue up to its unlock; a request refused here is released
\* and its context cancelled by startGeneration.
Enqueue(r) ==
  /\ cl[r] = "leased"
  /\ \/ /\ queue.closed \/ ~HasRoom
        /\ cl' = [cl EXCEPT ![r] = "failed"]
        /\ gone' = gone \cup {r}
        /\ Release(r)
        /\ UNCHANGED queued
     \/ /\ ~queue.closed /\ HasRoom
        /\ queue' = [queue EXCEPT !.heap = @ \cup {r}]
        /\ stamp' = [stamp EXCEPT ![r] = Now]
        /\ cl' = [cl EXCEPT ![r] = "pushed"]
        /\ UNCHANGED <<gone, lease, slot>>
  /\ UNCHANGED <<eng, mdl, result, wk, gen, track, pool, adm>>

\* The buffer of signal has room for one.
BugSignalled == queue
Signalled == [queue EXCEPT !.signal = TRUE]

\* The send on signal, after the unlock.  On a channel that Close has closed
\* in between it panics; the handler's goroutine then ends with its context.
Signal(r) ==
  /\ cl[r] = "pushed"
  /\ \/ /\ ~queue.closed
        /\ queue' = Signalled /\ UNCHANGED stamp
        /\ cl' = [cl EXCEPT ![r] = "waiting"]
        /\ UNCHANGED gone
     \/ /\ queue.closed
        /\ cl' = [cl EXCEPT ![r] = "panicked"]
        /\ gone' = gone \cup {r}
        /\ UNCHANGED queued
  /\ UNCHANGED <<models, lease, result, wk, gen, track, pool, adm>>

\* The result: an error, or a generation whose events the client reads.
TakeResult(r) ==
  /\ cl[r] = "waiting" /\ result[r] # "empty"
  /\ cl' = [cl EXCEPT ![r] = IF result[r] = "gen" THEN "streaming" ELSE "failed"]
  /\ gone' = IF result[r] = "gen" THEN gone ELSE gone \cup {r}
  /\ UNCHANGED <<models, lease, result, queued, wk, gen, track, pool, adm>>

\* The client's connection is lost, or its deadline passes.
Disconnect(r) ==
  /\ cl[r] \in {"leased", "pushed", "waiting", "streaming"}
  /\ r \in Impatient \ gone
  /\ gone' = gone \cup {r}
  /\ UNCHANGED <<models, lease, cl, result, queued, wk, gen, track, pool, adm>>

\* The other branch of both selects: ctx.Done.
Leave(r) ==
  /\ cl[r] \in {"waiting", "streaming"} /\ r \in gone
  /\ cl' = [cl EXCEPT ![r] = "left"]
  /\ UNCHANGED <<models, lease, gone, result, queued, wk, gen, track, pool, adm>>

StreamEnds(r) ==
  /\ cl[r] = "streaming" /\ gen[r] = "over"
  /\ cl' = [cl EXCEPT ![r] = "served"]
  /\ gone' = gone \cup {r}
  /\ UNCHANGED <<models, lease, result, queued, wk, gen, track, pool, adm>>

\* A request for an embedding is submitted by the client itself, which waits
\* for it whatever happens to its connection.
Embed(r) ==
  /\ cl[r] = "leased" /\ eng[lease[r]] = "open"
  /\ cl' = [cl EXCEPT ![r] = "embedding"]
  /\ gen' = [gen EXCEPT ![r] = "live"]
  /\ UNCHANGED <<models, lease, gone, result, queued, wk, track, pool, adm>>

EmbedEnds(r) ==
  /\ cl[r] = "embedding" /\ gen[r] = "over"
  /\ cl' = [cl EXCEPT ![r] = "served"]
  /\ Release(r)
  /\ UNCHANGED <<eng, mdl, gone, result, queued, wk, gen, track, pool, adm>>

-----------------------------------------------------------------------------
(* workerLoop *)

Before(a, b) == \/ Priority[a] > Priority[b]
                \/ Priority[a] = Priority[b] /\ stamp[a] < stamp[b]
Top(r) == r \in queue.heap /\ \A q \in queue.heap \ {r} : Before(r, q)

(***************************************************************************)
(* MoEAwareDequeue goes through the heap's array, whose first element is   *)
(* the top and whose others are in some order, and keeps the best request  *)
(* so far; without one it takes the top.                                   *)
(***************************************************************************)
Overlap(current, r) == Cardinality(ExpertCluster[r] \cap current)
NewExperts(current, r) == Cardinality(ExpertCluster[r] \ current)
Score(current, r) == Overlap(current, r) * 10 - NewExperts(current, r)

Better(current, best, r) ==
  IF ExpertCluster[r] = {}
  THEN IF best.req = NoReq THEN [req |-> r, score |-> 0] ELSE best
  ELSE IF \/ best.req # NoReq
             /\ Cardinality(current) + NewExperts(current, r) > MaxExperts
          \/ Score(current, r) <= best.score
       THEN best
       ELSE [req |-> r, score |-> Score(current, r)]

MoEChoice(current, array) ==
  LET best == FoldLeft(LAMBDA b, r : Better(current, b, r), [req |-> NoReq, score |-> -1], array)
  IN IF best.req = NoReq THEN array[1] ELSE best.req

\* Whether a worker may dequeue r now, by Dequeue or by MoEAwareDequeue.
Dequeues(w, r) ==
  IF wk[w].experts = {} THEN Top(r)
  ELSE \E array \in SetToSeqs(queue.heap) :
         Top(array[1]) /\ MoEChoice(wk[w].experts, array) = r

Dequeue(w) ==
  /\ wk[w].pc = "idle"
  /\ \/ /\ queue.closed
        /\ wk' = [wk EXCEPT ![w].pc = "exited"]
        /\ UNCHANGED queued
     \/ /\ ~queue.closed /\ queue.heap = {}
        /\ wk' = [wk EXCEPT ![w].pc = "asleep"]
        /\ UNCHANGED queued
     \/ /\ ~queue.closed
        /\ \E r \in queue.heap :
             /\ Dequeues(w, r)
             /\ queue' = [queue EXCEPT !.heap = @ \ {r}]
             /\ stamp' = [stamp EXCEPT ![r] = 0]
             /\ wk' = [wk EXCEPT ![w] = [pc |-> "picked", cur |-> r,
                                         experts |-> ExpertCluster[r]]]
  /\ UNCHANGED <<models, lease, cl, gone, result, gen, track, pool, adm>>

\* The receive from signal: a pending signal, or the channel is closed.
Wake(w) ==
  /\ wk[w].pc = "asleep" /\ (queue.signal \/ queue.closed)
  /\ wk' = [wk EXCEPT ![w].pc = "idle"]
  /\ queue' = [queue EXCEPT !.signal = FALSE] /\ UNCHANGED stamp
  /\ UNCHANGED <<models, lease, cl, gone, result, gen, track, pool, adm>>

\* The current request is answered with an error and released.
BugRejected(w) ==
  /\ Release(wk[w].cur)
  /\ wk' = [wk EXCEPT ![w].pc = "idle", ![w].cur = NoReq]
  /\ UNCHANGED result
Rejected(w) ==
  /\ Release(wk[w].cur)
  /\ Reply(wk[w].cur, "err")
  /\ wk' = [wk EXCEPT ![w].pc = "idle", ![w].cur = NoReq]

\* The read lock is free unless StopAndWait is in its critical section.
CheckRunning(w) ==
  /\ wk[w].pc = "picked" /\ adm.pc # "reject"
  /\ \/ /\ pool.state # "running"
        /\ Rejected(w)
     \/ /\ pool.state = "running"
        /\ wk' = [wk EXCEPT ![w].pc = "submitting"]
        /\ UNCHANGED <<lease, slot, result>>
  /\ UNCHANGED <<eng, mdl, cl, gone, queued, gen, track, pool, adm>>

\* The permit of GenerationAdmission: in exclusive mode a generation holds it
\* until it is over.
PermitFree(s) ==
  pool.exclusive => \A r \in Requests :
    lease[r] = s /\ cl[r] # "embedding" => gen[r] # "live"

\* The worker finds the context cancelled, or SubmitGeneration fails: for its
\* context, an argument, an engine that drains.
MustFail(w) == \/ wk[w].cur \in gone \/ pool.stopCtx
               \/ eng[lease[wk[w].cur]] # "open"

SubmitFails(w) ==
  /\ wk[w].pc = "submitting"
  /\ Rejected(w)
  /\ UNCHANGED <<eng, mdl, cl, gone, queued, gen, track, pool, adm>>

\* SubmitGeneration succeeds: the tracker starts and the client is answered
\* (a generation nobody can be told of is cancelled, and ends).
SubmitSucceeds(w) ==
  /\ wk[w].pc = "submitting"
  /\ LET r == wk[w].cur IN
       /\ eng[lease[r]] = "open" /\ PermitFree(lease[r])
       /\ gen' = [gen EXCEPT ![r] = "live"]
       /\ track' = track \cup {r}
       /\ Reply(r, "gen")
  /\ wk' = [wk EXCEPT ![w].pc = "idle", ![w].cur = NoReq]
  /\ UNCHANGED <<models, lease, cl, gone, queued, pool, adm>>

Tracker(r) ==
  /\ r \in track /\ gen[r] = "over"
  /\ track' = track \ {r}
  /\ Release(r)
  /\ UNCHANGED <<eng, mdl, cl, gone, result, queued, wk, gen, pool, adm>>

\* The engine has closed Done (or delivered the embedding).
GenerationEnds(r) ==
  /\ gen[r] = "live"
  /\ gen' = [gen EXCEPT ![r] = "over"]
  /\ UNCHANGED <<models, lease, cl, gone, result, queued, wk, track, pool, adm>>

-----------------------------------------------------------------------------
(* LoadModelWithOptions *)

At(pc) == adm.pc = pc
Goto(pc) == adm' = [adm EXCEPT !.pc = pc]

\* currentSlot becomes s; the old slot is closing from now on and is to be
\* closed next (closeEngineSlot), before the goroutine goes on at pc.
BugDetach(s, pc) ==
  /\ slot' = IF mdl.current = NoSlot THEN slot
             ELSE [slot EXCEPT ![mdl.current].closing = TRUE]
  /\ mdl' = [mdl EXCEPT !.current = s]
  /\ adm' = [adm EXCEPT !.pc = "close", !.slot = NoSlot, !.next = pc]
Detach(s, pc) ==
  /\ slot' = IF mdl.current = NoSlot THEN slot
             ELSE [slot EXCEPT ![mdl.current].closing = TRUE]
  /\ mdl' = [mdl EXCEPT !.current = s]
  /\ adm' = [adm EXCEPT !.pc = "close", !.slot = mdl.current, !.next = pc]

LoadModel ==
  /\ At("serve") /\ adm.loads < MaxLoads
  /\ mdl' = [mdl EXCEPT !.status = "Loading"]
  /\ \E pc \in {"create", "detach"} :
       adm' = [adm EXCEPT !.pc = pc, !.loads = @ + 1]
  /\ UNCHANGED <<eng, slot, lease, cl, gone, result, queued, wk, gen, track, pool>>

\* loadModelBlueGreen: the new engine first, or else force.
CreateBlueGreen ==
  /\ At("create")
  /\ \/ /\ \E s \in Slots :
             /\ eng[s] = "none"
             /\ eng' = [eng EXCEPT ![s] = "open"]
             /\ adm' = [adm EXCEPT !.pc = "swap", !.slot = s]
     \/ /\ Goto("detach")
        /\ UNCHANGED eng
  /\ UNCHANGED <<slot, mdl, lease, cl, gone, result, queued, wk, gen, track, pool>>

Swap ==
  /\ At("swap")
  /\ Detach(adm.slot, "ready")
  /\ UNCHANGED <<eng, lease, cl, gone, result, queued, wk, gen, track, pool>>

\* loadModelForce
ForceDetach ==
  /\ At("detach")
  /\ Detach(NoSlot, "recreate")
  /\ UNCHANGED <<eng, lease, cl, gone, result, queued, wk, gen, track, pool>>

CreateForce ==
  /\ At("recreate")
  /\ \/ /\ \E s \in Slots :
             /\ eng[s] = "none"
             /\ eng' = [eng EXCEPT ![s] = "open"]
             /\ adm' = [adm EXCEPT !.pc = "install", !.slot = s]
        /\ UNCHANGED mdl
     \/ /\ mdl' = [mdl EXCEPT !.status = "Failed"]
        /\ Goto("serve")
        /\ UNCHANGED eng
  /\ UNCHANGED <<slot, lease, cl, gone, result, queued, wk, gen, track, pool>>

Install ==
  /\ At("install")
  /\ mdl' = [mdl EXCEPT !.current = adm.slot]
  /\ Goto("ready")
  /\ UNCHANGED <<eng, slot, lease, cl, gone, result, queued, wk, gen, track, pool>>

LoadReady ==
  /\ At("ready")
  /\ mdl' = [mdl EXCEPT !.status = "Ready"]
  /\ Goto("serve")
  /\ UNCHANGED <<eng, slot, lease, cl, gone, result, queued, wk, gen, track, pool>>

\* closeEngineSlot: the leases of the slot have been waited for.
BugUnleased(s) == TRUE
Unleased(s) == slot[s].refs = 0

CloseEngineSlot ==
  /\ At("close")
  /\ \/ /\ adm.slot = NoSlot
        /\ UNCHANGED eng
     \/ /\ adm.slot # NoSlot /\ Unleased(adm.slot)
        /\ eng' = [eng EXCEPT ![adm.slot] = "closed"]
  /\ Goto(adm.next)
  /\ UNCHANGED <<slot, mdl, lease, cl, gone, result, queued, wk, gen, track, pool>>

-----------------------------------------------------------------------------
(* The shutdown hooks, in the order of the runner *)

\* BeginEngineShutdown under mu: no new lease on this slot.
BeginEngineShutdown ==
  /\ At("serve")
  /\ slot' = IF mdl.current = NoSlot THEN slot
             ELSE [slot EXCEPT ![mdl.current].closing = TRUE]
  /\ adm' = [adm EXCEPT !.pc = IF mdl.current = NoSlot THEN "http" ELSE "begin",
                        !.slot = mdl.current]
  /\ UNCHANGED <<eng, mdl, lease, cl, gone, result, queued, wk, gen, track, pool>>

\* DenseEngine.BeginShutdown: the engine refuses submissions, then resolves
\* what it has accepted.
DrainEngine ==
  /\ At("begin")
  /\ eng' = [eng EXCEPT ![adm.slot] = "draining"]
  /\ Goto("draining")
  /\ UNCHANGED <<slot, mdl, lease, cl, gone, result, queued, wk, gen, track, pool>>

EngineDrained ==
  /\ At("draining")
  /\ \A r \in Requests : lease[r] = adm.slot => gen[r] # "live"
  /\ eng' = [eng EXCEPT ![adm.slot] = "down"]
  /\ Goto("http")
  /\ UNCHANGED <<slot, mdl, lease, cl, gone, result, queued, wk, gen, track, pool>>

\* The HTTP server waits for its handlers until its timeout (external).
Finished == {"new", "failed", "left", "served", "panicked"}
BugHandlersDone == TRUE
HandlersDone == \A r \in Requests : cl[r] \in Finished

HTTPDrained ==
  /\ At("http")
  /\ adm' = [adm EXCEPT !.pc = "stop", !.forced = ~HandlersDone]
  /\ UNCHANGED <<models, lease, cl, gone, result, queued, wk, gen, track, pool>>

\* StopAndWait: state and stopCancel, before it takes lifecycleMu.
StopPool ==
  /\ At("stop")
  /\ pool' = [pool EXCEPT !.state = "stopping", !.stopCtx = TRUE]
  /\ Goto("lock")
  /\ UNCHANGED <<models, lease, cl, gone, result, queued, wk, gen, track>>

\* queue.Close and queue.Drain, under lifecycleMu.
BugLeftInHeap == queue.heap
LeftInHeap == {}

CloseQueue ==
  /\ At("lock")
  /\ adm' = [adm EXCEPT !.pc = "reject", !.drained = queue.heap]
  /\ queue' = [queue EXCEPT !.closed = TRUE, !.heap = LeftInHeap]
  /\ stamp' = [r \in Requests |-> 0]
  /\ UNCHANGED <<models, lease, cl, gone, result, wk, gen, track, pool>>

\* rejectPendingRequests for one of the drained requests.
RejectDrained(r) ==
  /\ At("reject") /\ r \in adm.drained
  /\ adm' = [adm EXCEPT !.drained = @ \ {r}]
  /\ Release(r)
  /\ Reply(r, "err")
  /\ UNCHANGED <<eng, mdl, cl, gone, queued, wk, gen, track, pool>>

RejectDone ==
  /\ At("reject") /\ adm.drained = {}
  /\ Goto("joinWorkers")
  /\ UNCHANGED <<models, lease, cl, gone, result, queued, wk, gen, track, pool>>

WorkersJoined == \A w \in Workers : wk[w].pc = "exited"
BugTrackersJoined == TRUE
TrackersJoined == track = {}

JoinWorkers ==
  /\ At("joinWorkers") /\ WorkersJoined
  /\ Goto("joinTrackers")
  /\ UNCHANGED <<models, lease, cl, gone, result, queued, wk, gen, track, pool>>

JoinTrackers ==
  /\ At("joinTrackers") /\ TrackersJoined
  /\ pool' = [pool EXCEPT !.state = "stopped"]
  /\ Goto("unload")
  /\ UNCHANGED <<models, lease, cl, gone, result, queued, wk, gen, track>>

\* The context of the hooks expires first.
JoinTimeout ==
  /\ At("joinWorkers") \/ At("joinTrackers")
  /\ Goto("unload")
  /\ UNCHANGED <<models, lease, cl, gone, result, queued, wk, gen, track, pool>>

\* UnloadModelContext; after it the slot is closed, or left to a goroutine
\* that goes on waiting for the leases.
Unload ==
  /\ At("unload")
  /\ Detach(NoSlot, "idle")
  /\ UNCHANGED <<eng, lease, cl, gone, result, queued, wk, gen, track, pool>>

CloseTimeout ==
  /\ At("close") /\ adm.next = "idle" /\ adm.slot # NoSlot
  /\ adm' = [adm EXCEPT !.pc = "done", !.late = @ \cup {adm.slot}]
  /\ UNCHANGED <<models, lease, cl, gone, result, queued, wk, gen, track, pool>>

UnloadIdle ==
  /\ At("idle")
  /\ mdl' = [mdl EXCEPT !.status = "Idle"]
  /\ Goto("done")
  /\ UNCHANGED <<eng, slot, lease, cl, gone, result, queued, wk, gen, track, pool>>

CloseLate(s) ==
  /\ s \in adm.late /\ Unleased(s)
  /\ eng' = [eng EXCEPT ![s] = "closed"]
  /\ adm' = [adm EXCEPT !.late = @ \ {s}]
  /\ UNCHANGED <<slot, mdl, lease, cl, gone, result, queued, wk, gen, track, pool>>

-----------------------------------------------------------------------------

Client(r) == \/ PrepareFails(r) \/ Enqueue(r) \/ Signal(r) \/ TakeResult(r)
             \/ Leave(r) \/ StreamEnds(r) \/ Embed(r) \/ EmbedEnds(r)
Worker(w) == \/ Dequeue(w) \/ Wake(w) \/ CheckRunning(w)
             \/ SubmitFails(w) \/ SubmitSucceeds(w)
LoadRest == \/ CreateBlueGreen \/ Swap \/ ForceDetach \/ CreateForce \/ Install \/ LoadReady
            \/ CloseEngineSlot
ShutdownRest ==
  \/ DrainEngine \/ EngineDrained \/ HTTPDrained \/ StopPool \/ CloseQueue \/ RejectDone
  \/ JoinWorkers \/ JoinTrackers \/ JoinTimeout \/ Unload \/ CloseTimeout \/ UnloadIdle
  \/ \E r \in Requests : RejectDrained(r)

Next ==
  \/ LoadModel \/ LoadRest \/ BeginEngineShutdown \/ ShutdownRest
  \/ \E r \in Requests : \/ AcquireEngineLease(r) \/ Client(r) \/ Disconnect(r)
                         \/ Tracker(r) \/ GenerationEnds(r)
  \/ \E w \in Workers : Worker(w)
  \/ \E s \in Slots : CloseLate(s)

(***************************************************************************)
(* Every goroutine goes on with what it has begun, an engine ends what it  *)
(* has accepted and a wait of the shutdown ends, if not otherwise then by  *)
(* its timeout; nobody has to connect, to disconnect, to load a model or   *)
(* to shut down, and no submission has to fail without a reason.           *)
(***************************************************************************)
Fairness ==
  /\ \A r \in Requests : WF_vars(Client(r)) /\ WF_vars(Tracker(r) \/ GenerationEnds(r))
  /\ \A w \in Workers :
       WF_vars(\/ Dequeue(w) \/ Wake(w) \/ CheckRunning(w) \/ SubmitSucceeds(w)
               \/ wk[w].pc = "submitting" /\ MustFail(w) /\ SubmitFails(w))
  /\ WF_vars(LoadRest \/ ShutdownRest)
  /\ WF_vars(\E s \in Slots : CloseLate(s))

Spec == Init /\ [][Next]_vars
FairSpec == Spec /\ Fairness

-----------------------------------------------------------------------------
(* Properties *)

(* Every variable has the values its fields in the Go structs can have,    *)
(* and the queue is bounded.                                               *)
TypeOK ==
  /\ eng \in [Slots -> {"none", "open", "draining", "down", "closed"}]
  /\ slot \in [Slots -> [closing : BOOLEAN, refs : Nat]]
  /\ mdl \in [current : Slots \cup {NoSlot},
              status : {"Idle", "Loading", "Ready", "Failed"}]
  /\ lease \in [Requests -> Slots \cup {NoSlot}]
  /\ cl \in [Requests -> Finished \cup {"leased", "pushed", "waiting", "streaming",
                                        "embedding"}]
  /\ gone \subseteq Requests
  /\ result \in [Requests -> {"empty", "err", "gen"}]
  /\ queue \in [heap : SUBSET Requests, closed : BOOLEAN, signal : BOOLEAN]
  /\ stamp \in [Requests -> Nat]
  /\ Cardinality(queue.heap) <= MaxSize
  /\ wk \in [Workers -> [pc : {"idle", "asleep", "picked", "submitting", "exited"},
                         cur : Requests \cup {NoReq},
                         experts : {ExpertCluster[r] : r \in Requests} \cup {{}}]]
  /\ gen \in [Requests -> {"none", "live", "over"}]
  /\ track \subseteq Requests
  /\ pool \in [state : {"running", "stopping", "stopped"}, stopCtx : BOOLEAN,
               exclusive : BOOLEAN]
  /\ adm \in [pc : {"serve", "create", "swap", "detach", "recreate", "install", "ready",
                    "close", "begin", "draining", "http", "stop", "lock", "reject",
                    "joinWorkers", "joinTrackers", "unload", "idle", "done"},
              slot : Slots \cup {NoSlot}, next : {"serve", "ready", "recreate", "idle"},
              loads : Nat, drained : SUBSET Requests, forced : BOOLEAN,
              late : SUBSET Slots]

(***************************************************************************)
(* Who is to release the lease of a request: the client's goroutine before *)
(* the queue has taken the request, StopAndWait for what it has drained,   *)
(* the worker that has picked it, the tracker of its generation.           *)
(***************************************************************************)
ClientOwns(r) == cl[r] \in {"leased", "embedding"}
Pending(r) == \/ r \in queue.heap \/ r \in adm.drained
              \/ \E w \in Workers : wk[w].cur = r

(***************************************************************************)
(* A lease is held exactly as long as somebody is left to release it, and  *)
(* only one goroutine is: no path through client, queue, worker, tracker   *)
(* and StopAndWait leaks a lease or takes it away from another one.        *)
(***************************************************************************)
LeaseHasOneOwner ==
  \A r \in Requests :
    /\ lease[r] # NoSlot <=> ClientOwns(r) \/ Pending(r) \/ r \in track
    /\ ~(ClientOwns(r) /\ (Pending(r) \/ r \in track)) /\ ~(Pending(r) /\ r \in track)
    /\ r \in queue.heap => r \notin adm.drained /\ \A w \in Workers : wk[w].cur # r
    /\ r \in adm.drained => \A w \in Workers : wk[w].cur # r
    /\ \A v, w \in Workers : wk[v].cur = r /\ wk[w].cur = r => v = w

(* The reference count of a slot, on which closeEngineSlot waits, is the   *)
(* number of leases on it (AcquireEngineLease, releaseEngineLease).        *)
RefsCountLeases ==
  \A s \in Slots : slot[s].refs = Cardinality({r \in Requests : lease[r] = s})

(***************************************************************************)
(* "closed only after its active leases reach zero": no request that may   *)
(* still use an engine, to submit to it or because its generation is       *)
(* running, has an engine that is closed, whichever way the slot was       *)
(* detached and whoever closed it.                                         *)
(***************************************************************************)
NoUseAfterClose ==
  \A r \in Requests :
    /\ lease[r] # NoSlot => eng[lease[r]] \notin {"none", "closed"}
    /\ gen[r] = "live" => lease[r] # NoSlot

(***************************************************************************)
(* An engine that is not closed is the current one, or the administering   *)
(* goroutine (or the one that a timeout left behind) is about to install   *)
(* it or to close it: replacing a model, also after failures, loses none.  *)
(***************************************************************************)
NoOrphanEngine ==
  \A s \in Slots : eng[s] \in {"open", "draining", "down"} =>
    \/ s = mdl.current \/ s \in adm.late
    \/ s = adm.slot /\ adm.pc \in {"swap", "install", "close"}

(***************************************************************************)
(* A request the queue has taken is answered once: as long as it is        *)
(* pending its ResultChan is empty, so no answer is dropped, and when it   *)
(* is no longer pending the answer is there.                               *)
(***************************************************************************)
AnsweredOnce ==
  \A r \in Requests :
    /\ Pending(r) => result[r] = "empty"
    /\ cl[r] \in {"pushed", "waiting", "panicked"} /\ ~Pending(r) => result[r] # "empty"

(***************************************************************************)
(* The signal channel holds one wakeup only and a worker that dequeues     *)
(* does not pass it on; still, while requests wait in an open queue, a     *)
(* worker is awake, or a signal is in the channel or about to be sent.     *)
(***************************************************************************)
NoLostWakeup ==
  queue.heap # {} /\ ~queue.closed =>
    \/ queue.signal
    \/ \E w \in Workers : wk[w].pc # "asleep"
    \/ \E r \in Requests : cl[r] = "pushed"

(***************************************************************************)
(* Enqueue signals after its unlock: the send on a channel closed by       *)
(* StopAndWait happens only if the server went on although handlers were   *)
(* still running when its drain timed out.                                 *)
(***************************************************************************)
PanicOnlyWhenForced == \A r \in Requests : cl[r] = "panicked" => adm.forced

(***************************************************************************)
(* When StopAndWait has returned without an error nothing the queue took   *)
(* is left: no request waits, no worker or tracker runs, no generation is  *)
(* live and no queued request holds a lease.                               *)
(***************************************************************************)
StoppedMeansResolved ==
  pool.state = "stopped" =>
    /\ queue.heap = {} /\ adm.drained = {} /\ WorkersJoined /\ track = {}
    /\ \A r \in Requests : cl[r] # "embedding" =>
         /\ gen[r] # "live"
         /\ lease[r] # NoSlot => cl[r] = "leased"
         /\ cl[r] = "waiting" => result[r] # "empty"

(* Every client that waits for its result gets it, or leaves: also the     *)
(* ones that the queue took while it was being closed.                     *)
EveryClientAnswered == \A r \in Requests : cl[r] = "waiting" ~> cl[r] # "waiting"

(* An engine that takes no more leases, because it was replaced or the     *)
(* server shuts down, is eventually closed, in spite of the timeouts.      *)
DetachedEnginesClose == \A s \in Slots : slot[s].closing ~> eng[s] = "closed"

=============================================================================
