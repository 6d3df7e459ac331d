--------------------------- MODULE Serving_proofs ---------------------------
(***************************************************************************)
(* Proofs that Serving keeps its safety properties for every number of     *)
(* requests, workers and engines, every size of the queue and every choice *)
(* of priorities and experts.                                              *)
(*                                                                         *)
(* The shapes of the variables come first, without stamp and gone, which   *)
(* none of the later arguments looks at.  Then one inductive invariant per *)
(* question: the wakeups, the ownership of the leases, the answers, the    *)
(* counts of the leases, the queue (which completes the type invariant),   *)
(* the engines, and the shutdown.                                          *)
(***************************************************************************)
EXTENDS Serving, FiniteSetTheorems, WellFoundedInduction, TLAPS

Engs == {"none", "open", "draining", "down", "closed"}
SlotRecs == [closing : BOOLEAN, refs : Int]
Models == [current : Slots \cup {NoSlot}, status : {"Idle", "Loading", "Ready", "Failed"}]
Clients == {"new", "failed", "left", "served", "panicked", "leased", "pushed", "waiting",
            "streaming", "embedding"}
Answers == {"empty", "err", "gen"}
Queues == [heap : SUBSET Requests, closed : BOOLEAN, signal : BOOLEAN]
ExpertSets == {{}} \cup {ExpertCluster[r] : r \in Requests}
WorkerRecs == [pc : {"idle", "asleep", "picked", "submitting", "exited"},
               cur : Requests \cup {NoReq}, experts : ExpertSets]
Generations == {"none", "live", "over"}
Pools == [state : {"running", "stopping", "stopped"}, stopCtx : BOOLEAN, exclusive : BOOLEAN]
AdmPCs == {"serve", "create", "swap", "detach", "recreate", "install", "ready", "close",
           "begin", "draining", "http", "stop", "lock", "reject", "joinWorkers",
           "joinTrackers", "unload", "idle", "done"}
Adms == [pc : AdmPCs, slot : Slots \cup {NoSlot},
         next : {"serve", "ready", "recreate", "idle"}, loads : Nat,
         drained : SUBSET Requests, forced : BOOLEAN, late : SUBSET Slots]

EngShape == eng \in [Slots -> Engs]
SlotShape == slot \in [Slots -> SlotRecs]
MdlShape == mdl \in Models
LeaseShape == lease \in [Requests -> Slots \cup {NoSlot}]
ClShape == cl \in [Requests -> Clients]
ResultShape == result \in [Requests -> Answers]
QueueShape == queue \in Queues
WkShape == wk \in [Workers -> WorkerRecs]
GenShape == gen \in [Requests -> Generations] /\ track \in SUBSET Requests
PoolShape == pool \in Pools
AdmShape == adm \in Adms

Shape == /\ EngShape /\ SlotShape /\ MdlShape /\ LeaseShape /\ ClShape /\ ResultShape
         /\ QueueShape /\ WkShape /\ GenShape /\ PoolShape /\ AdmShape
\* A worker has a current request between Dequeue and its answer.
Busy == \A w \in Workers : wk[w].cur # NoReq <=> wk[w].pc \in {"picked", "submitting"}

(***************************************************************************)
(* The steps of the administering goroutine, except the two in which       *)
(* StopAndWait takes over what is left in the queue and rejects it.        *)
(***************************************************************************)
AdmStep == \/ LoadModel \/ LoadRest \/ BeginEngineShutdown
           \/ DrainEngine \/ EngineDrained \/ HTTPDrained \/ StopPool \/ RejectDone
           \/ JoinWorkers \/ JoinTrackers \/ JoinTimeout \/ Unload \/ CloseTimeout
           \/ UnloadIdle \/ \E s \in Slots : CloseLate(s)

(***************************************************************************)
(* The initial state of NewModelService, NewRequestQueue and               *)
(* NewQueueProcessor has the shape of the variables.                       *)
(***************************************************************************)
LEMMA InitShape == Init => Shape /\ Busy
<1> SUFFICES ASSUME Init PROVE Shape /\ Busy
  OBVIOUS
<1> USE ServingAssumption DEF Init
<1>1. EngShape BY DEF EngShape, Engs
<1>2. SlotShape BY DEF SlotShape, SlotRecs
<1>3. MdlShape BY DEF MdlShape, Models
<1>4. LeaseShape BY DEF LeaseShape
<1>5. ClShape BY DEF ClShape, Clients
<1>6. ResultShape BY DEF ResultShape, Answers
<1>7. QueueShape BY DEF QueueShape, Queues
<1>8. WkShape BY DEF WkShape, WorkerRecs, ExpertSets
<1>9. GenShape BY DEF GenShape, Generations
<1>10. PoolShape BY DEF PoolShape, Pools
<1>11. AdmShape BY DEF AdmShape, Adms, AdmPCs
<1>12. Busy BY DEF Busy
<1> QED BY <1>1, <1>2, <1>3, <1>4, <1>5, <1>6, <1>7, <1>8, <1>9, <1>10, <1>11, <1>12 DEF Shape

(***************************************************************************)
(* A step of the administering goroutine touches no client, no queued      *)
(* request, no worker and no generation, and leaves what is drained alone. *)
(***************************************************************************)
LEMMA AdmFrame ==
  ASSUME AdmShape, AdmStep
  PROVE  /\ UNCHANGED <<lease, cl, result, queue, wk, gen, track>>
         /\ adm'.drained = adm.drained
<1> DEFINE Frame == /\ UNCHANGED <<lease, cl, result, queue, wk, gen, track>>
                    /\ adm'.drained = adm.drained
<1> USE DEF AdmShape, Adms, queued, models, Goto, Detach
<1>1. LoadModel => Frame
  BY DEF LoadModel
<1>2. CreateBlueGreen => Frame
  BY DEF CreateBlueGreen
<1>3. Swap => Frame
  BY DEF Swap
<1>4. ForceDetach => Frame
  BY DEF ForceDetach
<1>5. CreateForce => Frame
  BY DEF CreateForce
<1>6. Install => Frame
  BY DEF Install
<1>7. LoadReady => Frame
  BY DEF LoadReady
<1>8. CloseEngineSlot => Frame
  BY DEF CloseEngineSlot
<1>9. BeginEngineShutdown => Frame
  BY DEF BeginEngineShutdown
<1>10. DrainEngine => Frame
  BY DEF DrainEngine
<1>11. EngineDrained => Frame
  BY DEF EngineDrained
<1>12. HTTPDrained => Frame
  BY DEF HTTPDrained
<1>13. StopPool => Frame
  BY DEF StopPool
<1>14. RejectDone => Frame
  BY DEF RejectDone
<1>15. JoinWorkers => Frame
  BY DEF JoinWorkers
<1>16. JoinTrackers => Frame
  BY DEF JoinTrackers
<1>17. JoinTimeout => Frame
  BY DEF JoinTimeout
<1>18. Unload => Frame
  BY DEF Unload
<1>19. CloseTimeout => Frame
  BY DEF CloseTimeout
<1>20. UnloadIdle => Frame
  BY DEF UnloadIdle
<1>21. \A s \in Slots : CloseLate(s) => Frame
  BY DEF CloseLate
<1> HIDE DEF Frame, AdmShape, Adms, queued, models, Goto, Detach
<1>0. Frame
  BY <1>1, <1>2, <1>3, <1>4, <1>5, <1>6, <1>7, <1>8, <1>9, <1>10, <1>11, <1>12, <1>13, <1>14,
     <1>15, <1>16, <1>17, <1>18, <1>19, <1>20, <1>21 DEF AdmStep, LoadRest
<1> QED BY <1>0 DEF Frame

(***************************************************************************)
(* Every step keeps the shape of the variables.  Under each action are the *)
(* variables it assigns; the others it leaves alone.                       *)
(***************************************************************************)
LEMMA RequestShape ==
  ASSUME Shape, NEW r \in Requests,
         \/ AcquireEngineLease(r) \/ Client(r) \/ Disconnect(r) \/ Tracker(r)
         \/ GenerationEnds(r) \/ RejectDrained(r)
  PROVE  Shape'
<1>1. AcquireEngineLease(r) => Shape'
  <2> SUFFICES ASSUME AcquireEngineLease(r) PROVE Shape'
    OBVIOUS
  <2>1. SlotShape'
    BY ServingAssumption DEF AcquireEngineLease, Leasable, Shape, SlotShape, SlotRecs,
       MdlShape, LeaseShape, Models
  <2>2. LeaseShape'
    BY ServingAssumption DEF AcquireEngineLease, Shape, LeaseShape, MdlShape, Models
  <2>3. ClShape'
    BY DEF AcquireEngineLease, Shape, ClShape, Clients, MdlShape, Models
  <2> QED BY <2>1, <2>2, <2>3 DEF AcquireEngineLease, queued, models, Shape,
         EngShape, MdlShape, ResultShape, QueueShape, WkShape, GenShape, PoolShape, AdmShape
<1>2. PrepareFails(r) => Shape'
  <2> SUFFICES ASSUME PrepareFails(r) PROVE Shape'
    OBVIOUS
  <2>1. SlotShape'
    BY ServingAssumption DEF PrepareFails, Release, Shape, SlotShape, SlotRecs, LeaseShape
  <2>2. LeaseShape'
    BY ServingAssumption DEF PrepareFails, Release, Shape, LeaseShape
  <2>3. ClShape'
    BY DEF PrepareFails, Shape, ClShape, Clients
  <2> QED BY <2>1, <2>2, <2>3 DEF PrepareFails, queued, models, Shape,
         EngShape, MdlShape, ResultShape, QueueShape, WkShape, GenShape, PoolShape, AdmShape
<1>3. Enqueue(r) => Shape'
  <2> SUFFICES ASSUME Enqueue(r) PROVE Shape'
    OBVIOUS
  <2>1. SlotShape'
    BY ServingAssumption DEF Enqueue, Release, Shape, SlotShape, SlotRecs, LeaseShape
  <2>2. LeaseShape'
    BY ServingAssumption DEF Enqueue, Release, Shape, LeaseShape
  <2>3. ClShape'
    BY DEF Enqueue, Shape, ClShape, Clients
  <2>4. QueueShape'
    BY DEF Enqueue, queued, Shape, QueueShape, Queues
  <2> QED BY <2>1, <2>2, <2>3, <2>4 DEF Enqueue, queued, models, Shape,
         EngShape, MdlShape, ResultShape, WkShape, GenShape, PoolShape, AdmShape
<1>4. Signal(r) => Shape'
  <2> SUFFICES ASSUME Signal(r) PROVE Shape'
    OBVIOUS
  <2>1. ClShape'
    BY DEF Signal, Shape, ClShape, Clients
  <2>2. QueueShape'
    BY DEF Signal, Signalled, queued, Shape, QueueShape, Queues
  <2> QED BY <2>1, <2>2 DEF Signal, queued, models, Shape,
         EngShape, SlotShape, MdlShape, LeaseShape, ResultShape, WkShape, GenShape, PoolShape, AdmShape
<1>5. TakeResult(r) => Shape'
  <2> SUFFICES ASSUME TakeResult(r) PROVE Shape'
    OBVIOUS
  <2>1. ClShape'
    BY DEF TakeResult, Shape, ClShape, Clients
  <2> QED BY <2>1 DEF TakeResult, queued, models, Shape,
         EngShape, SlotShape, MdlShape, LeaseShape, ResultShape, QueueShape, WkShape, GenShape, PoolShape, AdmShape
<1>6. Disconnect(r) => Shape'
  <2> SUFFICES ASSUME Disconnect(r) PROVE Shape'
    OBVIOUS
  <2> QED BY  DEF Disconnect, queued, models, Shape,
         EngShape, SlotShape, MdlShape, LeaseShape, ClShape, ResultShape, QueueShape, WkShape, GenShape, PoolShape, AdmShape
<1>7. Leave(r) => Shape'
  <2> SUFFICES ASSUME Leave(r) PROVE Shape'
    OBVIOUS
  <2>1. ClShape'
    BY DEF Leave, Shape, ClShape, Clients
  <2> QED BY <2>1 DEF Leave, queued, models, Shape,
         EngShape, SlotShape, MdlShape, LeaseShape, ResultShape, QueueShape, WkShape, GenShape, PoolShape, AdmShape
<1>8. StreamEnds(r) => Shape'
  <2> SUFFICES ASSUME StreamEnds(r) PROVE Shape'
    OBVIOUS
  <2>1. ClShape'
    BY DEF StreamEnds, Shape, ClShape, Clients
  <2> QED BY <2>1 DEF StreamEnds, queued, models, Shape,
         EngShape, SlotShape, MdlShape, LeaseShape, ResultShape, QueueShape, WkShape, GenShape, PoolShape, AdmShape
<1>9. Embed(r) => Shape'
  <2> SUFFICES ASSUME Embed(r) PROVE Shape'
    OBVIOUS
  <2>1. ClShape'
    BY DEF Embed, Shape, ClShape, Clients
  <2>2. GenShape'
    BY DEF Embed, Shape, GenShape, Generations
  <2> QED BY <2>1, <2>2 DEF Embed, queued, models, Shape,
         EngShape, SlotShape, MdlShape, LeaseShape, ResultShape, QueueShape, WkShape, PoolShape, AdmShape
<1>10. EmbedEnds(r) => Shape'
  <2> SUFFICES ASSUME EmbedEnds(r) PROVE Shape'
    OBVIOUS
  <2>1. SlotShape'
    BY ServingAssumption DEF EmbedEnds, Release, Shape, SlotShape, SlotRecs, LeaseShape
  <2>2. LeaseShape'
    BY ServingAssumption DEF EmbedEnds, Release, Shape, LeaseShape
  <2>3. ClShape'
    BY DEF EmbedEnds, Shape, ClShape, Clients
  <2> QED BY <2>1, <2>2, <2>3 DEF EmbedEnds, queued, models, Shape,
         EngShape, MdlShape, ResultShape, QueueShape, WkShape, GenShape, PoolShape, AdmShape
<1>11. Tracker(r) => Shape'
  <2> SUFFICES ASSUME Tracker(r) PROVE Shape'
    OBVIOUS
  <2>1. SlotShape'
    BY ServingAssumption DEF Tracker, Release, Shape, SlotShape, SlotRecs, LeaseShape
  <2>2. LeaseShape'
    BY ServingAssumption DEF Tracker, Release, Shape, LeaseShape
  <2>3. GenShape'
    BY DEF Tracker, Shape, GenShape, Generations
  <2> QED BY <2>1, <2>2, <2>3 DEF Tracker, queued, models, Shape,
         EngShape, MdlShape, ClShape, ResultShape, QueueShape, WkShape, PoolShape, AdmShape
<1>12. GenerationEnds(r) => Shape'
  <2> SUFFICES ASSUME GenerationEnds(r) PROVE Shape'
    OBVIOUS
  <2>1. GenShape'
    BY DEF GenerationEnds, Shape, GenShape, Generations
  <2> QED BY <2>1 DEF GenerationEnds, queued, models, Shape,
         EngShape, SlotShape, MdlShape, LeaseShape, ClShape, ResultShape, QueueShape, WkShape, PoolShape, AdmShape
<1>13. RejectDrained(r) => Shape'
  <2> SUFFICES ASSUME RejectDrained(r) PROVE Shape'
    OBVIOUS
  <2>1. SlotShape'
    BY ServingAssumption DEF RejectDrained, Release, Shape, SlotShape, SlotRecs, LeaseShape
  <2>2. LeaseShape'
    BY ServingAssumption DEF RejectDrained, Release, Shape, LeaseShape
  <2>3. ResultShape'
    BY DEF RejectDrained, Reply, Shape, ResultShape, Answers
  <2>4. AdmShape'
    BY DEF RejectDrained, Shape, AdmShape, Adms, AdmPCs
  <2> QED BY <2>1, <2>2, <2>3, <2>4 DEF RejectDrained, queued, models, Shape,
         EngShape, MdlShape, ClShape, QueueShape, WkShape, GenShape, PoolShape
<1> QED BY <1>1, <1>2, <1>3, <1>4, <1>5, <1>6, <1>7, <1>8, <1>9, <1>10, <1>11, <1>12, <1>13
       DEF Client

(***************************************************************************)
(* workerLoop keeps the shape of the variables.                            *)
(***************************************************************************)
LEMMA WorkerShape ==
  ASSUME Shape, Busy, NEW w \in Workers, Worker(w)
  PROVE  Shape'
<1>1. Dequeue(w) => Shape'
  <2> SUFFICES ASSUME Dequeue(w) PROVE Shape'
    OBVIOUS
  <2>1. QueueShape'
    BY DEF Dequeue, queued, Shape, QueueShape, Queues
  <2>2. WkShape'
    BY ServingAssumption DEF Dequeue, ExpertSets, Shape, WkShape, WorkerRecs, QueueShape,
       Queues, queued
  <2> QED BY <2>1, <2>2 DEF Dequeue, queued, models, Shape,
         EngShape, SlotShape, MdlShape, LeaseShape, ClShape, ResultShape, GenShape, PoolShape, AdmShape
<1>2. Wake(w) => Shape'
  <2> SUFFICES ASSUME Wake(w) PROVE Shape'
    OBVIOUS
  <2>1. QueueShape'
    BY DEF Wake, Shape, QueueShape, Queues
  <2>2. WkShape'
    BY ServingAssumption DEF Wake, Shape, WkShape, WorkerRecs
  <2> QED BY <2>1, <2>2 DEF Wake, queued, models, Shape,
         EngShape, SlotShape, MdlShape, LeaseShape, ClShape, ResultShape, GenShape, PoolShape, AdmShape
<1>3. CheckRunning(w) => Shape'
  <2> SUFFICES ASSUME CheckRunning(w) PROVE Shape'
    OBVIOUS
  <2>1. SlotShape'
    BY ServingAssumption DEF CheckRunning, Rejected, Release, Shape, SlotShape, SlotRecs, LeaseShape
  <2>2. LeaseShape'
    BY ServingAssumption DEF CheckRunning, Rejected, Release, Shape, LeaseShape
  <2>3. ResultShape'
    BY DEF CheckRunning, Rejected, Reply, Shape, ResultShape, Answers
  <2>4. WkShape'
    BY ServingAssumption DEF CheckRunning, Rejected, Shape, WkShape, WorkerRecs
  <2> QED BY <2>1, <2>2, <2>3, <2>4 DEF CheckRunning, queued, models, Shape,
         EngShape, MdlShape, ClShape, QueueShape, GenShape, PoolShape, AdmShape
<1>4. SubmitFails(w) => Shape'
  <2> SUFFICES ASSUME SubmitFails(w) PROVE Shape'
    OBVIOUS
  <2>1. SlotShape'
    BY ServingAssumption DEF SubmitFails, Rejected, Release, Shape, SlotShape, SlotRecs,
       LeaseShape, WkShape, WorkerRecs, Busy
  <2>2. LeaseShape'
    BY ServingAssumption DEF SubmitFails, Rejected, Release, Shape, LeaseShape
  <2>3. ResultShape'
    BY DEF SubmitFails, Rejected, Reply, Shape, ResultShape, Answers
  <2>4. WkShape'
    BY ServingAssumption DEF SubmitFails, Rejected, Shape, WkShape, WorkerRecs
  <2> QED BY <2>1, <2>2, <2>3, <2>4 DEF SubmitFails, queued, models, Shape,
         EngShape, MdlShape, ClShape, QueueShape, GenShape, PoolShape, AdmShape
<1>5. SubmitSucceeds(w) => Shape'
  <2> SUFFICES ASSUME SubmitSucceeds(w) PROVE Shape'
    OBVIOUS
  <2>1. GenShape'
    BY DEF SubmitSucceeds, Shape, GenShape, Generations, WkShape, WorkerRecs, Busy
  <2>2. ResultShape'
    BY DEF SubmitSucceeds, Reply, Shape, ResultShape, Answers
  <2>3. WkShape'
    BY ServingAssumption DEF SubmitSucceeds, Shape, WkShape, WorkerRecs
  <2> QED BY <2>1, <2>2, <2>3 DEF SubmitSucceeds, queued, models, Shape,
         EngShape, SlotShape, MdlShape, LeaseShape, ClShape, QueueShape, PoolShape, AdmShape
<1> QED BY <1>1, <1>2, <1>3, <1>4, <1>5 DEF Worker

(***************************************************************************)
(* The administering goroutine keeps the shape of the variables.           *)
(***************************************************************************)
LEMMA AdmStepShape ==
  ASSUME Shape, AdmStep \/ CloseQueue
  PROVE  Shape'
<1>1. LoadModel => Shape'
  <2> SUFFICES ASSUME LoadModel PROVE Shape'
    OBVIOUS
  <2>1. MdlShape'
    BY DEF LoadModel, Shape, MdlShape, Models
  <2>2. AdmShape'
    <3>1. PICK pc \in {"create", "detach"} : adm' = [adm EXCEPT !.pc = pc, !.loads = @ + 1]
      BY DEF LoadModel
    <3>2. pc \in AdmPCs /\ adm.loads + 1 \in Nat
      BY DEF Shape, AdmShape, Adms, AdmPCs
    <3> QED BY <3>1, <3>2 DEF Shape, AdmShape, Adms
  <2> QED BY <2>1, <2>2 DEF LoadModel, queued, models, Shape,
         EngShape, SlotShape, LeaseShape, ClShape, ResultShape, QueueShape, WkShape, GenShape, PoolShape
<1>2. CreateBlueGreen => Shape'
  <2> SUFFICES ASSUME CreateBlueGreen PROVE Shape'
    OBVIOUS
  <2>1. EngShape'
    BY DEF CreateBlueGreen, Shape, EngShape, Engs
  <2>2. AdmShape'
    <3> USE DEF Shape, AdmShape, Adms, AdmPCs
    <3>1. ASSUME NEW s \in Slots, adm' = [adm EXCEPT !.pc = "swap", !.slot = s]
          PROVE  AdmShape'
      BY <3>1
    <3>2. CASE Goto("detach")
      BY <3>2 DEF Goto
    <3> HIDE DEF Shape, AdmShape, Adms, AdmPCs
    <3> QED BY <3>1, <3>2 DEF CreateBlueGreen
  <2> QED BY <2>1, <2>2 DEF CreateBlueGreen, queued, models, Shape,
         SlotShape, MdlShape, LeaseShape, ClShape, ResultShape, QueueShape, WkShape, GenShape, PoolShape
<1>3. Swap => Shape'
  <2> SUFFICES ASSUME Swap PROVE Shape'
    OBVIOUS
  <2>1. SlotShape'
    BY DEF Swap, Detach, Shape, SlotShape, SlotRecs
  <2>2. MdlShape'
    BY DEF Swap, Detach, Shape, MdlShape, Models, AdmShape, Adms
  <2>3. AdmShape'
    BY ServingAssumption DEF Swap, Detach, Shape, AdmShape, Adms, AdmPCs, MdlShape, Models
  <2> QED BY <2>1, <2>2, <2>3 DEF Swap, queued, models, Shape,
         EngShape, LeaseShape, ClShape, ResultShape, QueueShape, WkShape, GenShape, PoolShape
<1>4. ForceDetach => Shape'
  <2> SUFFICES ASSUME ForceDetach PROVE Shape'
    OBVIOUS
  <2>1. SlotShape'
    BY DEF ForceDetach, Detach, Shape, SlotShape, SlotRecs
  <2>2. MdlShape'
    BY DEF ForceDetach, Detach, Shape, MdlShape, Models
  <2>3. AdmShape'
    BY ServingAssumption DEF ForceDetach, Detach, Shape, AdmShape, Adms, AdmPCs, MdlShape, Models
  <2> QED BY <2>1, <2>2, <2>3 DEF ForceDetach, queued, models, Shape,
         EngShape, LeaseShape, ClShape, ResultShape, QueueShape, WkShape, GenShape, PoolShape
<1>5. CreateForce => Shape'
  <2> SUFFICES ASSUME CreateForce PROVE Shape'
    OBVIOUS
  <2>1. EngShape'
    BY DEF CreateForce, Shape, EngShape, Engs
  <2>2. MdlShape'
    BY DEF CreateForce, Shape, MdlShape, Models
  <2>3. AdmShape'
    <3> USE DEF Shape, AdmShape, Adms, AdmPCs
    <3>1. ASSUME NEW s \in Slots, adm' = [adm EXCEPT !.pc = "install", !.slot = s]
          PROVE  AdmShape'
      BY <3>1
    <3>2. CASE Goto("serve")
      BY <3>2 DEF Goto
    <3> HIDE DEF Shape, AdmShape, Adms, AdmPCs
    <3> QED BY <3>1, <3>2 DEF CreateForce
  <2> QED BY <2>1, <2>2, <2>3 DEF CreateForce, queued, models, Shape,
         SlotShape, LeaseShape, ClShape, ResultShape, QueueShape, WkShape, GenShape, PoolShape
<1>6. Install => Shape'
  <2> SUFFICES ASSUME Install PROVE Shape'
    OBVIOUS
  <2>1. MdlShape'
    BY DEF Install, Shape, MdlShape, Models, AdmShape, Adms
  <2>2. AdmShape'
    BY ServingAssumption DEF Install, Goto, Shape, AdmShape, Adms, AdmPCs
  <2> QED BY <2>1, <2>2 DEF Install, queued, models, Shape,
         EngShape, SlotShape, LeaseShape, ClShape, ResultShape, QueueShape, WkShape, GenShape, PoolShape
<1>7. LoadReady => Shape'
  <2> SUFFICES ASSUME LoadReady PROVE Shape'
    OBVIOUS
  <2>1. MdlShape'
    BY DEF LoadReady, Shape, MdlShape, Models
  <2>2. AdmShape'
    BY ServingAssumption DEF LoadReady, Goto, Shape, AdmShape, Adms, AdmPCs
  <2> QED BY <2>1, <2>2 DEF LoadReady, queued, models, Shape,
         EngShape, SlotShape, LeaseShape, ClShape, ResultShape, QueueShape, WkShape, GenShape, PoolShape
<1>8. CloseEngineSlot => Shape'
  <2> SUFFICES ASSUME CloseEngineSlot PROVE Shape'
    OBVIOUS
  <2>1. EngShape'
    BY DEF CloseEngineSlot, Shape, EngShape, Engs
  <2>2. AdmShape'
    BY ServingAssumption DEF CloseEngineSlot, Goto, Shape, AdmShape, Adms, AdmPCs
  <2> QED BY <2>1, <2>2 DEF CloseEngineSlot, queued, models, Shape,
         SlotShape, MdlShape, LeaseShape, ClShape, ResultShape, QueueShape, WkShape, GenShape, PoolShape
<1>9. BeginEngineShutdown => Shape'
  <2> SUFFICES ASSUME BeginEngineShutdown PROVE Shape'
    OBVIOUS
  <2>1. SlotShape'
    BY DEF BeginEngineShutdown, Shape, SlotShape, SlotRecs
  <2>2. AdmShape'
    BY ServingAssumption DEF BeginEngineShutdown, Shape, AdmShape, Adms, AdmPCs, MdlShape, Models
  <2> QED BY <2>1, <2>2 DEF BeginEngineShutdown, queued, models, Shape,
         EngShape, MdlShape, LeaseShape, ClShape, ResultShape, QueueShape, WkShape, GenShape, PoolShape
<1>10. DrainEngine => Shape'
  <2> SUFFICES ASSUME DrainEngine PROVE Shape'
    OBVIOUS
  <2>1. EngShape'
    BY DEF DrainEngine, Shape, EngShape, Engs
  <2>2. AdmShape'
    BY ServingAssumption DEF DrainEngine, Goto, Shape, AdmShape, Adms, AdmPCs
  <2> QED BY <2>1, <2>2 DEF DrainEngine, queued, models, Shape,
         SlotShape, MdlShape, LeaseShape, ClShape, ResultShape, QueueShape, WkShape, GenShape, PoolShape
<1>11. EngineDrained => Shape'
  <2> SUFFICES ASSUME EngineDrained PROVE Shape'
    OBVIOUS
  <2>1. EngShape'
    BY DEF EngineDrained, Shape, EngShape, Engs
  <2>2. AdmShape'
    BY ServingAssumption DEF EngineDrained, Goto, Shape, AdmShape, Adms, AdmPCs
  <2> QED BY <2>1, <2>2 DEF EngineDrained, queued, models, Shape,
         SlotShape, MdlShape, LeaseShape, ClShape, ResultShape, QueueShape, WkShape, GenShape, PoolShape
<1>12. HTTPDrained => Shape'
  <2> SUFFICES ASSUME HTTPDrained PROVE Shape'
    OBVIOUS
  <2>1. AdmShape'
    BY ServingAssumption DEF HTTPDrained, HandlersDone, Shape, AdmShape, Adms, AdmPCs
  <2> QED BY <2>1 DEF HTTPDrained, queued, models, Shape,
         EngShape, SlotShape, MdlShape, LeaseShape, ClShape, ResultShape, QueueShape, WkShape, GenShape, PoolShape
<1>13. StopPool => Shape'
  <2> SUFFICES ASSUME StopPool PROVE Shape'
    OBVIOUS
  <2>1. PoolShape'
    BY DEF StopPool, Shape, PoolShape, Pools
  <2>2. AdmShape'
    BY ServingAssumption DEF StopPool, Goto, Shape, AdmShape, Adms, AdmPCs
  <2> QED BY <2>1, <2>2 DEF StopPool, queued, models, Shape,
         EngShape, SlotShape, MdlShape, LeaseShape, ClShape, ResultShape, QueueShape, WkShape, GenShape
<1>14. CloseQueue => Shape'
  <2> SUFFICES ASSUME CloseQueue PROVE Shape'
    OBVIOUS
  <2>1. QueueShape'
    BY DEF CloseQueue, LeftInHeap, Shape, QueueShape, Queues, queued
  <2>2. AdmShape'
    BY ServingAssumption DEF CloseQueue, Shape, AdmShape, Adms, AdmPCs, QueueShape, Queues
  <2> QED BY <2>1, <2>2 DEF CloseQueue, queued, models, Shape,
         EngShape, SlotShape, MdlShape, LeaseShape, ClShape, ResultShape, WkShape, GenShape, PoolShape
<1>15. RejectDone => Shape'
  <2> SUFFICES ASSUME RejectDone PROVE Shape'
    OBVIOUS
  <2>1. AdmShape'
    BY ServingAssumption DEF RejectDone, Goto, Shape, AdmShape, Adms, AdmPCs
  <2> QED BY <2>1 DEF RejectDone, queued, models, Shape,
         EngShape, SlotShape, MdlShape, LeaseShape, ClShape, ResultShape, QueueShape, WkShape, GenShape, PoolShape
<1>16. JoinWorkers => Shape'
  <2> SUFFICES ASSUME JoinWorkers PROVE Shape'
    OBVIOUS
  <2>1. AdmShape'
    BY ServingAssumption DEF JoinWorkers, Goto, Shape, AdmShape, Adms, AdmPCs
  <2> QED BY <2>1 DEF JoinWorkers, queued, models, Shape,
         EngShape, SlotShape, MdlShape, LeaseShape, ClShape, ResultShape, QueueShape, WkShape, GenShape, PoolShape
<1>17. JoinTrackers => Shape'
  <2> SUFFICES ASSUME JoinTrackers PROVE Shape'
    OBVIOUS
  <2>1. PoolShape'
    BY DEF JoinTrackers, Shape, PoolShape, Pools
  <2>2. AdmShape'
    BY ServingAssumption DEF JoinTrackers, Goto, Shape, AdmShape, Adms, AdmPCs
  <2> QED BY <2>1, <2>2 DEF JoinTrackers, queued, models, Shape,
         EngShape, SlotShape, MdlShape, LeaseShape, ClShape, ResultShape, QueueShape, WkShape, GenShape
<1>18. JoinTimeout => Shape'
  <2> SUFFICES ASSUME JoinTimeout PROVE Shape'
    OBVIOUS
  <2>1. AdmShape'
    BY ServingAssumption DEF JoinTimeout, Goto, Shape, AdmShape, Adms, AdmPCs
  <2> QED BY <2>1 DEF JoinTimeout, queued, models, Shape,
         EngShape, SlotShape, MdlShape, LeaseShape, ClShape, ResultShape, QueueShape, WkShape, GenShape, PoolShape
<1>19. Unload => Shape'
  <2> SUFFICES ASSUME Unload PROVE Shape'
    OBVIOUS
  <2>1. SlotShape'
    BY DEF Unload, Detach, Shape, SlotShape, SlotRecs
  <2>2. MdlShape'
    BY DEF Unload, Detach, Shape, MdlShape, Models
  <2>3. AdmShape'
    BY ServingAssumption DEF Unload, Detach, Shape, AdmShape, Adms, AdmPCs, MdlShape, Models
  <2> QED BY <2>1, <2>2, <2>3 DEF Unload, queued, models, Shape,
         EngShape, LeaseShape, ClShape, ResultShape, QueueShape, WkShape, GenShape, PoolShape
<1>20. CloseTimeout => Shape'
  <2> SUFFICES ASSUME CloseTimeout PROVE Shape'
    OBVIOUS
  <2>1. AdmShape'
    BY ServingAssumption DEF CloseTimeout, Shape, AdmShape, Adms, AdmPCs, At
  <2> QED BY <2>1 DEF CloseTimeout, queued, models, Shape,
         EngShape, SlotShape, MdlShape, LeaseShape, ClShape, ResultShape, QueueShape, WkShape, GenShape, PoolShape
<1>21. UnloadIdle => Shape'
  <2> SUFFICES ASSUME UnloadIdle PROVE Shape'
    OBVIOUS
  <2>1. MdlShape'
    BY DEF UnloadIdle, Shape, MdlShape, Models
  <2>2. AdmShape'
    BY ServingAssumption DEF UnloadIdle, Goto, Shape, AdmShape, Adms, AdmPCs
  <2> QED BY <2>1, <2>2 DEF UnloadIdle, queued, models, Shape,
         EngShape, SlotShape, LeaseShape, ClShape, ResultShape, QueueShape, WkShape, GenShape, PoolShape
<1>22. ASSUME NEW s \in Slots, CloseLate(s) PROVE Shape'
  <2> USE <1>22
  <2>1. EngShape'
    BY DEF CloseLate, Shape, EngShape, Engs
  <2>2. AdmShape'
    BY ServingAssumption DEF CloseLate, Shape, AdmShape, Adms, AdmPCs
  <2> QED BY <2>1, <2>2 DEF CloseLate, queued, models, Shape,
         SlotShape, MdlShape, LeaseShape, ClShape, ResultShape, QueueShape, WkShape, GenShape, PoolShape
<1> QED BY <1>1, <1>2, <1>3, <1>4, <1>5, <1>6, <1>7, <1>8, <1>9, <1>10, <1>11, <1>12, <1>13,
           <1>14, <1>15, <1>16, <1>17, <1>18, <1>19, <1>20, <1>21, <1>22
       DEF AdmStep, LoadRest

(***************************************************************************)
(* A worker picks its current request up and puts it down together with    *)
(* its place in workerLoop.                                                *)
(***************************************************************************)
LEMMA BusyStep ==
  ASSUME Shape, Busy, [Next]_vars
  PROVE  Busy'
<1> USE DEF Shape, WkShape, WorkerRecs
<1>1. ASSUME NEW w \in Workers, Dequeue(w) PROVE Busy'
  <2>1. CASE \E r \in queue.heap : wk' = [wk EXCEPT ![w] = [pc |-> "picked", cur |-> r,
                                                          experts |-> ExpertCluster[r]]]
    BY <2>1, ServingAssumption DEF Busy, QueueShape, Queues
  <2>2. CASE \/ wk[w].pc = "idle" /\ wk' = [wk EXCEPT ![w].pc = "exited"]
             \/ wk[w].pc = "idle" /\ wk' = [wk EXCEPT ![w].pc = "asleep"]
    BY <2>2 DEF Busy
  <2> QED BY <1>1, <2>1, <2>2 DEF Dequeue
<1>2. ASSUME NEW w \in Workers, Wake(w) PROVE Busy'
  BY <1>2 DEF Wake, Busy
<1>3. ASSUME NEW w \in Workers, CheckRunning(w) \/ SubmitFails(w) \/ SubmitSucceeds(w) PROVE Busy'
  <2>1. \/ wk' = [wk EXCEPT ![w].pc = "idle", ![w].cur = NoReq]
        \/ wk[w].pc = "picked" /\ wk' = [wk EXCEPT ![w].pc = "submitting"]
    BY <1>3 DEF CheckRunning, SubmitFails, SubmitSucceeds, Rejected
  <2> QED BY <2>1 DEF Busy
<1>4. UNCHANGED wk => Busy'
  BY DEF Busy
<1>5. AdmStep \/ CloseQueue => UNCHANGED wk
  BY AdmFrame DEF CloseQueue
<1>6. ASSUME NEW r \in Requests,
             \/ AcquireEngineLease(r) \/ Client(r) \/ Disconnect(r) \/ Tracker(r)
             \/ GenerationEnds(r) \/ RejectDrained(r)
      PROVE  UNCHANGED wk
  BY <1>6 DEF AcquireEngineLease, Client, Disconnect, Tracker, GenerationEnds, RejectDrained,
              PrepareFails, Enqueue, Signal, TakeResult, Leave, StreamEnds, Embed, EmbedEnds
<1>7. CASE UNCHANGED vars
  BY <1>4, <1>7 DEF vars
<1> HIDE DEF Shape
<1> QED BY <1>1, <1>2, <1>3, <1>4, <1>5, <1>6, <1>7
       DEF Next, Worker, ShutdownRest, AdmStep

(***************************************************************************)
(* Shape and Busy are an invariant.                                        *)
(***************************************************************************)
LEMMA ShapeInvariant == Spec => [](Shape /\ Busy)
<1>1. ASSUME Shape, Busy, [Next]_vars PROVE Shape'
  <2>1. CASE UNCHANGED vars
    BY <1>1, <2>1 DEF vars, Shape, EngShape, SlotShape, MdlShape, LeaseShape, ClShape,
                      ResultShape, QueueShape, WkShape, GenShape, PoolShape, AdmShape
  <2>2. CASE Next
    BY <1>1, <2>2, RequestShape, WorkerShape, AdmStepShape DEF Next, ShutdownRest, AdmStep
  <2> QED BY <1>1, <2>1, <2>2
<1> QED BY <1>1, InitShape, BusyStep, PTL DEF Spec

-----------------------------------------------------------------------------
(* The wakeups of the workers *)

(***************************************************************************)
(* No step of a client, of its tracker or of its generation loses the      *)
(* wakeup: only Signal ends a "pushed", and it sends.                      *)
(***************************************************************************)
LEMMA WakeupRequest ==
  ASSUME Shape, NoLostWakeup, NEW r \in Requests,
         \/ AcquireEngineLease(r) \/ Client(r) \/ Disconnect(r) \/ Tracker(r)
         \/ GenerationEnds(r) \/ RejectDrained(r)
  PROVE  NoLostWakeup'
<1> USE DEF Shape, ClShape, QueueShape, Queues
<1>1. CASE Enqueue(r)
  <2>1. CASE UNCHANGED queue /\ cl[r] # "pushed" /\ cl' = [cl EXCEPT ![r] = "failed"]
    BY <1>1, <2>1 DEF Enqueue, NoLostWakeup
  <2>2. CASE cl' = [cl EXCEPT ![r] = "pushed"]
    BY <2>2 DEF NoLostWakeup
  <2> QED BY <1>1, <2>1, <2>2 DEF Enqueue, queued
<1>2. CASE Signal(r)
  BY <1>2 DEF Signal, Signalled, NoLostWakeup, queued
<1>3. ASSUME UNCHANGED <<queue, wk>>,
             \/ UNCHANGED cl
             \/ cl[r] # "pushed" /\ \E c \in Clients : cl' = [cl EXCEPT ![r] = c]
      PROVE  NoLostWakeup'
  BY <1>3 DEF NoLostWakeup
<1>4. CASE \/ AcquireEngineLease(r) \/ PrepareFails(r) \/ TakeResult(r) \/ Leave(r)
           \/ StreamEnds(r) \/ Embed(r) \/ EmbedEnds(r)
  <2>1. UNCHANGED <<queue, wk>> /\ cl[r] # "pushed" /\ \E c \in Clients : cl' = [cl EXCEPT ![r] = c]
    BY <1>4 DEF AcquireEngineLease, PrepareFails, TakeResult, Leave, StreamEnds, Embed, EmbedEnds,
                queued, Clients
  <2> QED BY <1>3, <2>1
<1>5. CASE Disconnect(r) \/ Tracker(r) \/ GenerationEnds(r) \/ RejectDrained(r)
  BY <1>3, <1>5 DEF Disconnect, Tracker, GenerationEnds, RejectDrained, queued
<1> QED BY <1>1, <1>2, <1>4, <1>5 DEF Client

(***************************************************************************)
(* Although the channel holds one signal only and a worker that dequeues   *)
(* does not pass it on, no request is left in an open queue with every     *)
(* worker asleep and no signal on its way (RequestQueue, workerLoop), for  *)
(* every number of workers and requests.                                   *)
(***************************************************************************)
THEOREM NoLostWakeupInvariant == Spec => []NoLostWakeup
<1>1. Init => NoLostWakeup
  BY DEF Init, NoLostWakeup
<1>2. ASSUME Shape, Busy, NoLostWakeup, [Next]_vars PROVE NoLostWakeup'
  <2> USE <1>2
  <2>1. ASSUME NEW w \in Workers, Dequeue(w) PROVE NoLostWakeup'
    <3>1. CASE ~queue.closed /\ wk'[w].pc # "asleep" /\ w \in Workers
      BY <3>1 DEF NoLostWakeup
    <3>2. CASE queue.heap = {} /\ UNCHANGED queue
      BY <3>2 DEF NoLostWakeup
    <3>3. CASE queue.closed /\ UNCHANGED queue
      BY <3>3 DEF NoLostWakeup
    <3> QED BY <2>1, <3>1, <3>2, <3>3 DEF Dequeue, queued, Shape, WkShape, WorkerRecs
  <2>2. ASSUME NEW w \in Workers, Wake(w) PROVE NoLostWakeup'
    BY <2>2 DEF Wake, NoLostWakeup, Shape, WkShape, WorkerRecs
  <2>3. ASSUME NEW w \in Workers, CheckRunning(w) \/ SubmitFails(w) \/ SubmitSucceeds(w)
        PROVE  NoLostWakeup'
    <3>1. wk'[w].pc \in {"idle", "submitting"}
      BY <2>3 DEF CheckRunning, SubmitFails, SubmitSucceeds, Rejected, Shape, WkShape, WorkerRecs
    <3> QED BY <3>1 DEF NoLostWakeup
  <2>4. CASE AdmStep
    BY <2>4, AdmFrame DEF NoLostWakeup, Shape
  <2>5. CASE CloseQueue
    BY <2>5 DEF CloseQueue, NoLostWakeup, Shape, QueueShape, Queues
  <2>6. CASE UNCHANGED vars
    BY <2>6 DEF vars, NoLostWakeup
  <2> QED BY <2>1, <2>2, <2>3, <2>4, <2>5, <2>6, WakeupRequest
          DEF Next, Worker, ShutdownRest, AdmStep
<1> QED BY <1>1, <1>2, ShapeInvariant, PTL DEF Spec

-----------------------------------------------------------------------------
(* The owners of the leases *)

\* LeaseHasOneOwner for one request.
OneOwner(r) ==
  /\ lease[r] # NoSlot <=> ClientOwns(r) \/ Pending(r) \/ r \in track
  /\ ~(ClientOwns(r) /\ (Pending(r) \/ r \in track)) /\ ~(Pending(r) /\ r \in track)
  /\ r \in queue.heap => r \notin adm.drained /\ \A w \in Workers : wk[w].cur # r
  /\ r \in adm.drained => \A w \in Workers : wk[w].cur # r
  /\ \A v, w \in Workers : wk[v].cur = r /\ wk[w].cur = r => v = w

\* Requests are drained under lifecycleMu, and a client leases once.
DrainedInReject == adm.pc # "reject" => adm.drained = {}
NewUnleased == \A r \in Requests : cl[r] = "new" => lease[r] = NoSlot

OwnerInv == LeaseHasOneOwner /\ DrainedInReject /\ NewUnleased

(***************************************************************************)
(* A request on which a step changes nothing that matters keeps its owner. *)
(***************************************************************************)
LEMMA OwnerKept ==
  ASSUME NEW q \in Requests, OneOwner(q),
         lease'[q] = lease[q], ClientOwns(q)' = ClientOwns(q), q \in queue'.heap <=> q \in queue.heap,
         q \in adm'.drained <=> q \in adm.drained, q \in track' <=> q \in track,
         \A w \in Workers : wk'[w].cur = q <=> wk[w].cur = q
  PROVE  OneOwner(q)'
<1>1. Pending(q)' <=> Pending(q)
  BY DEF Pending
<1> QED BY <1>1 DEF OneOwner

(***************************************************************************)
(* The steps of a client, its tracker and its generation keep the owners.  *)
(***************************************************************************)
LEMMA OwnerRequest ==
  ASSUME Shape, Busy, OwnerInv, NEW r \in Requests,
         \/ AcquireEngineLease(r) \/ Client(r) \/ Disconnect(r) \/ Tracker(r)
         \/ GenerationEnds(r) \/ RejectDrained(r),
         NEW q \in Requests
  PROVE  OneOwner(q)'
<1>0. /\ OneOwner(q)
      /\ lease \in [Requests -> Slots \cup {NoSlot}]
      /\ cl \in [Requests -> Clients]
      /\ cl[r] = "new" => lease[r] = NoSlot
  BY DEF OwnerInv, LeaseHasOneOwner, OneOwner, Shape, LeaseShape, ClShape, NewUnleased
<1>a. queue \in Queues /\ adm \in Adms
  BY DEF Shape, QueueShape, AdmShape
<1> USE <1>0, ServingAssumption
<1>1. CASE AcquireEngineLease(r)
  <2>1. CASE q # r
    BY <1>1, <2>1, OwnerKept DEF AcquireEngineLease, ClientOwns, queued
  <2>2. CASE q = r
    BY <1>1, <2>2 DEF AcquireEngineLease, Leasable, OneOwner, ClientOwns, Pending, queued,
       Shape, MdlShape, Models
  <2> QED BY <2>1, <2>2
<1>2. CASE PrepareFails(r) \/ EmbedEnds(r)
  <2>1. CASE q # r
    BY <1>2, <2>1, OwnerKept DEF PrepareFails, EmbedEnds, Release, ClientOwns, queued
  <2>2. CASE q = r
    BY <1>2, <2>2 DEF PrepareFails, EmbedEnds, Release, OneOwner, ClientOwns, Pending, queued
  <2> QED BY <2>1, <2>2
<1>3. CASE Enqueue(r)
  <2>1. CASE q # r
    BY <1>3, <1>a, <2>1, OwnerKept DEF Enqueue, Release, ClientOwns, queued, Queues
  <2>2. CASE q = r
    BY <1>3, <1>a, <2>2 DEF Enqueue, Release, OneOwner, ClientOwns, Pending, queued, Queues
  <2> QED BY <2>1, <2>2
<1>4. CASE Signal(r)
  BY <1>4, <1>a, OwnerKept DEF Signal, Signalled, ClientOwns, queued, models, Queues
<1>5. CASE TakeResult(r) \/ Leave(r) \/ StreamEnds(r) \/ Embed(r)
  BY <1>5, OwnerKept DEF TakeResult, Leave, StreamEnds, Embed, ClientOwns, queued, models
<1>6. CASE Disconnect(r) \/ GenerationEnds(r)
  BY <1>6, OwnerKept DEF Disconnect, GenerationEnds, ClientOwns, queued, models
<1>7. CASE Tracker(r)
  <2>1. CASE q # r
    BY <1>7, <2>1, OwnerKept DEF Tracker, Release, ClientOwns, queued
  <2>2. CASE q = r
    BY <1>7, <2>2 DEF Tracker, Release, OneOwner, ClientOwns, Pending, queued
  <2> QED BY <2>1, <2>2
<1>8. CASE RejectDrained(r)
  <2>1. CASE q # r
    BY <1>8, <1>a, <2>1, OwnerKept DEF RejectDrained, Release, ClientOwns, queued, Adms
  <2>2. CASE q = r
    BY <1>8, <1>a, <2>2 DEF RejectDrained, Release, OneOwner, ClientOwns, Pending, queued, Adms
  <2> QED BY <2>1, <2>2
<1> QED BY <1>1, <1>2, <1>3, <1>4, <1>5, <1>6, <1>7, <1>8 DEF Client

(***************************************************************************)
(* workerLoop takes a request over from the queue and passes it on to the  *)
(* tracker, or releases it.                                                *)
(***************************************************************************)
LEMMA OwnerWorker ==
  ASSUME Shape, Busy, OwnerInv, NEW w \in Workers, Worker(w), NEW q \in Requests
  PROVE  OneOwner(q)'
<1>0. /\ OneOwner(q)
      /\ lease \in [Requests -> Slots \cup {NoSlot}]
      /\ wk \in [Workers -> WorkerRecs]
      /\ queue \in Queues
      /\ wk[w].cur # NoReq <=> wk[w].pc \in {"picked", "submitting"}
      /\ wk[w].cur \in Requests \cup {NoReq}
  BY DEF OwnerInv, LeaseHasOneOwner, OneOwner, Shape, LeaseShape, WkShape, WorkerRecs,
     QueueShape, Busy
<1> USE <1>0, ServingAssumption
<1>1. CASE Dequeue(w)
  <2>1. CASE UNCHANGED queue /\ \A v \in Workers : wk'[v].cur = wk[v].cur
    BY <1>1, <2>1, OwnerKept DEF Dequeue, ClientOwns, models
  <2>2. ASSUME NEW r \in queue.heap, wk[w].pc = "idle",
               queue' = [queue EXCEPT !.heap = @ \ {r}],
               wk' = [wk EXCEPT ![w] = [pc |-> "picked", cur |-> r, experts |-> ExpertCluster[r]]]
        PROVE  OneOwner(q)'
    <3>1. CASE q # r
      BY <1>1, <2>2, <3>1, OwnerKept DEF Dequeue, ClientOwns, models, Queues
    <3>2. CASE q = r
      <4>1. Pending(q) /\ Pending(q)'
        BY <2>2, <3>2 DEF Pending
      <4>2. /\ q \notin queue'.heap /\ q \notin adm'.drained
            /\ \A v \in Workers : wk'[v].cur = q => v = w
        BY <1>1, <2>2, <3>2 DEF Dequeue, OneOwner, Queues
      <4> QED BY <1>1, <4>1, <4>2 DEF Dequeue, OneOwner, ClientOwns, models
    <3> QED BY <3>1, <3>2
  <2> QED BY <1>1, <2>1, <2>2 DEF Dequeue, queued, WorkerRecs
<1>2. CASE Wake(w)
  <2>1. \A v \in Workers : wk'[v].cur = wk[v].cur
    BY <1>2 DEF Wake, WorkerRecs
  <2> QED BY <1>2, <2>1, OwnerKept DEF Wake, ClientOwns, models, Queues
<1>3. CASE CheckRunning(w) /\ wk' = [wk EXCEPT ![w].pc = "submitting"] /\ UNCHANGED lease
  <2>1. \A v \in Workers : wk'[v].cur = wk[v].cur
    BY <1>3 DEF WorkerRecs
  <2> QED BY <1>3, <2>1, OwnerKept DEF CheckRunning, ClientOwns, queued
<1>4. CASE (CheckRunning(w) \/ SubmitFails(w)) /\ Rejected(w)
  <2>1. /\ wk[w].cur \in Requests
        /\ \A v \in Workers : wk'[v].cur = IF v = w THEN NoReq ELSE wk[v].cur
    BY <1>4 DEF Rejected, CheckRunning, SubmitFails, WorkerRecs
  <2>2. CASE q # wk[w].cur
    BY <1>4, <2>1, <2>2, OwnerKept
       DEF CheckRunning, SubmitFails, Rejected, Release, ClientOwns, queued
  <2>3. CASE q = wk[w].cur
    BY <1>4, <2>1, <2>3
       DEF CheckRunning, SubmitFails, Rejected, Release, ClientOwns, queued, OneOwner, Pending
  <2> QED BY <2>2, <2>3
<1>5. CASE SubmitSucceeds(w)
  <2>1. /\ wk[w].cur \in Requests
        /\ \A v \in Workers : wk'[v].cur = IF v = w THEN NoReq ELSE wk[v].cur
    BY <1>5 DEF SubmitSucceeds, WorkerRecs
  <2>2. CASE q # wk[w].cur
    BY <1>5, <2>1, <2>2, OwnerKept DEF SubmitSucceeds, ClientOwns, queued
  <2>3. CASE q = wk[w].cur
    BY <1>5, <2>1, <2>3 DEF SubmitSucceeds, ClientOwns, queued, OneOwner, Pending
  <2> QED BY <2>2, <2>3
<1> QED BY <1>1, <1>2, <1>3, <1>4, <1>5 DEF Worker, CheckRunning, SubmitFails

(***************************************************************************)
(* The parts of OwnerInv that are about drained and new requests.          *)
(***************************************************************************)
LEMMA DrainedStep ==
  ASSUME Shape, Busy, OwnerInv, [Next]_vars
  PROVE  DrainedInReject' /\ NewUnleased'
<1> USE DEF OwnerInv, DrainedInReject, NewUnleased
<1>0. adm \in Adms /\ cl \in [Requests -> Clients] /\ lease \in [Requests -> Slots \cup {NoSlot}]
  BY DEF Shape, AdmShape, ClShape, LeaseShape
<1>1. ASSUME NEW r \in Requests,
             \/ AcquireEngineLease(r) \/ Client(r) \/ Disconnect(r) \/ Tracker(r)
             \/ GenerationEnds(r) \/ RejectDrained(r)
      PROVE  DrainedInReject' /\ NewUnleased'
  <2>1. NewUnleased'
    <3>1. \A q \in Requests : cl'[q] = "new" => cl[q] = "new" /\ (q # r \/ ~AcquireEngineLease(r))
      BY <1>0, <1>1 DEF AcquireEngineLease, Client, Disconnect, Tracker, GenerationEnds,
         RejectDrained,
              PrepareFails, Enqueue, Signal, TakeResult, Leave, StreamEnds, Embed, EmbedEnds
    <3>2. \A q \in Requests : lease'[q] = lease[q] \/ lease'[q] = NoSlot
                              \/ (q = r /\ AcquireEngineLease(r))
      BY <1>0, <1>1 DEF AcquireEngineLease, Client, Disconnect, Tracker, GenerationEnds,
         RejectDrained,
              PrepareFails, Enqueue, Signal, TakeResult, Leave, StreamEnds, Embed, EmbedEnds,
              models, Release
    <3> QED BY <3>1, <3>2
  <2>2. DrainedInReject'
    <3>1. CASE RejectDrained(r)
      BY <1>0, <3>1 DEF RejectDrained, At, Adms
    <3>2. CASE UNCHANGED adm
      BY <3>2
    <3> QED BY <1>1, <3>1, <3>2 DEF AcquireEngineLease, Client, Disconnect, Tracker, GenerationEnds,
              PrepareFails, Enqueue, Signal, TakeResult, Leave, StreamEnds, Embed, EmbedEnds
  <2> QED BY <2>1, <2>2
<1>2. ASSUME NEW w \in Workers, Worker(w) PROVE DrainedInReject' /\ NewUnleased'
  <2>1. UNCHANGED <<adm, cl>>
    BY <1>2 DEF Worker, Dequeue, Wake, CheckRunning, SubmitFails, SubmitSucceeds
  <2>2. \A q \in Requests : lease'[q] = lease[q] \/ lease'[q] = NoSlot
    BY <1>0, <1>2 DEF Worker, Dequeue, Wake, CheckRunning, SubmitFails, SubmitSucceeds,
       Rejected, Release
  <2> QED BY <2>1, <2>2
<1>3. CASE AdmStep
  <2>1. UNCHANGED <<lease, cl>> /\ adm'.drained = adm.drained
    BY <1>3, AdmFrame DEF Shape
  <2>2. CASE adm.pc # "reject"
    BY <2>1, <2>2
  <2>3. CASE RejectDone
    BY <2>1, <2>3 DEF RejectDone
  <2>4. CASE \E s \in Slots : CloseLate(s)
    BY <1>0, <2>1, <2>4 DEF CloseLate, Adms
  <2>5. adm.pc = "reject" => RejectDone \/ \E s \in Slots : CloseLate(s)
    BY <1>3 DEF AdmStep, LoadRest, At, LoadModel, CreateBlueGreen, Swap, ForceDetach, CreateForce,
                Install, LoadReady, CloseEngineSlot, BeginEngineShutdown, DrainEngine, EngineDrained,
                HTTPDrained, StopPool, JoinWorkers, JoinTrackers, JoinTimeout, Unload, CloseTimeout,
                UnloadIdle
  <2> QED BY <2>2, <2>3, <2>4, <2>5
<1>4. CASE CloseQueue
  BY <1>0, <1>4 DEF CloseQueue, At, Adms, models
<1>5. CASE UNCHANGED vars
  BY <1>5 DEF vars
<1> HIDE DEF OwnerInv, DrainedInReject, NewUnleased
<1> QED BY <1>1, <1>2, <1>3, <1>4, <1>5 DEF Next, ShutdownRest, AdmStep

(***************************************************************************)
(* OwnerInv is an invariant: a lease is held exactly as long as one, and   *)
(* only one, goroutine is left to release it (ChatService, workerLoop and  *)
(* its tracker, StopAndWait).                                              *)
(***************************************************************************)
LEMMA OwnerInvariant == Spec => []OwnerInv
<1>1. Init => OwnerInv
  BY ServingAssumption DEF Init, OwnerInv, LeaseHasOneOwner, DrainedInReject, NewUnleased,
                           ClientOwns, Pending
<1>2. ASSUME Shape, Busy, OwnerInv, [Next]_vars PROVE OwnerInv'
  <2> USE <1>2
  <2>1. ASSUME NEW q \in Requests PROVE OneOwner(q)'
    <3>0. OneOwner(q)
      BY DEF OwnerInv, LeaseHasOneOwner, OneOwner
    <3>1. CASE AdmStep
      BY <3>0, <3>1, AdmFrame, OwnerKept DEF Shape, ClientOwns
    <3>2. CASE CloseQueue
      <4>1. queue'.heap = {} /\ adm'.drained = queue.heap /\ UNCHANGED <<lease, cl, wk, track>>
        BY <3>2 DEF CloseQueue, LeftInHeap, Shape, QueueShape, Queues, AdmShape, Adms
      <4>2. adm.drained = {}
        BY <3>2 DEF OwnerInv, DrainedInReject, CloseQueue, At
      <4> QED BY <3>0, <4>1, <4>2 DEF OneOwner, ClientOwns, Pending
    <3>3. CASE UNCHANGED vars
      BY <3>0, <3>3, OwnerKept DEF vars, ClientOwns
    <3> QED BY <3>1, <3>2, <3>3, OwnerRequest, OwnerWorker DEF Next, ShutdownRest, AdmStep
  <2>2. LeaseHasOneOwner'
    BY <2>1 DEF LeaseHasOneOwner, OneOwner
  <2> QED BY <2>2, DrainedStep DEF OwnerInv
<1> QED BY <1>1, <1>2, ShapeInvariant, PTL DEF Spec

(***************************************************************************)
(* No path through client, queue, worker, tracker and StopAndWait leaks a  *)
(* lease or releases one that somebody else still uses.                    *)
(***************************************************************************)
THEOREM LeaseHasOneOwnerInvariant == Spec => []LeaseHasOneOwner
  BY OwnerInvariant, PTL DEF OwnerInv

-----------------------------------------------------------------------------
(* The answers *)

\* AnsweredOnce for one request, and before the queue has it.
OneAnswer(r) ==
  /\ Pending(r) => result[r] = "empty"
  /\ cl[r] \in {"pushed", "waiting", "panicked"} /\ ~Pending(r) => result[r] # "empty"
  /\ cl[r] \in {"new", "leased"} => result[r] = "empty"

AnswerInv == \A r \in Requests : OneAnswer(r)

(***************************************************************************)
(* A request that only moves from one place in the queue to another, or    *)
(* whose client leaves, keeps its answer.                                  *)
(***************************************************************************)
LEMMA AnswerKept ==
  ASSUME NEW q \in Requests, OneAnswer(q), result'[q] = result[q],
         Pending(q)' <=> Pending(q),
         \/ cl'[q] \in {cl[q], "failed", "left", "served", "streaming", "embedding"}
         \/ cl[q] = "new" /\ cl'[q] = "leased"
         \/ cl[q] = "pushed" /\ cl'[q] \in {"waiting", "panicked"}
  PROVE  OneAnswer(q)'
  BY DEF OneAnswer

(***************************************************************************)
(* The steps of a client, its tracker and its generation, and the          *)
(* rejection by StopAndWait, keep the answers.                             *)
(***************************************************************************)
LEMMA AnswerRequest ==
  ASSUME Shape, Busy, OwnerInv, AnswerInv, NEW r \in Requests,
         \/ AcquireEngineLease(r) \/ Client(r) \/ Disconnect(r) \/ Tracker(r)
         \/ GenerationEnds(r) \/ RejectDrained(r),
         NEW q \in Requests
  PROVE  OneAnswer(q)'
<1>0. /\ OneOwner(q) /\ OneAnswer(q)
      /\ cl \in [Requests -> Clients] /\ result \in [Requests -> Answers]
      /\ queue \in Queues /\ adm \in Adms
      /\ cl[q] = "new" => lease[q] = NoSlot
  BY DEF OwnerInv, LeaseHasOneOwner, OneOwner, AnswerInv, Shape, ClShape, ResultShape,
         QueueShape, AdmShape, NewUnleased
<1> USE <1>0
<1>1. CASE Enqueue(r)
  <2>1. CASE UNCHANGED queue /\ cl' = [cl EXCEPT ![r] = "failed"]
    BY <1>1, <2>1, AnswerKept DEF Enqueue, Pending
  <2>2. CASE queue' = [queue EXCEPT !.heap = @ \cup {r}] /\ cl' = [cl EXCEPT ![r] = "pushed"]
    <3>1. CASE q # r
      BY <1>1, <2>2, <3>1, AnswerKept DEF Enqueue, Pending, Queues
    <3>2. CASE q = r
      BY <1>1, <2>2, <3>2 DEF Enqueue, OneAnswer, Pending, Queues
    <3> QED BY <3>1, <3>2
  <2> QED BY <1>1, <2>1, <2>2 DEF Enqueue, queued
<1>2. CASE Signal(r)
  <2>1. Pending(q)' <=> Pending(q)
    BY <1>2 DEF Signal, Signalled, Pending, queued, Queues
  <2> QED BY <1>2, <2>1, AnswerKept DEF Signal
<1>3. CASE \/ AcquireEngineLease(r) \/ PrepareFails(r) \/ TakeResult(r) \/ Disconnect(r)
           \/ Leave(r) \/ StreamEnds(r) \/ Embed(r) \/ EmbedEnds(r) \/ Tracker(r)
           \/ GenerationEnds(r)
  <2>1. Pending(q)' <=> Pending(q)
    BY <1>3 DEF AcquireEngineLease, PrepareFails, TakeResult, Disconnect, Leave, StreamEnds, Embed,
                EmbedEnds, Tracker, GenerationEnds, Pending, queued
  <2> QED BY <1>3, <2>1, AnswerKept
          DEF AcquireEngineLease, PrepareFails, TakeResult, Disconnect, Leave, StreamEnds, Embed,
              EmbedEnds, Tracker, GenerationEnds
<1>4. CASE RejectDrained(r)
  <2>1. CASE q # r
    BY <1>4, <2>1, AnswerKept DEF RejectDrained, Reply, Pending, queued, Adms
  <2>2. CASE q = r
    <3>1. ~Pending(q)' /\ lease[q] # NoSlot /\ ~ClientOwns(q)
      BY <1>4, <2>2 DEF RejectDrained, Pending, OneOwner, queued, Adms
    <3>2. result'[q] # "empty"
      BY <1>4, <2>2 DEF RejectDrained, Reply
    <3> QED BY <1>4, <3>1, <3>2 DEF RejectDrained, OneAnswer, ClientOwns
  <2> QED BY <2>1, <2>2
<1> QED BY <1>1, <1>2, <1>3, <1>4 DEF Client

(***************************************************************************)
(* workerLoop answers the request it puts down, and no other one.          *)
(***************************************************************************)
LEMMA AnswerWorker ==
  ASSUME Shape, Busy, OwnerInv, AnswerInv, NEW w \in Workers, Worker(w), NEW q \in Requests
  PROVE  OneAnswer(q)'
<1>0. /\ OneOwner(q) /\ OneAnswer(q)
      /\ wk \in [Workers -> WorkerRecs] /\ result \in [Requests -> Answers]
      /\ queue \in Queues
      /\ wk[w].cur # NoReq <=> wk[w].pc \in {"picked", "submitting"}
      /\ wk[w].cur \in Requests \cup {NoReq}
      /\ cl[q] = "new" => lease[q] = NoSlot
  BY DEF OwnerInv, LeaseHasOneOwner, OneOwner, AnswerInv, Shape, WkShape, WorkerRecs, ResultShape,
         QueueShape, NewUnleased, Busy
<1>u. cl' = cl /\ adm' = adm
  BY DEF Worker, Dequeue, Wake, CheckRunning, SubmitFails, SubmitSucceeds
<1> USE <1>0, <1>u, ServingAssumption
<1>1. CASE Dequeue(w)
  <2>1. CASE UNCHANGED queue /\ \A v \in Workers : wk'[v].cur = wk[v].cur
    BY <1>1, <2>1, AnswerKept DEF Dequeue, Pending
  <2>2. ASSUME NEW r \in queue.heap, wk[w].pc = "idle",
               queue' = [queue EXCEPT !.heap = @ \ {r}],
               wk' = [wk EXCEPT ![w] = [pc |-> "picked", cur |-> r, experts |-> ExpertCluster[r]]]
        PROVE  OneAnswer(q)'
    <3>1. Pending(q)' <=> Pending(q)
      <4>1. CASE q = r
        BY <2>2, <4>1 DEF Pending
      <4>2. CASE q # r
        BY <2>2, <4>2 DEF Pending, Queues
      <4> QED BY <4>1, <4>2
    <3> QED BY <1>1, <3>1, AnswerKept DEF Dequeue
  <2> QED BY <1>1, <2>1, <2>2 DEF Dequeue, queued, WorkerRecs
<1>2. CASE \/ Wake(w)
           \/ CheckRunning(w) /\ wk' = [wk EXCEPT ![w].pc = "submitting"] /\ UNCHANGED result
  <2>1. (\A v \in Workers : wk'[v].cur = wk[v].cur) /\ queue'.heap = queue.heap
    BY <1>2 DEF Wake, CheckRunning, queued, WorkerRecs, Queues
  <2>2. Pending(q)' <=> Pending(q)
    BY <2>1 DEF Pending
  <2> QED BY <1>2, <2>2, AnswerKept DEF Wake, CheckRunning
<1>3. CASE \/ SubmitSucceeds(w)
           \/ (CheckRunning(w) \/ SubmitFails(w)) /\ Rejected(w)
  <2>1. /\ wk[w].cur \in Requests
        /\ \A v \in Workers : wk'[v].cur = IF v = w THEN NoReq ELSE wk[v].cur
    BY <1>3 DEF Rejected, CheckRunning, SubmitFails, SubmitSucceeds, WorkerRecs
  <2>2. queue' = queue
    BY <1>3 DEF CheckRunning, SubmitFails, SubmitSucceeds, queued
  <2>3. Reply(wk[w].cur, "err") \/ Reply(wk[w].cur, "gen")
    BY <1>3 DEF Rejected, SubmitSucceeds
  <2>4. CASE q # wk[w].cur
    BY <2>1, <2>2, <2>3, <2>4, AnswerKept DEF Reply, Pending
  <2>5. CASE q = wk[w].cur
    <3>1. ~Pending(q)' /\ lease[q] # NoSlot /\ ~ClientOwns(q)
      BY <2>1, <2>2, <2>5 DEF Pending, OneOwner
    <3>2. result'[q] # "empty"
      BY <2>3, <2>5 DEF Reply
    <3> QED BY <3>1, <3>2 DEF OneAnswer, ClientOwns
  <2> QED BY <2>4, <2>5
<1>4. CheckRunning(w) => \/ wk' = [wk EXCEPT ![w].pc = "submitting"] /\ UNCHANGED result
                         \/ Rejected(w)
  BY DEF CheckRunning
<1>5. SubmitFails(w) => Rejected(w)
  BY DEF SubmitFails
<1> QED BY <1>1, <1>2, <1>3, <1>4, <1>5 DEF Worker

(***************************************************************************)
(* The answers are an invariant, given the owners.                         *)
(***************************************************************************)
LEMMA AnswerInvariant == Spec => []AnswerInv
<1>1. Init => AnswerInv
  BY ServingAssumption DEF Init, AnswerInv, OneAnswer, Pending
<1>2. ASSUME Shape, Busy, OwnerInv, AnswerInv, [Next]_vars PROVE AnswerInv'
  <2> USE <1>2
  <2>1. ASSUME NEW q \in Requests PROVE OneAnswer(q)'
    <3>0. OneAnswer(q)
      BY DEF AnswerInv
    <3>1. CASE AdmStep
      BY <3>0, <3>1, AdmFrame, AnswerKept DEF Shape, Pending
    <3>2. CASE CloseQueue
      <4>1. queue'.heap = {} /\ adm'.drained = queue.heap /\ UNCHANGED <<result, cl, wk>>
        BY <3>2 DEF CloseQueue, LeftInHeap, Shape, QueueShape, Queues, AdmShape, Adms
      <4>2. adm.drained = {}
        BY <3>2 DEF OwnerInv, DrainedInReject, CloseQueue, At
      <4>3. Pending(q)' <=> Pending(q)
        BY <4>1, <4>2 DEF Pending
      <4> QED BY <3>0, <4>1, <4>3, AnswerKept
    <3>3. CASE UNCHANGED vars
      BY <3>0, <3>3, AnswerKept DEF vars, Pending
    <3> QED BY <3>1, <3>2, <3>3, AnswerRequest, AnswerWorker DEF Next, ShutdownRest, AdmStep
  <2> QED BY <2>1 DEF AnswerInv
<1> QED BY <1>1, <1>2, ShapeInvariant, OwnerInvariant, PTL DEF Spec

(***************************************************************************)
(* Every request the queue has taken is answered exactly once, whether by  *)
(* a worker or by StopAndWait, and no answer finds ResultChan full.        *)
(***************************************************************************)
THEOREM AnsweredOnceInvariant == Spec => []AnsweredOnce
<1>1. AnswerInv => AnsweredOnce
  BY DEF AnswerInv, OneAnswer, AnsweredOnce
<1> QED BY <1>1, AnswerInvariant, PTL

-----------------------------------------------------------------------------
(* The reference counts *)

(***************************************************************************)
(* AcquireEngineLease counts the lease it gives.                           *)
(***************************************************************************)
LEMMA AcquireCounts ==
  ASSUME Shape, NewUnleased, RefsCountLeases, NEW r \in Requests, AcquireEngineLease(r)
  PROVE  RefsCountLeases'
<1> USE ServingAssumption DEF Shape, LeaseShape, SlotShape, SlotRecs, MdlShape, Models
<1>1. CASE UNCHANGED <<lease, slot>>
  BY <1>1 DEF RefsCountLeases
<1>2. CASE Leasable /\ lease' = [lease EXCEPT ![r] = mdl.current]
                    /\ slot' = [slot EXCEPT ![mdl.current].refs = @ + 1]
  <2>1. mdl.current \in Slots /\ lease[r] = NoSlot
    BY <1>2 DEF Leasable, AcquireEngineLease, NewUnleased
  <2>2. ASSUME NEW s \in Slots
        PROVE  slot'[s].refs = Cardinality({q \in Requests : lease'[q] = s})
    <3> DEFINE L == {q \in Requests : lease[q] = s}
               M == {q \in Requests : lease'[q] = s}
    <3>1. slot[s].refs = Cardinality(L)
      BY DEF RefsCountLeases
    <3>2. IsFiniteSet(L) /\ r \notin L
      BY <2>1, FS_Subset
    <3>3. CASE s = mdl.current
      <4>1. M = L \cup {r}
        BY <1>2, <3>3
      <4>2. Cardinality(M) = Cardinality(L) + 1
        BY <3>2, <4>1, FS_AddElement
      <4>3. slot'[s].refs = slot[s].refs + 1
        BY <1>2, <2>1, <3>3
      <4> QED BY <3>1, <4>2, <4>3
    <3>4. CASE s # mdl.current
      <4>1. M = L
        BY <1>2, <2>1, <3>4
      <4>2. slot'[s].refs = slot[s].refs
        BY <1>2, <2>1, <3>4
      <4> QED BY <3>1, <4>1, <4>2
    <3> QED BY <3>3, <3>4
  <2> QED BY <2>2 DEF RefsCountLeases
<1> QED BY <1>1, <1>2 DEF AcquireEngineLease

(***************************************************************************)
(* engineLease.Close gives back one count, once.                           *)
(***************************************************************************)
LEMMA ReleaseCounts ==
  ASSUME Shape, RefsCountLeases, NEW r \in Requests, Release(r)
  PROVE  RefsCountLeases'
<1> USE ServingAssumption DEF Shape, LeaseShape, SlotShape, SlotRecs
<1>1. CASE lease[r] = NoSlot
  <2>1. slot' = slot /\ lease' = lease
    BY <1>1 DEF Release
  <2> QED BY <2>1 DEF RefsCountLeases
<1>2. CASE lease[r] # NoSlot
  <2>1. ASSUME NEW s \in Slots
        PROVE  slot'[s].refs = Cardinality({q \in Requests : lease'[q] = s})
    <3> DEFINE L == {q \in Requests : lease[q] = s}
               M == {q \in Requests : lease'[q] = s}
    <3>1. slot[s].refs = Cardinality(L)
      BY DEF RefsCountLeases
    <3>2. IsFiniteSet(L)
      BY FS_Subset
    <3>3. CASE s = lease[r]
      <4>1. M = L \ {r} /\ r \in L
        BY <3>3 DEF Release
      <4>2. Cardinality(M) = Cardinality(L) - 1
        <5> HIDE DEF L, M
        <5> QED BY <3>2, <4>1, FS_RemoveElement
      <4>3. slot'[s].refs = slot[s].refs - 1
        BY <1>2, <3>3 DEF Release
      <4> QED BY <3>1, <4>2, <4>3
    <3>4. CASE s # lease[r]
      <4>1. M = L
        BY <3>4 DEF Release
      <4>2. slot'[s].refs = slot[s].refs
        BY <1>2, <3>4 DEF Release
      <4> QED BY <3>1, <4>1, <4>2
    <3> QED BY <3>3, <3>4
  <2> QED BY <2>1 DEF RefsCountLeases
<1> QED BY <1>1, <1>2

(***************************************************************************)
(* The count on which closeEngineSlot waits is the number of leases.       *)
(***************************************************************************)
LEMMA RefsInvariant == Spec => []RefsCountLeases
<1>1. Init => RefsCountLeases
  <2> SUFFICES ASSUME Init, NEW s \in Slots
               PROVE  slot[s].refs = Cardinality({r \in Requests : lease[r] = s})
    BY DEF RefsCountLeases
  <2>1. {r \in Requests : lease[r] = s} = {}
    BY ServingAssumption DEF Init
  <2> QED BY <2>1, FS_EmptySet DEF Init
<1>2. ASSUME Shape, Busy, OwnerInv, RefsCountLeases, [Next]_vars PROVE RefsCountLeases'
  <2> USE <1>2
  <2>0. ASSUME UNCHANGED lease, \A s \in Slots : slot'[s].refs = slot[s].refs
        PROVE  RefsCountLeases'
    BY <2>0 DEF RefsCountLeases
  <2>1. ASSUME NEW r \in Requests, AcquireEngineLease(r) PROVE RefsCountLeases'
    BY <2>1, AcquireCounts DEF OwnerInv
  <2>2. ASSUME NEW r \in Requests,
               PrepareFails(r) \/ EmbedEnds(r) \/ Tracker(r) \/ RejectDrained(r)
        PROVE  RefsCountLeases'
    BY <2>2, ReleaseCounts DEF PrepareFails, EmbedEnds, Tracker, RejectDrained
  <2>3. ASSUME NEW r \in Requests, Enqueue(r) PROVE RefsCountLeases'
    BY <2>0, <2>3, ReleaseCounts DEF Enqueue
  <2>4. ASSUME NEW r \in Requests,
               \/ Signal(r) \/ TakeResult(r) \/ Leave(r) \/ StreamEnds(r) \/ Embed(r)
               \/ Disconnect(r) \/ GenerationEnds(r)
        PROVE  RefsCountLeases'
    BY <2>0, <2>4 DEF Signal, TakeResult, Leave, StreamEnds, Embed, Disconnect, GenerationEnds,
       models
  <2>5. ASSUME NEW w \in Workers, Worker(w) PROVE RefsCountLeases'
    <3>1. CASE UNCHANGED <<lease, slot>>
      BY <2>0, <3>1
    <3>2. CASE (CheckRunning(w) \/ SubmitFails(w)) /\ Rejected(w)
      <4>1. wk[w].cur \in Requests
        BY <3>2 DEF CheckRunning, SubmitFails, Busy, Shape, WkShape, WorkerRecs
      <4> QED BY <3>2, <4>1, ReleaseCounts DEF Rejected
    <3>3. CheckRunning(w) => UNCHANGED <<lease, slot>> \/ Rejected(w)
      BY DEF CheckRunning
    <3>4. SubmitFails(w) => Rejected(w)
      BY DEF SubmitFails
    <3>5. Dequeue(w) \/ Wake(w) \/ SubmitSucceeds(w) => UNCHANGED <<lease, slot>>
      BY DEF Dequeue, Wake, SubmitSucceeds, models
    <3> QED BY <2>5, <3>1, <3>2, <3>3, <3>4, <3>5 DEF Worker
  <2>6. CASE AdmStep \/ CloseQueue
    <3>1. UNCHANGED lease
      BY <2>6, AdmFrame DEF CloseQueue, Shape
    <3>2. UNCHANGED slot \/ slot' = [slot EXCEPT ![mdl.current].closing = TRUE]
      BY <2>6 DEF AdmStep, LoadRest, LoadModel, CreateBlueGreen, Swap, ForceDetach, CreateForce,
                  Install, LoadReady, CloseEngineSlot, BeginEngineShutdown, DrainEngine,
                  EngineDrained, HTTPDrained, StopPool, RejectDone, JoinWorkers, JoinTrackers,
                  JoinTimeout, Unload, CloseTimeout, UnloadIdle, CloseLate, CloseQueue, Detach, models
    <3>3. \A s \in Slots : slot'[s].refs = slot[s].refs
      BY <3>2 DEF Shape, SlotShape, SlotRecs
    <3> QED BY <2>0, <3>1, <3>3
  <2>7. CASE UNCHANGED vars
    BY <2>0, <2>7 DEF vars
  <2> QED BY <2>1, <2>2, <2>3, <2>4, <2>5, <2>6, <2>7 DEF Next, Client, ShutdownRest, AdmStep
<1> QED BY <1>1, <1>2, ShapeInvariant, OwnerInvariant, PTL DEF Spec

-----------------------------------------------------------------------------
(* The queue *)

\* The requests whose context is cancelled, the bounded heap of RequestQueue
\* and the times at which its requests were queued, which have a latest one.
GoneShape == gone \subseteq Requests
HeapBounded == Cardinality(queue.heap) <= MaxSize
StampShape == stamp \in [Requests -> Nat] /\ \E t \in Nat : \A r \in Requests : stamp[r] <= t

QueuedInv == GoneShape /\ HeapBounded /\ StampShape

(***************************************************************************)
(* A set of naturals with an upper bound has its maximum among its members *)
(* (the least upper bound is one of them).                                 *)
(***************************************************************************)
LEMMA MaxInSet ==
  ASSUME NEW S \in SUBSET Nat, 0 \in S, NEW t \in Nat, \A n \in S : n <= t
  PROVE  Max(S) \in S
<1> DEFINE Bounds == {n \in Nat : \A k \in S : k <= n}
<1>1. t \in Bounds
  OBVIOUS
<1>2. PICK m \in Bounds : \A n \in Bounds : <<n, m>> \notin OpToRel(<, Nat)
  <2>1. Bounds \subseteq Nat /\ Bounds # {}
    BY <1>1
  <2> HIDE DEF Bounds
  <2> QED BY <2>1, WFMin, NatLessThanWellFounded
<1>3. \A n \in Bounds : ~(n < m)
  <2> SUFFICES ASSUME NEW n \in Bounds, n < m PROVE FALSE
    OBVIOUS
  <2>1. <<n, m>> \in Nat \X Nat
    OBVIOUS
  <2>2. <<n, m>> \in OpToRel(<, Nat)
    BY <2>1 DEF OpToRel
  <2> QED BY <1>2, <2>2
<1>4. m \in S
  <2> SUFFICES ASSUME m \notin S PROVE FALSE
    OBVIOUS
  <2>1. m \in Nat /\ \A k \in S : k <= m /\ k # m /\ k \in Nat
    BY <1>2
  <2>2. m > 0
    BY <2>1
  <2>3. PICK p \in Nat : m = p + 1
    <3>1. m - 1 \in Nat /\ m = (m - 1) + 1
      BY <2>1, <2>2
    <3> QED BY <3>1
  <2>4. \A k \in S : k <= p
    BY <2>1, <2>3
  <2>5. p \in Bounds
    BY <2>4
  <2>6. p < m
    BY <2>3
  <2> QED BY <1>3, <2>5, <2>6
<1>5. m \in S /\ \A k \in S : m >= k
  BY <1>2, <1>4
<1> QED BY <1>5 DEF Max

(***************************************************************************)
(* EnqueueTime is a later time than every one in the queue.                *)
(***************************************************************************)
LEMMA NowIsTime ==
  ASSUME QueueShape, StampShape
  PROVE  Now \in Nat
<1> DEFINE S == {0} \cup {stamp[q] : q \in queue.heap}
<1>1. PICK t \in Nat : \A r \in Requests : stamp[r] <= t
  BY DEF StampShape
<1>2. S \in SUBSET Nat /\ 0 \in S /\ \A n \in S : n <= t
  BY <1>1 DEF StampShape, QueueShape, Queues
<1> HIDE DEF S
<1>3. Max(S) \in Nat
  BY <1>2, MaxInSet
<1>4. Now = 1 + Max(S)
  BY DEF Now, S
<1> QED BY <1>3, <1>4

(***************************************************************************)
(* Only a request changes the contexts; only Enqueue, Dequeue and Close    *)
(* change the heap and its times.                                          *)
(***************************************************************************)
LEMMA QueuedStep ==
  ASSUME Shape, QueuedInv, [Next]_vars
  PROVE  QueuedInv'
<1> USE DEF Shape, QueuedInv
<1>0. IsFiniteSet(queue.heap)
  BY ServingAssumption, FS_Subset DEF QueueShape, Queues
<1>1. ASSUME UNCHANGED queued, GoneShape' PROVE QueuedInv'
  BY <1>1 DEF queued, HeapBounded, StampShape
<1>2. ASSUME NEW r \in Requests, Enqueue(r) PROVE QueuedInv'
  <2>1. GoneShape'
    BY <1>2 DEF Enqueue, GoneShape
  <2>2. CASE UNCHANGED queued
    BY <1>1, <2>1, <2>2
  <2>3. CASE HasRoom /\ queue' = [queue EXCEPT !.heap = @ \cup {r}]
             /\ stamp' = [stamp EXCEPT ![r] = Now]
    <3>1. queue'.heap = queue.heap \cup {r}
      BY <2>3 DEF QueueShape, Queues
    <3>2. Cardinality(queue.heap) \in Nat
      BY <1>0, FS_CardinalityType
    <3>3. Cardinality(queue.heap \cup {r}) <= Cardinality(queue.heap) + 1
      BY <1>0, <3>2, FS_AddElement
    <3>4. Cardinality(queue.heap \cup {r}) \in Nat
      BY <1>0, FS_AddElement, FS_CardinalityType
    <3>5. HeapBounded'
      BY <2>3, <3>1, <3>2, <3>3, <3>4, ServingAssumption DEF HasRoom, HeapBounded
    <3>6. PICK now \in Nat : now = Now
      BY NowIsTime
    <3>7. PICK t \in Nat : \A q \in Requests : stamp[q] <= t
      BY DEF StampShape
    <3>8. stamp' = [stamp EXCEPT ![r] = now]
      BY <2>3, <3>6
    <3>9. stamp' \in [Requests -> Nat]
      BY <3>6, <3>8 DEF StampShape
    <3>10. \A q \in Requests : stamp'[q] <= t + now
      BY <3>6, <3>7, <3>8 DEF StampShape
    <3>11. StampShape'
      BY <3>6, <3>7, <3>9, <3>10 DEF StampShape
    <3> QED BY <2>1, <3>5, <3>11
  <2> QED BY <1>2, <2>2, <2>3 DEF Enqueue
<1>3. ASSUME NEW r \in Requests, Signal(r) PROVE QueuedInv'
  <2>1. GoneShape'
    BY <1>3 DEF Signal, GoneShape
  <2>2. queue'.heap = queue.heap /\ UNCHANGED stamp
    BY <1>3 DEF Signal, Signalled, queued, QueueShape, Queues
  <2> QED BY <2>1, <2>2 DEF HeapBounded, StampShape
<1>4. ASSUME NEW r \in Requests,
             \/ AcquireEngineLease(r) \/ PrepareFails(r) \/ TakeResult(r) \/ Leave(r)
             \/ StreamEnds(r) \/ Embed(r) \/ EmbedEnds(r) \/ Disconnect(r) \/ Tracker(r)
             \/ GenerationEnds(r) \/ RejectDrained(r)
      PROVE  QueuedInv'
  <2>1. UNCHANGED queued
    BY <1>4 DEF AcquireEngineLease, PrepareFails, TakeResult, Leave, StreamEnds, Embed, EmbedEnds,
                Disconnect, Tracker, GenerationEnds, RejectDrained
  <2>2. gone' \in {gone, gone \cup {r}}
    BY <1>4 DEF AcquireEngineLease, PrepareFails, TakeResult, Leave, StreamEnds, Embed, EmbedEnds,
                Disconnect, Tracker, GenerationEnds, RejectDrained
  <2> QED BY <1>1, <2>1, <2>2 DEF GoneShape
<1>5. ASSUME NEW w \in Workers, Dequeue(w) PROVE QueuedInv'
  <2>1. GoneShape'
    BY <1>5 DEF Dequeue, GoneShape
  <2>2. CASE UNCHANGED queued
    BY <1>1, <2>1, <2>2
  <2>3. ASSUME NEW r \in queue.heap, queue' = [queue EXCEPT !.heap = @ \ {r}],
               stamp' = [stamp EXCEPT ![r] = 0]
        PROVE  QueuedInv'
    <3>1. queue'.heap = queue.heap \ {r}
      BY <2>3 DEF QueueShape, Queues
    <3>2. Cardinality(queue.heap) \in Nat /\ Cardinality(queue.heap \ {r}) = Cardinality(queue.heap) - 1
      BY <1>0, FS_CardinalityType, FS_RemoveElement
    <3>3. HeapBounded'
      BY <3>1, <3>2, ServingAssumption DEF HeapBounded
    <3>4. StampShape'
      BY <2>3 DEF StampShape, QueueShape, Queues
    <3> QED BY <2>1, <3>3, <3>4
  <2> QED BY <1>5, <2>2, <2>3 DEF Dequeue
<1>6. ASSUME NEW w \in Workers, Wake(w) PROVE QueuedInv'
  <2>1. UNCHANGED <<gone, stamp>> /\ queue'.heap = queue.heap
    BY <1>6 DEF Wake, QueueShape, Queues
  <2> QED BY <2>1 DEF GoneShape, HeapBounded, StampShape
<1>7. ASSUME NEW w \in Workers, CheckRunning(w) \/ SubmitFails(w) \/ SubmitSucceeds(w)
      PROVE  QueuedInv'
  <2>1. UNCHANGED <<gone, queued>>
    BY <1>7 DEF CheckRunning, SubmitFails, SubmitSucceeds
  <2> QED BY <1>1, <2>1 DEF GoneShape
<1>8. CASE AdmStep
  <2>1. UNCHANGED <<gone, queued>>
    BY <1>8 DEF AdmStep, LoadRest, LoadModel, CreateBlueGreen, Swap, ForceDetach, CreateForce,
                Install, LoadReady, CloseEngineSlot, BeginEngineShutdown, DrainEngine,
                EngineDrained, HTTPDrained, StopPool, RejectDone, JoinWorkers, JoinTrackers,
                JoinTimeout, Unload, CloseTimeout, UnloadIdle, CloseLate
  <2> QED BY <1>1, <2>1 DEF GoneShape
<1>9. CASE CloseQueue
  <2>1. queue'.heap = {} /\ stamp' = [r \in Requests |-> 0] /\ UNCHANGED gone
    BY <1>9 DEF CloseQueue, LeftInHeap, QueueShape, Queues
  <2>2. HeapBounded'
    BY <2>1, FS_EmptySet, ServingAssumption DEF HeapBounded
  <2>3. StampShape'
    BY <2>1 DEF StampShape
  <2> QED BY <2>1, <2>2, <2>3 DEF GoneShape
<1>10. CASE UNCHANGED vars
  BY <1>1, <1>10 DEF vars, queued, GoneShape
<1> QED BY <1>2, <1>3, <1>4, <1>5, <1>6, <1>7, <1>8, <1>9, <1>10
        DEF Next, Client, Worker, ShutdownRest, AdmStep

(***************************************************************************)
(* Every variable keeps the values of its field in the Go structs; the     *)
(* queue never outgrows maxSize (Enqueue) and no reference count of a slot *)
(* goes below zero (releaseEngineLease), for every number of clients.      *)
(***************************************************************************)
THEOREM TypeOKInvariant == Spec => []TypeOK
<1>1. Init => QueuedInv
  <2> SUFFICES ASSUME Init PROVE QueuedInv
    OBVIOUS
  <2>1. GoneShape
    BY DEF Init, GoneShape
  <2>2. HeapBounded
    BY FS_EmptySet, ServingAssumption DEF Init, HeapBounded
  <2>3. StampShape
    <3>1. stamp = [r \in Requests |-> 0]
      BY DEF Init
    <3> QED BY <3>1 DEF StampShape
  <2> QED BY <2>1, <2>2, <2>3 DEF QueuedInv
<1>2. Spec => []QueuedInv
  BY <1>1, QueuedStep, ShapeInvariant, PTL DEF Spec
<1>3. ASSUME Shape, QueuedInv, RefsCountLeases PROVE TypeOK
  <2> USE <1>3 DEF Shape
  <2>1. slot \in [Slots -> [closing : BOOLEAN, refs : Nat]]
    <3>1. \A s \in Slots : slot[s].refs \in Nat
      <4> SUFFICES ASSUME NEW s \in Slots PROVE slot[s].refs \in Nat
        OBVIOUS
      <4>1. IsFiniteSet({r \in Requests : lease[r] = s})
        BY ServingAssumption, FS_Subset
      <4> QED BY <4>1, FS_CardinalityType DEF RefsCountLeases
    <3> QED BY <3>1 DEF SlotShape, SlotRecs
  <2>2. eng \in [Slots -> {"none", "open", "draining", "down", "closed"}]
    BY DEF EngShape, Engs
  <2>3. cl \in [Requests -> Finished \cup {"leased", "pushed", "waiting", "streaming", "embedding"}]
    BY DEF ClShape, Clients, Finished
  <2>4. wk \in [Workers -> [pc : {"idle", "asleep", "picked", "submitting", "exited"},
                            cur : Requests \cup {NoReq},
                            experts : {ExpertCluster[r] : r \in Requests} \cup {{}}]]
    <3>1. ExpertSets = {ExpertCluster[r] : r \in Requests} \cup {{}}
      BY DEF ExpertSets
    <3> HIDE DEF Shape
    <3> QED BY <3>1 DEF Shape, WkShape, WorkerRecs
  <2>5. adm \in Adms
    BY DEF AdmShape
  <2> QED BY <2>1, <2>2, <2>3, <2>4, <2>5
          DEF TypeOK, MdlShape, Models, LeaseShape, ResultShape, Answers, QueueShape, Queues,
              GenShape, Generations, PoolShape, Pools, Adms, AdmPCs, QueuedInv, GoneShape,
              HeapBounded, StampShape
<1> QED BY <1>2, <1>3, ShapeInvariant, RefsInvariant, PTL

-----------------------------------------------------------------------------
(* The engines *)

\* What the administering goroutine relies on at each of its points: the
\* current engine is usable, the one being closed is no longer current, the
\* one being installed is new, and a current engine is never overwritten.
AdmFacts ==
  /\ mdl.current # NoSlot => eng[mdl.current] \notin {"none", "closed"}
  /\ adm.pc = "close" /\ adm.slot # NoSlot => adm.slot # mdl.current
  /\ adm.pc \in {"swap", "install"} =>
       adm.slot \in Slots /\ eng[adm.slot] = "open" /\ adm.slot # mdl.current
  /\ adm.pc \in {"begin", "draining"} => adm.slot = mdl.current /\ mdl.current # NoSlot
  /\ adm.pc \in {"recreate", "install", "idle", "done"} => mdl.current = NoSlot
  /\ adm.pc = "close" /\ adm.next \in {"recreate", "idle"} => mdl.current = NoSlot
  /\ adm.late # {} => adm.pc = "done"
LeasedUsable == \A r \in Requests : lease[r] # NoSlot => eng[lease[r]] \notin {"none", "closed"}

EngineInv == AdmFacts /\ NoOrphanEngine /\ LeasedUsable

(***************************************************************************)
(* A slot whose reference count is zero is leased by nobody.               *)
(***************************************************************************)
LEMMA UnleasedMeansUnused ==
  ASSUME Shape, RefsCountLeases, NEW s \in Slots, Unleased(s)
  PROVE  \A r \in Requests : lease[r] # s
<1> DEFINE L == {r \in Requests : lease[r] = s}
<1>1. Cardinality(L) = 0
  BY DEF Unleased, RefsCountLeases
<1>2. IsFiniteSet(L)
  BY ServingAssumption, FS_Subset
<1>3. L = {}
  <2> HIDE DEF L
  <2> QED BY <1>1, <1>2, FS_EmptySet
<1> QED BY <1>3

(***************************************************************************)
(* The administering goroutine keeps the engines: one step per action.     *)
(***************************************************************************)
LEMMA EngineAdm ==
  ASSUME Shape, RefsCountLeases, EngineInv, AdmStep
  PROVE  EngineInv'
<1>0. /\ eng \in [Slots -> Engs] /\ mdl \in Models /\ adm \in Adms
      /\ lease \in [Requests -> Slots \cup {NoSlot}]
      /\ AdmFacts /\ NoOrphanEngine /\ LeasedUsable /\ lease' = lease
  BY AdmFrame DEF Shape, EngShape, MdlShape, AdmShape, LeaseShape, EngineInv
<1> USE <1>0, ServingAssumption DEF Models, Adms, At
<1>1. CASE LoadModel
  <2>1. AdmFacts'
    BY <1>1 DEF LoadModel, AdmFacts
  <2>2. NoOrphanEngine'
    BY <1>1 DEF LoadModel, AdmFacts, NoOrphanEngine
  <2>3. LeasedUsable'
    BY <1>1 DEF LoadModel, LeasedUsable
  <2> QED BY <2>1, <2>2, <2>3 DEF EngineInv
<1>2. CASE CreateBlueGreen
  <2>1. ASSUME NEW s \in Slots, eng[s] = "none", eng' = [eng EXCEPT ![s] = "open"],
               adm' = [adm EXCEPT !.pc = "swap", !.slot = s], mdl' = mdl
        PROVE  EngineInv'
    <3>1. AdmFacts'
      <4>0. adm.pc = "create"
        BY <1>2 DEF CreateBlueGreen
      <4>1. adm'.pc = "swap" /\ adm'.slot = s /\ adm'.late = {} /\ mdl.current # s
        BY <2>1, <4>0 DEF AdmFacts
      <4>2. eng'[s] = "open" /\ \A u \in Slots \ {s} : eng'[u] = eng[u]
        BY <2>1
      <4> QED BY <2>1, <4>1, <4>2 DEF AdmFacts
    <3>2. NoOrphanEngine'
      BY <1>2, <2>1 DEF CreateBlueGreen, AdmFacts, NoOrphanEngine
    <3>3. LeasedUsable'
      BY <2>1 DEF LeasedUsable
    <3> QED BY <3>1, <3>2, <3>3 DEF EngineInv
  <2>2. CASE eng' = eng /\ mdl' = mdl /\ Goto("detach")
    <3>1. AdmFacts'
      BY <1>2, <2>2 DEF CreateBlueGreen, Goto, AdmFacts
    <3>2. NoOrphanEngine'
      BY <1>2, <2>2 DEF CreateBlueGreen, Goto, AdmFacts, NoOrphanEngine
    <3>3. LeasedUsable'
      BY <2>2 DEF LeasedUsable
    <3> QED BY <3>1, <3>2, <3>3 DEF EngineInv
  <2> QED BY <1>2, <2>1, <2>2 DEF CreateBlueGreen
<1>3. CASE Swap
  <2>1. AdmFacts'
    BY <1>3 DEF Swap, Detach, AdmFacts
  <2>2. NoOrphanEngine'
    BY <1>3 DEF Swap, Detach, AdmFacts, NoOrphanEngine
  <2>3. LeasedUsable'
    BY <1>3 DEF Swap, Detach, LeasedUsable
  <2> QED BY <2>1, <2>2, <2>3 DEF EngineInv
<1>4. CASE ForceDetach
  <2>1. AdmFacts'
    BY <1>4 DEF ForceDetach, Detach, AdmFacts
  <2>2. NoOrphanEngine'
    BY <1>4 DEF ForceDetach, Detach, AdmFacts, NoOrphanEngine
  <2>3. LeasedUsable'
    BY <1>4 DEF ForceDetach, Detach, LeasedUsable
  <2> QED BY <2>1, <2>2, <2>3 DEF EngineInv
<1>5. CASE CreateForce
  <2>1. ASSUME NEW s \in Slots, eng[s] = "none", eng' = [eng EXCEPT ![s] = "open"],
               adm' = [adm EXCEPT !.pc = "install", !.slot = s], mdl' = mdl
        PROVE  EngineInv'
    <3>1. AdmFacts'
      <4>0. adm.pc = "recreate"
        BY <1>5 DEF CreateForce
      <4>1. adm'.pc = "install" /\ adm'.slot = s /\ adm'.late = {} /\ mdl.current = NoSlot
        BY <2>1, <4>0 DEF AdmFacts
      <4>2. eng'[s] = "open"
        BY <2>1
      <4> QED BY <2>1, <4>1, <4>2 DEF AdmFacts
    <3>2. NoOrphanEngine'
      BY <1>5, <2>1 DEF CreateForce, AdmFacts, NoOrphanEngine
    <3>3. LeasedUsable'
      BY <2>1 DEF LeasedUsable
    <3> QED BY <3>1, <3>2, <3>3 DEF EngineInv
  <2>2. CASE eng' = eng /\ mdl' = [mdl EXCEPT !.status = "Failed"] /\ Goto("serve")
    <3>1. AdmFacts'
      BY <1>5, <2>2 DEF CreateForce, Goto, AdmFacts
    <3>2. NoOrphanEngine'
      BY <1>5, <2>2 DEF CreateForce, Goto, AdmFacts, NoOrphanEngine
    <3>3. LeasedUsable'
      BY <2>2 DEF LeasedUsable
    <3> QED BY <3>1, <3>2, <3>3 DEF EngineInv
  <2> QED BY <1>5, <2>1, <2>2 DEF CreateForce
<1>6. CASE Install
  <2>1. AdmFacts'
    BY <1>6 DEF Install, Goto, AdmFacts
  <2>2. NoOrphanEngine'
    BY <1>6 DEF Install, Goto, AdmFacts, NoOrphanEngine
  <2>3. LeasedUsable'
    BY <1>6 DEF Install, Goto, LeasedUsable
  <2> QED BY <2>1, <2>2, <2>3 DEF EngineInv
<1>7. CASE LoadReady
  <2>1. AdmFacts'
    BY <1>7 DEF LoadReady, Goto, AdmFacts
  <2>2. NoOrphanEngine'
    BY <1>7 DEF LoadReady, Goto, AdmFacts, NoOrphanEngine
  <2>3. LeasedUsable'
    BY <1>7 DEF LoadReady, Goto, LeasedUsable
  <2> QED BY <2>1, <2>2, <2>3 DEF EngineInv
<1>8. CASE BeginEngineShutdown
  <2>1. AdmFacts'
    BY <1>8 DEF BeginEngineShutdown, AdmFacts
  <2>2. NoOrphanEngine'
    BY <1>8 DEF BeginEngineShutdown, AdmFacts, NoOrphanEngine
  <2>3. LeasedUsable'
    BY <1>8 DEF BeginEngineShutdown, LeasedUsable
  <2> QED BY <2>1, <2>2, <2>3 DEF EngineInv
<1>9. CASE DrainEngine
  <2>1. AdmFacts'
    BY <1>9 DEF DrainEngine, Goto, AdmFacts
  <2>2. NoOrphanEngine'
    BY <1>9 DEF DrainEngine, Goto, AdmFacts, NoOrphanEngine
  <2>3. LeasedUsable'
    BY <1>9 DEF DrainEngine, Goto, LeasedUsable
  <2> QED BY <2>1, <2>2, <2>3 DEF EngineInv
<1>10. CASE EngineDrained
  <2>1. AdmFacts'
    BY <1>10 DEF EngineDrained, Goto, AdmFacts
  <2>2. NoOrphanEngine'
    BY <1>10 DEF EngineDrained, Goto, AdmFacts, NoOrphanEngine
  <2>3. LeasedUsable'
    BY <1>10 DEF EngineDrained, Goto, LeasedUsable
  <2> QED BY <2>1, <2>2, <2>3 DEF EngineInv
<1>11. CASE HTTPDrained
  <2>1. AdmFacts'
    BY <1>11 DEF HTTPDrained, models, AdmFacts
  <2>2. NoOrphanEngine'
    BY <1>11 DEF HTTPDrained, models, AdmFacts, NoOrphanEngine
  <2>3. LeasedUsable'
    BY <1>11 DEF HTTPDrained, models, LeasedUsable
  <2> QED BY <2>1, <2>2, <2>3 DEF EngineInv
<1>12. CASE StopPool
  <2>1. AdmFacts'
    BY <1>12 DEF StopPool, Goto, models, AdmFacts
  <2>2. NoOrphanEngine'
    BY <1>12 DEF StopPool, Goto, models, AdmFacts, NoOrphanEngine
  <2>3. LeasedUsable'
    BY <1>12 DEF StopPool, Goto, models, LeasedUsable
  <2> QED BY <2>1, <2>2, <2>3 DEF EngineInv
<1>13. CASE RejectDone
  <2>1. AdmFacts'
    BY <1>13 DEF RejectDone, Goto, models, AdmFacts
  <2>2. NoOrphanEngine'
    BY <1>13 DEF RejectDone, Goto, models, AdmFacts, NoOrphanEngine
  <2>3. LeasedUsable'
    BY <1>13 DEF RejectDone, Goto, models, LeasedUsable
  <2> QED BY <2>1, <2>2, <2>3 DEF EngineInv
<1>14. CASE JoinWorkers
  <2>1. AdmFacts'
    BY <1>14 DEF JoinWorkers, Goto, models, AdmFacts
  <2>2. NoOrphanEngine'
    BY <1>14 DEF JoinWorkers, Goto, models, AdmFacts, NoOrphanEngine
  <2>3. LeasedUsable'
    BY <1>14 DEF JoinWorkers, Goto, models, LeasedUsable
  <2> QED BY <2>1, <2>2, <2>3 DEF EngineInv
<1>15. CASE JoinTrackers
  <2>1. AdmFacts'
    BY <1>15 DEF JoinTrackers, Goto, models, AdmFacts
  <2>2. NoOrphanEngine'
    BY <1>15 DEF JoinTrackers, Goto, models, AdmFacts, NoOrphanEngine
  <2>3. LeasedUsable'
    BY <1>15 DEF JoinTrackers, Goto, models, LeasedUsable
  <2> QED BY <2>1, <2>2, <2>3 DEF EngineInv
<1>16. CASE JoinTimeout
  <2>1. AdmFacts'
    BY <1>16 DEF JoinTimeout, Goto, models, AdmFacts
  <2>2. NoOrphanEngine'
    BY <1>16 DEF JoinTimeout, Goto, models, AdmFacts, NoOrphanEngine
  <2>3. LeasedUsable'
    BY <1>16 DEF JoinTimeout, Goto, models, LeasedUsable
  <2> QED BY <2>1, <2>2, <2>3 DEF EngineInv
<1>17. CASE Unload
  <2>1. AdmFacts'
    BY <1>17 DEF Unload, Detach, AdmFacts
  <2>2. NoOrphanEngine'
    BY <1>17 DEF Unload, Detach, AdmFacts, NoOrphanEngine
  <2>3. LeasedUsable'
    BY <1>17 DEF Unload, Detach, LeasedUsable
  <2> QED BY <2>1, <2>2, <2>3 DEF EngineInv
<1>18. CASE CloseTimeout
  <2>1. AdmFacts'
    BY <1>18 DEF CloseTimeout, models, AdmFacts
  <2>2. NoOrphanEngine'
    BY <1>18 DEF CloseTimeout, models, AdmFacts, NoOrphanEngine
  <2>3. LeasedUsable'
    BY <1>18 DEF CloseTimeout, models, LeasedUsable
  <2> QED BY <2>1, <2>2, <2>3 DEF EngineInv
<1>19. CASE UnloadIdle
  <2>1. AdmFacts'
    BY <1>19 DEF UnloadIdle, Goto, AdmFacts
  <2>2. NoOrphanEngine'
    BY <1>19 DEF UnloadIdle, Goto, AdmFacts, NoOrphanEngine
  <2>3. LeasedUsable'
    BY <1>19 DEF UnloadIdle, Goto, LeasedUsable
  <2> QED BY <2>1, <2>2, <2>3 DEF EngineInv
<1>20. CASE CloseEngineSlot
  <2>0. adm.slot # NoSlot /\ Unleased(adm.slot) => \A r \in Requests : lease[r] # adm.slot
    BY UnleasedMeansUnused
  <2>1. AdmFacts'
    BY <1>20 DEF CloseEngineSlot, Goto, AdmFacts
  <2>2. NoOrphanEngine'
    BY <1>20 DEF CloseEngineSlot, Goto, AdmFacts, NoOrphanEngine
  <2>3. LeasedUsable'
    BY <1>20, <2>0 DEF CloseEngineSlot, Goto, LeasedUsable
  <2> QED BY <2>1, <2>2, <2>3 DEF EngineInv
<1>21. ASSUME NEW s \in Slots, CloseLate(s) PROVE EngineInv'
  <2>0. \A r \in Requests : lease[r] # s
    BY <1>21, UnleasedMeansUnused DEF CloseLate
  <2>1. AdmFacts'
    BY <1>21 DEF CloseLate, AdmFacts
  <2>2. NoOrphanEngine'
    BY <1>21 DEF CloseLate, AdmFacts, NoOrphanEngine
  <2>3. LeasedUsable'
    BY <1>21, <2>0 DEF CloseLate, LeasedUsable
  <2> QED BY <2>1, <2>2, <2>3 DEF EngineInv
<1> QED BY <1>1, <1>2, <1>3, <1>4, <1>5, <1>6, <1>7, <1>8, <1>9, <1>10, <1>11, <1>12, <1>13,
           <1>14, <1>15, <1>16, <1>17, <1>18, <1>19, <1>20, <1>21
       DEF AdmStep, LoadRest

(***************************************************************************)
(* The invariant of the engines.  The other goroutines touch neither eng   *)
(* nor mdl, and lease only the current engine.                             *)
(***************************************************************************)
LEMMA EngineInvariant == Spec => []EngineInv
<1>1. Init => EngineInv
  BY ServingAssumption DEF Init, EngineInv, AdmFacts, NoOrphanEngine, LeasedUsable
<1>2. ASSUME Shape, Busy, RefsCountLeases, EngineInv, [Next]_vars PROVE EngineInv'
  <2> USE <1>2
  <2>1. ASSUME UNCHANGED <<eng, mdl>>, adm'.slot = adm.slot, adm'.next = adm.next,
               adm'.late = adm.late,
               \/ adm'.pc = adm.pc
               \/ adm.pc = "lock" /\ adm'.pc = "reject",
               \A q \in Requests : lease'[q] \in {lease[q], NoSlot, mdl.current}
        PROVE  EngineInv'
    <3>1. AdmFacts'
      BY <2>1 DEF EngineInv, AdmFacts
    <3>2. NoOrphanEngine'
      BY <2>1 DEF EngineInv, NoOrphanEngine
    <3>3. LeasedUsable'
      BY <2>1 DEF EngineInv, LeasedUsable, AdmFacts
    <3> QED BY <3>1, <3>2, <3>3 DEF EngineInv
  <2>2. ASSUME NEW r \in Requests,
               \/ AcquireEngineLease(r) \/ Client(r) \/ Disconnect(r) \/ Tracker(r)
               \/ GenerationEnds(r)
        PROVE  EngineInv'
    <3>1. UNCHANGED <<eng, mdl, adm>>
      BY <2>2 DEF AcquireEngineLease, Client, Disconnect, Tracker, GenerationEnds, PrepareFails,
                  Enqueue, Signal, TakeResult, Leave, StreamEnds, Embed, EmbedEnds, models
    <3>2. \A q \in Requests : lease'[q] \in {lease[q], NoSlot, mdl.current}
      BY <2>2 DEF AcquireEngineLease, Client, Disconnect, Tracker, GenerationEnds, PrepareFails,
                  Enqueue, Signal, TakeResult, Leave, StreamEnds, Embed, EmbedEnds, models, Release,
                  Shape, LeaseShape
    <3> QED BY <2>1, <3>1, <3>2
  <2>3. ASSUME NEW r \in Requests, RejectDrained(r) PROVE EngineInv'
    <3>1. \A q \in Requests : lease'[q] \in {lease[q], NoSlot, mdl.current}
      BY <2>3 DEF RejectDrained, Release, Shape, LeaseShape
    <3> QED BY <2>1, <2>3, <3>1 DEF RejectDrained, Shape, AdmShape, Adms
  <2>4. ASSUME NEW w \in Workers, Worker(w) PROVE EngineInv'
    <3>1. UNCHANGED <<eng, mdl, adm>>
      BY <2>4 DEF Worker, Dequeue, Wake, CheckRunning, SubmitFails, SubmitSucceeds, models
    <3>2. \A q \in Requests : lease'[q] \in {lease[q], NoSlot, mdl.current}
      BY <2>4 DEF Worker, Dequeue, Wake, CheckRunning, SubmitFails, SubmitSucceeds, Rejected,
                  Release, models, Shape, LeaseShape
    <3> QED BY <2>1, <3>1, <3>2
  <2>5. CASE CloseQueue
    BY <2>1, <2>5 DEF CloseQueue, At, models, Shape, AdmShape, Adms
  <2>6. CASE UNCHANGED vars
    BY <2>1, <2>6 DEF vars
  <2> QED BY <2>2, <2>3, <2>4, <2>5, <2>6, EngineAdm DEF Next, ShutdownRest, AdmStep
<1> QED BY <1>1, <1>2, ShapeInvariant, RefsInvariant, PTL DEF Spec

(***************************************************************************)
(* Replacing and unloading models loses no engine: one that is not closed  *)
(* is the current one or somebody is about to install or to close it       *)
(* (loadModelBlueGreen, loadModelForce, UnloadModelContext,                *)
(* closeEngineSlot).                                                       *)
(***************************************************************************)
THEOREM NoOrphanEngineInvariant == Spec => []NoOrphanEngine
  BY EngineInvariant, PTL DEF EngineInv

\* A live generation has somebody who will release its lease.
GenOwned == \A r \in Requests : gen[r] = "live" => r \in track \/ cl[r] = "embedding"

(***************************************************************************)
(* A generation ends before its tracker, and an embedding before the call  *)
(* that waits for it (workerLoop, GetEmbeddings).                          *)
(***************************************************************************)
LEMMA GenOwnedInvariant == Spec => []GenOwned
<1>1. Init => GenOwned
  BY DEF Init, GenOwned
<1>2. ASSUME Shape, Busy, GenOwned, [Next]_vars PROVE GenOwned'
  <2> USE <1>2 DEF GenOwned
  <2>0. gen \in [Requests -> Generations] /\ cl \in [Requests -> Clients]
    BY DEF Shape, GenShape, ClShape
  <2>1. ASSUME NEW r \in Requests, Embed(r) \/ EmbedEnds(r) PROVE GenOwned'
    BY <2>0, <2>1 DEF Embed, EmbedEnds
  <2>2. ASSUME NEW r \in Requests,
               \/ AcquireEngineLease(r) \/ PrepareFails(r) \/ Enqueue(r) \/ Signal(r)
               \/ TakeResult(r) \/ Leave(r) \/ StreamEnds(r) \/ Disconnect(r)
        PROVE  GenOwned'
    BY <2>0, <2>2 DEF AcquireEngineLease, PrepareFails, Enqueue, Signal, TakeResult, Leave,
                      StreamEnds, Disconnect
  <2>3. ASSUME NEW r \in Requests, Tracker(r) \/ GenerationEnds(r) \/ RejectDrained(r)
        PROVE  GenOwned'
    BY <2>0, <2>3 DEF Tracker, GenerationEnds, RejectDrained
  <2>4. ASSUME NEW w \in Workers, Worker(w) PROVE GenOwned'
    <3>1. CASE SubmitSucceeds(w)
      BY <2>0, <3>1 DEF SubmitSucceeds
    <3> QED BY <2>4, <3>1 DEF Worker, Dequeue, Wake, CheckRunning, SubmitFails
  <2>5. CASE AdmStep \/ CloseQueue \/ UNCHANGED vars
    BY <2>5, AdmFrame DEF CloseQueue, vars, Shape
  <2> QED BY <2>1, <2>2, <2>3, <2>4, <2>5 DEF Next, Client, ShutdownRest, AdmStep
<1> QED BY <1>1, <1>2, ShapeInvariant, PTL DEF Spec

(***************************************************************************)
(* closeEngineSlot closes an engine only when no request can use it any    *)
(* more, whichever way the slot was detached, whatever timed out and       *)
(* however many requests and engines there are.                            *)
(***************************************************************************)
THEOREM NoUseAfterCloseInvariant == Spec => []NoUseAfterClose
<1>1. EngineInv /\ OwnerInv /\ GenOwned => NoUseAfterClose
  BY DEF EngineInv, LeasedUsable, OwnerInv, LeaseHasOneOwner, ClientOwns, GenOwned, NoUseAfterClose
<1> QED BY <1>1, EngineInvariant, OwnerInvariant, GenOwnedInvariant, PTL

-----------------------------------------------------------------------------
(* The shutdown *)

\* After the HTTP server's drain, and after BeginEngineShutdown.
Stopping == \/ adm.pc \in {"stop", "lock", "reject", "joinWorkers", "joinTrackers", "unload",
                          "idle", "done"}
            \/ adm.pc = "close" /\ adm.next = "idle"
ShuttingDown == Stopping \/ adm.pc \in {"begin", "draining", "http"}

NoNewLease == ShuttingDown => ~Leasable
ClosedLate == queue.closed => Stopping /\ adm.pc \notin {"stop", "lock"}
HandlersGone == Stopping /\ ~adm.forced => \A r \in Requests : cl[r] \in Finished
PanicLate == \A r \in Requests : cl[r] = "panicked" => Stopping /\ adm.forced

ShutdownInv == NoNewLease /\ ClosedLate /\ HandlersGone /\ PanicLate

(***************************************************************************)
(* The administering goroutine keeps ShutdownInv.                          *)
(***************************************************************************)
LEMMA ShutdownAdm ==
  ASSUME Shape, AdmFacts, ShutdownInv, AdmStep \/ CloseQueue
  PROVE  ShutdownInv'
<1>0. /\ slot \in [Slots -> SlotRecs] /\ mdl \in Models /\ adm \in Adms /\ queue \in Queues
      /\ NoNewLease /\ ClosedLate /\ HandlersGone /\ PanicLate
  BY DEF Shape, SlotShape, MdlShape, AdmShape, QueueShape, ShutdownInv
<1> USE <1>0, ServingAssumption DEF Models, Adms, At, Stopping
<1>1. CASE LoadModel
  <2>1. NoNewLease'
    BY <1>1 DEF LoadModel, NoNewLease, ShuttingDown, Leasable, SlotRecs, AdmFacts
  <2>2. ClosedLate' /\ HandlersGone' /\ PanicLate'
    BY <1>1 DEF LoadModel, queued, ClosedLate, HandlersGone, PanicLate
  <2> QED BY <2>1, <2>2 DEF ShutdownInv
<1>2. CASE CreateBlueGreen
  <2>0. /\ adm.pc = "create" /\ UNCHANGED <<mdl, slot, cl, queued>>
        /\ adm'.pc \in {"swap", "detach"} /\ adm'.forced = adm.forced
    BY <1>2 DEF CreateBlueGreen, Goto
  <2>1. NoNewLease'
    BY <2>0 DEF NoNewLease, ShuttingDown, Leasable, SlotRecs, AdmFacts
  <2>2. ClosedLate' /\ HandlersGone' /\ PanicLate'
    BY <2>0 DEF queued, ClosedLate, HandlersGone, PanicLate
  <2> QED BY <2>1, <2>2 DEF ShutdownInv
<1>3. CASE Swap
  <2>1. NoNewLease'
    BY <1>3 DEF Swap, Detach, NoNewLease, ShuttingDown, Leasable, SlotRecs, AdmFacts
  <2>2. ClosedLate' /\ HandlersGone' /\ PanicLate'
    BY <1>3 DEF Swap, Detach, queued, ClosedLate, HandlersGone, PanicLate
  <2> QED BY <2>1, <2>2 DEF ShutdownInv
<1>4. CASE ForceDetach
  <2>1. NoNewLease'
    BY <1>4 DEF ForceDetach, Detach, NoNewLease, ShuttingDown, Leasable, SlotRecs, AdmFacts
  <2>2. ClosedLate' /\ HandlersGone' /\ PanicLate'
    BY <1>4 DEF ForceDetach, Detach, queued, ClosedLate, HandlersGone, PanicLate
  <2> QED BY <2>1, <2>2 DEF ShutdownInv
<1>5. CASE CreateForce
  <2>0. /\ adm.pc = "recreate" /\ UNCHANGED <<slot, cl, queued>> /\ mdl'.current = mdl.current
        /\ adm'.pc \in {"install", "serve"} /\ adm'.forced = adm.forced
    BY <1>5 DEF CreateForce, Goto
  <2>1. NoNewLease'
    BY <2>0 DEF NoNewLease, ShuttingDown, Leasable, SlotRecs, AdmFacts
  <2>2. ClosedLate' /\ HandlersGone' /\ PanicLate'
    BY <2>0 DEF queued, ClosedLate, HandlersGone, PanicLate
  <2> QED BY <2>1, <2>2 DEF ShutdownInv
<1>6. CASE Install
  <2>1. NoNewLease'
    BY <1>6 DEF Install, Goto, NoNewLease, ShuttingDown, Leasable, SlotRecs, AdmFacts
  <2>2. ClosedLate' /\ HandlersGone' /\ PanicLate'
    BY <1>6 DEF Install, Goto, queued, ClosedLate, HandlersGone, PanicLate
  <2> QED BY <2>1, <2>2 DEF ShutdownInv
<1>7. CASE LoadReady
  <2>1. NoNewLease'
    BY <1>7 DEF LoadReady, Goto, NoNewLease, ShuttingDown, Leasable, SlotRecs, AdmFacts
  <2>2. ClosedLate' /\ HandlersGone' /\ PanicLate'
    BY <1>7 DEF LoadReady, Goto, queued, ClosedLate, HandlersGone, PanicLate
  <2> QED BY <2>1, <2>2 DEF ShutdownInv
<1>8. CASE CloseEngineSlot
  <2>1. NoNewLease'
    BY <1>8 DEF CloseEngineSlot, Goto, NoNewLease, ShuttingDown, Leasable, SlotRecs, AdmFacts
  <2>2. ClosedLate' /\ HandlersGone' /\ PanicLate'
    BY <1>8 DEF CloseEngineSlot, Goto, queued, ClosedLate, HandlersGone, PanicLate
  <2> QED BY <2>1, <2>2 DEF ShutdownInv
<1>9. CASE BeginEngineShutdown
  <2>1. NoNewLease'
    BY <1>9 DEF BeginEngineShutdown, NoNewLease, ShuttingDown, Leasable, SlotRecs, AdmFacts
  <2>2. ClosedLate' /\ HandlersGone' /\ PanicLate'
    BY <1>9 DEF BeginEngineShutdown, queued, ClosedLate, HandlersGone, PanicLate
  <2> QED BY <2>1, <2>2 DEF ShutdownInv
<1>10. CASE DrainEngine
  <2>1. NoNewLease'
    BY <1>10 DEF DrainEngine, Goto, NoNewLease, ShuttingDown, Leasable, SlotRecs, AdmFacts
  <2>2. ClosedLate' /\ HandlersGone' /\ PanicLate'
    BY <1>10 DEF DrainEngine, Goto, queued, ClosedLate, HandlersGone, PanicLate
  <2> QED BY <2>1, <2>2 DEF ShutdownInv
<1>11. CASE EngineDrained
  <2>1. NoNewLease'
    BY <1>11 DEF EngineDrained, Goto, NoNewLease, ShuttingDown, Leasable, SlotRecs, AdmFacts
  <2>2. ClosedLate' /\ HandlersGone' /\ PanicLate'
    BY <1>11 DEF EngineDrained, Goto, queued, ClosedLate, HandlersGone, PanicLate
  <2> QED BY <2>1, <2>2 DEF ShutdownInv
<1>12. CASE HTTPDrained
  <2>1. NoNewLease'
    BY <1>12 DEF HTTPDrained, models, NoNewLease, ShuttingDown, Leasable, SlotRecs, AdmFacts
  <2>2. ClosedLate' /\ HandlersGone' /\ PanicLate'
    BY <1>12 DEF HTTPDrained, models, queued, ClosedLate, HandlersGone, PanicLate, HandlersDone
  <2> QED BY <2>1, <2>2 DEF ShutdownInv
<1>13. CASE StopPool
  <2>1. NoNewLease'
    BY <1>13 DEF StopPool, Goto, models, NoNewLease, ShuttingDown, Leasable, SlotRecs, AdmFacts
  <2>2. ClosedLate' /\ HandlersGone' /\ PanicLate'
    BY <1>13 DEF StopPool, Goto, models, queued, ClosedLate, HandlersGone, PanicLate
  <2> QED BY <2>1, <2>2 DEF ShutdownInv
<1>14. CASE RejectDone
  <2>1. NoNewLease'
    BY <1>14 DEF RejectDone, Goto, models, NoNewLease, ShuttingDown, Leasable, SlotRecs, AdmFacts
  <2>2. ClosedLate' /\ HandlersGone' /\ PanicLate'
    BY <1>14 DEF RejectDone, Goto, models, queued, ClosedLate, HandlersGone, PanicLate
  <2> QED BY <2>1, <2>2 DEF ShutdownInv
<1>15. CASE JoinWorkers
  <2>1. NoNewLease'
    BY <1>15 DEF JoinWorkers, Goto, models, NoNewLease, ShuttingDown, Leasable, SlotRecs, AdmFacts
  <2>2. ClosedLate' /\ HandlersGone' /\ PanicLate'
    BY <1>15 DEF JoinWorkers, Goto, models, queued, ClosedLate, HandlersGone, PanicLate
  <2> QED BY <2>1, <2>2 DEF ShutdownInv
<1>16. CASE JoinTrackers
  <2>1. NoNewLease'
    BY <1>16 DEF JoinTrackers, Goto, models, NoNewLease, ShuttingDown, Leasable, SlotRecs, AdmFacts
  <2>2. ClosedLate' /\ HandlersGone' /\ PanicLate'
    BY <1>16 DEF JoinTrackers, Goto, models, queued, ClosedLate, HandlersGone, PanicLate
  <2> QED BY <2>1, <2>2 DEF ShutdownInv
<1>17. CASE JoinTimeout
  <2>1. NoNewLease'
    BY <1>17 DEF JoinTimeout, Goto, models, NoNewLease, ShuttingDown, Leasable, SlotRecs, AdmFacts
  <2>2. ClosedLate' /\ HandlersGone' /\ PanicLate'
    BY <1>17 DEF JoinTimeout, Goto, models, queued, ClosedLate, HandlersGone, PanicLate
  <2> QED BY <2>1, <2>2 DEF ShutdownInv
<1>18. CASE Unload
  <2>1. NoNewLease'
    BY <1>18 DEF Unload, Detach, NoNewLease, ShuttingDown, Leasable, SlotRecs, AdmFacts
  <2>2. ClosedLate' /\ HandlersGone' /\ PanicLate'
    BY <1>18 DEF Unload, Detach, queued, ClosedLate, HandlersGone, PanicLate
  <2> QED BY <2>1, <2>2 DEF ShutdownInv
<1>19. CASE CloseTimeout
  <2>1. NoNewLease'
    BY <1>19 DEF CloseTimeout, models, NoNewLease, ShuttingDown, Leasable, SlotRecs, AdmFacts
  <2>2. ClosedLate' /\ HandlersGone' /\ PanicLate'
    BY <1>19 DEF CloseTimeout, models, queued, ClosedLate, HandlersGone, PanicLate
  <2> QED BY <2>1, <2>2 DEF ShutdownInv
<1>20. CASE UnloadIdle
  <2>1. NoNewLease'
    BY <1>20 DEF UnloadIdle, Goto, NoNewLease, ShuttingDown, Leasable, SlotRecs, AdmFacts
  <2>2. ClosedLate' /\ HandlersGone' /\ PanicLate'
    BY <1>20 DEF UnloadIdle, Goto, queued, ClosedLate, HandlersGone, PanicLate
  <2> QED BY <2>1, <2>2 DEF ShutdownInv
<1>21. CASE CloseQueue
  <2>1. NoNewLease'
    BY <1>21 DEF CloseQueue, models, NoNewLease, ShuttingDown, Leasable
  <2>2. ClosedLate' /\ HandlersGone' /\ PanicLate'
    BY <1>21 DEF CloseQueue, Queues, ClosedLate, HandlersGone, PanicLate
  <2> QED BY <2>1, <2>2 DEF ShutdownInv
<1>22. ASSUME NEW s \in Slots, CloseLate(s) PROVE ShutdownInv'
  <2>1. NoNewLease'
    BY <1>22 DEF CloseLate, NoNewLease, ShuttingDown, Leasable
  <2>2. ClosedLate' /\ HandlersGone' /\ PanicLate'
    BY <1>22 DEF CloseLate, queued, ClosedLate, HandlersGone, PanicLate
  <2> QED BY <2>1, <2>2 DEF ShutdownInv
<1> QED BY <1>1, <1>2, <1>3, <1>4, <1>5, <1>6, <1>7, <1>8, <1>9, <1>10, <1>11, <1>12, <1>13,
           <1>14, <1>15, <1>16, <1>17, <1>18, <1>19, <1>20, <1>21, <1>22
       DEF AdmStep, LoadRest

(***************************************************************************)
(* ShutdownInv is an invariant: a client can only go on after the drain of *)
(* the HTTP server if the drain was cut short.                             *)
(***************************************************************************)
LEMMA ShutdownInvariant == Spec => []ShutdownInv
<1>1. Init => ShutdownInv
  BY DEF Init, ShutdownInv, NoNewLease, ClosedLate, HandlersGone, PanicLate, Stopping, ShuttingDown
<1>2. ASSUME Shape, Busy, EngineInv, ShutdownInv, [Next]_vars PROVE ShutdownInv'
  <2> USE <1>2
  <2>0. /\ slot \in [Slots -> SlotRecs] /\ adm \in Adms /\ queue \in Queues
        /\ cl \in [Requests -> Clients]
        /\ NoNewLease /\ ClosedLate /\ HandlersGone /\ PanicLate
    BY DEF Shape, SlotShape, AdmShape, QueueShape, ClShape, ShutdownInv
  <2>1. ASSUME mdl' = mdl, queue'.closed = queue.closed,
               \A s \in Slots : slot'[s].closing = slot[s].closing,
               adm'.pc = adm.pc, adm'.next = adm.next, adm'.forced = adm.forced,
               \A q \in Requests : \/ cl'[q] = cl[q]
                                   \/ cl[q] = "new" /\ (~Leasable => cl'[q] = "failed")
                                      /\ cl'[q] # "panicked"
                                   \/ cl[q] \notin Finished
                                      /\ (cl'[q] = "panicked" => queue.closed)
        PROVE  ShutdownInv'
    <3>1. (Stopping' <=> Stopping) /\ (ShuttingDown' <=> ShuttingDown) /\ (Leasable' <=> Leasable)
      BY <2>1 DEF Stopping, ShuttingDown, Leasable, Shape, MdlShape, Models
    <3>2. NoNewLease' /\ ClosedLate'
      BY <2>0, <2>1, <3>1 DEF NoNewLease, ClosedLate
    <3>3. HandlersGone'
      BY <2>0, <2>1, <3>1 DEF HandlersGone, NoNewLease, ShuttingDown, Finished
    <3>4. PanicLate'
      BY <2>0, <2>1, <3>1 DEF PanicLate, HandlersGone, ClosedLate
    <3> QED BY <3>2, <3>3, <3>4 DEF ShutdownInv
  <2>2. ASSUME NEW r \in Requests, AcquireEngineLease(r) PROVE ShutdownInv'
    <3>1. \A s \in Slots : slot'[s].closing = slot[s].closing
      BY <2>0, <2>2 DEF AcquireEngineLease, SlotRecs
    <3> QED BY <2>0, <2>1, <2>2, <3>1 DEF AcquireEngineLease, queued
  <2>3. ASSUME NEW r \in Requests, Release(r)
        PROVE  \A s \in Slots : slot'[s].closing = slot[s].closing
    BY <2>0, <2>3 DEF Release, SlotRecs
  <2>4. ASSUME NEW r \in Requests, PrepareFails(r) \/ EmbedEnds(r) PROVE ShutdownInv'
    BY <2>0, <2>1, <2>3, <2>4 DEF PrepareFails, EmbedEnds, queued, Finished
  <2>5. ASSUME NEW r \in Requests, Enqueue(r) PROVE ShutdownInv'
    BY <2>0, <2>1, <2>3, <2>5 DEF Enqueue, queued, Queues, Finished
  <2>6. ASSUME NEW r \in Requests, Signal(r) PROVE ShutdownInv'
    BY <2>0, <2>1, <2>6 DEF Signal, Signalled, queued, models, Queues, Finished
  <2>7. ASSUME NEW r \in Requests,
               \/ TakeResult(r) \/ Leave(r) \/ StreamEnds(r) \/ Embed(r) \/ Disconnect(r)
               \/ GenerationEnds(r)
        PROVE  ShutdownInv'
    BY <2>0, <2>1, <2>7 DEF TakeResult, Leave, StreamEnds, Embed, Disconnect, GenerationEnds,
                            queued, models, Finished
  <2>8. ASSUME NEW r \in Requests, Tracker(r) \/ RejectDrained(r) PROVE ShutdownInv'
    BY <2>0, <2>1, <2>3, <2>8 DEF Tracker, RejectDrained, queued, Adms
  <2>9. ASSUME NEW w \in Workers, Worker(w) PROVE ShutdownInv'
    <3>1. UNCHANGED <<mdl, adm, cl>>
      BY <2>9 DEF Worker, Dequeue, Wake, CheckRunning, SubmitFails, SubmitSucceeds, models
    <3>2. queue'.closed = queue.closed
      BY <2>0, <2>9 DEF Worker, Dequeue, Wake, CheckRunning, SubmitFails, SubmitSucceeds,
         queued, Queues
    <3>3. \A s \in Slots : slot'[s].closing = slot[s].closing
      BY <2>0, <2>9 DEF Worker, Dequeue, Wake, CheckRunning, SubmitFails, SubmitSucceeds, Rejected,
                        Release, models, SlotRecs
    <3> QED BY <2>1, <3>1, <3>2, <3>3
  <2>10. CASE UNCHANGED vars
    BY <2>1, <2>10 DEF vars
  <2> QED BY <2>2, <2>4, <2>5, <2>6, <2>7, <2>8, <2>9, <2>10, ShutdownAdm
          DEF Next, Client, ShutdownRest, AdmStep, EngineInv
<1> QED BY <1>1, <1>2, ShapeInvariant, EngineInvariant, PTL DEF Spec

(***************************************************************************)
(* RequestQueue.Enqueue sends on a closed channel only if the server went  *)
(* on with its shutdown while handlers were still running.                 *)
(***************************************************************************)
THEOREM PanicOnlyWhenForcedInvariant == Spec => []PanicOnlyWhenForced
<1>1. ShutdownInv => PanicOnlyWhenForced
  BY DEF ShutdownInv, PanicLate, PanicOnlyWhenForced
<1> QED BY <1>1, ShutdownInvariant, PTL

\* What StopAndWait has established on its way.
StopInv ==
  /\ queue.closed => queue.heap = {}
  /\ adm.pc \in {"reject", "joinWorkers", "joinTrackers"} => queue.closed
  /\ adm.pc = "joinTrackers" => WorkersJoined
  /\ pool.state = "stopped" =>
       /\ queue.closed /\ WorkersJoined /\ track = {}
       /\ \/ adm.pc \in {"unload", "idle", "done"}
          \/ adm.pc = "close" /\ adm.next = "idle"

(***************************************************************************)
(* StopInv is an invariant: workers that have returned stay so, and        *)
(* without a worker nothing is tracked any more.                           *)
(***************************************************************************)
LEMMA StopInvariant == Spec => []StopInv
<1>1. Init => StopInv
  BY DEF Init, StopInv
<1>2. ASSUME Shape, Busy, OwnerInv, StopInv, [Next]_vars PROVE StopInv'
  <2> USE <1>2
  <2>0. adm \in Adms /\ queue \in Queues /\ pool \in Pools /\ wk \in [Workers -> WorkerRecs]
    BY DEF Shape, AdmShape, QueueShape, PoolShape, WkShape
  <2>1. CASE AdmStep
    <3>0. UNCHANGED <<queue, wk, track>>
      BY <2>1, AdmFrame DEF Shape
    <3> USE <2>0, <3>0 DEF Adms, Pools, At, StopInv, WorkersJoined
    <3>1. CASE LoadModel
      BY <3>1 DEF LoadModel
    <3>2. CASE CreateBlueGreen
      BY <3>2 DEF CreateBlueGreen, Goto
    <3>3. CASE Swap
      BY <3>3 DEF Swap, Detach
    <3>4. CASE ForceDetach
      BY <3>4 DEF ForceDetach, Detach
    <3>5. CASE CreateForce
      BY <3>5 DEF CreateForce, Goto
    <3>6. CASE Install
      BY <3>6 DEF Install, Goto
    <3>7. CASE LoadReady
      BY <3>7 DEF LoadReady, Goto
    <3>8. CASE CloseEngineSlot
      BY <3>8 DEF CloseEngineSlot, Goto
    <3>9. CASE BeginEngineShutdown
      BY <3>9 DEF BeginEngineShutdown
    <3>10. CASE DrainEngine
      BY <3>10 DEF DrainEngine, Goto
    <3>11. CASE EngineDrained
      BY <3>11 DEF EngineDrained, Goto
    <3>12. CASE HTTPDrained
      BY <3>12 DEF HTTPDrained
    <3>13. CASE StopPool
      BY <3>13 DEF StopPool, Goto
    <3>14. CASE RejectDone
      BY <3>14 DEF RejectDone, Goto
    <3>15. CASE JoinWorkers
      BY <3>15 DEF JoinWorkers, Goto
    <3>16. CASE JoinTrackers
      BY <3>16 DEF JoinTrackers, Goto, TrackersJoined
    <3>17. CASE JoinTimeout
      BY <3>17 DEF JoinTimeout, Goto
    <3>18. CASE Unload
      BY <3>18 DEF Unload, Detach
    <3>19. CASE CloseTimeout
      BY <3>19 DEF CloseTimeout
    <3>20. CASE UnloadIdle
      BY <3>20 DEF UnloadIdle, Goto
    <3>21. ASSUME NEW s \in Slots, CloseLate(s) PROVE StopInv'
      BY <3>21 DEF CloseLate
    <3> HIDE DEF Adms, Pools, At, StopInv, WorkersJoined
    <3> QED BY <2>1, <3>1, <3>2, <3>3, <3>4, <3>5, <3>6, <3>7, <3>8, <3>9, <3>10, <3>11, <3>12,
               <3>13, <3>14, <3>15, <3>16, <3>17, <3>18, <3>19, <3>20, <3>21
            DEF AdmStep, LoadRest
  <2>2. CASE CloseQueue
    BY <2>0, <2>2 DEF CloseQueue, LeftInHeap, At, Adms, Queues, StopInv
  <2>3. ASSUME pool' = pool, adm'.pc = adm.pc, adm'.next = adm.next,
               queue'.closed = queue.closed, queue.closed => queue'.heap \subseteq queue.heap,
               WorkersJoined => UNCHANGED wk /\ track' \subseteq track
        PROVE  StopInv'
    BY <2>3 DEF StopInv, WorkersJoined
  <2>4. ASSUME NEW r \in Requests, Enqueue(r) PROVE StopInv'
    BY <2>0, <2>3, <2>4 DEF Enqueue, queued, Queues
  <2>5. ASSUME NEW r \in Requests, Signal(r) PROVE StopInv'
    BY <2>0, <2>3, <2>5 DEF Signal, Signalled, queued, Queues
  <2>6. ASSUME NEW r \in Requests,
               \/ AcquireEngineLease(r) \/ PrepareFails(r) \/ TakeResult(r) \/ Leave(r)
               \/ StreamEnds(r) \/ Embed(r) \/ EmbedEnds(r) \/ Disconnect(r) \/ Tracker(r)
               \/ GenerationEnds(r) \/ RejectDrained(r)
        PROVE  StopInv'
    <3>1. pool' = pool /\ queue' = queue /\ wk' = wk /\ track' \subseteq track
      BY <2>6 DEF AcquireEngineLease, PrepareFails, TakeResult, Leave, StreamEnds, Embed, EmbedEnds,
                  Disconnect, Tracker, GenerationEnds, RejectDrained, queued
    <3>2. adm'.pc = adm.pc /\ adm'.next = adm.next
      BY <2>0, <2>6 DEF AcquireEngineLease, PrepareFails, TakeResult, Leave, StreamEnds, Embed,
                        EmbedEnds, Disconnect, Tracker, GenerationEnds, RejectDrained, Adms
    <3> QED BY <2>3, <3>1, <3>2
  <2>7. ASSUME NEW w \in Workers, Worker(w) PROVE StopInv'
    <3>1. ~WorkersJoined /\ UNCHANGED <<pool, adm>>
      BY <2>7 DEF Worker, Dequeue, Wake, CheckRunning, SubmitFails, SubmitSucceeds, WorkersJoined
    <3>2. queue'.closed = queue.closed /\ (queue.closed => queue'.heap = queue.heap)
      BY <2>0, <2>7 DEF Worker, Dequeue, Wake, CheckRunning, SubmitFails, SubmitSucceeds,
         queued, Queues
    <3> QED BY <2>3, <3>1, <3>2
  <2>8. CASE UNCHANGED vars
    BY <2>3, <2>8 DEF vars
  <2> QED BY <2>1, <2>2, <2>4, <2>5, <2>6, <2>7, <2>8 DEF Next, Client, ShutdownRest, AdmStep
<1> QED BY <1>1, <1>2, ShapeInvariant, OwnerInvariant, PTL DEF Spec

(***************************************************************************)
(* A StopAndWait that returns without an error leaves nothing behind of    *)
(* what the queue has taken: no request, worker, tracker, generation or    *)
(* lease, and no client without an answer.                                 *)
(***************************************************************************)
THEOREM StoppedMeansResolvedInvariant == Spec => []StoppedMeansResolved
<1>1. ASSUME Shape, Busy, OwnerInv, AnswerInv, GenOwned, StopInv
      PROVE  StoppedMeansResolved
  <2> SUFFICES ASSUME pool.state = "stopped"
               PROVE  /\ queue.heap = {} /\ adm.drained = {} /\ WorkersJoined /\ track = {}
                      /\ \A r \in Requests : cl[r] # "embedding" =>
                           /\ gen[r] # "live"
                           /\ lease[r] # NoSlot => cl[r] = "leased"
                           /\ cl[r] = "waiting" => result[r] # "empty"
    BY DEF StoppedMeansResolved
  <2>1. queue.heap = {} /\ WorkersJoined /\ track = {} /\ adm.pc # "reject"
    BY <1>1 DEF StopInv
  <2>2. adm.drained = {}
    BY <1>1, <2>1 DEF OwnerInv, DrainedInReject
  <2>3. \A r \in Requests : ~Pending(r)
    BY <1>1, <2>1, <2>2, ServingAssumption DEF Pending, WorkersJoined, Busy
  <2>4. ASSUME NEW r \in Requests, cl[r] # "embedding"
        PROVE  /\ gen[r] # "live"
               /\ lease[r] # NoSlot => cl[r] = "leased"
               /\ cl[r] = "waiting" => result[r] # "empty"
    <3>1. gen[r] # "live"
      BY <1>1, <2>1, <2>4 DEF GenOwned
    <3>2. lease[r] # NoSlot => cl[r] = "leased"
      BY <1>1, <2>1, <2>3, <2>4 DEF OwnerInv, LeaseHasOneOwner, ClientOwns
    <3>3. cl[r] = "waiting" => result[r] # "empty"
      BY <1>1, <2>3 DEF AnswerInv, OneAnswer
    <3> QED BY <3>1, <3>2, <3>3
  <2> QED BY <2>1, <2>2, <2>4
<1> QED BY <1>1, ShapeInvariant, OwnerInvariant, AnswerInvariant, GenOwnedInvariant,
           StopInvariant, PTL
=============================================================================
