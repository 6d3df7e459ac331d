------------------------ MODULE StreamBinding_proofs ------------------------
(***************************************************************************)
(* Proofs that StreamBinding keeps its safety properties and implements    *)
(* EngineService for every number of requests, every choice of embeddings, *)
(* every capacity of a channel and every bound on the tokens.              *)
(*                                                                         *)
(* The shapes of the variables come first, then what the submitting        *)
(* goroutine, the callback thread and the registry know of each other,     *)
(* then the permit and the hooks, and last the two results that rest on    *)
(* all of it: no event is lost, and the binding is an EngineService.       *)
(***************************************************************************)
EXTENDS StreamBinding, SequenceTheorems, TLAPS

Subs == {"idle", "leased", "permitted", "registered", "submitted", "timedout", "awaiting",
         "returned", "failed"}
Watches == {"none", "watching", "cancelling", "awaiting", "exited"}
Events == 0..MaxTokens
Channels == [buf : Seq(Events), closed : BOOLEAN]
Callbacks == [pc : {"idle", "send", "close", "delete", "signal"}, req : Requests \cup {NoReq},
              ev : Events]

\* The shapes of the variables.
NativeShape == /\ gate \in {"open", "draining", "down"}
               /\ phase \in [Requests -> {"new", "refused", "accepted", "ended"}]
               /\ tokens \in [Requests -> Events]
ConfigShape == exclusive \in BOOLEAN /\ embeds \subseteq Requests
SubShape == sub \in [Requests -> Subs] /\ permit \in Requests \cup {NoReq}
WatchShape == watch \in [Requests -> Watches]
ContextShape == left \subseteq cancelled /\ cancelled \subseteq Requests
RegShape == reg \subseteq Requests /\ done \subseteq Generations /\ releasers \subseteq Generations
ChanShape == chan \in [Requests -> Channels] /\ got \in [Requests -> Seq(Events)]
CbShape == cb \in Callbacks
HooksShape == /\ handle \in {"live", "nil"} /\ mu \in {"free", "begin", "close"}
              /\ hooks \in [begin : {"idle", "begun", "over"},
                            close : {"idle", "begun", "joined", "over"}]
Bounded == \A r \in Requests : Len(chan[r].buf) <= Capacity(r)

Shape == /\ NativeShape /\ ConfigShape /\ SubShape /\ WatchShape /\ ContextShape /\ RegShape
         /\ ChanShape /\ CbShape /\ HooksShape

\* How far the goroutine that submits a request is, and what the native engine
\* has promised to it.
Progress ==
  \A r \in Requests :
    /\ sub[r] \in {"idle", "leased", "permitted", "registered"} => phase[r] = "new"
    /\ sub[r] \in {"submitted", "timedout", "awaiting", "returned"} => Accepted(r)
    /\ sub[r] = "failed" => phase[r] \in {"new", "refused"}
    /\ r \in releasers => sub[r] = "returned"

\* What the callback thread holds, and what it has done already.
Dispatching ==
  /\ cb.pc = "idle" <=> cb.req = NoReq
  /\ cb.pc = "idle" => cb = Quiet
  /\ cb.pc = "send" => /\ cb.req \in reg
                       /\ cb.ev = Final => phase[cb.req] = "ended"
                       /\ cb.ev # Final => /\ phase[cb.req] = "accepted"
                                           /\ cb.req \in Generations /\ cb.ev = tokens[cb.req]
  /\ cb.pc \in {"close", "delete", "signal"} => phase[cb.req] = "ended"
  /\ cb.pc \in {"close", "delete"} => cb.req \in reg
  /\ cb.pc \in {"close", "signal"} => cb.req \in Generations
  /\ cb.pc = "delete" /\ cb.req \in Generations => chan[cb.req].closed
  /\ cb.pc = "signal" => chan[cb.req].closed /\ cb.req \notin reg

\* An entry stays registered until the terminal event has been dispatched.
Registered ==
  \A r \in Requests :
    /\ phase[r] = "accepted" \/ sub[r] = "registered" => r \in reg
    /\ phase[r] = "ended" /\ r \in Generations => r \in done \/ cb.req = r
\* Only a caller ends the context of a generation before its Done.
ContextOutlives == cancelled \ left \subseteq done

\* The permit of an exclusive engine is held from Acquire to Done.
PermitHeld ==
  exclusive => \A r \in Generations :
    \/ sub[r] \in {"permitted", "registered", "submitted"}
    \/ Accepted(r) /\ r \notin done
    => permit = r

\* The mutex of the engine and the two shutdown hooks.
HookInv ==
  /\ mu = "begin" <=> hooks.begin = "begun"
  /\ mu = "close" <=> hooks.close \in {"begun", "joined"}
  /\ gate = "draining" <=> hooks.begin = "begun" \/ hooks.close = "begun"
  /\ hooks.close \in {"joined", "over"} => gate = "down"
  /\ handle = "nil" <=> hooks.close = "over"
\* Nothing happens in an engine that is down.
DownIsQuiet == gate = "down" => cb = Quiet /\ \A r \in Requests : phase[r] # "accepted"

(***************************************************************************)
(* A step is one of the callback thread, of the sweeper, of a shutdown     *)
(* hook, or of a goroutine that works for one request.                     *)
(***************************************************************************)
LEMMA NextCases ==
  ASSUME [Next]_vars
  PROVE  \/ Send \/ CloseChannel \/ Delete \/ SignalDone \/ Sweep
         \/ BeginShutdown \/ BeginShutdownReturns \/ Close \/ CloseReturns
         \/ \E r \in Requests :
              \/ Lease(r) \/ Acquire(r) \/ GiveUp(r) \/ Register(r) \/ SubmitAccepted(r)
              \/ SubmitRefused(r) \/ Return(r) \/ EmbeddingReturns(r) \/ CallerCancels(r)
              \/ Read(r) \/ Watch(r) \/ Releaser(r) \/ EmbeddingTimeout(r) \/ Callback(r)
         \/ UNCHANGED vars
BY DEF Next, Dispatch, Submitter

(***************************************************************************)
(* NewDenseEngine starts with the shapes, an empty registry and no permit  *)
(* taken.                                                                  *)
(***************************************************************************)
LEMMA InitShape == Init => Shape
<1> SUFFICES ASSUME Init PROVE Shape
  OBVIOUS
<1> USE BindingAssumption DEF Init
<1>1. NativeShape BY DEF NativeShape, Native!Init, Events
<1>2. ConfigShape BY DEF ConfigShape
<1>3. SubShape /\ WatchShape /\ ContextShape BY DEF SubShape, WatchShape, ContextShape, Subs, Watches
<1>4. RegShape BY DEF RegShape
<1>5. ChanShape BY DEF ChanShape, Channels
<1>6. CbShape /\ HooksShape BY DEF CbShape, HooksShape, Callbacks, Quiet, Events, Final
<1> QED BY <1>1, <1>2, <1>3, <1>4, <1>5, <1>6 DEF Shape

(***************************************************************************)
(* What a step does to the native engine keeps its shape, and the          *)
(* configuration never changes.                                            *)
(***************************************************************************)
LEMMA NativeShapeNext ==
  ASSUME NativeShape, ConfigShape, [Next]_vars
  PROVE  NativeShape' /\ ConfigShape' /\ UNCHANGED config
<1> USE BindingAssumption DEF NativeShape, ConfigShape, native, config, Events
<1>1. CASE Send \/ CloseChannel \/ Delete \/ SignalDone \/ Sweep
  BY <1>1 DEF Send, CloseChannel, Delete, SignalDone, Sweep
<1>2. CASE BeginShutdown \/ BeginShutdownReturns \/ Close \/ CloseReturns
  BY <1>2 DEF BeginShutdown, BeginShutdownReturns, Close, CloseReturns, Native!Drain, Native!Down
<1>3. ASSUME NEW r \in Requests,
             \/ Lease(r) \/ Acquire(r) \/ GiveUp(r) \/ Register(r) \/ Return(r)
             \/ EmbeddingReturns(r) \/ CallerCancels(r) \/ Read(r) \/ Watch(r) \/ Releaser(r)
             \/ EmbeddingTimeout(r)
      PROVE  UNCHANGED <<native, config>>
  BY <1>3 DEF Lease, Acquire, GiveUp, Register, Return, EmbeddingReturns, CallerCancels, Read,
              Watch, Releaser, EmbeddingTimeout
<1>4. ASSUME NEW r \in Requests, SubmitAccepted(r) \/ SubmitRefused(r) \/ Callback(r)
      PROVE  NativeShape' /\ UNCHANGED config
  BY <1>4 DEF SubmitAccepted, SubmitRefused, Callback, Native!Accept, Native!Refuse,
              Native!Token, Native!End
<1>5. CASE UNCHANGED vars
  BY <1>5 DEF vars
<1> QED BY <1>1, <1>2, <1>3, <1>4, <1>5, NextCases

(***************************************************************************)
(* A step keeps the shapes of what the goroutines of a request hold.       *)
(***************************************************************************)
LEMMA SubShapeNext ==
  ASSUME SubShape, WatchShape, ContextShape, ConfigShape, [Next]_vars
  PROVE  SubShape' /\ WatchShape' /\ ContextShape'
<1> USE BindingAssumption DEF SubShape, WatchShape, ContextShape, Subs, Watches
<1>1. CASE \/ Send \/ CloseChannel \/ Delete \/ SignalDone \/ Sweep
           \/ BeginShutdown \/ BeginShutdownReturns \/ Close \/ CloseReturns
  BY <1>1 DEF Send, CloseChannel, Delete, SignalDone, Sweep, BeginShutdown,
              BeginShutdownReturns, Close, CloseReturns
<1>2. ASSUME NEW r \in Requests,
             \/ Lease(r) \/ Acquire(r) \/ GiveUp(r) \/ Register(r) \/ SubmitAccepted(r)
             \/ SubmitRefused(r) \/ EmbeddingReturns(r) \/ EmbeddingTimeout(r)
      PROVE  SubShape' /\ UNCHANGED <<watch, left, cancelled>>
  BY <1>2 DEF Lease, Acquire, GiveUp, Register, SubmitAccepted, SubmitRefused, EmbeddingReturns,
              EmbeddingTimeout, Released
<1>3. ASSUME NEW r \in Requests, Return(r) \/ Watch(r)
      PROVE  SubShape' /\ WatchShape' /\ UNCHANGED <<left, cancelled>>
  BY <1>3 DEF Return, Watch
<1>4. ASSUME NEW r \in Requests, CallerCancels(r) \/ Read(r) \/ Releaser(r) \/ Callback(r)
      PROVE  SubShape' /\ WatchShape' /\ ContextShape'
  BY <1>4 DEF CallerCancels, CancelTree, Read, Releaser, Released, Callback
<1>5. CASE UNCHANGED vars
  BY <1>5 DEF vars
<1> QED BY <1>1, <1>2, <1>3, <1>4, <1>5, NextCases

(***************************************************************************)
(* A step keeps the shapes of the registry, the callback thread and the    *)
(* hooks.                                                                  *)
(***************************************************************************)
LEMMA RegShapeNext ==
  ASSUME Shape, Dispatching, [Next]_vars
  PROVE  RegShape' /\ CbShape' /\ HooksShape'
<1>0. UNCHANGED embeds /\ NativeShape'
  BY NativeShapeNext DEF config, Shape
<1> USE <1>0, BindingAssumption DEF Shape, RegShape, CbShape, HooksShape, Callbacks, Generations
<1>1. CASE Send \/ CloseChannel \/ Delete
  BY <1>1 DEF Send, CloseChannel, Delete, AfterSend, Quiet, Final, Events
<1>2. CASE SignalDone \/ Sweep
  BY <1>2 DEF SignalDone, Sweep, Stale, Quiet, Final, Events, Dispatching
<1>3. CASE BeginShutdown \/ BeginShutdownReturns \/ Close \/ CloseReturns
  BY <1>3 DEF BeginShutdown, BeginShutdownReturns, Close, CloseReturns
<1>4. ASSUME NEW r \in Requests,
             \/ Lease(r) \/ Acquire(r) \/ GiveUp(r) \/ Register(r) \/ SubmitAccepted(r)
             \/ SubmitRefused(r) \/ Return(r) \/ EmbeddingReturns(r) \/ CallerCancels(r)
             \/ Read(r) \/ Watch(r) \/ Releaser(r) \/ EmbeddingTimeout(r)
      PROVE  RegShape' /\ UNCHANGED <<cb, hooks, handle, mu>>
  BY <1>4 DEF Lease, Acquire, GiveUp, Register, SubmitAccepted, SubmitRefused, Return,
              EmbeddingReturns, CallerCancels, Read, Watch, Releaser, EmbeddingTimeout
<1>5. ASSUME NEW r \in Requests, Callback(r)
      PROVE  CbShape' /\ UNCHANGED <<reg, done, releasers, hooks, handle, mu>>
  BY <1>5 DEF Callback, NativeShape, Events, Quiet, Final
<1>6. CASE UNCHANGED vars
  BY <1>6 DEF vars
<1> QED BY <1>1, <1>2, <1>3, <1>4, <1>5, <1>6, NextCases

\* The channels after one of them has a new buffer, or is closed.
WithBuf(c, x, b) == [c EXCEPT ![x].buf = b]
WithClosed(c, x) == [c EXCEPT ![x].closed = TRUE]

(***************************************************************************)
(* What a Go channel operation does to one of the output channels: only    *)
(* that channel changes, and only the part the operation is about.         *)
(***************************************************************************)
LEMMA BufferUpdate ==
  ASSUME NEW c \in [Requests -> Channels], NEW x \in Requests, NEW b \in Seq(Events)
  PROVE  /\ WithBuf(c, x, b) \in [Requests -> Channels]
         /\ WithBuf(c, x, b)[x].buf = b /\ WithBuf(c, x, b)[x].closed = c[x].closed
         /\ \A r \in Requests : r # x => WithBuf(c, x, b)[r] = c[r]
BY DEF Channels, WithBuf

(***************************************************************************)
(* The same for the close of a channel.                                    *)
(***************************************************************************)
LEMMA ClosedUpdate ==
  ASSUME NEW c \in [Requests -> Channels], NEW x \in Requests
  PROVE  /\ WithClosed(c, x) \in [Requests -> Channels]
         /\ WithClosed(c, x)[x].buf = c[x].buf /\ WithClosed(c, x)[x].closed = TRUE
         /\ \A r \in Requests : r # x => WithClosed(c, x)[r] = c[r]
         /\ \A r \in Requests : WithClosed(c, x)[r].buf = c[r].buf
BY DEF Channels, WithClosed

(***************************************************************************)
(* Sending to a channel and receiving from it do not close it.             *)
(***************************************************************************)
LEMMA StaysOpen ==
  ASSUME Shape, Send \/ \E r \in Requests : Read(r) \/ EmbeddingReturns(r)
  PROVE  \A q \in Requests : chan'[q].closed = chan[q].closed
<1>0. chan \in [Requests -> Channels]
  BY DEF Shape, ChanShape
<1>1. ASSUME NEW x, NEW b, chan' = [chan EXCEPT ![x].buf = b]
      PROVE  \A q \in Requests : chan'[q].closed = chan[q].closed
  BY <1>0, <1>1 DEF Channels
<1> QED BY <1>1 DEF Send, Read, EmbeddingReturns

(***************************************************************************)
(* A receive takes the head off a buffer, a send puts an event at its end. *)
(***************************************************************************)
LEMMA BufferOps ==
  ASSUME NEW b \in Seq(Events), NEW e \in Events
  PROVE  /\ Append(b, e) \in Seq(Events) /\ Len(Append(b, e)) = Len(b) + 1
         /\ b # <<>> => /\ Head(b) \in Events /\ Tail(b) \in Seq(Events)
                        /\ Len(Tail(b)) < Len(b)
<1>1. Append(b, e) \in Seq(Events) /\ Len(Append(b, e)) = Len(b) + 1
  BY AppendProperties
<1>2. ASSUME b # <<>>
      PROVE  Head(b) \in Events /\ Tail(b) \in Seq(Events) /\ Len(Tail(b)) < Len(b)
  BY <1>2, HeadTailProperties, LenProperties
<1> QED BY <1>1, <1>2

(***************************************************************************)
(* A step keeps the shapes of the channels and of what readers have        *)
(* received, and no channel holds more than its capacity.                  *)
(***************************************************************************)
LEMMA ChanShapeNext ==
  ASSUME Shape, Bounded, [Next]_vars
  PROVE  ChanShape' /\ Bounded'
<1>0. UNCHANGED embeds
  BY NativeShapeNext DEF config, Shape
<1>1. ASSUME NEW q \in Requests
      PROVE  /\ chan[q].buf \in Seq(Events) /\ Len(chan[q].buf) \in Nat
             /\ Capacity(q) \in Nat /\ Capacity(q)' = Capacity(q) /\ Len(chan[q].buf) <= Capacity(q)
  <2>1. chan[q].buf \in Seq(Events)
    BY DEF Shape, ChanShape, Channels
  <2> QED BY <2>1, <1>0, LenProperties, BindingAssumption DEF Capacity, Bounded
<1>c. chan \in [Requests -> Channels] /\ got \in [Requests -> Seq(Events)]
  BY DEF Shape, ChanShape
<1>2. CASE Send
  <2>1. cb.ev \in Events /\ got' = got /\ got \in [Requests -> Seq(Events)]
    BY <1>2 DEF Send, Shape, ChanShape, CbShape, Callbacks
  <2>2. CASE UNCHANGED chan
    BY <1>1, <2>1, <2>2 DEF Shape, ChanShape, Bounded
  <2>3. ASSUME NEW x \in Requests, Len(chan[x].buf) < Capacity(x),
               chan' = WithBuf(chan, x, Append(chan[x].buf, cb.ev))
        PROVE  ChanShape' /\ Bounded'
    <3>1. /\ Append(chan[x].buf, cb.ev) \in Seq(Events)
          /\ Len(Append(chan[x].buf, cb.ev)) = Len(chan[x].buf) + 1
      BY <1>1, <2>1, BufferOps
    <3>2. /\ chan' \in [Requests -> Channels] /\ chan'[x].buf = Append(chan[x].buf, cb.ev)
          /\ \A r \in Requests : r # x => chan'[r] = chan[r]
      <4>1. PICK c \in [Requests -> Channels], b \in Seq(Events) :
              c = chan /\ b = Append(chan[x].buf, cb.ev)
        BY <1>c, <3>1
      <4>2. /\ WithBuf(c, x, b) \in [Requests -> Channels] /\ WithBuf(c, x, b)[x].buf = b
            /\ \A r \in Requests : r # x => WithBuf(c, x, b)[r] = c[r]
        BY ONLY c \in [Requests -> Channels], b \in Seq(Events), x \in Requests, BufferUpdate
      <4>3. chan' = WithBuf(c, x, b)
        BY <2>3, <4>1
      <4> QED BY <4>1, <4>2, <4>3
    <3>3. ASSUME NEW q \in Requests PROVE Len(chan'[q].buf) <= Capacity(q)'
      <4>1. CASE q = x
        BY <1>1, <2>3, <3>1, <3>2, <4>1
      <4>2. CASE q # x
        BY <1>1, <3>2, <4>2
      <4> QED BY <4>1, <4>2
    <3> QED BY <2>1, <3>2, <3>3 DEF ChanShape, Bounded
  <2>4. CASE cb.req \notin Requests /\ chan' = [chan EXCEPT ![cb.req].buf = Append(@, cb.ev)]
    <3>1. chan' = chan
      BY <2>4 DEF Shape, ChanShape
    <3> QED BY <2>2, <3>1
  <2> QED BY <1>2, <2>2, <2>3, <2>4 DEF Send, WithBuf
<1>3. CASE CloseChannel
  <2>1. got' = got /\ chan' = [chan EXCEPT ![cb.req].closed = TRUE]
    BY <1>3 DEF CloseChannel
  <2>2. chan' \in [Requests -> Channels] /\ \A q \in Requests : chan'[q].buf = chan[q].buf
    <3>1. ASSUME NEW x \in Requests, chan' = WithClosed(chan, x)
          PROVE  chan' \in [Requests -> Channels] /\ \A q \in Requests : chan'[q].buf = chan[q].buf
      <4>1. PICK c \in [Requests -> Channels] : c = chan
        BY <1>c
      <4>2. /\ WithClosed(c, x) \in [Requests -> Channels]
            /\ \A q \in Requests : WithClosed(c, x)[q].buf = c[q].buf
        BY ONLY c \in [Requests -> Channels], x \in Requests, ClosedUpdate
      <4> QED BY <3>1, <4>1, <4>2
    <3>2. CASE cb.req \notin Requests
      BY <2>1, <3>2 DEF Shape, ChanShape
    <3> QED BY <2>1, <3>1, <3>2 DEF WithClosed
  <2>3. ASSUME NEW q \in Requests PROVE Len(chan'[q].buf) <= Capacity(q)'
    BY <1>1, <2>2
  <2> QED BY <2>1, <2>2, <2>3 DEF Shape, ChanShape, Bounded
<1>4. ASSUME UNCHANGED <<chan, got>> PROVE ChanShape' /\ Bounded'
  BY <1>1, <1>4 DEF Shape, ChanShape, Bounded
<1>5. CASE \/ Delete \/ SignalDone \/ Sweep
           \/ BeginShutdown \/ BeginShutdownReturns \/ Close \/ CloseReturns
  BY <1>4, <1>5 DEF Delete, SignalDone, Sweep, BeginShutdown, BeginShutdownReturns, Close,
                    CloseReturns
<1>6. ASSUME NEW r \in Requests,
             \/ Lease(r) \/ Acquire(r) \/ GiveUp(r) \/ Register(r) \/ SubmitAccepted(r)
             \/ SubmitRefused(r) \/ Return(r) \/ CallerCancels(r) \/ Watch(r) \/ Releaser(r)
             \/ EmbeddingTimeout(r) \/ Callback(r)
      PROVE  UNCHANGED <<chan, got>>
  BY <1>6 DEF Lease, Acquire, GiveUp, Register, SubmitAccepted, SubmitRefused, Return,
              CallerCancels, Watch, Releaser, EmbeddingTimeout, Callback
<1>7. ASSUME NEW r \in Requests, Read(r) \/ EmbeddingReturns(r) PROVE ChanShape' /\ Bounded'
  <2>1. /\ chan[r].buf # <<>> /\ chan' = WithBuf(chan, r, Tail(chan[r].buf))
        /\ got' = [got EXCEPT ![r] = Append(@, Head(chan[r].buf))] \/ got' = got
    BY <1>7 DEF Read, EmbeddingReturns, WithBuf
  <2>2. /\ Tail(chan[r].buf) \in Seq(Events) /\ Len(Tail(chan[r].buf)) < Len(chan[r].buf)
        /\ Head(chan[r].buf) \in Events
    BY <1>1, <2>1, HeadTailProperties, LenProperties
  <2>3. /\ chan' \in [Requests -> Channels] /\ chan'[r].buf = Tail(chan[r].buf)
        /\ \A q \in Requests : q # r => chan'[q] = chan[q]
    BY <1>c, <2>1, <2>2, BufferUpdate
  <2>4. got' \in [Requests -> Seq(Events)]
    <3>1. Append(got[r], Head(chan[r].buf)) \in Seq(Events)
      BY <1>c, <2>2, AppendProperties
    <3> QED BY <1>c, <2>1, <3>1
  <2>5. ASSUME NEW q \in Requests PROVE Len(chan'[q].buf) <= Capacity(q)'
    <3>1. CASE q = r
      <4>1. Len(Tail(chan[r].buf)) \in Nat
        BY <2>2, LenProperties
      <4>2. Len(chan'[r].buf) = Len(Tail(chan[r].buf))
        BY <2>3
      <4> QED BY <1>1, <2>2, <3>1, <4>1, <4>2
    <3>2. CASE q # r
      BY <1>1, <2>3, <3>2
    <3> QED BY <3>1, <3>2
  <2> QED BY <2>3, <2>4, <2>5 DEF ChanShape, Bounded
<1>8. CASE UNCHANGED vars
  BY <1>4, <1>8 DEF vars
<1> QED BY <1>2, <1>3, <1>4, <1>5, <1>6, <1>7, <1>8, NextCases

(***************************************************************************)
(* The goroutine that submits, the callback thread and the registry:       *)
(* together these are inductive, given the shapes.                         *)
(***************************************************************************)
BindingInv == Progress /\ Dispatching /\ Registered /\ ContextOutlives /\ DoneIsLast

(***************************************************************************)
(* NewDenseEngine establishes them.                                        *)
(***************************************************************************)
LEMMA InitBinding == Init => BindingInv /\ Bounded
<1> SUFFICES ASSUME Init PROVE BindingInv /\ Bounded
  OBVIOUS
<1> USE BindingAssumption DEF Init, Native!Init
<1>1. Progress BY DEF Progress
<1>2. Dispatching BY DEF Dispatching, Quiet
<1>3. Registered BY DEF Registered
<1>4. ContextOutlives /\ DoneIsLast BY DEF ContextOutlives, DoneIsLast
<1>5. Bounded
  <2>1. \A r \in Requests : chan[r].buf = <<>> /\ Capacity(r) \in Nat
    BY DEF Capacity
  <2>2. Len(<<>>) = 0
    OBVIOUS
  <2>3. ASSUME NEW r \in Requests PROVE Len(chan[r].buf) <= Capacity(r)
    <3>1. Len(chan[r].buf) = 0
      BY <2>1, <2>2
    <3>2. Capacity(r) \in Nat
      BY <2>1
    <3> HIDE DEF Init
    <3> QED BY <3>1, <3>2
  <2> QED BY <2>3 DEF Bounded
<1> QED BY <1>1, <1>2, <1>3, <1>4, <1>5 DEF BindingInv

(***************************************************************************)
(* A goroutine that has submitted a request has had its answer from the    *)
(* native engine, and its releaser starts only then.                       *)
(***************************************************************************)
LEMMA ProgressNext ==
  ASSUME Shape, BindingInv, [Next]_vars
  PROVE  Progress'
<1> USE DEF Shape, NativeShape, SubShape, BindingInv, Progress, Accepted
<1>1. CASE \/ Send \/ CloseChannel \/ Delete \/ SignalDone \/ Sweep
           \/ BeginShutdown \/ BeginShutdownReturns \/ Close \/ CloseReturns
  BY <1>1 DEF Send, CloseChannel, Delete, SignalDone, Sweep, BeginShutdown, native,
              BeginShutdownReturns, Close, CloseReturns, Native!Drain, Native!Down
<1>2. ASSUME NEW r \in Requests,
             Lease(r) \/ Acquire(r) \/ GiveUp(r) \/ Register(r) \/ Return(r)
             \/ EmbeddingReturns(r) \/ EmbeddingTimeout(r)
      PROVE  Progress'
  BY <1>2 DEF Lease, Acquire, GiveUp, Register, Return, EmbeddingReturns, EmbeddingTimeout, native,
              RegShape, Generations
<1>3. ASSUME NEW r \in Requests, SubmitAccepted(r) \/ SubmitRefused(r) PROVE Progress'
  BY <1>3 DEF SubmitAccepted, SubmitRefused, Native!Accept, Native!Refuse
<1>4. ASSUME NEW r \in Requests, Callback(r) PROVE Progress'
  BY <1>4 DEF Callback, Native!Token, Native!End
<1>5. ASSUME NEW r \in Requests, CallerCancels(r) \/ Read(r) \/ Watch(r) \/ Releaser(r)
      PROVE  Progress'
  BY <1>5 DEF CallerCancels, Read, Watch, Releaser, native
<1>6. CASE UNCHANGED vars
  BY <1>6 DEF vars, native
<1> QED BY <1>1, <1>2, <1>3, <1>4, <1>5, <1>6, NextCases

(***************************************************************************)
(* The callback thread works through the order of dispatchGenerationEvent  *)
(* (send, close, delete, signal), and nobody takes the entry it works on   *)
(* from under it: the sweeper takes only entries whose Done is closed, and *)
(* there are none in the registry.                                         *)
(***************************************************************************)
LEMMA DispatchingNext ==
  ASSUME Shape, BindingInv, [Next]_vars
  PROVE  Dispatching'
<1>0. UNCHANGED embeds /\ CbShape' /\ NativeShape'
  BY NativeShapeNext, RegShapeNext DEF config, Shape, BindingInv
<1>1. cb.req \in Requests \cup {NoReq} /\ cb.pc \in {"idle", "send", "close", "delete", "signal"}
  BY DEF Shape, CbShape, Callbacks
<1> USE <1>0, <1>1, BindingAssumption DEF BindingInv, Dispatching, Generations, Final
<1>2. CASE Send
  <2>1. cb.req \in Requests /\ UNCHANGED <<reg, native>> /\ cb.pc = "send"
    BY <1>2 DEF Send
  <2>2. CASE cb.req \in embeds
    <3>1. cb' = [cb EXCEPT !.pc = "delete"]
      BY <1>2, <2>2 DEF Send, AfterSend
    <3>2. cb'.pc = "delete" /\ cb'.req = cb.req
      BY <3>1 DEF Shape, CbShape, Callbacks
    <3> QED BY <2>1, <2>2, <3>2 DEF native
  <2>3. CASE cb.req \notin embeds /\ cb.ev = Final
    <3>1. cb' = [cb EXCEPT !.pc = "close"]
      BY <1>2, <2>3 DEF Send, AfterSend
    <3>2. cb'.pc = "close" /\ cb'.req = cb.req
      BY <3>1 DEF Shape, CbShape, Callbacks
    <3> QED BY <2>1, <2>3, <3>2 DEF native
  <2>4. CASE cb' = Quiet
    BY <2>4 DEF Quiet
  <2> QED BY <1>2, <2>2, <2>3, <2>4 DEF Send, AfterSend
<1>3. CASE CloseChannel
  <2>1. /\ cb.req \in Requests /\ UNCHANGED <<reg, native>> /\ cb.pc = "close"
        /\ cb'.pc = "delete" /\ cb'.req = cb.req
    BY <1>3 DEF CloseChannel, Shape, CbShape, Callbacks
  <2>2. chan'[cb.req].closed = TRUE
    <3>1. ASSUME NEW x \in Requests, chan' = WithClosed(chan, x) PROVE chan'[x].closed = TRUE
      BY <3>1, ClosedUpdate DEF Shape, ChanShape
    <3> QED BY <1>3, <2>1, <3>1 DEF CloseChannel, WithClosed
  <2> QED BY <2>1, <2>2 DEF native
<1>4. CASE Delete
  <2>1. cb.req \in Requests /\ UNCHANGED <<chan, native>> /\ cb.pc = "delete" /\ reg' = reg \ {cb.req}
    BY <1>4 DEF Delete
  <2>2. CASE cb' = Quiet
    BY <2>2 DEF Quiet
  <2>3. CASE cb' = [cb EXCEPT !.pc = "signal"] /\ cb.req \in Generations
    <3>1. cb'.pc = "signal" /\ cb'.req = cb.req
      BY <2>3 DEF Shape, CbShape, Callbacks
    <3> QED BY <2>1, <2>3, <3>1 DEF native
  <2> QED BY <1>4, <2>1, <2>2, <2>3 DEF Delete
<1>5. CASE SignalDone
  BY <1>5 DEF SignalDone, Quiet
<1>6. CASE Sweep
  <2>1. UNCHANGED <<reg, cb, chan, native>>
    BY <1>6 DEF Sweep, Stale, DoneIsLast
  <2> QED BY <2>1 DEF native
<1>7. CASE BeginShutdown \/ BeginShutdownReturns \/ Close \/ CloseReturns
  BY <1>7 DEF BeginShutdown, native, BeginShutdownReturns, Close, CloseReturns, Native!Drain,
              Native!Down
<1>8. ASSUME NEW r \in Requests,
             \/ Lease(r) \/ Acquire(r) \/ GiveUp(r) \/ Register(r) \/ Return(r)
             \/ CallerCancels(r) \/ Watch(r) \/ Releaser(r) \/ EmbeddingTimeout(r)
      PROVE  Dispatching'
  <2>1. UNCHANGED <<cb, chan, native>> /\ reg \subseteq reg' /\ (cb.req \in reg' => cb.req = r \/ cb.req \in reg)
        /\ (r \in reg' => r \in reg \/ phase[r] = "new")
    BY <1>8 DEF Lease, Acquire, GiveUp, Register, Return, CallerCancels, Watch, Releaser,
                EmbeddingTimeout, Progress
  <2> QED BY <2>1 DEF native
<1>9. ASSUME NEW r \in Requests, SubmitAccepted(r) \/ SubmitRefused(r)
      PROVE  Dispatching'
  <2>1. /\ phase[r] = "new" /\ UNCHANGED <<cb, chan, tokens>>
        /\ \A q \in Requests : q # r => phase'[q] = phase[q] /\ (q \in reg' <=> q \in reg)
    BY <1>9 DEF SubmitAccepted, SubmitRefused, Native!Accept, Native!Refuse, Shape, NativeShape
  <2> QED BY <2>1
<1>10. ASSUME NEW r \in Requests, Read(r) \/ EmbeddingReturns(r) PROVE Dispatching'
  <2>1. UNCHANGED <<cb, reg, native>> /\ \A q \in Requests : chan'[q].closed = chan[q].closed
    BY <1>10, StaysOpen DEF Read, EmbeddingReturns
  <2> QED BY <2>1 DEF native
<1>11. ASSUME NEW r \in Requests, Callback(r) PROVE Dispatching'
  <2>1. r \in reg /\ UNCHANGED reg
    BY <1>11 DEF Callback, Registered, Native!Token, Native!End
  <2>2. cb' = [pc |-> "send", req |-> r, ev |-> IF phase'[r] = "ended" THEN Final ELSE tokens'[r]]
    BY <1>11, <2>1 DEF Callback
  <2>3. CASE r \in Generations /\ Native!Token(r)
    <3>1. phase' = phase /\ phase[r] = "accepted" /\ tokens'[r] = tokens[r] + 1 /\ tokens[r] \in Nat
      BY <2>3 DEF Native!Token, Shape, NativeShape, Events
    <3> QED BY <2>1, <2>2, <2>3, <3>1
  <2>4. CASE Native!End(r)
    <3>1. phase'[r] = "ended"
      BY <2>4 DEF Native!End, Shape, NativeShape
    <3> QED BY <2>1, <2>2, <3>1
  <2> QED BY <1>11, <2>3, <2>4 DEF Callback
<1>12. CASE UNCHANGED vars
  BY <1>12 DEF vars, native
<1> QED BY <1>2, <1>3, <1>4, <1>5, <1>6, <1>7, <1>8, <1>9, <1>10, <1>11, <1>12, NextCases

(***************************************************************************)
(* A request stays registered from registerGenerationContext until its     *)
(* terminal event has been dispatched or its submission refused.           *)
(***************************************************************************)
LEMMA RegisteredNext ==
  ASSUME Shape, BindingInv, [Next]_vars
  PROVE  Registered'
<1>0. UNCHANGED embeds
  BY NativeShapeNext DEF config, Shape
<1>1. cb.req \in Requests \cup {NoReq} /\ phase \in [Requests -> {"new", "refused", "accepted", "ended"}]
  BY DEF Shape, CbShape, Callbacks, NativeShape
<1> USE <1>0, <1>1, BindingAssumption DEF BindingInv, Registered, Generations
<1>2. CASE Send \/ CloseChannel
  <2>1. /\ UNCHANGED <<native, reg, done, sub>> /\ cb.req \in Requests
        /\ cb'.req = cb.req \/ phase[cb.req] = "accepted"
    BY <1>2 DEF Send, CloseChannel, AfterSend, Shape, CbShape, Callbacks, Dispatching
  <2> QED BY <2>1 DEF native
<1>3. CASE Delete
  <2>1. /\ UNCHANGED <<native, done, sub>> /\ cb.req \in Requests /\ phase[cb.req] = "ended"
        /\ reg' = reg \ {cb.req} /\ (cb'.req = cb.req \/ cb.req \in embeds)
    BY <1>3 DEF Delete, Shape, CbShape, Callbacks, Dispatching
  <2>2. sub[cb.req] # "registered"
    BY <2>1 DEF Progress
  <2> QED BY <2>1, <2>2 DEF native
<1>4. CASE SignalDone
  BY <1>4 DEF SignalDone, native
<1>5. CASE Sweep
  <2>1. UNCHANGED <<reg, cb, sub, native>> /\ done \subseteq done'
    BY <1>5 DEF Sweep, Stale, DoneIsLast
  <2> QED BY <2>1 DEF native
<1>6. CASE BeginShutdown \/ BeginShutdownReturns \/ Close \/ CloseReturns
  BY <1>6 DEF BeginShutdown, native, BeginShutdownReturns, Close, CloseReturns, Native!Drain,
              Native!Down
<1>7. ASSUME NEW r \in Requests,
             \/ Lease(r) \/ Acquire(r) \/ GiveUp(r) \/ Register(r) \/ Return(r)
             \/ CallerCancels(r) \/ Watch(r) \/ Releaser(r) \/ EmbeddingTimeout(r)
             \/ Read(r) \/ EmbeddingReturns(r)
      PROVE  Registered'
  <2>1. /\ UNCHANGED <<native, cb, done>> /\ reg \subseteq reg'
        /\ \A q \in Requests : sub'[q] = "registered" => sub[q] = "registered" \/ q \in reg'
    BY <1>7 DEF Lease, Acquire, GiveUp, Register, Return, CallerCancels, Watch, Releaser,
                EmbeddingTimeout, Read, EmbeddingReturns, Shape, SubShape
  <2> QED BY <2>1 DEF native
<1>8. ASSUME NEW r \in Requests, SubmitAccepted(r) \/ SubmitRefused(r)
      PROVE  Registered'
  <2>1. /\ sub[r] = "registered" /\ sub'[r] # "registered" /\ phase'[r] \in {"accepted", "refused"}
        /\ phase'[r] = "accepted" => reg' = reg
        /\ UNCHANGED cb /\ done \subseteq done'
        /\ \A q \in Requests : q # r => /\ phase'[q] = phase[q] /\ sub'[q] = sub[q]
                                        /\ q \in reg' <=> q \in reg
    BY <1>8 DEF SubmitAccepted, SubmitRefused, Native!Accept, Native!Refuse, Shape, SubShape
  <2> QED BY <2>1
<1>9. ASSUME NEW r \in Requests, Callback(r) PROVE Registered'
  <2>1. /\ UNCHANGED <<reg, sub, done>> /\ phase[r] = "accepted" /\ r \in reg
        /\ cb'.req = r /\ cb.req = NoReq
        /\ \A q \in Requests : q # r => phase'[q] = phase[q]
        /\ phase'[r] \in {"accepted", "ended"}
    BY <1>9 DEF Callback, Native!Token, Native!End, Quiet
  <2> QED BY <2>1
<1>10. CASE UNCHANGED vars
  BY <1>10 DEF vars, native
<1> QED BY <1>2, <1>3, <1>4, <1>5, <1>6, <1>7, <1>8, <1>9, <1>10, NextCases

(***************************************************************************)
(* "dispatchGenerationEvent completes registration cleanup before          *)
(* publishing Done", whatever the sweeper, abort and the readers do; and   *)
(* a context that its caller has not cancelled ends only after Done.       *)
(***************************************************************************)
LEMMA DoneIsLastNext ==
  ASSUME Shape, BindingInv, [Next]_vars
  PROVE  DoneIsLast' /\ ContextOutlives'
<1>1. /\ cb.req \in Requests \cup {NoReq} /\ done \subseteq Requests
      /\ phase \in [Requests -> {"new", "refused", "accepted", "ended"}]
  BY DEF Shape, CbShape, Callbacks, NativeShape, RegShape, Generations
<1> USE <1>1, BindingAssumption DEF BindingInv, DoneIsLast, ContextOutlives
<1>2. CASE Send \/ Delete
  <2>1. /\ UNCHANGED <<native, done, left, cancelled>> /\ reg' \subseteq reg
        /\ cb'.req \in {cb.req, NoReq}
    BY <1>2 DEF Send, Delete, AfterSend, Quiet, Shape, CbShape, Callbacks
  <2>2. \A q \in Requests : chan'[q].closed = chan[q].closed
    BY <1>2, StaysOpen DEF Delete
  <2> QED BY <2>1, <2>2 DEF native
<1>3. CASE CloseChannel
  <2>1. /\ UNCHANGED <<native, done, reg, left, cancelled>> /\ cb'.req = cb.req
        /\ \A q \in Requests : q # cb.req => chan'[q].closed = chan[q].closed
    BY <1>3 DEF CloseChannel, Shape, CbShape, Callbacks, ChanShape, Channels
  <2> QED BY <2>1 DEF native
<1>4. CASE SignalDone
  <2>1. /\ phase[cb.req] = "ended" /\ chan[cb.req].closed /\ cb.req \notin reg /\ cb.req \in Requests
        /\ UNCHANGED <<native, reg, chan, left, cancelled>> /\ done' = done \cup {cb.req}
        /\ cb'.req = NoReq
    BY <1>4 DEF SignalDone, Dispatching, Quiet, Generations
  <2> QED BY <2>1 DEF native
<1>5. CASE Sweep
  <2>1. UNCHANGED <<reg, done, cb, chan, native, left, cancelled>>
    BY <1>5 DEF Sweep, Stale
  <2> QED BY <2>1 DEF native
<1>6. CASE BeginShutdown \/ BeginShutdownReturns \/ Close \/ CloseReturns
  BY <1>6 DEF BeginShutdown, native, BeginShutdownReturns, Close, CloseReturns, Native!Drain,
              Native!Down
<1>7. ASSUME NEW r \in Requests,
             \/ Lease(r) \/ Acquire(r) \/ GiveUp(r) \/ Return(r)
             \/ CallerCancels(r) \/ Watch(r) \/ Releaser(r) \/ EmbeddingTimeout(r)
      PROVE  DoneIsLast' /\ ContextOutlives'
  <2>1. UNCHANGED <<native, cb, done, chan, reg>> /\ cancelled' \ left' \subseteq done
    BY <1>7 DEF Lease, Acquire, GiveUp, Return, CallerCancels, CancelTree, Watch, Releaser,
                EmbeddingTimeout
  <2> QED BY <2>1 DEF native
<1>8. ASSUME NEW r \in Requests, Register(r) PROVE DoneIsLast' /\ ContextOutlives'
  <2>1. phase[r] = "new" /\ UNCHANGED <<native, cb, done, chan, left, cancelled>> /\ reg' = reg \cup {r}
    BY <1>8 DEF Register, Progress
  <2> QED BY <2>1 DEF native
<1>9. ASSUME NEW r \in Requests, Read(r) \/ EmbeddingReturns(r)
      PROVE  DoneIsLast' /\ ContextOutlives'
  <2>1. /\ UNCHANGED <<native, cb, done, reg, left, cancelled>>
        /\ \A q \in Requests : chan'[q].closed = chan[q].closed
    BY <1>9, StaysOpen DEF Read, EmbeddingReturns
  <2> QED BY <2>1 DEF native
<1>10. ASSUME NEW r \in Requests, SubmitAccepted(r) PROVE DoneIsLast' /\ ContextOutlives'
  <2>1. /\ phase[r] = "new" /\ UNCHANGED <<cb, done, reg, chan, left, cancelled>>
        /\ \A q \in Requests : q # r => phase'[q] = phase[q]
    BY <1>10 DEF SubmitAccepted, Native!Accept
  <2> QED BY <2>1
<1>11. ASSUME NEW r \in Requests, SubmitRefused(r) PROVE DoneIsLast' /\ ContextOutlives'
  <2>1. /\ phase[r] = "new" /\ phase'[r] = "refused" /\ UNCHANGED <<cb, chan, left, cancelled>>
        /\ done \subseteq done' /\ done' \subseteq done \cup {r} /\ reg' = reg \ {r}
        /\ \A q \in Requests : q # r => phase'[q] = phase[q]
    BY <1>11 DEF SubmitRefused, Native!Refuse
  <2>2. cb.req # r
    BY <2>1 DEF Dispatching, Shape, CbShape, Callbacks
  <2> QED BY <2>1, <2>2
<1>12. ASSUME NEW r \in Requests, Callback(r) PROVE DoneIsLast' /\ ContextOutlives'
  <2>1. /\ UNCHANGED <<reg, done, chan, left, cancelled>> /\ phase[r] = "accepted"
        /\ cb'.req \in {r, NoReq}
        /\ \A q \in Requests : q # r => phase'[q] = phase[q]
    BY <1>12 DEF Callback, Native!Token, Native!End, Quiet
  <2> QED BY <2>1
<1>13. CASE UNCHANGED vars
  BY <1>13 DEF vars, native
<1> QED BY <1>2, <1>3, <1>4, <1>5, <1>6, <1>7, <1>8, <1>9, <1>10, <1>11, <1>12, <1>13, NextCases

(***************************************************************************)
(* The shapes and what the parts of the binding know of each other hold    *)
(* always.                                                                 *)
(***************************************************************************)
LEMMA BindingInvariant == Spec => [](Shape /\ Bounded /\ BindingInv)
<1>1. Init => Shape /\ Bounded /\ BindingInv
  BY InitShape, InitBinding
<1>2. Shape /\ Bounded /\ BindingInv /\ [Next]_vars => (Shape /\ Bounded /\ BindingInv)'
  <2> SUFFICES ASSUME Shape, Bounded, BindingInv, [Next]_vars
               PROVE  (Shape /\ Bounded /\ BindingInv)'
    OBVIOUS
  <2>1. NativeShape' /\ ConfigShape'
    BY NativeShapeNext DEF Shape
  <2>2. SubShape' /\ WatchShape' /\ ContextShape'
    BY SubShapeNext DEF Shape
  <2>3. RegShape' /\ CbShape' /\ HooksShape'
    BY RegShapeNext DEF BindingInv
  <2>4. ChanShape' /\ Bounded'
    BY ChanShapeNext
  <2>5. BindingInv'
    BY ProgressNext, DispatchingNext, RegisteredNext, DoneIsLastNext DEF BindingInv
  <2> QED BY <2>1, <2>2, <2>3, <2>4, <2>5 DEF Shape
<1> QED BY <1>1, <1>2, PTL DEF Spec

(***************************************************************************)
(* Every variable of the binding has the values its Go counterpart can     *)
(* have, and no output channel exceeds its capacity.                       *)
(***************************************************************************)
THEOREM TypeOKInvariant == Spec => []TypeOK
<1>1. Shape /\ Bounded => TypeOK
  <2> SUFFICES ASSUME Shape, Bounded PROVE TypeOK
    OBVIOUS
  <2>1. \A r \in Requests : /\ chan[r].buf \in Seq(0..MaxTokens) /\ chan[r].closed \in BOOLEAN
                            /\ Len(chan[r].buf) <= Capacity(r)
                            /\ got[r] \in Seq(0..MaxTokens)
    BY DEF Shape, Bounded, ChanShape, Channels, Events
  <2>2. /\ handle \in {"live", "nil"} /\ mu \in {"free", "begin", "close"} /\ exclusive \in BOOLEAN
        /\ permit \in Requests \cup {NoReq} /\ left \subseteq cancelled /\ cancelled \subseteq Requests
        /\ reg \subseteq Requests /\ done \subseteq Generations /\ releasers \subseteq Generations
    BY DEF Shape, HooksShape, ConfigShape, SubShape, ContextShape, RegShape
  <2> QED BY <2>1, <2>2 DEF TypeOK, Shape, SubShape, Subs, WatchShape, Watches, CbShape, Callbacks,
                            Events, HooksShape
<1> QED BY <1>1, BindingInvariant, PTL

(***************************************************************************)
(* When Done is closed the native request is over, its channel is closed   *)
(* and unregistered, and no callback still uses it.                        *)
(***************************************************************************)
THEOREM DoneIsLastInvariant == Spec => []DoneIsLast
<1>1. BindingInv => DoneIsLast
  BY DEF BindingInv
<1> QED BY <1>1, BindingInvariant, PTL

-----------------------------------------------------------------------------
(* Sequences of events *)

\* The tokens 1 to k in order.
Tokens(k) == [n \in 1..k |-> n]

(***************************************************************************)
(* The next token callback extends the tokens of a request at their end.   *)
(***************************************************************************)
LEMMA NextToken ==
  ASSUME NEW k \in Nat, k + 1 \in Events
  PROVE  /\ Tokens(k) \in Seq(Events) /\ Tokens(k + 1) = Append(Tokens(k), k + 1)
<1>1. Tokens(k) \in Seq(Events) /\ Len(Tokens(k)) = k
  BY BindingAssumption DEF Tokens, Events
<1>2. Tokens(k + 1) \in Seq(Events) /\ Len(Tokens(k + 1)) = k + 1
  BY BindingAssumption DEF Tokens, Events
<1>3. Append(Tokens(k), k + 1) \in Seq(Events) /\ Len(Append(Tokens(k), k + 1)) = k + 1
  BY <1>1, AppendProperties
<1>4. ASSUME NEW i \in 1..(k + 1) PROVE Tokens(k + 1)[i] = Append(Tokens(k), k + 1)[i]
  <2>1. CASE i = k + 1
    BY <1>1, <2>1, AppendProperties DEF Tokens
  <2>2. CASE i \in 1..k
    BY <1>1, <2>2, AppendProperties DEF Tokens
  <2>3. i = k + 1 \/ i \in 1..k
    OBVIOUS
  <2> QED BY <2>1, <2>2, <2>3
<1> QED BY <1>1, <1>2, <1>3, <1>4, SeqEqual

(***************************************************************************)
(* Taking the head of a channel and giving it to the reader moves the      *)
(* boundary between what has been read and what is buffered, no more.      *)
(***************************************************************************)
LEMMA MoveHead ==
  ASSUME NEW g \in Seq(Events), NEW b \in Seq(Events), b # <<>>
  PROVE  Append(g, Head(b)) \o Tail(b) = g \o b
<1>1. Head(b) \in Events /\ Tail(b) \in Seq(Events)
  BY HeadTailProperties
<1>2. Append(g, Head(b)) = g \o <<Head(b)>> /\ <<Head(b)>> \in Seq(Events)
  BY <1>1, AppendIsConcat
<1>3. <<Head(b)>> \o Tail(b) = b
  BY <1>1
<1>4. (g \o <<Head(b)>>) \o Tail(b) = g \o (<<Head(b)>> \o Tail(b))
  BY <1>1, <1>2, ConcatAssociative
<1> QED BY <1>2, <1>3, <1>4

(***************************************************************************)
(* Sending an event moves the boundary between what is buffered and what   *)
(* is on its way.                                                          *)
(***************************************************************************)
LEMMA MoveTail ==
  ASSUME NEW g \in Seq(Events), NEW b \in Seq(Events), NEW e \in Events
  PROVE  /\ (g \o Append(b, e)) \o <<>> = (g \o b) \o <<e>>
         /\ (g \o b) \o <<e>> = Append((g \o b) \o <<>>, e)
<1>1. g \o b \in Seq(Events) /\ Append(b, e) \in Seq(Events) /\ <<e>> \in Seq(Events)
  BY ConcatProperties, AppendProperties
<1>2. g \o Append(b, e) \in Seq(Events)
  BY <1>1, ConcatProperties
<1>3. (g \o Append(b, e)) \o <<>> = g \o Append(b, e) /\ (g \o b) \o <<>> = g \o b
  BY <1>1, <1>2, ConcatEmptySeq
<1>4. Append(b, e) = b \o <<e>> /\ Append(g \o b, e) = (g \o b) \o <<e>>
  BY <1>1, AppendIsConcat
<1>5. g \o (b \o <<e>>) = (g \o b) \o <<e>>
  BY <1>1, ConcatAssociative
<1> QED BY <1>3, <1>4, <1>5

\* The events of a request in phase p that has had t tokens.
Emits(p, t) == Tokens(t) \o (IF p = "ended" THEN <<Final>> ELSE <<>>)

(***************************************************************************)
(* The terminal event comes after the tokens.                              *)
(***************************************************************************)
LEMMA EmitsSeq ==
  ASSUME NEW t \in Events, NEW p
  PROVE  /\ Emits(p, t) \in Seq(Events)
         /\ p # "ended" => Emits(p, t) = Tokens(t)
         /\ p = "ended" => Emits(p, t) = Append(Tokens(t), Final)
<1>1. Tokens(t) \in Seq(Events)
  BY BindingAssumption DEF Tokens, Events
<1>2. Final \in Events
  BY BindingAssumption DEF Final, Events
<1>3. /\ Tokens(t) \o <<>> = Tokens(t)
      /\ Append(Tokens(t), Final) = Tokens(t) \o <<Final>>
      /\ Append(Tokens(t), Final) \in Seq(Events)
  BY <1>1, <1>2, ConcatEmptySeq, AppendIsConcat, AppendProperties
<1> QED BY <1>1, <1>3 DEF Emits

(***************************************************************************)
(* A step moves the events of a generation that has not been cancelled     *)
(* from the native engine to the reader without losing, doubling or        *)
(* reordering one.                                                         *)
(***************************************************************************)
LEMMA LosslessNext ==
  ASSUME Shape, Bounded, BindingInv, LosslessUnlessCancelled, [Next]_vars
  PROVE  LosslessUnlessCancelled'
<1> DEFINE In(r) == got[r] \o chan[r].buf \o InFlight(r)
<1>0. UNCHANGED embeds /\ Shape'
  <2>1. NativeShape' /\ ConfigShape' /\ UNCHANGED embeds
    BY NativeShapeNext DEF Shape, config
  <2>2. SubShape' /\ WatchShape' /\ ContextShape' /\ RegShape' /\ CbShape' /\ HooksShape' /\ ChanShape'
    BY SubShapeNext, RegShapeNext, ChanShapeNext DEF Shape, BindingInv
  <2> QED BY <2>1, <2>2 DEF Shape
<1> SUFFICES ASSUME NEW q \in Generations, q \notin left' PROVE In(q)' = Emitted(q)'
  BY <1>0 DEF LosslessUnlessCancelled, Generations
<1>1. left \subseteq left'
  BY NextCases DEF Send, CloseChannel, Delete, SignalDone, Sweep, BeginShutdown, CallerCancels,
     BeginShutdownReturns, Close, CloseReturns, Lease, Acquire, GiveUp, Register, SubmitAccepted,
     SubmitRefused, Return, EmbeddingReturns, Read, Watch, Releaser, EmbeddingTimeout, Callback, vars
<1>2. In(q) = Emitted(q) /\ q \in Requests /\ q \notin embeds
  BY <1>1 DEF LosslessUnlessCancelled, Generations
<1>3. got[q] \in Seq(Events) /\ chan[q].buf \in Seq(Events) /\ cb.ev \in Events
  BY <1>2 DEF Shape, ChanShape, Channels, CbShape, Callbacks
<1>c. chan \in [Requests -> Channels] /\ got \in [Requests -> Seq(Events)]
  BY DEF Shape, ChanShape
<1>u. \A x \in Requests : \A b \in Seq(Events) : WithBuf(chan, x, b)[x].buf = b
  BY <1>c DEF WithBuf, Channels
<1>e. Emitted(q) = Emits(phase[q], tokens[q]) /\ Emitted(q)' = Emits(phase'[q], tokens'[q])
  BY DEF Emitted, Emits, Tokens
<1>4. ASSUME phase'[q] = "ended" <=> phase[q] = "ended", tokens'[q] = tokens[q]
      PROVE  Emitted(q)' = Emitted(q)
  BY <1>4 DEF Emitted
<1>5. ASSUME UNCHANGED <<native, got, chan, cb>> PROVE In(q)' = Emitted(q)'
  BY <1>2, <1>4, <1>5 DEF InFlight, native
<1> HIDE DEF In
<1>6. CASE Send
  <2>1. Emitted(q)' = Emitted(q) /\ got' = got
    BY <1>4, <1>6 DEF Send, native
  <2>2. CASE cb.req # q
    <3>1. cb'.req # q /\ chan'[q].buf = chan[q].buf
      BY <1>2, <1>6, <2>2, BindingAssumption DEF Send, AfterSend, Quiet, Shape, CbShape, Callbacks,
         ChanShape
    <3> QED BY <1>2, <2>1, <2>2, <3>1 DEF In, InFlight
  <2>3. CASE cb.req = q
    <3>1. cb.pc = "send" /\ cb'.pc # "send"
      BY <1>6 DEF Send, AfterSend, Quiet, Shape, CbShape, Callbacks
    <3>2. q \notin cancelled
      BY <1>1, <1>2, <2>3 DEF BindingInv, ContextOutlives, DoneIsLast
    <3>3. chan' = WithBuf(chan, q, Append(chan[q].buf, cb.ev))
      BY <1>6, <2>3, <3>2 DEF Send, WithBuf
    <3>4. chan'[q].buf = Append(chan[q].buf, cb.ev)
      <4>1. Append(chan[q].buf, cb.ev) \in Seq(Events)
        BY <1>3, BufferOps
      <4>2. WithBuf(chan, q, Append(chan[q].buf, cb.ev))[q].buf = Append(chan[q].buf, cb.ev)
        BY <1>2, <1>u, <4>1
      <4> QED BY <3>3, <4>2, Zenon
    <3>5. In(q) = (got[q] \o chan[q].buf) \o <<cb.ev>>
      BY <2>3, <3>1 DEF In, InFlight
    <3>6. In(q)' = (got[q] \o Append(chan[q].buf, cb.ev)) \o <<>>
      BY <2>1, <3>1, <3>4 DEF In, InFlight
    <3> QED BY <1>2, <1>3, <2>1, <3>5, <3>6, MoveTail
  <2> QED BY <2>2, <2>3
<1>7. CASE CloseChannel
  <2>1. /\ Emitted(q)' = Emitted(q) /\ got' = got /\ cb.pc # "send" /\ cb'.pc # "send"
    BY <1>4, <1>7 DEF CloseChannel, native, Shape, CbShape, Callbacks
  <2>2. chan'[q].buf = chan[q].buf
    <3>1. ASSUME NEW x, chan' = [chan EXCEPT ![x].closed = TRUE] PROVE chan'[q].buf = chan[q].buf
      BY <1>2, <3>1 DEF Shape, ChanShape, Channels
    <3> QED BY <1>7, <3>1 DEF CloseChannel
  <2> QED BY <1>2, <2>1, <2>2 DEF In, InFlight
<1>8. CASE Delete \/ SignalDone
  <2>1. Emitted(q)' = Emitted(q) /\ UNCHANGED <<got, chan>> /\ cb.pc # "send" /\ cb'.pc # "send"
    BY <1>4, <1>8 DEF Delete, SignalDone, native, Quiet, Shape, CbShape, Callbacks
  <2> QED BY <1>2, <2>1 DEF In, InFlight
<1>9. CASE BeginShutdown \/ BeginShutdownReturns \/ Close \/ CloseReturns
  <2>1. UNCHANGED <<phase, tokens, got, chan, cb>>
    BY <1>9 DEF BeginShutdown, native, BeginShutdownReturns, Close, CloseReturns, Native!Drain,
                Native!Down
  <2> QED BY <1>2, <1>4, <2>1 DEF In, InFlight
<1>10. CASE Sweep \/ UNCHANGED vars
  BY <1>5, <1>10 DEF Sweep, vars
<1>11. ASSUME NEW r \in Requests,
              \/ Lease(r) \/ Acquire(r) \/ GiveUp(r) \/ Register(r) \/ Return(r)
              \/ CallerCancels(r) \/ Watch(r) \/ Releaser(r) \/ EmbeddingTimeout(r)
       PROVE  UNCHANGED <<native, got, chan, cb>>
  BY <1>11 DEF Lease, Acquire, GiveUp, Register, Return, CallerCancels, Watch, Releaser,
               EmbeddingTimeout
<1>12. ASSUME NEW r \in Requests, SubmitAccepted(r) \/ SubmitRefused(r)
       PROVE  In(q)' = Emitted(q)'
  <2>1. /\ UNCHANGED <<got, chan, cb, tokens>> /\ (phase'[q] = "ended" <=> phase[q] = "ended")
    BY <1>2, <1>12 DEF SubmitAccepted, SubmitRefused, Native!Accept, Native!Refuse, Shape, NativeShape
  <2> QED BY <1>2, <1>4, <2>1 DEF In, InFlight
<1>13. ASSUME NEW r \in Requests, EmbeddingReturns(r) PROVE In(q)' = Emitted(q)'
  <2>1. UNCHANGED <<got, cb, native>> /\ r # q /\ chan' = [chan EXCEPT ![r].buf = Tail(@)]
    BY <1>2, <1>13 DEF EmbeddingReturns
  <2>2. chan'[q] = chan[q]
    BY <1>2, <2>1 DEF Shape, ChanShape
  <2> QED BY <1>2, <1>4, <2>1, <2>2 DEF In, InFlight, native
<1>14. ASSUME NEW r \in Requests, Read(r) PROVE In(q)' = Emitted(q)'
  <2>1. UNCHANGED <<cb, native>> /\ chan[r].buf # <<>> /\ chan' = WithBuf(chan, r, Tail(chan[r].buf))
        /\ got' = [got EXCEPT ![r] = Append(got[r], Head(chan[r].buf))]
    BY <1>14 DEF Read, WithBuf
  <2>2. CASE r # q
    <3>1. chan'[q] = chan[q] /\ got'[q] = got[q]
      BY <1>2, <2>1, <2>2 DEF Shape, ChanShape, WithBuf
    <3> QED BY <1>2, <1>4, <2>1, <3>1 DEF In, InFlight, native
  <2>3. CASE r = q
    <3>1. Tail(chan[q].buf) \in Seq(Events)
      BY <1>3, <2>1, <2>3, HeadTailProperties
    <3>2. chan'[q].buf = Tail(chan[q].buf)
      <4>1. WithBuf(chan, q, Tail(chan[q].buf))[q].buf = Tail(chan[q].buf)
        BY <1>2, <1>u, <3>1
      <4> QED BY <2>1, <2>3, <4>1, Zenon
    <3>4. got'[q] = Append(got[q], Head(chan[q].buf))
      BY <1>2, <1>c, <2>1, <2>3
    <3>3. got'[q] \o chan'[q].buf = got[q] \o chan[q].buf
      BY <1>3, <2>1, <2>3, <3>2, <3>4, MoveHead
    <3> QED BY <1>2, <1>4, <2>1, <3>3 DEF In, InFlight, native
  <2> QED BY <2>2, <2>3
<1>15. ASSUME NEW r \in Requests, Callback(r) PROVE In(q)' = Emitted(q)'
  <2>1. UNCHANGED <<got, chan>> /\ cb.req = NoReq /\ phase[r] = "accepted" /\ cb'.req = r
        /\ cb'.pc = "send" /\ cb'.ev = IF phase'[r] = "ended" THEN Final ELSE tokens'[r]
    BY <1>15 DEF Callback, Native!Token, Native!End, Quiet, BindingInv, Registered
  <2>2. CASE r # q
    <3>1. phase'[q] = phase[q] /\ tokens'[q] = tokens[q]
      BY <1>2, <1>15, <2>2 DEF Callback, Native!Token, Native!End, Shape, NativeShape
    <3>2. cb.req # q
      BY <1>2, <2>1, BindingAssumption
    <3> QED BY <1>2, <1>4, <2>1, <2>2, <3>1, <3>2 DEF In, InFlight
  <2>3. CASE r = q
    <3>1. In(q) = (got[q] \o chan[q].buf) \o <<>> /\ In(q)' = (got[q] \o chan[q].buf) \o <<cb'.ev>>
      BY <1>2, <2>1, <2>3, BindingAssumption DEF In, InFlight
    <3>2. PICK e \in Events : e = cb'.ev
      BY <1>0 DEF Shape, CbShape, Callbacks
    <3>3. In(q)' = Append(Emitted(q), e)
      <4>1. (got[q] \o chan[q].buf) \o <<e>> = Append((got[q] \o chan[q].buf) \o <<>>, e)
        BY <1>3, MoveTail
      <4> QED BY <1>2, <3>1, <3>2, <4>1
    <3>4. tokens[q] \in Events /\ tokens'[q] \in Events /\ tokens[q] \in Nat
      BY <1>0, <1>2, BindingAssumption DEF Shape, NativeShape, Events
    <3>5. Emitted(q) = Tokens(tokens[q])
      BY <1>e, <2>1, <2>3, <3>4, EmitsSeq
    <3>6. CASE Native!End(q)
      <4>1. phase'[q] = "ended" /\ tokens'[q] = tokens[q]
        BY <1>2, <3>6 DEF Native!End, Shape, NativeShape
      <4>2. Emitted(q)' = Append(Tokens(tokens[q]), Final)
        BY <1>e, <3>4, <4>1, EmitsSeq
      <4> QED BY <2>1, <2>3, <3>2, <3>3, <3>5, <4>1, <4>2
    <3>7. CASE Native!Token(q)
      <4>1. phase'[q] = "accepted" /\ tokens'[q] = tokens[q] + 1
        BY <1>2, <2>1, <2>3, <3>7 DEF Native!Token, Shape, NativeShape
      <4>2. Emitted(q)' = Tokens(tokens'[q])
        BY <1>e, <3>4, <4>1, EmitsSeq
      <4> QED BY <2>1, <2>3, <3>2, <3>3, <3>4, <3>5, <4>1, <4>2, NextToken
    <3> QED BY <1>15, <2>3, <3>6, <3>7 DEF Callback
  <2> QED BY <2>2, <2>3
<1> QED BY <1>5, <1>6, <1>7, <1>8, <1>9, <1>10, <1>11, <1>12, <1>13, <1>14, <1>15, NextCases

(***************************************************************************)
(* As long as its caller has not cancelled, what a reader has received,    *)
(* what is buffered and what the callback thread holds are exactly the     *)
(* events the native engine has produced, in their order.                  *)
(***************************************************************************)
THEOREM LosslessInvariant == Spec => []LosslessUnlessCancelled
<1>1. Init => LosslessUnlessCancelled
  <2> SUFFICES ASSUME Init, NEW r \in Generations \ left
               PROVE  got[r] \o chan[r].buf \o InFlight(r) = Emitted(r)
    BY DEF LosslessUnlessCancelled
  <2>1. got[r] = <<>> /\ chan[r].buf = <<>> /\ InFlight(r) = <<>>
    BY DEF Init, InFlight, Generations, Quiet
  <2>2. Shape /\ r \in Requests /\ tokens[r] = 0 /\ phase[r] = "new"
    BY InitShape DEF Init, Native!Init, Generations
  <2>3. Emitted(r) = Tokens(0)
    <3>1. Emitted(r) = Emits("new", 0) /\ 0 \in Events
      BY <2>2, BindingAssumption DEF Emitted, Emits, Tokens, Events
    <3> QED BY <3>1, EmitsSeq
  <2>4. Tokens(0) = <<>>
    BY DEF Tokens
  <2>5. (<<>> \o <<>>) \o <<>> = <<>>
    OBVIOUS
  <2> QED BY <2>1, <2>3, <2>4, <2>5
<1>2. /\ Shape /\ Bounded /\ BindingInv /\ LosslessUnlessCancelled /\ [Next]_vars
      => LosslessUnlessCancelled'
  BY LosslessNext
<1> QED BY <1>1, <1>2, BindingInvariant, PTL DEF Spec

-----------------------------------------------------------------------------
(* The permit, the hooks and the refinement *)

(***************************************************************************)
(* An exclusive engine keeps its permit with one generation from Acquire   *)
(* to Done: release acts once, and the releaser waits for Done.            *)
(***************************************************************************)
LEMMA PermitNext ==
  ASSUME Shape, BindingInv, PermitHeld, [Next]_vars
  PROVE  PermitHeld'
<1>0. UNCHANGED <<embeds, exclusive>>
  BY NativeShapeNext DEF Shape, config
<1> SUFFICES ASSUME exclusive, NEW q \in Generations,
                    \/ sub'[q] \in {"permitted", "registered", "submitted"}
                    \/ Accepted(q)' /\ q \notin done'
             PROVE  permit' = q
  BY <1>0 DEF PermitHeld, Generations
<1> DEFINE Holds == \/ sub[q] \in {"permitted", "registered", "submitted"}
                    \/ Accepted(q) /\ q \notin done
<1>1. q \in Requests /\ q \notin embeds /\ (Holds => permit = q)
  BY DEF PermitHeld, Generations
<1>2. CASE UNCHANGED <<permit, sub, phase>> /\ done \subseteq done'
  BY <1>1, <1>2 DEF Accepted
<1>3. CASE \/ Send \/ CloseChannel \/ Delete \/ SignalDone \/ Sweep
           \/ BeginShutdown \/ BeginShutdownReturns \/ Close \/ CloseReturns
  BY <1>2, <1>3 DEF Send, CloseChannel, Delete, SignalDone, Sweep, BeginShutdown, native,
     BeginShutdownReturns, Close, CloseReturns, Native!Drain, Native!Down
<1>4. ASSUME NEW r \in Requests, CallerCancels(r) \/ Read(r) \/ Watch(r) PROVE permit' = q
  BY <1>2, <1>4 DEF CallerCancels, Read, Watch, native
<1>5. ASSUME NEW r \in Requests,
             Lease(r) \/ Register(r) \/ Return(r) \/ EmbeddingReturns(r) \/ EmbeddingTimeout(r)
      PROVE  permit' = q
  <2>1. UNCHANGED <<permit, phase, done>>
    BY <1>5 DEF Lease, Register, Return, EmbeddingReturns, EmbeddingTimeout, native
  <2>2. /\ \A p \in Requests : p # r => sub'[p] = sub[p]
        /\ r \notin embeds /\ sub'[r] \in {"permitted", "registered", "submitted"}
           => sub[r] = "permitted"
    BY <1>5 DEF Lease, Register, Return, EmbeddingReturns, EmbeddingTimeout, Shape, SubShape
  <2> QED BY <1>1, <2>1, <2>2 DEF Accepted
<1>6. ASSUME NEW r \in Requests, SubmitAccepted(r) PROVE permit' = q
  <2>1. /\ UNCHANGED <<permit, done>> /\ sub[r] = "registered"
        /\ \A p \in Requests : p # r => sub'[p] = sub[p] /\ phase'[p] = phase[p]
    BY <1>6 DEF SubmitAccepted, Native!Accept, Shape, SubShape, NativeShape
  <2> QED BY <1>1, <2>1 DEF Accepted
<1>7. ASSUME NEW r \in Requests, Acquire(r) PROVE permit' = q
  <2>1. /\ UNCHANGED <<phase, done>> /\ \A p \in Requests : p # r => sub'[p] = sub[p]
        /\ phase[r] = "new"
        /\ \/ sub'[r] = "failed" /\ permit' = permit
           \/ permit = NoReq /\ permit' = r
    BY <1>7 DEF Acquire, native, Shape, SubShape, BindingInv, Progress
  <2> QED BY <1>1, <2>1, BindingAssumption DEF Accepted
<1>8. ASSUME NEW r \in Requests, GiveUp(r) \/ SubmitRefused(r) PROVE permit' = q
  <2>1. /\ \A p \in Requests : p # r => sub'[p] = sub[p] /\ phase'[p] = phase[p]
        /\ sub'[r] = "failed" /\ phase'[r] \in {"new", "refused"} /\ done \subseteq done'
        /\ permit # r => permit' = permit
    BY <1>8 DEF GiveUp, SubmitRefused, Released, native, Native!Refuse, Shape, SubShape,
                NativeShape, BindingInv, Progress
  <2> QED BY <1>1, <2>1 DEF Accepted
<1>9. ASSUME NEW r \in Requests, Releaser(r) PROVE permit' = q
  <2>1. /\ UNCHANGED <<phase, done, sub>> /\ r \in done /\ sub[r] = "returned"
        /\ permit # r => permit' = permit
    BY <1>9 DEF Releaser, Released, native, BindingInv, Progress
  <2> QED BY <1>1, <2>1 DEF Accepted
<1>10. ASSUME NEW r \in Requests, Callback(r) PROVE permit' = q
  <2>1. UNCHANGED <<permit, done, sub>> /\ phase[r] = "accepted"
        /\ \A p \in Requests : p # r => phase'[p] = phase[p]
    BY <1>10 DEF Callback, Native!Token, Native!End, Shape, NativeShape
  <2> QED BY <1>1, <2>1 DEF Accepted
<1>11. CASE UNCHANGED vars
  BY <1>2, <1>11 DEF vars, native
<1> QED BY <1>3, <1>4, <1>5, <1>6, <1>7, <1>8, <1>9, <1>10, <1>11, NextCases

(***************************************************************************)
(* mu is held over every native shutdown, so that BeginShutdown and Close  *)
(* never shut down twice and no engine is freed while one is under way;    *)
(* and the callback thread has nothing to do once a shutdown has returned. *)
(***************************************************************************)
LEMMA HooksNext ==
  ASSUME Shape, BindingInv, HookInv, DownIsQuiet, [Next]_vars
  PROVE  HookInv' /\ DownIsQuiet'
<1>1. /\ gate \in {"open", "draining", "down"} /\ mu \in {"free", "begin", "close"}
      /\ hooks \in [begin : {"idle", "begun", "over"}, close : {"idle", "begun", "joined", "over"}]
      /\ phase \in [Requests -> {"new", "refused", "accepted", "ended"}]
  BY DEF Shape, NativeShape, HooksShape
<1>2. CASE UNCHANGED <<gate, mu, hooks, handle, phase>> /\ (cb = Quiet => cb' = Quiet)
  BY <1>2 DEF HookInv, DownIsQuiet
<1>3. CASE Send \/ CloseChannel \/ Delete \/ SignalDone \/ Sweep
  BY <1>2, <1>3 DEF Send, CloseChannel, Delete, SignalDone, Sweep, native, Quiet
<1>4. CASE BeginShutdown
  <2>1. UNCHANGED <<phase, cb>> /\ (UNCHANGED gate \/ gate' = "draining")
    BY <1>4 DEF BeginShutdown, Native!Drain, native
  <2> QED BY <1>1, <1>4, <2>1 DEF BeginShutdown, MuFree, Native!Drain, native, HookInv, DownIsQuiet
<1>5. CASE BeginShutdownReturns
  BY <1>1, <1>5 DEF BeginShutdownReturns, Native!Down, Native!Resolved, HookInv, DownIsQuiet
<1>6. CASE Close
  BY <1>1, <1>6 DEF Close, MuFree, Native!Drain, native, HookInv, DownIsQuiet
<1>7. CASE CloseReturns
  BY <1>1, <1>7 DEF CloseReturns, Native!Down, Native!Resolved, native, HookInv, DownIsQuiet
<1>8. ASSUME NEW r \in Requests,
             \/ Lease(r) \/ Acquire(r) \/ GiveUp(r) \/ Register(r) \/ Return(r)
             \/ CallerCancels(r) \/ Watch(r) \/ Releaser(r) \/ EmbeddingTimeout(r)
             \/ Read(r) \/ EmbeddingReturns(r)
      PROVE  UNCHANGED <<gate, mu, hooks, handle, phase, cb>>
  BY <1>8 DEF Lease, Acquire, GiveUp, Register, Return, CallerCancels, Watch, Releaser,
              EmbeddingTimeout, Read, EmbeddingReturns, native
<1>9. ASSUME NEW r \in Requests, SubmitAccepted(r) \/ SubmitRefused(r)
      PROVE  HookInv' /\ DownIsQuiet'
  <2>1. /\ UNCHANGED <<gate, mu, hooks, handle, cb>>
        /\ gate = "down" => \A q \in Requests : phase'[q] \in {phase[q], "refused"}
    BY <1>1, <1>9 DEF SubmitAccepted, SubmitRefused, Native!Accept, Native!Refuse
  <2> QED BY <2>1 DEF HookInv, DownIsQuiet
<1>10. ASSUME NEW r \in Requests, Callback(r) PROVE HookInv' /\ DownIsQuiet'
  <2>1. UNCHANGED <<gate, mu, hooks, handle>> /\ phase[r] = "accepted"
    BY <1>10 DEF Callback, Native!Token, Native!End
  <2> QED BY <2>1 DEF HookInv, DownIsQuiet
<1>11. CASE UNCHANGED vars
  BY <1>2, <1>11 DEF vars, native
<1> QED BY <1>2, <1>3, <1>4, <1>5, <1>6, <1>7, <1>8, <1>9, <1>10, <1>11, NextCases

\* All that the refinement rests on.
IInv == Shape /\ Bounded /\ BindingInv /\ PermitHeld /\ HookInv /\ DownIsQuiet

(***************************************************************************)
(* The shapes, the binding, the permit and the hooks together are          *)
(* inductive.                                                              *)
(***************************************************************************)
LEMMA IInvInvariant == Spec => []IInv
<1>1. Init => PermitHeld /\ HookInv /\ DownIsQuiet
  BY DEF Init, Native!Init, PermitHeld, HookInv, DownIsQuiet, Generations, Accepted
<1>2. IInv /\ [Next]_vars => (PermitHeld /\ HookInv /\ DownIsQuiet)'
  BY PermitNext, HooksNext DEF IInv
<1> QED BY <1>1, <1>2, BindingInvariant, PTL DEF Spec, IInv

\* The state of the engine as EngineService sees it.
State == IF handle = "nil" THEN "closed" ELSE gate
Live == {r \in Generations : Accepted(r) /\ r \notin done}
LiveEmbeds == {r \in embeds : phase[r] = "accepted" \/ cb.req = r}

(***************************************************************************)
(* Once the native shutdown has returned nothing is live: what was         *)
(* accepted has ended, and its Done is closed.                             *)
(***************************************************************************)
LEMMA DownIsIdle ==
  ASSUME IInv, gate = "down"
  PROVE  Live = {} /\ LiveEmbeds = {}
<1>1. cb.req = NoReq /\ \A r \in Requests : phase[r] # "accepted"
  BY DEF IInv, DownIsQuiet, Quiet
<1>2. embeds \subseteq Requests /\ NoReq \notin Requests
  BY BindingAssumption DEF IInv, Shape, ConfigShape
<1>3. \A r \in Generations : phase[r] = "ended" => r \in done
  BY <1>1, <1>2 DEF IInv, BindingInv, Registered, Generations
<1> QED BY <1>1, <1>2, <1>3 DEF Live, LiveEmbeds, Accepted, Generations

(***************************************************************************)
(* Every step of the binding is a step of the service or leaves the        *)
(* service as it is.                                                       *)
(***************************************************************************)
LEMMA ServiceStep ==
  ASSUME IInv, IInv', [Next]_vars
  PROVE  \/ Service!Drain \/ Service!Down \/ Service!Close
         \/ \E r \in Requests : \/ Service!Accept(r) \/ Service!AcceptEmbedding(r)
                                \/ Service!Finish(r)
         \/ UNCHANGED <<State, Live, LiveEmbeds, exclusive>>
<1>0. UNCHANGED <<embeds, exclusive>> /\ embeds \subseteq Requests /\ NoReq \notin Requests
  BY NativeShapeNext, BindingAssumption DEF IInv, Shape, ConfigShape, config
<1>1. /\ cb.req \in Requests \cup {NoReq} /\ phase \in [Requests -> {"new", "refused", "accepted", "ended"}]
      /\ gate \in {"open", "draining", "down"} /\ handle = "nil" => gate = "down"
  BY DEF IInv, Shape, NativeShape, CbShape, Callbacks, HookInv
<1>2. ASSUME UNCHANGED <<gate, handle, phase, done>>,
             \A r \in embeds : phase[r] = "accepted" \/ (cb'.req = r <=> cb.req = r)
      PROVE  UNCHANGED <<State, Live, LiveEmbeds, exclusive>>
  BY <1>0, <1>2 DEF State, Live, LiveEmbeds, Generations, Accepted
<1>3. CASE Send
  <2>1. UNCHANGED <<gate, handle, phase, done>>
    BY <1>3 DEF Send, native
  <2>2. cb'.req = cb.req \/ (cb.req \notin embeds /\ cb'.req = NoReq)
    BY <1>3 DEF Send, AfterSend, Quiet, IInv, Shape, CbShape, Callbacks
  <2> QED BY <1>0, <1>2, <2>1, <2>2
<1>4. CASE CloseChannel
  <2>1. UNCHANGED <<gate, handle, phase, done>> /\ cb'.req = cb.req
    BY <1>4 DEF CloseChannel, native, IInv, Shape, CbShape, Callbacks
  <2> QED BY <1>2, <2>1
<1>5. CASE Delete
  <2>1. UNCHANGED <<gate, handle, phase, done>> /\ cb.req \in Requests /\ phase[cb.req] = "ended"
    BY <1>1, <1>5 DEF Delete, native, IInv, BindingInv, Dispatching
  <2>2. CASE cb.req \notin embeds
    <3>1. cb'.req = cb.req
      BY <1>5, <2>2 DEF Delete, IInv, Shape, CbShape, Callbacks
    <3> QED BY <1>2, <2>1, <3>1
  <2>3. CASE cb.req \in embeds
    <3>1. cb'.req = NoReq
      BY <1>5, <2>3 DEF Delete, Quiet
    <3>2. Live' = Live \ {cb.req} /\ LiveEmbeds' = LiveEmbeds \ {cb.req} /\ State' = State
      BY <1>0, <2>1, <2>3, <3>1 DEF Live, LiveEmbeds, State, Generations, Accepted
    <3>3. PICK r \in Requests : r = cb.req
      BY <2>1
    <3>4. Service!Finish(r)
      BY <1>0, <3>2, <3>3 DEF Service!Finish, Live, LiveEmbeds, State
    <3> QED BY <3>4
  <2> QED BY <2>2, <2>3
<1>6. CASE SignalDone
  <2>1. /\ UNCHANGED <<gate, handle, phase>> /\ cb.req \in Requests /\ cb.req \notin embeds
        /\ done' = done \cup {cb.req} /\ cb'.req = NoReq
    BY <1>1, <1>6 DEF SignalDone, native, IInv, BindingInv, Dispatching, Generations, Quiet
  <2>2. Live' = Live \ {cb.req} /\ LiveEmbeds' = LiveEmbeds \ {cb.req} /\ State' = State
    BY <1>0, <2>1 DEF Live, LiveEmbeds, State, Generations, Accepted
  <2>3. PICK r \in Requests : r = cb.req
    BY <2>1
  <2>4. Service!Finish(r)
    BY <1>0, <2>2, <2>3 DEF Service!Finish, Live, LiveEmbeds, State
  <2> QED BY <2>4
<1>7. CASE Sweep
  <2>1. UNCHANGED <<gate, handle, phase, done, cb>>
    BY <1>7 DEF Sweep, Stale, native, IInv, BindingInv, DoneIsLast
  <2> QED BY <1>2, <2>1
<1>8. CASE BeginShutdown
  <2>1. UNCHANGED <<phase, done, cb, handle>>
    BY <1>8 DEF BeginShutdown, Native!Drain, native
  <2>2. UNCHANGED <<Live, LiveEmbeds>>
    BY <1>0, <2>1 DEF Live, LiveEmbeds, Generations, Accepted
  <2>3. CASE UNCHANGED gate
    BY <1>2, <2>1, <2>3
  <2>4. CASE handle # "nil" /\ gate = "open" /\ gate' = "draining"
    <3>1. State = "open" /\ State' = "draining"
      BY <2>1, <2>4 DEF State
    <3>2. Service!Drain
      BY <1>0, <2>2, <3>1 DEF Service!Drain, Live, LiveEmbeds, State
    <3> QED BY <3>2
  <2> QED BY <1>8, <2>3, <2>4 DEF BeginShutdown, Native!Drain, native
<1>9. ASSUME UNCHANGED <<phase, done, cb, handle>>, gate = "draining", gate' = "down"
      PROVE  Service!Down
  <2>1. UNCHANGED <<Live, LiveEmbeds>>
    BY <1>0, <1>9 DEF Live, LiveEmbeds, Generations, Accepted
  <2>2. Live = {} /\ LiveEmbeds = {}
    <3>1. cb'.req = NoReq /\ \A r \in Requests : phase'[r] # "accepted"
      BY <1>9 DEF IInv, DownIsQuiet, Quiet
    <3>2. \A r \in Generations : phase[r] = "ended" => r \in done
      BY <1>0, <1>9, <3>1 DEF IInv, BindingInv, Registered, Generations
    <3> QED BY <1>0, <1>9, <3>1, <3>2 DEF Live, LiveEmbeds, Accepted, Generations
  <2>3. State = "draining" /\ State' = "down"
    BY <1>1, <1>9 DEF State
  <2> QED BY <1>0, <2>1, <2>2, <2>3 DEF Service!Down, Service!Idle, Live, LiveEmbeds, State
<1>10. ASSUME UNCHANGED <<phase, done, cb, gate>>, gate = "down", handle # "nil", handle' = "nil"
       PROVE  Service!Close
  <2>1. UNCHANGED <<Live, LiveEmbeds>>
    BY <1>0, <1>10 DEF Live, LiveEmbeds, Generations, Accepted
  <2>2. State = "down" /\ State' = "closed"
    BY <1>10 DEF State
  <2> QED BY <1>0, <1>10, <2>1, <2>2, DownIsIdle
      DEF Service!Close, Service!Idle, Live, LiveEmbeds, State
<1>11. CASE BeginShutdownReturns
  <2>1. UNCHANGED <<phase, done, cb, handle>> /\ gate = "draining" /\ gate' = "down"
    BY <1>11 DEF BeginShutdownReturns, Native!Down
  <2> QED BY <1>9, <2>1
<1>12. CASE Close
  <2>1. UNCHANGED <<phase, done, cb>> /\ handle # "nil"
    BY <1>12 DEF Close, Native!Drain, native, IInv, HookInv
  <2>2. CASE gate = "open" /\ gate' = "draining" /\ UNCHANGED handle
    <3>1. UNCHANGED <<Live, LiveEmbeds>>
      BY <1>0, <2>1 DEF Live, LiveEmbeds, Generations, Accepted
    <3>2. State = "open" /\ State' = "draining"
      BY <2>1, <2>2 DEF State
    <3>3. Service!Drain
      BY <1>0, <3>1, <3>2 DEF Service!Drain, Live, LiveEmbeds, State
    <3> QED BY <3>3
  <2>3. CASE gate # "open" /\ UNCHANGED gate /\ handle' = "nil"
    <3>1. gate = "down"
      BY <1>1, <1>12, <2>3 DEF Close, MuFree, IInv, HookInv
    <3> QED BY <1>10, <2>1, <2>3, <3>1
  <2> QED BY <1>12, <2>2, <2>3 DEF Close, Native!Drain, native
<1>13. CASE CloseReturns
  <2>1. UNCHANGED <<phase, done, cb>>
    BY <1>13 DEF CloseReturns, Native!Down, native
  <2>2. CASE hooks.close = "begun" /\ Native!Down /\ UNCHANGED handle
    BY <1>9, <2>1, <2>2 DEF Native!Down
  <2>3. CASE hooks.close = "joined" /\ handle' = "nil" /\ UNCHANGED native
    <3>1. gate = "down" /\ handle # "nil" /\ UNCHANGED gate
      BY <2>3 DEF IInv, HookInv, native
    <3> QED BY <1>10, <2>1, <2>3, <3>1
  <2> QED BY <1>13, <2>2, <2>3 DEF CloseReturns
<1>14. ASSUME NEW r \in Requests,
              \/ Lease(r) \/ Acquire(r) \/ GiveUp(r) \/ Register(r) \/ Return(r)
              \/ CallerCancels(r) \/ Watch(r) \/ Releaser(r) \/ EmbeddingTimeout(r)
              \/ Read(r) \/ EmbeddingReturns(r)
       PROVE  UNCHANGED <<State, Live, LiveEmbeds, exclusive>>
  <2>1. UNCHANGED <<gate, handle, phase, done, cb>>
    BY <1>14 DEF Lease, Acquire, GiveUp, Register, Return, CallerCancels, Watch, Releaser,
                 EmbeddingTimeout, Read, EmbeddingReturns, native
  <2> QED BY <1>2, <2>1
<1>15. ASSUME NEW r \in Requests, SubmitAccepted(r)
       PROVE  Service!Accept(r) \/ Service!AcceptEmbedding(r)
  <2>1. /\ UNCHANGED <<gate, handle, done, cb>> /\ gate = "open" /\ phase[r] = "new"
        /\ phase' = [phase EXCEPT ![r] = "accepted"] /\ sub[r] = "registered"
    BY <1>15 DEF SubmitAccepted, Native!Accept
  <2>2. State = "open" /\ State' = State
    BY <1>1, <2>1 DEF State
  <2>3. cb.req # r /\ r \notin done
    <3>1. r \notin done
      BY <2>1 DEF IInv, BindingInv, DoneIsLast
    <3>2. cb.pc \in {"idle", "send", "close", "delete", "signal"} /\ r # NoReq
      BY <1>0 DEF IInv, Shape, CbShape, Callbacks
    <3>3. cb.req # r
      BY <2>1, <3>2 DEF IInv, BindingInv, Dispatching
    <3> QED BY <3>1, <3>3
  <2>4. CASE r \in embeds
    <3>1. Live' = Live /\ LiveEmbeds' = LiveEmbeds \cup {r}
      BY <1>0, <1>1, <2>1, <2>3, <2>4 DEF Live, LiveEmbeds, Generations, Accepted
    <3> QED BY <1>0, <2>2, <3>1 DEF Service!AcceptEmbedding, Live, LiveEmbeds, State
  <2>5. CASE r \notin embeds
    <3>1. Live' = Live \cup {r} /\ LiveEmbeds' = LiveEmbeds
      BY <1>0, <1>1, <2>1, <2>3, <2>5 DEF Live, LiveEmbeds, Generations, Accepted
    <3>2. exclusive => Live = {}
      <4> SUFFICES ASSUME exclusive, NEW q \in Live PROVE FALSE
        OBVIOUS
      <4>1. permit = q /\ permit = r
        BY <2>1, <2>5 DEF IInv, PermitHeld, Live, Generations
      <4> QED BY <2>1, <4>1 DEF Live, Accepted
    <3> QED BY <1>0, <2>2, <3>1, <3>2 DEF Service!Accept, Live, LiveEmbeds, State
  <2> QED BY <2>4, <2>5
<1>16. ASSUME NEW r \in Requests, SubmitRefused(r)
       PROVE  UNCHANGED <<State, Live, LiveEmbeds, exclusive>>
  <2>1. /\ UNCHANGED <<gate, handle, cb>> /\ phase[r] = "new"
        /\ phase' = [phase EXCEPT ![r] = "refused"] /\ done \subseteq done' /\ done' \subseteq done \cup {r}
    BY <1>16 DEF SubmitRefused, Native!Refuse
  <2> QED BY <1>0, <1>1, <2>1 DEF State, Live, LiveEmbeds, Generations, Accepted
<1>17. ASSUME NEW r \in Requests, Callback(r)
       PROVE  UNCHANGED <<State, Live, LiveEmbeds, exclusive>>
  <2>1. /\ UNCHANGED <<gate, handle, done>> /\ phase[r] = "accepted" /\ phase'[r] \in {"accepted", "ended"}
        /\ cb'.req = r /\ cb.req = NoReq
        /\ \A q \in Requests : q # r => phase'[q] = phase[q]
    BY <1>1, <1>17 DEF Callback, Native!Token, Native!End, Quiet, IInv, BindingInv, Registered
  <2>2. State' = State /\ Live' = Live
    BY <1>0, <2>1 DEF State, Live, Generations, Accepted
  <2>3. LiveEmbeds' = LiveEmbeds
    BY <1>0, <2>1 DEF LiveEmbeds
  <2> QED BY <1>0, <2>2, <2>3
<1>18. CASE UNCHANGED vars
  <2>1. UNCHANGED <<gate, handle, phase, done, cb>>
    BY <1>18 DEF vars, native
  <2> QED BY <1>2, <2>1
<1> QED BY <1>3, <1>4, <1>5, <1>6, <1>7, <1>8, <1>11, <1>12, <1>13, <1>14, <1>15, <1>16, <1>17,
           <1>18, NextCases

(***************************************************************************)
(* The Go binding of an engine is what Serving.tla assumes of one: a       *)
(* refused request was never live, an exclusive engine has one generation  *)
(* at a time, a shutdown returns and an engine is closed only when         *)
(* everything it accepted is over.                                         *)
(***************************************************************************)
THEOREM BindingImplementsService == Spec => ImplementsService
<1>1. Init => Service!Init
  <2> SUFFICES ASSUME Init PROVE Service!Init
    OBVIOUS
  <2>1. State = "open" /\ Live = {} /\ LiveEmbeds = {} /\ exclusive \in BOOLEAN
    BY BindingAssumption DEF Init, Native!Init, State, Live, LiveEmbeds, Accepted, Quiet, Generations
  <2> QED BY <2>1 DEF Service!Init, State, Live, LiveEmbeds
<1>2. IInv /\ IInv' /\ [Next]_vars => [Service!Next]_(Service!service)
  <2> SUFFICES ASSUME IInv, IInv', [Next]_vars PROVE [Service!Next]_(Service!service)
    OBVIOUS
  <2>1. ASSUME UNCHANGED <<State, Live, LiveEmbeds, exclusive>> PROVE UNCHANGED Service!service
    BY <2>1 DEF Service!service, State, Live, LiveEmbeds
  <2> QED BY <2>1, ServiceStep DEF Service!Next
<1> QED BY <1>1, <1>2, IInvInvariant, PTL DEF Spec, Service!Spec, ImplementsService

=============================================================================
