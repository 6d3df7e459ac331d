--------------------------- MODULE StreamBinding ---------------------------
(***************************************************************************)
(* The Go binding of one native engine (server/internal/engine): a         *)
(* submission takes the permit of an exclusive engine, registers its       *)
(* channels and calls the C API; the callbacks of the native engine (one   *)
(* thread) are sent to a channel of bounded capacity, which a reader       *)
(* drains until it leaves; a watcher passes a cancelled context on to the  *)
(* engine and a releaser gives the permit back; BeginShutdown and Close    *)
(* hold the mutex of the engine over the whole native shutdown.            *)
(*                                                                         *)
(* The native engine is any one that keeps GenerationContract.             *)
(***************************************************************************)
EXTENDS Naturals, Sequences

CONSTANTS Requests,
          Embeddings,  \* the sets of requests that may be for an embedding
          Impatient,   \* the requests whose caller may cancel
          MaxTokens,   \* bound on the tokens of a generation
          Buffer,      \* the capacity of an output channel
          Exclusive,   \* the values generationExclusive may have
          NoReq

ASSUME BindingAssumption ==
  /\ Embeddings \subseteq SUBSET Requests /\ Impatient \subseteq Requests /\ NoReq \notin Requests
  /\ MaxTokens \in Nat /\ Buffer \in Nat \ {0} /\ Exclusive \subseteq BOOLEAN

VARIABLES gate, phase, tokens,  \* the native engine
          handle,     \* "live" or "nil"
          mu,         \* what holds DenseEngine.mu over a native shutdown
          exclusive,  \* generationExclusive
          embeds,     \* the requests for an embedding
          permit,     \* the request that holds the permit of GenerationAdmission
          sub,        \* where the goroutine that submits a request is
          left,       \* the requests whose caller has cancelled its context
          cancelled,  \* the requests whose own context is done
          reg,        \* the keys of requestChannels and embeddingChannels
          done,       \* the completion channels that are closed
          chan,       \* the output channels
          got,        \* what a reader has received
          watch,      \* watchContext
          releasers,  \* the goroutines that wait for done to release the permit
          cb,         \* the callback thread
          hooks       \* BeginShutdown and Close
native == <<gate, phase, tokens>>
config == <<exclusive, embeds>>
vars == <<native, handle, mu, config, permit, sub, left, cancelled, reg, done, chan, got,
          watch, releasers, cb, hooks>>

Native == INSTANCE GenerationContract
Generations == Requests \ embeds
Final == 0          \* the terminal event; token number n is the event n
Quiet == [pc |-> "idle", req |-> NoReq, ev |-> Final]

Init ==
  /\ Native!Init
  /\ handle = "live" /\ mu = "free" /\ permit = NoReq
  /\ exclusive \in Exclusive /\ embeds \in Embeddings
  /\ sub = [r \in Requests |-> "idle"]
  /\ left = {} /\ cancelled = {} /\ reg = {} /\ done = {}
  /\ chan = [r \in Requests |-> [buf |-> <<>>, closed |-> FALSE]]
  /\ got = [r \in Requests |-> <<>>]
  /\ watch = [r \in Requests |-> "none"]
  /\ releasers = {}
  /\ cb = Quiet
  /\ hooks = [begin |-> "idle", close |-> "idle"]

-----------------------------------------------------------------------------
(* SubmitGeneration *)

\* A lease is taken before the engine is asked to shut down (Serving.tla).
Lease(r) ==
  /\ sub[r] = "idle" /\ hooks.begin = "idle" /\ hooks.close = "idle"
  /\ sub' = [sub EXCEPT ![r] = "leased"]
  /\ UNCHANGED <<native, handle, mu, config, permit, left, cancelled, reg, done, chan, got,
                 watch, releasers, cb, hooks>>

\* GenerationAdmission.Acquire, up to the permit.
Acquire(r) ==
  /\ sub[r] = "leased" /\ r \in Generations
  /\ \/ /\ r \in cancelled
        /\ sub' = [sub EXCEPT ![r] = "failed"]
        /\ UNCHANGED permit
     \/ /\ exclusive /\ permit = NoReq
        /\ permit' = r
        /\ sub' = [sub EXCEPT ![r] = "permitted"]
     \/ /\ ~exclusive
        /\ sub' = [sub EXCEPT ![r] = "permitted"]
        /\ UNCHANGED permit
  /\ UNCHANGED <<native, handle, mu, config, left, cancelled, reg, done, chan, got, watch,
                 releasers, cb, hooks>>

\* release, which acts once.
BugReleased(r) == permit
Released(r) == IF permit = r THEN NoReq ELSE permit

\* The context is done after all, or the input is not valid.
GiveUp(r) ==
  /\ sub[r] = "permitted"
  /\ sub' = [sub EXCEPT ![r] = "failed"]
  /\ permit' = Released(r)
  /\ UNCHANGED <<native, handle, mu, config, left, cancelled, reg, done, chan, got, watch,
                 releasers, cb, hooks>>

\* registerGenerationContext, or the channel of an embedding: both maps, long
\* before the entry could be old enough to be swept.
Register(r) ==
  /\ \/ sub[r] = "permitted" /\ r \notin cancelled
     \/ sub[r] = "leased" /\ r \in embeds
  /\ sub' = [sub EXCEPT ![r] = "registered"]
  /\ reg' = reg \cup {r}
  /\ UNCHANGED <<native, handle, mu, config, permit, left, cancelled, done, chan, got, watch,
                 releasers, cb, hooks>>

\* Whether DenseEngine.mu can be taken.
BugMuFree == TRUE
MuFree == mu = "free"

\* The call of the C API; only embeddings make it under mu.
SubmitAccepted(r) ==
  /\ sub[r] = "registered" /\ (r \in embeds => MuFree)
  /\ Native!Accept(r)
  /\ sub' = [sub EXCEPT ![r] = "submitted"]
  /\ UNCHANGED <<handle, mu, config, permit, left, cancelled, reg, done, chan, got, watch,
                 releasers, cb, hooks>>

\* abort, and the error path of SubmitGeneration.
SubmitRefused(r) ==
  /\ sub[r] = "registered" /\ (r \in embeds => MuFree)
  /\ Native!Refuse(r)
  /\ sub' = [sub EXCEPT ![r] = "failed"]
  /\ reg' = reg \ {r}
  /\ done' = IF r \in embeds THEN done ELSE done \cup {r}
  /\ permit' = Released(r)
  /\ UNCHANGED <<handle, mu, config, left, cancelled, chan, got, watch, releasers, cb, hooks>>

\* The watcher and the releaser start; the caller gets the generation.
Return(r) ==
  /\ sub[r] = "submitted" /\ r \in Generations
  /\ sub' = [sub EXCEPT ![r] = "returned"]
  /\ watch' = [watch EXCEPT ![r] = "watching"]
  /\ releasers' = releasers \cup {r}
  /\ UNCHANGED <<native, handle, mu, config, permit, left, cancelled, reg, done, chan, got,
                 cb, hooks>>

\* The contexts that are done when the one of a caller is: the request's own
\* one is a child.
BugCancelTree(r) == {}
CancelTree(r) == {r}

CallerCancels(r) ==
  /\ r \in (Generations \cap Impatient) \ left
  /\ sub[r] \in {"leased", "permitted", "registered", "submitted", "returned"}
  /\ left' = left \cup {r} /\ cancelled' = cancelled \cup CancelTree(r)
  /\ UNCHANGED <<native, handle, mu, config, permit, sub, reg, done, chan, got, watch,
                 releasers, cb, hooks>>

\* The reader of a generation takes the next event; it stops at the terminal
\* one, at the end of a closed channel, or when its context is done.
Read(r) ==
  /\ sub[r] = "returned" /\ r \in Generations /\ chan[r].buf # <<>>
  /\ got' = [got EXCEPT ![r] = Append(@, Head(chan[r].buf))]
  /\ chan' = [chan EXCEPT ![r].buf = Tail(@)]
  /\ UNCHANGED <<native, handle, mu, config, permit, sub, left, cancelled, reg, done, watch,
                 releasers, cb, hooks>>

-----------------------------------------------------------------------------
(* watchContext, and the goroutine of SubmitGeneration *)

Watch(r) ==
  /\ \/ /\ watch[r] = "watching" /\ r \in cancelled
        /\ watch' = [watch EXCEPT ![r] = "cancelling"]
     \/ /\ watch[r] = "cancelling" /\ MuFree      \* CancelRequest
        /\ watch' = [watch EXCEPT ![r] = "awaiting"]
     \/ /\ watch[r] \in {"watching", "awaiting"} /\ r \in done
        /\ watch' = [watch EXCEPT ![r] = "exited"]
  /\ UNCHANGED <<native, handle, mu, config, permit, sub, left, cancelled, reg, done, chan,
                 got, releasers, cb, hooks>>

Releaser(r) ==
  /\ r \in releasers /\ r \in done
  /\ releasers' = releasers \ {r}
  /\ permit' = Released(r)
  /\ cancelled' = cancelled \cup {r}
  /\ UNCHANGED <<native, handle, mu, config, sub, left, reg, done, chan, got, watch, cb, hooks>>

-----------------------------------------------------------------------------
(* GetEmbeddingsWithOptions after its submission *)

\* The result, in time or, after the cancellation, as an error.
EmbeddingReturns(r) ==
  /\ r \in embeds /\ sub[r] \in {"submitted", "awaiting"} /\ chan[r].buf # <<>>
  /\ sub' = [sub EXCEPT ![r] = "returned"]
  /\ chan' = [chan EXCEPT ![r].buf = Tail(@)]
  /\ UNCHANGED <<native, handle, mu, config, permit, left, cancelled, reg, done, got, watch,
                 releasers, cb, hooks>>

\* EmbeddingTimeout passes; then CancelRequest under mu.
EmbeddingTimeout(r) ==
  /\ r \in embeds
  /\ \/ /\ sub[r] = "submitted"
        /\ sub' = [sub EXCEPT ![r] = "timedout"]
     \/ /\ sub[r] = "timedout" /\ MuFree
        /\ sub' = [sub EXCEPT ![r] = "awaiting"]
  /\ UNCHANGED <<native, handle, mu, config, permit, left, cancelled, reg, done, chan, got,
                 watch, releasers, cb, hooks>>

-----------------------------------------------------------------------------
(* The callback thread: dispatchGenerationEvent, embeddingCallbackGateway *)

\* The native engine calls back; an entry that is not registered is ignored.
Callback(r) ==
  /\ cb = Quiet
  /\ \/ r \in Generations /\ Native!Token(r)
     \/ Native!End(r)
  /\ cb' = IF r \notin reg THEN Quiet
           ELSE [pc |-> "send", req |-> r,
                 ev |-> IF phase'[r] = "ended" THEN Final ELSE tokens'[r]]
  /\ UNCHANGED <<handle, mu, config, permit, sub, left, cancelled, reg, done, chan, got,
                 watch, releasers, hooks>>

Capacity(r) == IF r \in embeds THEN 1 ELSE Buffer

\* What dispatchGenerationEvent does next with the channel of the request.
BugAfterSend == IF cb.req \in embeds THEN [cb EXCEPT !.pc = "delete"]
                ELSE IF cb.ev = Final THEN [cb EXCEPT !.pc = "signal"] ELSE Quiet
AfterSend == IF cb.req \in embeds THEN [cb EXCEPT !.pc = "delete"]
             ELSE IF cb.ev = Final THEN [cb EXCEPT !.pc = "close"] ELSE Quiet

\* sendCallbackEvent: into the channel, or dropped when the context is done.
Send ==
  /\ cb.pc = "send"
  /\ \/ /\ Len(chan[cb.req].buf) < Capacity(cb.req)
        /\ chan' = [chan EXCEPT ![cb.req].buf = Append(@, cb.ev)]
     \/ /\ cb.req \in Generations \cap cancelled
        /\ UNCHANGED chan
  /\ cb' = AfterSend
  /\ UNCHANGED <<native, handle, mu, config, permit, sub, left, cancelled, reg, done, got,
                 watch, releasers, hooks>>

CloseChannel ==
  /\ cb.pc = "close"
  /\ chan' = [chan EXCEPT ![cb.req].closed = TRUE]
  /\ cb' = [cb EXCEPT !.pc = "delete"]
  /\ UNCHANGED <<native, handle, mu, config, permit, sub, left, cancelled, reg, done, got,
                 watch, releasers, hooks>>

Delete ==
  /\ cb.pc = "delete"
  /\ reg' = reg \ {cb.req}
  /\ cb' = IF cb.req \in embeds THEN Quiet ELSE [cb EXCEPT !.pc = "signal"]
  /\ UNCHANGED <<native, handle, mu, config, permit, sub, left, cancelled, done, chan, got,
                 watch, releasers, hooks>>

SignalDone ==
  /\ cb.pc = "signal"
  /\ done' = done \cup {cb.req}
  /\ cb' = Quiet
  /\ UNCHANGED <<native, handle, mu, config, permit, sub, left, cancelled, reg, chan, got,
                 watch, releasers, hooks>>

\* cleanupStaleChannels: of the entries of requestChannels that are old
\* enough, those without a completion channel.
BugStale(old) == old
Stale(old) == old \cap done

Sweep ==
  /\ \E old \in SUBSET (reg \cap Generations) :
       /\ reg' = reg \ Stale(old)
       /\ done' = done \cup Stale(old)
  /\ UNCHANGED <<native, handle, mu, config, permit, sub, left, cancelled, chan, got, watch,
                 releasers, cb, hooks>>

-----------------------------------------------------------------------------
(* BeginShutdown and Close *)

BeginShutdown ==
  /\ hooks.begin = "idle" /\ MuFree
  /\ \/ /\ handle = "nil"
        /\ hooks' = [hooks EXCEPT !.begin = "over"]
        /\ UNCHANGED <<native, mu>>
     \/ /\ handle # "nil" /\ Native!Drain
        /\ mu' = "begin"
        /\ hooks' = [hooks EXCEPT !.begin = "begun"]
  /\ UNCHANGED <<handle, config, permit, sub, left, cancelled, reg, done, chan, got, watch,
                 releasers, cb>>

\* The native shutdown returns when the callback thread has been joined.
BeginShutdownReturns ==
  /\ hooks.begin = "begun" /\ Native!Down /\ cb = Quiet
  /\ mu' = "free"
  /\ hooks' = [hooks EXCEPT !.begin = "over"]
  /\ UNCHANGED <<handle, config, permit, sub, left, cancelled, reg, done, chan, got, watch,
                 releasers, cb>>

\* closeEngineSlot waits for the leases, which end with the submission, with
\* Done or with the embedding.
Unleased(r) == \/ sub[r] \in {"idle", "failed"}
               \/ sub[r] = "returned" /\ (r \in Generations => r \in done)

\* FreeEngine: a shutdown, unless one has begun, and the end of the handle.
Close ==
  /\ hooks.close = "idle" /\ MuFree /\ \A r \in Requests : Unleased(r)
  /\ \/ /\ gate = "open" /\ Native!Drain
        /\ mu' = "close"
        /\ hooks' = [hooks EXCEPT !.close = "begun"]
        /\ UNCHANGED handle
     \/ /\ gate # "open"
        /\ handle' = "nil"
        /\ hooks' = [hooks EXCEPT !.close = "over"]
        /\ UNCHANGED <<native, mu>>
  /\ UNCHANGED <<config, permit, sub, left, cancelled, reg, done, chan, got, watch, releasers, cb>>

CloseReturns ==
  /\ \/ /\ hooks.close = "begun" /\ Native!Down /\ cb = Quiet
        /\ hooks' = [hooks EXCEPT !.close = "joined"]
        /\ UNCHANGED <<handle, mu>>
     \/ /\ hooks.close = "joined"
        /\ handle' = "nil" /\ mu' = "free"
        /\ hooks' = [hooks EXCEPT !.close = "over"]
        /\ UNCHANGED native
  /\ UNCHANGED <<config, permit, sub, left, cancelled, reg, done, chan, got, watch, releasers, cb>>

-----------------------------------------------------------------------------

Submitter(r) == \/ Acquire(r) \/ GiveUp(r) \/ Register(r) \/ SubmitAccepted(r)
                \/ SubmitRefused(r) \/ Return(r) \/ EmbeddingReturns(r)
Dispatch == Send \/ CloseChannel \/ Delete \/ SignalDone

Next ==
  \/ Dispatch \/ Sweep \/ BeginShutdown \/ BeginShutdownReturns \/ Close \/ CloseReturns
  \/ \E r \in Requests :
       \/ Lease(r) \/ Submitter(r) \/ CallerCancels(r) \/ Read(r) \/ Watch(r) \/ Releaser(r)
       \/ EmbeddingTimeout(r) \/ Callback(r)

(***************************************************************************)
(* Every goroutine goes on with what it has begun, a reader that has not   *)
(* cancelled reads, the native engine ends what it has accepted (the       *)
(* callback thread takes the events in the order of its queue) and its     *)
(* shutdown returns.  Nobody has to submit, to cancel or to shut down.     *)
(***************************************************************************)
Fairness ==
  /\ \A r \in Requests :
       /\ WF_vars(Submitter(r)) /\ WF_vars(Watch(r)) /\ WF_vars(Releaser(r))
       /\ WF_vars(r \notin left /\ Read(r))
       /\ WF_vars(r \in embeds /\ sub[r] = "timedout" /\ EmbeddingTimeout(r))
       /\ SF_vars(Callback(r))
  /\ WF_vars(Dispatch) /\ WF_vars(BeginShutdownReturns) /\ WF_vars(CloseReturns)

Spec == Init /\ [][Next]_vars
FairSpec == Spec /\ Fairness

-----------------------------------------------------------------------------
(* Properties *)

(* Every variable has the values its Go counterpart can have. *)
TypeOK ==
  /\ handle \in {"live", "nil"} /\ mu \in {"free", "begin", "close"} /\ exclusive \in BOOLEAN
  /\ permit \in Requests \cup {NoReq}
  /\ sub \in [Requests -> {"idle", "leased", "permitted", "registered", "submitted", "timedout",
                           "awaiting", "returned", "failed"}]
  /\ left \subseteq cancelled /\ cancelled \subseteq Requests
  /\ reg \subseteq Requests /\ done \subseteq Generations
  /\ \A r \in Requests : /\ chan[r].buf \in Seq(0..MaxTokens) /\ chan[r].closed \in BOOLEAN
                          /\ Len(chan[r].buf) <= Capacity(r)
                          /\ got[r] \in Seq(0..MaxTokens)
  /\ watch \in [Requests -> {"none", "watching", "cancelling", "awaiting", "exited"}]
  /\ releasers \subseteq Generations
  /\ cb \in [pc : {"idle", "send", "close", "delete", "signal"}, req : Requests \cup {NoReq},
             ev : 0..MaxTokens]
  /\ hooks \in [begin : {"idle", "begun", "over"}, close : {"idle", "begun", "joined", "over"}]

\* The events the native engine has produced for r, and the one on its way.
Emitted(r) == [n \in 1..tokens[r] |-> n] \o (IF phase[r] = "ended" THEN <<Final>> ELSE <<>>)
InFlight(r) == IF cb.req = r /\ cb.pc = "send" THEN <<cb.ev>> ELSE <<>>

(***************************************************************************)
(* As long as the caller of a generation has not cancelled it, no event is *)
(* lost, doubled or overtaken between the native callback and the reader,  *)
(* however slow the reader is, whatever the sweeper, the watchers, a       *)
(* shutdown or another request do.                                         *)
(***************************************************************************)
LosslessUnlessCancelled ==
  \A r \in Generations \ left : got[r] \o chan[r].buf \o InFlight(r) = Emitted(r)

(***************************************************************************)
(* "dispatchGenerationEvent completes registration cleanup before          *)
(* publishing Done": when Done is closed the native request is over, its   *)
(* channel is closed and unregistered and no callback still uses it.       *)
(***************************************************************************)
DoneIsLast ==
  \A r \in done :
    /\ phase[r] = "refused" \/ (phase[r] = "ended" /\ chan[r].closed)
    /\ r \notin reg /\ cb.req # r

(***************************************************************************)
(* What Serving.tla assumes of an engine: a refused request was never      *)
(* live, an exclusive engine has one generation at a time, a shutdown has  *)
(* returned only when all is over, and no engine is freed while a native   *)
(* shutdown is under way.                                                  *)
(***************************************************************************)
Accepted(r) == phase[r] \in {"accepted", "ended"}
Service == INSTANCE EngineService WITH
  state <- IF handle = "nil" THEN "closed" ELSE gate,
  live <- {r \in Generations : Accepted(r) /\ r \notin done},
  embeds <- {r \in embeds : phase[r] = "accepted" \/ cb.req = r}
ImplementsService == Service!Spec

(***************************************************************************)
(* A submission returns; the generation it returns is over some time, and  *)
(* then its watcher and its releaser have ended and the permit is free for *)
(* another one.  BeginShutdown and Close return although they hold mu,     *)
(* which watchers and embeddings wait for.                                 *)
(***************************************************************************)
Settled(r) == \/ sub[r] = "failed"
              \/ sub[r] = "returned" /\ r \in embeds
              \/ sub[r] = "returned" /\ watch[r] = "exited" /\ r \notin releasers /\ permit # r
NothingHangs ==
  /\ \A r \in Requests : sub[r] = "leased" ~> Settled(r)
  /\ hooks.begin = "begun" ~> hooks.begin = "over"
  /\ hooks.close = "begun" ~> hooks.close = "over"
=============================================================================
