--------------------------- MODULE EngineService ---------------------------
(***************************************************************************)
(* What the serving layer relies on when it holds an engine: what is       *)
(* accepted stays live until its Done is closed (or its embedding has been *)
(* delivered), an exclusive engine runs one generation at a time, a        *)
(* draining engine accepts nothing, and an engine is down, and may be      *)
(* closed, only when nothing is live.                                      *)
(*                                                                         *)
(* StreamBinding.tla implements it; Serving.tla uses engines in this way.  *)
(***************************************************************************)
CONSTANTS Requests

VARIABLES state,      \* "none" (not created), "open", "draining", "down", "closed"
          live,       \* the generations accepted and not over
          embeds,     \* the embeddings accepted and not delivered
          exclusive   \* generationExclusive
service == <<state, live, embeds, exclusive>>

Init ==
  /\ state \in {"none", "open"}
  /\ live = {} /\ embeds = {}
  /\ exclusive \in BOOLEAN

Create ==
  /\ state = "none" /\ state' = "open"
  /\ UNCHANGED <<live, embeds, exclusive>>

Accept(r) ==
  /\ state = "open" /\ (exclusive => live = {})
  /\ live' = live \cup {r}
  /\ UNCHANGED <<state, embeds, exclusive>>

AcceptEmbedding(r) ==
  /\ state = "open"
  /\ embeds' = embeds \cup {r}
  /\ UNCHANGED <<state, live, exclusive>>

Finish(r) ==
  /\ live' = live \ {r} /\ embeds' = embeds \ {r}
  /\ UNCHANGED <<state, exclusive>>

Drain ==
  /\ state = "open" /\ state' = "draining"
  /\ UNCHANGED <<live, embeds, exclusive>>

Idle == live = {} /\ embeds = {}

Down ==
  /\ state = "draining" /\ Idle /\ state' = "down"
  /\ UNCHANGED <<live, embeds, exclusive>>

Close ==
  /\ state \in {"open", "down"} /\ Idle /\ state' = "closed"
  /\ UNCHANGED <<live, embeds, exclusive>>

Next == \/ Create \/ Drain \/ Down \/ Close
        \/ \E r \in Requests : Accept(r) \/ AcceptEmbedding(r) \/ Finish(r)

Spec == Init /\ [][Next]_service
=============================================================================
