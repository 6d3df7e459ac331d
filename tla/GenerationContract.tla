------------------------- MODULE GenerationContract -------------------------
(***************************************************************************)
(* What a native engine promises to whoever submits requests to it, as     *)
(* seen through the C API: the callbacks of a request and the effect of a  *)
(* shutdown.  A request that is accepted gets some tokens and then one     *)
(* terminal callback; once a shutdown has begun no request is accepted;    *)
(* when it has returned every accepted request has had its terminal        *)
(* callback.                                                               *)
(*                                                                         *)
(* RequestLifecycle.tla implements this contract; StreamBinding.tla, the   *)
(* Go binding, is built on it.                                             *)
(***************************************************************************)
EXTENDS Naturals

CONSTANTS Requests,
          MaxTokens   \* token callbacks a request may have, a natural number

VARIABLES gate,    \* "open", "draining" or, when the shutdown has returned, "down"
          phase,   \* what has been promised to a request
          tokens   \* the token callbacks a request has had
contract == <<gate, phase, tokens>>

Init ==
  /\ gate = "open"
  /\ phase = [r \in Requests |-> "new"]
  /\ tokens = [r \in Requests |-> 0]

Accept(r) ==
  /\ gate = "open" /\ phase[r] = "new"
  /\ phase' = [phase EXCEPT ![r] = "accepted"]
  /\ UNCHANGED <<gate, tokens>>

\* A submission may be refused at any time, for its arguments or its engine.
Refuse(r) ==
  /\ phase[r] = "new"
  /\ phase' = [phase EXCEPT ![r] = "refused"]
  /\ UNCHANGED <<gate, tokens>>

\* The token callback.
Token(r) ==
  /\ phase[r] = "accepted" /\ tokens[r] < MaxTokens
  /\ tokens' = [tokens EXCEPT ![r] = @ + 1]
  /\ UNCHANGED <<gate, phase>>

\* The terminal callback: success, cancellation or error.
End(r) ==
  /\ phase[r] = "accepted"
  /\ phase' = [phase EXCEPT ![r] = "ended"]
  /\ UNCHANGED <<gate, tokens>>

Drain ==
  /\ gate = "open"
  /\ gate' = "draining"
  /\ UNCHANGED <<phase, tokens>>

Resolved == \A r \in Requests : phase[r] # "accepted"

Down ==
  /\ gate = "draining" /\ Resolved
  /\ gate' = "down"
  /\ UNCHANGED <<phase, tokens>>

Next == \/ Drain \/ Down
        \/ \E r \in Requests : Accept(r) \/ Refuse(r) \/ Token(r) \/ End(r)

Spec == Init /\ [][Next]_contract
=============================================================================
