------------------------- MODULE GenerationService -------------------------
(***************************************************************************)
(* What the LiteLlm facade promises the callers of GenerateAsync           *)
(* (src/include/lite_llm.h), without threads, locks or a worker: a call is *)
(* accepted or rejected at once, one generation is active at a time, and   *)
(* every call is answered exactly once.                                    *)
(*                                                                         *)
(* The service may accept a call while the answer to the previous one is   *)
(* being delivered; it then starts delivering the second answer only after *)
(* the first delivery has returned.                                        *)
(***************************************************************************)
CONSTANT Requests

VARIABLE phase    \* phase[r]: what has become of call r

Phases == {"new", "rejected", "active", "completing", "done"}

In(p) == {r \in Requests : phase[r] = p}

Moves(r, from, to) ==
  /\ phase[r] = from
  /\ phase' = [phase EXCEPT ![r] = to]

Init == phase = [r \in Requests |-> "new"]

Accept(r) == In("active") = {} /\ Moves(r, "new", "active")

\* The service may be busy, not initialized or shutting down: what makes it
\* reject a call is not visible to the caller.
Reject(r) == Moves(r, "new", "rejected")

\* The generation is over and on_complete is called on the worker.
Finish(r) == In("completing") = {} /\ Moves(r, "active", "completing")

\* on_complete has returned.
Complete(r) == Moves(r, "completing", "done")

\* on_complete of a rejected call has returned; it ran inline.
CompleteInline(r) == Moves(r, "rejected", "done")

Next ==
  \E r \in Requests :
    Accept(r) \/ Reject(r) \/ Finish(r) \/ Complete(r) \/ CompleteInline(r)

Spec == Init /\ [][Next]_phase

FairSpec ==
  /\ Spec
  /\ \A r \in Requests :
       WF_phase(Finish(r)) /\ WF_phase(Complete(r)) /\ WF_phase(CompleteInline(r))

=============================================================================
