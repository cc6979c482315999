----------------------------- MODULE MCLiteLlm -----------------------------
(***************************************************************************)
(* Instances of the facade's specification for TLC.                        *)
(***************************************************************************)
EXTENDS LiteLlm, TLC

CONSTANTS r1, r2, r3, c1, c2, n1, n2

MCRequests2    == {r1, r2}
MCRequests3    == {r1, r2, r3}
MCOneOwner     == {c1}
MCTwoOwners    == {c1, c2}
MCBothOwnersAndWorkers == {c1, c2, n1, n2}
MCOneInstance  == {n1}
MCTwoInstances == {n1, n2}

\* One status for success and one for failure: RuntimeResponse tells no more
\* of them apart.
MCStatuses == {"Ok", "OutOfMemory"}

\* Requests are interchangeable, and so are the runtimes and their workers.
MCSymmetry == Permutations(MCRequests3) \cup Permutations(MCTwoInstances)

=============================================================================
