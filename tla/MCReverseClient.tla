-------------------------- MODULE MCReverseClient --------------------------
(***************************************************************************)
(* Instances of lite-server's specification for TLC.                       *)
(***************************************************************************)
EXTENDS ReverseClient

CONSTANTS r1, r2, r3

MCRequests1 == {r1}
MCRequests2 == {r1, r2}
MCRequests3 == {r1, r2, r3}

\* r2's response does not fit in a frame.
MCOversized == {r2}
MCNoneOversized == {}

=============================================================================
