---------------------------- MODULE MCAnchorLive ----------------------------
(* One row and one worker that keeps coming round to it.                    *)
EXTENDS AnchorSubmitter

CONSTANTS r1, w1

MCRow == {r1}
MCWorker == {w1}
=============================================================================
