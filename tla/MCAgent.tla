------------------------------ MODULE MCAgent ------------------------------
(***************************************************************************)
(* Two CPUs with two samples each: enough to fill a ring, to fill the      *)
(* channel, to fill a batch and to leave a partial one.                    *)
(***************************************************************************)
EXTENDS Agent

CONSTANTS
    c1, c2

MCCPUs == {c1, c2}
=============================================================================
