---------------------------- MODULE MCAlertRelay ----------------------------
(***************************************************************************)
(* Two connections: one leaves, or fails, while the broadcast is suspended *)
(* in the send to it or to the other.  Two alerts, so that one can come    *)
(* while the other is broadcast, and one restart.                          *)
(***************************************************************************)
EXTENDS AlertRelay

CONSTANTS
    w1, w2

MCConns == {w1, w2}
=============================================================================
