---------------------------- MODULE MCAlertSocket ----------------------------
(***************************************************************************)
(* Three logins and three failures: an older socket can fail while a newer *)
(* one is connecting, open or closing, and again while the next one is.    *)
(* One socket more than logins, so that a new one is always at hand.       *)
(***************************************************************************)
EXTENDS AlertSocket

CONSTANTS
    s1, s2, s3, s4

MCSockets == {s1, s2, s3, s4}
=============================================================================
