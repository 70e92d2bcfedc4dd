---------------------------- MODULE MCLPushServer ----------------------------
(* Two processes started on the same configuration.                        *)
EXTENDS LPushServer, TLC
CONSTANTS p1, p2

MCSignals  == (p1 :> {"HUP", "INT", "TERM"}) @@ (p2 :> {"HUP", "INT", "TERM"})
MCTermOnly == p1 :> {"TERM"}
=============================================================================
