--------------------------- MODULE MCLPushPresence ---------------------------
EXTENDS LPushPresence, TLC
CONSTANTS c1, c2, c3, s1, s2

MCServerOf == (c1 :> s1) @@ (c2 :> s2) @@ (c3 :> s1)
=============================================================================
