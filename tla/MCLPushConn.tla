---------------------------- MODULE MCLPushConn ----------------------------
(* Every identity is one of the same user: two of them are logins with two *)
(* parts of the secret.  Connections and identities are interchangeable.   *)
EXTENDS LPushConn, TLC
OneUser == [k \in Key |-> CHOOSE u \in User : TRUE]
Symmetry == Permutations(Conn) \cup Permutations(Key)
=============================================================================
