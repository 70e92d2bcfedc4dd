---------------------------- MODULE MCLPushMongoIO ---------------------------
EXTENDS LPushMongoIO
CONSTANTS c1, c2, c3, c4, u1, u2, u3

MCUser == (c1 :> u1) @@ (c2 :> u1) @@ (c3 :> u2) @@ (c4 :> u3)
Task(u, k) == [UserId |-> u, TaskId |-> k]

(* One task for u1, a full page for u2, more than a page for u3.           *)
MCCollection == <<Task(u1, 1), Task(u2, 1), Task(u3, 1), Task(u2, 2), Task(u3, 2), Task(u3, 3)>>
=============================================================================
