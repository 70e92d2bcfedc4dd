------------------------------ MODULE Mailbox ------------------------------
(***************************************************************************)
(* What the task list of an lpush server promises to each user: the tasks  *)
(* posted for a user reach the user at most once and in the order in which *)
(* they were posted.  Any of them may be discarded on the way.             *)
(***************************************************************************)
EXTENDS Integers, Sequences

CONSTANTS Key,      \* the users (client identities)
          MaxTask,  \* bound on the number of tasks posted
          To        \* To[m]: the user task m is for

VARIABLES posted,   \* how many tasks were posted so far; task m is the m-th
          pending,  \* pending[k]: the tasks for k that may still reach it
          sent      \* sent[k]: the tasks that reached k

vars == <<posted, pending, sent>>

Init == /\ posted = 0
        /\ pending = [k \in Key |-> {}]
        /\ sent = [k \in Key |-> <<>>]

Post == /\ posted < MaxTask
        /\ posted' = posted + 1
        /\ pending' = [pending EXCEPT ![To[posted']] = @ \cup {posted'}]
        /\ UNCHANGED sent

(* The task that was posted first reaches the user first.                  *)
Deliver(k) == \E m \in pending[k] :
                  /\ \A n \in pending[k] : m <= n
                  /\ sent' = [sent EXCEPT ![k] = Append(@, m)]
                  /\ pending' = [pending EXCEPT ![k] = @ \ {m}]
                  /\ UNCHANGED posted

Discard == /\ \E lost \in SUBSET (1..posted) :
                  pending' = [k \in Key |-> pending[k] \ lost]
           /\ UNCHANGED <<posted, sent>>

Next == Post \/ (\E k \in Key : Deliver(k)) \/ Discard

Spec == Init /\ [][Next]_vars
=============================================================================
