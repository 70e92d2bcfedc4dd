----------------------------- MODULE ThreadOps -----------------------------
(***************************************************************************)
(* The flags of one LPushThread (src/src/app/lpushThread.cpp) and what its *)
(* operations do to them, as operators on a record.  LPushThread.tla       *)
(* checks the class in isolation, LPushConn.tla gives every connection two *)
(* of these threads.                                                       *)
(*                                                                         *)
(* A State Threads coroutine runs alone until it sleeps, blocks on a       *)
(* descriptor or joins; an operator below is what runs between two such    *)
(* points.  Two fields belong to the State Threads library (external):     *)
(* "intr", the pending st_thread_interrupt, which the next sleep or        *)
(* blocking call consumes, and "at", where the coroutine is:               *)
(*   none    no coroutine was created                                      *)
(*   new     created, not scheduled yet                                    *)
(*   gate    sleeping until can_run or ~loop (lines 176-178)               *)
(*   cycle   inside the handler's cycle()                                  *)
(*   pause   sleeping cycle_interval_us between two cycles                 *)
(*   zombie  exited, joinable, and nobody joined it                        *)
(*   gone    exited and reaped                                             *)
(***************************************************************************)
EXTENDS Naturals

Place   == {"none", "new", "gate", "cycle", "pause", "zombie", "gone"}
Running == {"new", "gate", "cycle", "pause"}

ThreadRecord ==
    [joinable : BOOLEAN, tid : BOOLEAN, cid : BOOLEAN, loop : BOOLEAN,
     can_run : BOOLEAN, disposed : BOOLEAN, really_terminated : BOOLEAN,
     joining : BOOLEAN, intr : BOOLEAN, at : Place]

ConstructedPartly(joinable) ==   \* variant: one member is not initialised
    [joinable |-> joinable, tid |-> FALSE, cid |-> FALSE, loop |-> FALSE,
     can_run |-> FALSE, disposed |-> FALSE,
     joining |-> FALSE, intr |-> FALSE, at |-> "none"]

(* The constructor; tid # NULL and _cid >= 0 are the Booleans tid and cid. *)
Constructed(joinable) ==
    [joinable |-> joinable, tid |-> FALSE, cid |-> FALSE, loop |-> FALSE,
     can_run |-> FALSE, disposed |-> FALSE, really_terminated |-> TRUE,
     joining |-> FALSE, intr |-> FALSE, at |-> "none"]
-----------------------------------------------------------------------------
(* start(), up to the sleep that waits for _cid, and after that sleep.  It *)
(* returns at once when tid is set; otherwise it creates the coroutine.    *)
StartCallStale(t) ==       \* variant: "disposed" keeps its old value
    IF t.tid THEN t
    ELSE [t EXCEPT !.tid = TRUE, !.loop = TRUE, !.intr = FALSE, !.at = "new"]

StartCall(t) ==
    IF t.tid THEN t
    ELSE [t EXCEPT !.tid = TRUE, !.disposed = FALSE, !.loop = TRUE,
                   !.intr = FALSE, !.at = "new"]

StartReady(t)  == t.cid
StartReturn(t) == [t EXCEPT !.can_run = TRUE]

(* stop(), up to the join or the wait of dispose(), the condition under    *)
(* which that wait ends, and the rest.  dispose() does nothing when the    *)
(* thread is already disposed: then nobody joins the exited coroutine.     *)
StopCallKeepsLoop(t) ==    \* variant: "loop" is not cleared
    IF ~t.tid \/ t.disposed THEN t
    ELSE [t EXCEPT !.intr = TRUE, !.joining = t.joinable]

StopCall(t) ==
    IF ~t.tid THEN t
    ELSE IF t.disposed THEN [t EXCEPT !.loop = FALSE]
    ELSE [t EXCEPT !.loop = FALSE, !.intr = TRUE, !.joining = t.joinable]

StopReadyAtOnce(t) == t = t \* variant: dispose() waits for nothing

StopReady(t) ==
    \/ ~t.tid
    \/ t.disposed
    \/ /\ t.joining => t.at \notin Running
       /\ t.really_terminated

StopReturnKeepsGate(t) ==  \* variant: "can_run" is not cleared
    IF ~t.tid THEN t
    ELSE [t EXCEPT !.tid = FALSE, !.cid = FALSE, !.disposed = TRUE,
                   !.joining = FALSE]

StopReturn(t) ==
    IF ~t.tid THEN t
    ELSE [t EXCEPT !.tid = FALSE, !.cid = FALSE, !.can_run = FALSE,
                   !.disposed = TRUE, !.joining = FALSE]

(* stop_loop(), called interrupt() on a reusable thread, and interrupted(), *)
(* which reads can_run and not loop.                                        *)
StopLoop(t)    == [t EXCEPT !.loop = FALSE]
Interrupted(t) == ~t.can_run
-----------------------------------------------------------------------------
(* thread_cycle().  The end of the coroutine: lines 212-220.                *)
Exit(t) ==
    [t EXCEPT !.really_terminated = TRUE, !.disposed = TRUE,
              !.at = IF t.joinable /\ ~t.joining THEN "zombie" ELSE "gone"]

LoopTest(t) == IF t.loop THEN [t EXCEPT !.at = "cycle"] ELSE Exit(t)

(* while (!can_run && loop) sleep, a sleep that consumes an interrupt.      *)
Gate(t) == IF t.can_run \/ ~t.loop THEN LoopTest(t)
           ELSE [t EXCEPT !.at = "gate", !.intr = FALSE]

EnterMute(t) ==            \* variant: _cid is never published
    Gate([t EXCEPT !.really_terminated = FALSE])

Enter(t) == Gate([t EXCEPT !.cid = TRUE, !.really_terminated = FALSE])

(* cycle() returned: leave, or sleep cycle_interval_us and go round again.  *)
CycleReturn(t) == IF t.loop THEN [t EXCEPT !.at = "pause"] ELSE Exit(t)
Unpause(t)     == LoopTest([t EXCEPT !.intr = FALSE])
=============================================================================
